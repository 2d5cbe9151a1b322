------------------------ MODULE SubtitleDedupe_proofs ------------------------
(***************************************************************************)
(* Theorems about CueMerge and SubtitleDedupe, for any cues, gap and       *)
(* thresholds, and any files, texts and faults.                            *)
(*                                                                         *)
(* While a run merges the cues of a file, its runs cover the cues that it  *)
(* has seen (CoverInv), show only when one of them did (TimeInv), and      *)
(* those of one text are more than the gap apart (ApartInv), because the   *)
(* cues come in order (OrderInv).  So a file that was written is clean,    *)
(* and merging it merges nothing.                                          *)
(*                                                                         *)
(* That is why SubtitleDedupe has merged files left alone.  There IInv     *)
(* adds to the types what a run knows: a plan is of the file as it is      *)
(* unless others changed it, and a copy that is not yet needed is of the   *)
(* file as it is.  A run that is left alone leaves no dense file (Rids),   *)
(* since it finds Lingarr quiet (QuietInv).                                *)
(***************************************************************************)
EXTENDS CueMerge, SubtitleDedupe, FiniteSetTheorems, SequenceTheorems, TLAPS
-----------------------------------------------------------------------------
(* Times.                                                                   *)

\* What is formatted is parsed to what it was.
LEMMA FmtMs == ASSUME NEW t \in Nat PROVE Fmt(t) \in ClockTime /\ Ms(Fmt(t)) = t
<1> DEFINE h == t \div 3600000
           m == (t % 3600000) \div 60000
           s == (t % 60000) \div 1000
           z == t % 1000
<1>1. h \in Nat /\ m \in Nat /\ s \in Nat /\ z \in Nat
  OBVIOUS
<1>2. ((h * 60 + m) * 60 + s) * 1000 + z = t
  <2>1. t = h * 3600000 + (t % 3600000)
    OBVIOUS
  <2>2. t % 3600000 = m * 60000 + (t % 60000)
    OBVIOUS
  <2>3. t % 60000 = s * 1000 + z
    OBVIOUS
  <2> HIDE DEF h, m, s, z
  <2> QED
    BY <1>1, <2>1, <2>2, <2>3
<1>3. Fmt(t) = <<h, m, s, z>>
  BY DEF Fmt, Minute
<1> HIDE DEF h, m, s, z
<1> QED
  BY <1>1, <1>2, <1>3 DEF Ms, ClockTime

LEMMA MsType == ASSUME NEW c \in ClockTime PROVE Ms(c) \in Nat
<1>1. c[1] \in Nat /\ c[2] \in Nat /\ c[3] \in Nat /\ c[4] \in Nat
  BY DEF ClockTime
<1> QED
  BY <1>1 DEF Ms

LEMMA CueAtType == ASSUME NEW b \in Stamped PROVE CueAt(b) \in Cue /\ TextOf(CueAt(b)) \in Texts
<1>1. Ms(b.from) \in Nat /\ Ms(b.to) \in Nat /\ b.body \in Bodies
  BY MsType DEF Stamped
<1> QED
  BY <1>1 DEF CueAt, Cue, TextOf, Texts

\* A cue that is rendered and parsed is the same.
LEMMA BlockCue ==
    ASSUME NEW r \in Cue
    PROVE  Block(r) \in Stamped /\ CueAt(Block(r)) = r /\ Block(r).body = r.body
<1>1. r.start \in Nat /\ r.end \in Nat /\ r.body \in Bodies
  BY DEF Cue
<1>2. Fmt(r.start) \in ClockTime /\ Ms(Fmt(r.start)) = r.start
      /\ Fmt(r.end) \in ClockTime /\ Ms(Fmt(r.end)) = r.end
  BY <1>1, FmtMs
<1>3. Block(r) \in Stamped /\ Block(r).body = r.body
  BY <1>1, <1>2 DEF Block, Stamped
<1>4. CueAt(Block(r)) = [start |-> r.start, end |-> r.end, body |-> r.body]
  BY <1>2 DEF CueAt, Block
<1> QED
  BY <1>3, <1>4 DEF Cue
-----------------------------------------------------------------------------
(* The invariant.                                                           *)

At(i) == CueAt(file[i])
Seen == Positions(file) \ rest
SameText(a, b) == TextOf(a) = TextOf(b)
Covers(r, cue) == SameText(r, cue) /\ r.start <= cue.start /\ cue.end <= r.end
Shows(cue, t) == cue.start <= t /\ t <= cue.end + Gap

\* Between two runs of the program nothing is in hand; in one, the file is worth it.
StageInv ==
    /\ pc = "read" => rest = {} /\ runs = <<>> /\ open = Closed
    /\ pc = "merge" => Cardinality(Positions(file)) >= MinCues

\* The open run of a text is its last.
OpenInv == \A k \in DOMAIN runs : runs[k].body \notin Blank /\ k <= open[TextOf(runs[k])]

\* The cues come in order.
OrderInv ==
    /\ \A k \in DOMAIN runs, i \in rest : runs[k].start <= At(i).start
    /\ \A k, l \in DOMAIN runs : k < l => runs[k].start <= runs[l].start

CoverInv == pc = "merge" => \A i \in Seen : \E k \in DOMAIN runs : Covers(runs[k], At(i))

TimeInv ==
    \A k \in DOMAIN runs : \A t \in runs[k].start..runs[k].end + Gap :
        \E i \in Seen : SameText(At(i), runs[k]) /\ Shows(At(i), t)

ApartInv ==
    \A k, l \in DOMAIN runs :
        k < l /\ SameText(runs[k], runs[l]) => runs[k].end + Gap < runs[l].start

\* A clean file has no two cues to merge.
CleanFile ==
    \A i, j \in Positions(file) :
        SameText(At(i), At(j)) /\ Earlier(Parsed(file), i, j) => ~Touches(At(i), At(j))

\* So none are merged.
CleanMerge ==
    pc = "merge" =>
        /\ Len(runs) = Cardinality(Seen)
        /\ \A k \in DOMAIN runs : \E m \in Seen :
              runs[k] = At(m) /\ \A i \in rest : Earlier(Parsed(file), m, i)

CleanInv == rewritten => CleanFile /\ CleanMerge

CueInv ==
    /\ CueTypeOK /\ StageInv /\ OpenInv /\ OrderInv
    /\ CoverInv /\ TimeInv /\ ApartInv /\ CleanInv
-----------------------------------------------------------------------------
(* Positions.                                                               *)

LEMMA FileTypes ==
    ASSUME CueTypeOK
    PROVE  /\ IsFiniteSet(Positions(file)) /\ Positions(file) \subseteq DOMAIN file
           /\ \A i \in Positions(file) :
                 /\ file[i] \in Stamped /\ file[i].body \notin Blank
                 /\ At(i) \in Cue /\ At(i).body = file[i].body /\ TextOf(At(i)) \in Texts
                 /\ At(i).start \in Nat /\ At(i).end \in Nat
                 /\ i \in Nat /\ Parsed(file)[i] = At(i)
<1>1. file \in Seq({Other} \union Stamped)
  BY DEF CueTypeOK
<1>2. Len(file) \in Nat /\ DOMAIN file = 1..Len(file)
  BY <1>1, LenProperties
<1>3. Positions(file) \subseteq DOMAIN file
  BY DEF Positions
<1>4. IsFiniteSet(Positions(file))
  <2>1. IsFiniteSet(1..Len(file))
    BY <1>2, FS_Interval
  <2> QED
    BY <1>2, <1>3, <2>1, FS_Subset
<1>5. ASSUME NEW i \in Positions(file)
      PROVE  /\ file[i] \in Stamped /\ file[i].body \notin Blank
             /\ At(i) \in Cue /\ At(i).body = file[i].body /\ TextOf(At(i)) \in Texts
             /\ At(i).start \in Nat /\ At(i).end \in Nat
             /\ i \in Nat /\ Parsed(file)[i] = At(i)
  <2>1. i \in 1..Len(file) /\ file[i] # Other /\ file[i].body \notin Blank
    BY <1>2, <1>3 DEF Positions, IsCue
  <2>2. file[i] \in Stamped
    BY <1>1, <2>1, ElementOfSeq
  <2>3. At(i) \in Cue /\ TextOf(At(i)) \in Texts
    BY <2>2, CueAtType DEF At
  <2>4. At(i).body = file[i].body
    BY DEF At, CueAt
  <2>5. Parsed(file)[i] = At(i)
    BY DEF Parsed, At
  <2> QED
    BY <1>2, <2>1, <2>2, <2>3, <2>4, <2>5 DEF Cue
<1> QED
  BY <1>3, <1>4, <1>5

LEMMA RunTypes ==
    ASSUME CueTypeOK
    PROVE  /\ Len(runs) \in Nat /\ DOMAIN runs = 1..Len(runs)
           /\ \A k \in DOMAIN runs :
                 /\ runs[k] \in Cue /\ runs[k].start \in Nat /\ runs[k].end \in Nat
                 /\ runs[k].body \in Bodies /\ TextOf(runs[k]) \in Texts /\ k \in Nat
<1>1. runs \in Seq(Cue)
  BY DEF CueTypeOK
<1>2. Len(runs) \in Nat /\ DOMAIN runs = 1..Len(runs)
  BY <1>1, LenProperties
<1>3. ASSUME NEW k \in DOMAIN runs PROVE runs[k] \in Cue /\ k \in Nat
  BY <1>1, <1>2, ElementOfSeq
<1> QED
  BY <1>2, <1>3 DEF Cue, TextOf, Texts

\* Earlier is an order.
LEMMA EarlierTotal ==
    ASSUME NEW s, NEW i \in Nat, NEW j \in Nat, i # j,
           s[i].start \in Nat, s[i].end \in Nat, s[j].start \in Nat, s[j].end \in Nat
    PROVE  Earlier(s, i, j) \/ Earlier(s, j, i)
  BY DEF Earlier

LEMMA CueInitInv == CueInit => CueInv
<1> SUFFICES ASSUME CueInit PROVE CueInv
  OBVIOUS
<1>1. CueTypeOK
  <2>1. PICK n \in 0..MaxBlocks :
            file \in [1..n -> {Other} \union [from : Clocks, to : Clocks, body : Bodies]]
    BY DEF CueInit
  <2>2. [from : Clocks, to : Clocks, body : Bodies] \subseteq Stamped
    BY CueAssumption DEF Stamped
  <2>3. file \in [1..n -> {Other} \union Stamped] /\ n \in Nat
    BY <2>1, <2>2
  <2>4. file \in Seq({Other} \union Stamped)
    BY <2>3
  <2>5. rest \subseteq Positions(file) /\ runs \in Seq(Cue) /\ Len(runs) = 0
    BY DEF CueInit
  <2>6. open \in [Texts -> 0..Len(runs)] /\ \A k \in Texts : open[k] = 0
    BY <2>5 DEF CueInit, Closed
  <2>7. pc \in {"read", "merge"} /\ rewritten \in BOOLEAN
    BY DEF CueInit
  <2> QED
    BY <2>4, <2>5, <2>6, <2>7 DEF CueTypeOK
<1>2. StageInv /\ OpenInv /\ OrderInv /\ CoverInv /\ TimeInv /\ ApartInv /\ CleanInv
  BY DEF CueInit, StageInv, OpenInv, OrderInv, CoverInv, TimeInv, ApartInv, CleanInv
<1> QED
  BY <1>1, <1>2 DEF CueInv

LEMMA ReadInv == CueInv /\ Read => CueInv'
<1> SUFFICES ASSUME CueInv, Read PROVE CueInv'
  OBVIOUS
<1>1. runs = <<>> /\ open = Closed /\ UNCHANGED <<file, runs, open, rewritten>>
      /\ rest' = Positions(file) /\ pc' = "merge"
  BY DEF CueInv, StageInv, Read
<1>2. CueTypeOK'
  BY <1>1 DEF CueInv, CueTypeOK
<1>3. StageInv'
  BY <1>1 DEF StageInv, Read
<1>4. Seen' = {}
  BY <1>1 DEF Seen
<1>5. OpenInv' /\ OrderInv' /\ TimeInv' /\ ApartInv'
  BY <1>1 DEF OpenInv, OrderInv, TimeInv, ApartInv
<1>6. CoverInv'
  BY <1>4 DEF CoverInv
<1>7. CleanInv'
  <2>1. Len(runs') = Cardinality(Seen')
    BY <1>1, <1>4, FS_EmptySet
  <2>2. CleanMerge'
    BY <1>1, <2>1 DEF CleanMerge
  <2>3. rewritten => CleanFile'
    BY <1>1 DEF CueInv, CleanInv, CleanFile, At
  <2> QED
    BY <1>1, <2>2, <2>3 DEF CleanInv
<1> QED
  BY <1>2, <1>3, <1>5, <1>6, <1>7 DEF CueInv
-----------------------------------------------------------------------------
(* A cue is merged.                                                         *)

\* What is known of the cue that comes next.
LEMMA NextCue ==
    ASSUME CueInv, NEW i \in rest, Merge(i)
    PROVE  /\ i \in Positions(file) /\ At(i) \in Cue /\ TextOf(At(i)) \in Texts
           /\ At(i).start \in Nat /\ At(i).end \in Nat /\ At(i).body \notin Blank
           /\ \A j \in rest \ {i} : Earlier(Parsed(file), i, j) /\ At(i).start <= At(j).start
           /\ \A k \in DOMAIN runs : runs[k].start <= At(i).start
           /\ Seen' = Seen \union {i} /\ i \notin Seen
           /\ rest' = rest \ {i} /\ UNCHANGED <<file, pc, rewritten>> /\ pc = "merge"
<1>1. rest \subseteq Positions(file) /\ CueTypeOK
  BY DEF CueInv, CueTypeOK
<1>2. /\ i \in Positions(file) /\ At(i) \in Cue /\ TextOf(At(i)) \in Texts
      /\ At(i).start \in Nat /\ At(i).end \in Nat /\ At(i).body \notin Blank
  BY <1>1, FileTypes
<1>3. ASSUME NEW j \in rest \ {i}
      PROVE  Earlier(Parsed(file), i, j) /\ At(i).start <= At(j).start
  <2>1. Earlier(Parsed(file), i, j)
    BY DEF Merge, NextUp
  <2>2. Parsed(file)[i] = At(i) /\ Parsed(file)[j] = At(j) /\ At(j).start \in Nat
    BY <1>1, FileTypes
  <2> QED
    BY <1>2, <2>1, <2>2 DEF Earlier
<1>4. rest' = rest \ {i} /\ UNCHANGED <<file, pc, rewritten>> /\ pc = "merge"
  BY DEF Merge
<1>5. Seen' = Seen \union {i} /\ i \notin Seen
  BY <1>1, <1>4 DEF Seen
<1> QED
  BY <1>2, <1>3, <1>4, <1>5 DEF CueInv, OrderInv

LEMMA LaterIs ==
    ASSUME NEW a \in Nat, NEW b \in Nat
    PROVE  Later(a, b) \in {a, b} /\ a <= Later(a, b) /\ b <= Later(a, b)
  BY DEF Later

\* The open run of the text takes the cue in.
LEMMA ExtendInv ==
    ASSUME CueInv, NEW i \in rest, Merge(i),
           open[TextOf(At(i))] # 0, Touches(runs[open[TextOf(At(i))]], At(i))
    PROVE  CueInv'
<1> DEFINE cue == At(i)
           k == TextOf(cue)
           m == open[k]
<1>0. CueTypeOK /\ OpenInv /\ OrderInv /\ CoverInv /\ TimeInv /\ ApartInv /\ CleanInv /\ StageInv
  BY DEF CueInv
<1>1. /\ i \in Positions(file) /\ cue \in Cue /\ k \in Texts /\ cue.start \in Nat /\ cue.end \in Nat
      /\ \A l \in DOMAIN runs : runs[l].start <= cue.start
      /\ Seen' = Seen \union {i} /\ rest' = rest \ {i} /\ UNCHANGED <<file, pc, rewritten>>
      /\ pc = "merge"
  BY NextCue
<1>2. m \in DOMAIN runs /\ TextOf(runs[m]) = k /\ Gap \in Nat
  <2>1. m \in 0..Len(runs)
    BY <1>0, <1>1 DEF CueTypeOK
  <2> QED
    BY <1>0, <1>1, <2>1, RunTypes, CueAssumption DEF CueTypeOK
<1>3. cue.start <= runs[m].end + Gap
  BY DEF Touches
<1>4. runs' = [runs EXCEPT ![m].end = Later(@, cue.end)] /\ open' = open
  BY DEF Merge, At
<1>5. \A l \in DOMAIN runs : /\ runs[l] \in Cue /\ runs[l].start \in Nat /\ runs[l].end \in Nat
                             /\ TextOf(runs[l]) \in Texts /\ l \in Nat
  BY <1>0, RunTypes
<1> HIDE DEF m, k, cue
\* Only an end changes, and it grows.
<1>6. /\ runs' \in Seq(Cue) /\ Len(runs') = Len(runs) /\ DOMAIN runs' = DOMAIN runs
      /\ \A l \in DOMAIN runs : l # m => runs'[l] = runs[l]
      /\ \A l \in DOMAIN runs :
            /\ runs'[l].start = runs[l].start /\ runs'[l].body = runs[l].body
            /\ TextOf(runs'[l]) = TextOf(runs[l]) /\ runs'[l].end \in Nat
            /\ runs[l].end <= runs'[l].end
      /\ cue.end <= runs'[m].end /\ runs'[m].end \in {runs[m].end, cue.end}
  <2> DEFINE grown == [runs[m] EXCEPT !.end = Later(@, cue.end)]
  <2>1. /\ Later(runs[m].end, cue.end) \in {runs[m].end, cue.end}
        /\ runs[m].end <= Later(runs[m].end, cue.end) /\ cue.end <= Later(runs[m].end, cue.end)
    BY <1>1, <1>2, <1>5, LaterIs
  <2>2. grown \in Cue /\ grown.start = runs[m].start /\ grown.body = runs[m].body
        /\ grown.end = Later(runs[m].end, cue.end)
    BY <1>1, <1>2, <1>5, <2>1 DEF Cue
  <2>3. runs' = [runs EXCEPT ![m] = grown]
    BY <1>2, <1>4
  <2> HIDE DEF grown
  <2>4. runs \in Seq(Cue) /\ DOMAIN runs = 1..Len(runs)
    BY <1>0, RunTypes DEF CueTypeOK
  <2>5. /\ runs' \in Seq(Cue) /\ Len(runs') = Len(runs)
        /\ \A l \in DOMAIN runs : runs'[l] = IF l = m THEN grown ELSE runs[l]
    BY <1>2, <2>2, <2>3, <2>4, ExceptSeq
  <2>6. DOMAIN runs' = DOMAIN runs
    BY <2>3
  <2>7. ASSUME NEW l \in DOMAIN runs
        PROVE  /\ runs'[l].start = runs[l].start /\ runs'[l].body = runs[l].body
               /\ TextOf(runs'[l]) = TextOf(runs[l]) /\ runs'[l].end \in Nat
               /\ runs[l].end <= runs'[l].end
    <3>1. CASE l = m
      BY <1>1, <1>5, <2>1, <2>2, <2>5, <3>1 DEF TextOf
    <3>2. CASE l # m
      BY <1>5, <2>5, <3>2
    <3> QED
      BY <3>1, <3>2
  <2>8. cue.end <= runs'[m].end /\ runs'[m].end \in {runs[m].end, cue.end}
    BY <1>2, <2>1, <2>2, <2>5
  <2> QED
    BY <2>5, <2>6, <2>7, <2>8
<1>7. CueTypeOK'
  <2>1. \A t \in Texts : open[t] # 0 => open[t] \in DOMAIN runs
    BY <1>0, RunTypes DEF CueTypeOK
  <2> QED
    BY <1>0, <1>1, <1>4, <1>6, <2>1 DEF CueTypeOK
<1>8. StageInv' /\ OpenInv'
  BY <1>0, <1>1, <1>4, <1>6 DEF StageInv, OpenInv
<1>9. OrderInv'
  BY <1>0, <1>1, <1>6 DEF OrderInv, At
<1>10. CoverInv'
  <2> SUFFICES ASSUME NEW j \in Seen' PROVE \E l \in DOMAIN runs' : Covers(runs'[l], At(j))
    BY <1>1 DEF CoverInv, At
  <2>1. CASE j \in Seen
    <3>1. PICK l \in DOMAIN runs : Covers(runs[l], At(j))
      BY <1>0, <1>1, <2>1 DEF CoverInv
    <3>2. At(j).end \in Nat
      BY <1>0, <2>1, FileTypes DEF Seen
    <3>3. Covers(runs'[l], At(j))
      BY <1>5, <1>6, <3>1, <3>2 DEF Covers, SameText
    <3> QED
      BY <1>6, <3>3
  <2>2. CASE j = i
    <3>1. Covers(runs'[m], cue)
      BY <1>1, <1>2, <1>6 DEF Covers, SameText, k
    <3> QED
      BY <1>2, <1>6, <2>2, <3>1 DEF cue
  <2> QED
    BY <1>1, <2>1, <2>2
<1>11. TimeInv'
  <2> SUFFICES ASSUME NEW l \in DOMAIN runs, NEW t \in runs'[l].start..runs'[l].end + Gap
               PROVE  \E j \in Seen' : SameText(At(j), runs'[l]) /\ Shows(At(j), t)
    BY <1>1, <1>6 DEF TimeInv, At, Shows
  <2>0. t \in Int /\ runs[l].start <= t /\ t <= runs'[l].end + Gap
    BY <1>2, <1>5, <1>6
  <2>1. CASE t <= runs[l].end + Gap
    <3>1. t \in runs[l].start..runs[l].end + Gap
      BY <1>2, <1>5, <2>0, <2>1
    <3>2. PICK j \in Seen : SameText(At(j), runs[l]) /\ Shows(At(j), t)
      BY <1>0, <3>1 DEF TimeInv
    <3> QED
      BY <1>1, <1>6, <3>2 DEF SameText
  <2>2. CASE ~(t <= runs[l].end + Gap)
    <3>1. l = m /\ runs'[m].end = cue.end
      BY <1>2, <1>5, <1>6, <2>0, <2>2
    <3>2. Shows(cue, t)
      BY <1>1, <1>2, <1>3, <1>5, <2>0, <2>2, <3>1 DEF Shows
    <3>3. SameText(cue, runs'[l])
      BY <1>2, <1>6, <3>1 DEF SameText, k
    <3> QED
      BY <1>1, <3>2, <3>3 DEF cue
  <2> QED
    BY <2>1, <2>2
<1>12. ApartInv'
  <2> SUFFICES ASSUME NEW a \in DOMAIN runs, NEW b \in DOMAIN runs, a < b,
                      SameText(runs'[a], runs'[b])
               PROVE  runs'[a].end + Gap < runs'[b].start
    BY <1>6 DEF ApartInv
  <2>1. SameText(runs[a], runs[b])
    BY <1>6 DEF SameText
  <2>2. a # m
    <3>1. b <= open[TextOf(runs[b])]
      BY <1>0 DEF OpenInv
    <3>2. a = m => TextOf(runs[b]) = k
      BY <1>2, <2>1 DEF SameText
    <3>3. a = m => b <= m
      BY <3>1, <3>2 DEF m
    <3> QED
      BY <1>5, <3>3
  <2> QED
    BY <1>0, <1>6, <2>1, <2>2 DEF ApartInv
<1>13. CleanInv'
  <2>1. ~rewritten
    <3> SUFFICES ASSUME rewritten PROVE FALSE
      OBVIOUS
    <3>1. PICK j \in Seen : runs[m] = At(j) /\ Earlier(Parsed(file), j, i)
      BY <1>0, <1>1, <1>2 DEF CleanInv, CleanMerge
    <3>2. j \in Positions(file) /\ SameText(At(j), At(i))
      BY <1>2, <3>1 DEF Seen, SameText, k, cue
    <3>3. ~Touches(At(j), At(i))
      BY <1>0, <1>1, <3>1, <3>2 DEF CleanInv, CleanFile
    <3> QED
      BY <1>3, <3>1, <3>3 DEF Touches, cue
  <2> QED
    BY <1>1, <2>1 DEF CleanInv
<1> QED
  BY <1>7, <1>8, <1>9, <1>10, <1>11, <1>12, <1>13 DEF CueInv
\* A run of its own.
LEMMA AppendInv ==
    ASSUME CueInv, NEW i \in rest, Merge(i),
           ~(open[TextOf(At(i))] # 0 /\ Touches(runs[open[TextOf(At(i))]], At(i)))
    PROVE  CueInv'
<1> DEFINE cue == At(i)
           k == TextOf(cue)
           n == Len(runs)
<1>0. CueTypeOK /\ OpenInv /\ OrderInv /\ CoverInv /\ TimeInv /\ ApartInv /\ CleanInv /\ StageInv
  BY DEF CueInv
<1>1. /\ i \in Positions(file) /\ cue \in Cue /\ k \in Texts /\ cue.start \in Nat /\ cue.end \in Nat
      /\ cue.body \notin Blank
      /\ \A l \in DOMAIN runs : runs[l].start <= cue.start
      /\ Seen' = Seen \union {i} /\ i \notin Seen /\ rest' = rest \ {i}
      /\ UNCHANGED <<file, pc, rewritten>> /\ pc = "merge"
      /\ \A j \in rest \ {i} : Earlier(Parsed(file), i, j) /\ cue.start <= At(j).start
  BY NextCue
<1>2. runs' = Append(runs, cue) /\ open' = [open EXCEPT ![k] = n + 1]
  BY DEF Merge, At, OpenAt
<1>3. \A l \in DOMAIN runs : /\ runs[l] \in Cue /\ runs[l].start \in Nat /\ runs[l].end \in Nat
                             /\ TextOf(runs[l]) \in Texts /\ l \in Nat
  BY <1>0, RunTypes
<1>4. n \in Nat /\ DOMAIN runs = 1..n /\ runs \in Seq(Cue) /\ Gap \in Nat
  BY <1>0, RunTypes, CueAssumption DEF CueTypeOK
<1>5. open \in [Texts -> 0..n] /\ \A t \in Texts : open[t] # 0 => TextOf(runs[open[t]]) = t
  BY <1>0 DEF CueTypeOK
<1> HIDE DEF n, k, cue
<1>6. /\ runs' \in Seq(Cue) /\ Len(runs') = n + 1 /\ DOMAIN runs' = 1..n + 1
      /\ \A l \in 1..n : runs'[l] = runs[l]
      /\ runs'[n + 1] = cue
  BY <1>1, <1>2, <1>4, <1>5 DEF n
<1>7. open' \in [Texts -> 0..n + 1] /\ open'[k] = n + 1
      /\ \A t \in Texts : t # k => open'[t] = open[t]
  BY <1>1, <1>2, <1>4, <1>5
<1>8. CueTypeOK'
  <2>1. ASSUME NEW t \in Texts, open'[t] # 0
        PROVE  TextOf(runs'[open'[t]]) = t
    <3>1. CASE t = k
      BY <1>6, <1>7, <3>1 DEF k
    <3>2. CASE t # k
      <4>1. open'[t] = open[t] /\ open[t] \in 1..n
        BY <1>4, <1>5, <1>7, <2>1, <3>2
      <4> QED
        BY <1>5, <1>6, <4>1
    <3> QED
      BY <3>1, <3>2
  <2> QED
    BY <1>0, <1>1, <1>6, <1>7, <2>1 DEF CueTypeOK
<1>9. StageInv'
  BY <1>0, <1>1 DEF StageInv
<1>10. OpenInv'
  <2> SUFFICES ASSUME NEW l \in 1..n + 1
               PROVE  runs'[l].body \notin Blank /\ l <= open'[TextOf(runs'[l])]
    BY <1>6 DEF OpenInv
  <2>1. CASE l = n + 1
    BY <1>1, <1>4, <1>6, <1>7, <2>1 DEF k
  <2>2. CASE l # n + 1
    <3>1. l \in 1..n /\ runs'[l] = runs[l]
      BY <1>4, <1>6, <2>2
    <3>2. runs[l].body \notin Blank /\ l <= open[TextOf(runs[l])] /\ TextOf(runs[l]) \in Texts
      BY <1>0, <1>3, <1>4, <3>1 DEF OpenInv
    <3> QED
      BY <1>4, <1>7, <3>1, <3>2
  <2> QED
    BY <2>1, <2>2
<1>11. OrderInv'
  <2>1. ASSUME NEW l \in 1..n + 1, NEW j \in rest'
        PROVE  runs'[l].start <= At(j).start
    <3>1. CASE l = n + 1
      BY <1>1, <1>6, <2>1, <3>1
    <3>2. CASE l # n + 1
      <4>1. l \in 1..n /\ runs'[l] = runs[l]
        BY <1>4, <1>6, <3>2
      <4> QED
        BY <1>0, <1>1, <1>4, <2>1, <4>1 DEF OrderInv
    <3> QED
      BY <3>1, <3>2
  <2>2. ASSUME NEW a \in 1..n + 1, NEW b \in 1..n + 1, a < b
        PROVE  runs'[a].start <= runs'[b].start
    <3>1. a \in 1..n
      BY <1>4, <2>2
    <3>2. CASE b = n + 1
      BY <1>1, <1>4, <1>6, <3>1, <3>2
    <3>3. CASE b # n + 1
      <4>1. b \in 1..n
        BY <1>4, <3>3
      <4> QED
        BY <1>0, <1>4, <1>6, <2>2, <3>1, <4>1 DEF OrderInv
    <3> QED
      BY <3>2, <3>3
  <2> QED
    BY <1>1, <1>6, <2>1, <2>2 DEF OrderInv, At
<1>12. CoverInv'
  <2> SUFFICES ASSUME NEW j \in Seen' PROVE \E l \in 1..n + 1 : Covers(runs'[l], At(j))
    BY <1>1, <1>6 DEF CoverInv, At
  <2>1. CASE j \in Seen
    <3>1. PICK l \in 1..n : Covers(runs[l], At(j))
      BY <1>0, <1>1, <1>4, <2>1 DEF CoverInv
    <3> QED
      BY <1>4, <1>6, <3>1
  <2>2. CASE j = i
    <3>1. Covers(cue, At(i))
      BY <1>1 DEF Covers, SameText, cue
    <3> QED
      BY <1>4, <1>6, <2>2, <3>1
  <2> QED
    BY <1>1, <2>1, <2>2
<1>13. TimeInv'
  <2> SUFFICES ASSUME NEW l \in 1..n + 1, NEW t \in runs'[l].start..runs'[l].end + Gap
               PROVE  \E j \in Seen' : SameText(At(j), runs'[l]) /\ Shows(At(j), t)
    BY <1>1, <1>6 DEF TimeInv, At, Shows
  <2>1. CASE l = n + 1
    <3>1. SameText(At(i), runs'[l]) /\ Shows(At(i), t)
      BY <1>1, <1>4, <1>6, <2>1 DEF SameText, Shows, cue
    <3> QED
      BY <1>1, <3>1
  <2>2. CASE l # n + 1
    <3>1. l \in 1..n /\ runs'[l] = runs[l]
      BY <1>4, <1>6, <2>2
    <3> QED
      BY <1>0, <1>1, <1>4, <3>1 DEF TimeInv
  <2> QED
    BY <2>1, <2>2
<1>14. ApartInv'
  <2> SUFFICES ASSUME NEW a \in 1..n + 1, NEW b \in 1..n + 1, a < b, SameText(runs'[a], runs'[b])
               PROVE  runs'[a].end + Gap < runs'[b].start
    BY <1>6 DEF ApartInv
  <2>1. a \in 1..n /\ runs'[a] = runs[a]
    BY <1>4, <1>6
  <2>2. CASE b # n + 1
    <3>1. b \in 1..n /\ runs'[b] = runs[b]
      BY <1>4, <1>6, <2>2
    <3> QED
      BY <1>0, <1>4, <2>1, <3>1 DEF ApartInv
  <2>3. CASE b = n + 1
    <3>1. TextOf(runs[a]) = k
      BY <1>6, <2>1, <2>3 DEF SameText, k
    <3>2. a <= open[k] /\ open[k] \in 1..n
      BY <1>0, <1>1, <1>4, <1>5, <2>1, <3>1 DEF OpenInv
    <3>3. runs[open[k]].end + Gap < cue.start
      BY <1>1, <1>3, <1>4, <3>2 DEF Touches, k, cue
    <3>4. CASE a = open[k]
      BY <1>6, <2>1, <2>3, <3>3, <3>4
    <3>5. CASE a # open[k]
      <4>1. a < open[k] /\ SameText(runs[a], runs[open[k]])
        BY <1>1, <1>5, <2>1, <3>1, <3>2, <3>5 DEF SameText
      <4>2. runs[a].end + Gap < runs[open[k]].start
        BY <1>0, <1>4, <2>1, <3>2, <4>1 DEF ApartInv
      <4>3. runs[open[k]].start <= cue.start
        BY <1>1, <1>4, <3>2
      <4> QED
        BY <1>1, <1>3, <1>4, <1>6, <2>1, <2>3, <3>2, <4>2, <4>3
    <3> QED
      BY <3>4, <3>5
  <2> QED
    BY <2>2, <2>3
<1>15. CleanInv'
  <2> SUFFICES ASSUME rewritten PROVE CleanFile' /\ CleanMerge'
    BY <1>1 DEF CleanInv
  <2>1. CleanFile'
    BY <1>0, <1>1 DEF CleanInv, CleanFile, At
  <2>2. n = Cardinality(Seen)
    BY <1>0, <1>1 DEF CleanInv, CleanMerge, n
  <2>3. Cardinality(Seen') = n + 1
    <3>1. IsFiniteSet(Seen)
      BY <1>0, FileTypes, FS_Subset DEF Seen
    <3> QED
      BY <1>1, <2>2, <3>1, FS_AddElement
  <2>4. ASSUME NEW l \in 1..n + 1
        PROVE  \E m \in Seen' :
                  runs'[l] = At(m) /\ \A j \in rest' : Earlier(Parsed(file), m, j)
    <3>1. CASE l = n + 1
      BY <1>1, <1>6, <3>1 DEF cue
    <3>2. CASE l # n + 1
      <4>1. l \in 1..n /\ runs'[l] = runs[l]
        BY <1>4, <1>6, <3>2
      <4> QED
        BY <1>0, <1>1, <1>4, <4>1 DEF CleanInv, CleanMerge
    <3> QED
      BY <3>1, <3>2
  <2>5. CleanMerge'
    BY <1>1, <1>6, <2>3, <2>4 DEF CleanMerge, At
  <2> QED
    BY <2>1, <2>5
<1> QED
  BY <1>8, <1>9, <1>10, <1>11, <1>12, <1>13, <1>14, <1>15 DEF CueInv
-----------------------------------------------------------------------------
(* The runs are sorted and written.                                         *)

\* What would be written.
Out(p) == [i \in DOMAIN runs |-> Block(runs[p[i]])]

\* An order has every run once.
LEMMA OrderIs ==
    ASSUME CueTypeOK, NEW p \in Orders(runs)
    PROVE  /\ p \in [DOMAIN runs -> DOMAIN runs]
           /\ \A i, j \in DOMAIN runs : i # j => p[i] # p[j]
           /\ \A k \in DOMAIN runs : \E i \in DOMAIN runs : p[i] = k
<1> DEFINE D == DOMAIN runs
<1>1. p \in [D -> D] /\ \A i, j \in D : i < j => Earlier(runs, p[i], p[j])
  BY DEF Orders
<1>2. D = 1..Len(runs) /\ Len(runs) \in Nat
      /\ \A k \in D : k \in Nat /\ runs[k].start \in Nat /\ runs[k].end \in Nat
  BY RunTypes
<1> HIDE DEF D
<1>3. ASSUME NEW i \in D, NEW j \in D, i < j PROVE p[i] # p[j]
  <2>1. Earlier(runs, p[i], p[j]) /\ p[i] \in D
    BY <1>1, <1>3
  <2>2. ~Earlier(runs, p[i], p[i])
    BY <1>2, <2>1 DEF Earlier
  <2> QED
    BY <2>1, <2>2
<1>4. ASSUME NEW i \in D, NEW j \in D, i # j PROVE p[i] # p[j]
  <2>1. i < j \/ j < i
    BY <1>2, <1>4
  <2> QED
    BY <1>3, <2>1
<1>5. p \in Injection(D, D)
  BY <1>1, <1>4 DEF Injection, IsInjective
<1>6. IsFiniteSet(D)
  BY <1>2, FS_Interval
<1>7. p \in Surjection(D, D)
  BY <1>5, <1>6, FS_Injection
<1>8. \A k \in D : \E i \in D : p[i] = k
  BY <1>7 DEF Surjection
<1> QED
  BY <1>1, <1>4, <1>8 DEF D

LEMMA OutIs ==
    ASSUME CueTypeOK, OpenInv, NEW p \in Orders(runs)
    PROVE  /\ Out(p) \in Seq({Other} \union Stamped) /\ Positions(Out(p)) = DOMAIN runs
           /\ \A i \in DOMAIN runs : p[i] \in DOMAIN runs /\ CueAt(Out(p)[i]) = runs[p[i]]
           /\ Cues(Out(p)) = {runs[k] : k \in DOMAIN runs}
<1>1. DOMAIN runs = 1..Len(runs) /\ Len(runs) \in Nat
  BY RunTypes
<1>2. ASSUME NEW i \in DOMAIN runs
      PROVE  /\ p[i] \in DOMAIN runs /\ Out(p)[i] \in Stamped /\ Out(p)[i].body \notin Blank
             /\ CueAt(Out(p)[i]) = runs[p[i]]
  <2>1. p[i] \in DOMAIN runs /\ Out(p)[i] = Block(runs[p[i]])
    BY OrderIs DEF Out
  <2>2. runs[p[i]] \in Cue /\ runs[p[i]].body \notin Blank
    BY <2>1, RunTypes DEF OpenInv
  <2> QED
    BY <2>1, <2>2, BlockCue
<1>3. DOMAIN Out(p) = 1..Len(runs)
  BY <1>1 DEF Out
<1>4. Out(p) \in Seq({Other} \union Stamped)
  <2>1. Out(p) \in [1..Len(runs) -> {Other} \union Stamped]
    BY <1>1, <1>2 DEF Out
  <2> QED
    BY <1>1, <2>1
<1>5. Positions(Out(p)) = DOMAIN runs
  BY <1>1, <1>2, <1>3, OtherAssumption DEF Positions, IsCue
<1>6. Cues(Out(p)) = {runs[p[i]] : i \in DOMAIN runs}
  BY <1>2, <1>5 DEF Cues
<1>7. {runs[p[i]] : i \in DOMAIN runs} = {runs[k] : k \in DOMAIN runs}
  BY OrderIs
<1> QED
  BY <1>2, <1>4, <1>5, <1>6, <1>7

\* What a run has written is clean.
LEMMA OutClean ==
    ASSUME CueInv, rest = {}, NEW p \in Orders(runs),
           NEW i \in DOMAIN runs, NEW j \in DOMAIN runs, SameText(runs[p[i]], runs[p[j]]),
           Earlier(Parsed(Out(p)), i, j)
    PROVE  ~Touches(runs[p[i]], runs[p[j]])
<1> DEFINE a == p[i]
           b == p[j]
<1>0. CueTypeOK /\ OpenInv /\ OrderInv /\ ApartInv
  BY DEF CueInv
<1>1. /\ a \in DOMAIN runs /\ b \in DOMAIN runs
      /\ Parsed(Out(p))[i] = runs[a] /\ Parsed(Out(p))[j] = runs[b]
  BY <1>0, OutIs DEF Parsed
<1>2. /\ runs[a].start \in Nat /\ runs[a].end \in Nat /\ runs[b].start \in Nat /\ runs[b].end \in Nat
      /\ a \in Nat /\ b \in Nat /\ Gap \in Nat /\ i \in Nat /\ j \in Nat
  BY <1>0, <1>1, RunTypes, CueAssumption
<1>3. i # j
  BY <1>1, <1>2 DEF Earlier
<1>4. a # b
  BY <1>0, <1>3, OrderIs
<1>5. runs[a].start <= runs[b].start /\ (runs[a].start = runs[b].start => runs[a].end <= runs[b].end)
  BY <1>1, <1>2 DEF Earlier
<1> HIDE DEF a, b
<1>6. CASE a < b
  <2>1. runs[a].end + Gap < runs[b].start
    BY <1>0, <1>1, <1>6 DEF ApartInv, SameText, a, b
  <2> QED
    BY <1>2, <2>1 DEF Touches, a, b
<1>7. CASE b < a
  <2>1. runs[b].end + Gap < runs[a].start /\ runs[b].start <= runs[a].start
    BY <1>0, <1>1, <1>7 DEF ApartInv, OrderInv, SameText, a, b
  <2>2. ~(runs[b].start <= runs[a].end + Gap)
    BY <1>2, <1>5, <2>1
  <2> QED
    BY <2>2 DEF Touches, a, b
<1> QED
  BY <1>2, <1>4, <1>6, <1>7

LEMMA DecideInv == CueInv /\ Decide => CueInv'
<1> SUFFICES ASSUME CueInv, Decide PROVE CueInv'
  OBVIOUS
<1>0. /\ CueTypeOK /\ OpenInv /\ CleanInv
      /\ rest = {} /\ pc' = "read" /\ rest' = {} /\ runs' = <<>> /\ open' = Closed
  BY DEF CueInv, Decide
<1>1. PICK p \in Orders(runs) :
        IF Worth(Out(p)) THEN file' = Out(p) /\ rewritten' = TRUE ELSE UNCHANGED <<file, rewritten>>
  BY DEF Decide, Out
<1>2. file' \in Seq({Other} \union Stamped) /\ rewritten' \in BOOLEAN
  <2>1. CASE Worth(Out(p))
    BY <1>0, <1>1, <2>1, OutIs
  <2>2. CASE ~Worth(Out(p))
    BY <1>0, <1>1, <2>2 DEF CueTypeOK
  <2> QED
    BY <2>1, <2>2
<1>3. CueTypeOK'
  <2>1. runs' \in Seq(Cue) /\ Len(runs') = 0
    BY <1>0
  <2>2. open' \in [Texts -> 0..Len(runs')] /\ \A k \in Texts : open'[k] = 0
    BY <1>0, <2>1 DEF Closed
  <2> QED
    BY <1>0, <1>2, <2>1, <2>2 DEF CueTypeOK
<1>4. StageInv' /\ OpenInv' /\ OrderInv' /\ CoverInv' /\ TimeInv' /\ ApartInv'
  BY <1>0 DEF StageInv, OpenInv, OrderInv, CoverInv, TimeInv, ApartInv
<1>5. CleanInv'
  <2> SUFFICES ASSUME rewritten' PROVE CleanFile'
    BY <1>0 DEF CleanInv, CleanMerge
  <2>1. CASE Worth(Out(p))
    <3>1. file' = Out(p)
      BY <1>1, <2>1
    <3> SUFFICES ASSUME NEW i \in Positions(Out(p)), NEW j \in Positions(Out(p)),
                        SameText(CueAt(Out(p)[i]), CueAt(Out(p)[j])),
                        Earlier(Parsed(Out(p)), i, j)
                 PROVE  ~Touches(CueAt(Out(p)[i]), CueAt(Out(p)[j]))
      BY <3>1 DEF CleanFile, At
    <3> QED
      BY <1>0, OutIs, OutClean
  <2>2. CASE ~Worth(Out(p))
    BY <1>0, <1>1, <2>2 DEF CleanInv, CleanFile, At
  <2> QED
    BY <2>1, <2>2
<1> QED
  BY <1>3, <1>4, <1>5 DEF CueInv

LEMMA NextInv == CueInv /\ [CueNext]_cueVars => CueInv'
<1> SUFFICES ASSUME CueInv, [CueNext]_cueVars PROVE CueInv'
  OBVIOUS
<1>1. CASE Read
  BY <1>1, ReadInv
<1>2. CASE Skip \/ UNCHANGED cueVars
  <2>1. UNCHANGED cueVars
    BY <1>2 DEF Skip
  <2>2. CueTypeOK' /\ StageInv' /\ OpenInv'
    BY <2>1 DEF CueInv, CueTypeOK, StageInv, OpenInv, cueVars
  <2>3. OrderInv' /\ CoverInv' /\ TimeInv' /\ ApartInv'
    BY <2>1 DEF CueInv, OrderInv, CoverInv, TimeInv, ApartInv, At, Seen, Shows, cueVars
  <2>4. CleanInv'
    BY <2>1 DEF CueInv, CleanInv, CleanFile, CleanMerge, At, Seen, cueVars
  <2> QED
    BY <2>2, <2>3, <2>4 DEF CueInv
<1>3. CASE Decide
  BY <1>3, DecideInv
<1>4. CASE \E i \in rest : Merge(i)
  <2>1. PICK i \in rest : Merge(i)
    BY <1>4
  <2> QED
    BY <2>1, ExtendInv, AppendInv
<1> QED
  BY <1>1, <1>2, <1>3, <1>4 DEF CueNext

LEMMA CueInductive == CueSpec => []CueInv
<1>1. CueInit => CueInv
  BY CueInitInv
<1>2. CueInv /\ [CueNext]_cueVars => CueInv'
  BY NextInv
<1> QED
  BY <1>1, <1>2, PTL DEF CueSpec
-----------------------------------------------------------------------------
(* The theorems.                                                            *)

\* Only what was decided changes the file.
LEMMA RewriteIs ==
    ASSUME CueInv, [CueNext]_cueVars, file' # file
    PROVE  /\ rest = {} /\ pc = "merge" /\ Seen = Positions(file)
           /\ \E p \in Orders(runs) :
                 /\ Worth(Out(p)) /\ file' = Out(p) /\ Cues(file') = {runs[k] : k \in DOMAIN runs}
<1>1. Decide
  BY DEF CueNext, cueVars, Read, Skip, Merge
<1>2. PICK p \in Orders(runs) :
        IF Worth(Out(p)) THEN file' = Out(p) /\ rewritten' = TRUE ELSE UNCHANGED <<file, rewritten>>
  BY <1>1 DEF Decide, Out
<1>3. Worth(Out(p)) /\ file' = Out(p)
  BY <1>2
<1>4. Cues(Out(p)) = {runs[k] : k \in DOMAIN runs}
  BY OutIs DEF CueInv
<1>5. Cues(file') = {runs[k] : k \in DOMAIN runs}
  BY <1>3, <1>4
<1> QED
  BY <1>1, <1>3, <1>5 DEF Decide, Seen

\* The cues of the file.
LEMMA CuesAre == Cues(file) = {At(i) : i \in Positions(file)}
  BY DEF Cues, At

\* The variables keep their types, and the open run of a text is one of its own.
THEOREM CueTypeCorrect == CueSpec => []CueTypeOK
<1>1. CueInv => CueTypeOK
  BY DEF CueInv
<1> QED
  BY <1>1, CueInductive, PTL

\* Whatever the cues are, and in whatever order: a rewrite takes nothing from the screen
\* (srt-dedupe.py:8-10, 65-76).
THEOREM EveryCueKept == CueSpec => KeepsEveryCue
<1>1. CueInv /\ [CueNext]_cueVars =>
        [file' # file => \A c \in Cues(file) : \E r \in Cues(file') :
            TextOf(r) = TextOf(c) /\ r.start <= c.start /\ c.end <= r.end]_cueVars
  <2> SUFFICES ASSUME CueInv, [CueNext]_cueVars, file' # file, NEW c \in Cues(file)
               PROVE  \E r \in Cues(file') :
                         TextOf(r) = TextOf(c) /\ r.start <= c.start /\ c.end <= r.end
    OBVIOUS
  <2>1. PICK i \in Seen : c = At(i)
    BY CuesAre, RewriteIs
  <2>2. PICK k \in DOMAIN runs : Covers(runs[k], At(i))
    BY <2>1, RewriteIs DEF CueInv, CoverInv
  <2>3. runs[k] \in Cues(file')
    BY <2>2, RewriteIs
  <2> QED
    BY <2>1, <2>2, <2>3 DEF Covers, SameText
<1> QED
  BY <1>1, CueInductive, PTL DEF CueSpec, KeepsEveryCue

\* And it puts nothing on the screen that was not there up to a gap ago
\* (srt-dedupe.py:8-10, 65-76).
THEOREM NoTimeAdded == CueSpec => AddsNoTime
<1>1. CueInv /\ [CueNext]_cueVars =>
        [file' # file => \A r \in Cues(file') : \A t \in r.start..r.end : \E c \in Cues(file) :
            TextOf(c) = TextOf(r) /\ c.start <= t /\ t <= c.end + Gap]_cueVars
  <2> SUFFICES ASSUME CueInv, [CueNext]_cueVars, file' # file,
                      NEW r \in Cues(file'), NEW t \in r.start..r.end
               PROVE  \E c \in Cues(file) :
                         TextOf(c) = TextOf(r) /\ c.start <= t /\ t <= c.end + Gap
    OBVIOUS
  <2>1. PICK k \in DOMAIN runs : r = runs[k]
    BY RewriteIs
  <2>2. t \in runs[k].start..runs[k].end + Gap
    BY <2>1, RunTypes, CueAssumption DEF CueInv
  <2>3. PICK i \in Seen : SameText(At(i), runs[k]) /\ Shows(At(i), t)
    BY <2>2 DEF CueInv, TimeInv
  <2>4. At(i) \in Cues(file)
    BY <2>3, CuesAre, RewriteIs
  <2> QED
    BY <2>1, <2>3, <2>4 DEF SameText, Shows
<1> QED
  BY <1>1, CueInductive, PTL DEF CueSpec, AddsNoTime

\* And no later run rewrites the file again: there is nothing left to merge
\* (srt-dedupe.py:12-14, 99-107).
THEOREM AloneForGood == CueSpec => LeftAlone
<1>1. CueInv /\ [CueNext]_cueVars => [rewritten => file' = file]_cueVars
  <2> SUFFICES ASSUME CueInv, [CueNext]_cueVars, rewritten, file' # file PROVE FALSE
    OBVIOUS
  <2>1. PICK p \in Orders(runs) : Worth(Out(p))
    BY RewriteIs
  <2>2. Len(runs) = Cardinality(Positions(file))
    BY RewriteIs DEF CueInv, CleanInv, CleanMerge
  <2>3. Cardinality(Positions(file)) >= MinCues
    BY RewriteIs DEF CueInv, StageInv
  <2>4. /\ Cardinality(Positions(file)) \in Nat \ {0} /\ MinReduction \in Nat \ {0}
    BY <2>3, FileTypes, FS_CardinalityType, CueAssumption DEF CueInv
  <2> DEFINE n == Cardinality(Positions(file))
  <2>5. 100 * (n - n) >= MinReduction * n
    BY <2>1, <2>2 DEF Worth
  <2> HIDE DEF n
  <2>6. n \in Nat \ {0}
    BY <2>4 DEF n
  <2>7. MinReduction * n > 0
    BY <2>4, <2>6
  <2>8. MinReduction * n \in Nat
    BY <2>4, <2>6
  <2> QED
    BY <2>5, <2>6, <2>7, <2>8
<1> QED
  BY <1>1, CueInductive, PTL DEF CueSpec, LeftAlone
-----------------------------------------------------------------------------
(* The dedupe beside the programs that share its files.                     *)

\* Only a run that writes has a file in hand, and it has a backup.
InHand == run.file # None => run.pc = "write" /\ backup[run.file] # None

\* What is planned for a file is the file merged.
PlanInv ==
    \A f \in Files : run.todo[f] # None /\ f \notin raced =>
        disk[f] # None /\ run.todo[f] = Merged(disk[f])

\* Until the first rewrite, the copy is of the file as it is.
CopyInv ==
    \A f \in Files : backup[f] # None /\ first[f] = None /\ f \notin spoiled =>
        disk[f] = backup[f]

IInv == TypeOK /\ InHand /\ PlanInv /\ CopyInv /\ OriginalKept

\* Merging makes a subtitle of a subtitle.
LEMMA MergedType == ASSUME NEW c \in Subtitle PROVE Merged(c) \in Subtitle
BY DEF Merged, Subtitle, Forms

\* The idle run is a run.
LEMMA IdleType == Idle \in RunState /\ Idle.file = None /\ Idle.pc = "idle"
                  /\ Idle.todo = Nothing
BY DEF Idle, RunState, Nothing

LEMMA InitInv == Init => IInv
<1> SUFFICES ASSUME Init PROVE IInv
  OBVIOUS
<1> USE DedupeAssumption DEF Init, Nothing
<1>1. TypeOK
  BY IdleType DEF TypeOK
<1>2. InHand /\ PlanInv
  BY IdleType DEF InHand, PlanInv
<1>3. CopyInv /\ OriginalKept
  BY DEF CopyInv, OriginalKept
<1> QED
  BY <1>1, <1>2, <1>3 DEF IInv

\* A step that leaves the files, the run and the history alone.
LEMMA Frame ==
  ASSUME IInv, UNCHANGED <<disk, backup, run, first, raced, spoiled>>,
         phase' \in {"open", "pause", "slot"},
         active' \subseteq Files, draining' \subseteq active',
         texts' \in Nat, faults' \in Nat
  PROVE  IInv'
<1>1. TypeOK'
  BY DEF IInv, TypeOK, Planned
<1>2. InHand' /\ PlanInv' /\ CopyInv' /\ OriginalKept'
  BY DEF IInv, InHand, PlanInv, CopyInv, OriginalKept
<1> QED
  BY <1>1, <1>2 DEF IInv

\* A run that stops, or has not begun, has planned nothing.
LEMMA RunStops ==
  ASSUME IInv, run'.file = None, run'.todo = Nothing, run' \in RunState,
         UNCHANGED <<phase, lingarr, files, texts, history>>, faults' \in Nat
  PROVE  IInv'
<1>1. TypeOK'
  BY DEF IInv, TypeOK, lingarr, files, history
<1>2. InHand' /\ PlanInv'
  BY DEF InHand, PlanInv, Nothing
<1>3. CopyInv' /\ OriginalKept'
  BY DEF IInv, CopyInv, OriginalKept, files, history
<1> QED
  BY <1>1, <1>2, <1>3 DEF IInv

\* What others put at a path, or take from it.
LEMMA ChangeInv ==
  ASSUME IInv, NEW f \in Files, NEW c \in Subtitle \union {None}, Change(f, c), texts' \in Nat
  PROVE  IInv'
<1> USE DedupeAssumption DEF Change, lingarr
<1>1. TypeOK'
  BY DEF IInv, TypeOK, Planned
<1>2. InHand'
  BY DEF IInv, InHand
<1>3. PlanInv'
  BY DEF IInv, PlanInv, TypeOK
<1>4. CopyInv'
  BY DEF IInv, CopyInv, TypeOK
<1>5. OriginalKept'
  BY DEF IInv, OriginalKept, TypeOK
<1> QED
  BY <1>1, <1>2, <1>3, <1>4, <1>5 DEF IInv

LEMMA DownloadInv == ASSUME IInv, NEW f \in Files, Download(f) PROVE IInv'
<1>1. PICK form \in {"dense", "plain"} : Change(f, [text |-> texts + 1, form |-> form])
  BY DEF Download
<1>2. texts' \in Nat /\ [text |-> texts + 1, form |-> form] \in Subtitle
  BY DEF Download, IInv, TypeOK, Subtitle, Forms
<1> QED
  BY <1>1, <1>2, ChangeInv

LEMMA DeleteInv == ASSUME IInv, NEW f \in Files, Delete(f) PROVE IInv'
BY ChangeInv DEF Delete, IInv, TypeOK

LEMMA PlanStep == ASSUME IInv, NEW f \in Files, Plan(f) PROVE IInv'
<1> DEFINE p == IF disk[f] # None /\ disk[f].form = "dense" THEN Merged(disk[f]) ELSE None
<1>1. /\ run.pc = "scan" /\ f \in run.scan
      /\ run' = [run EXCEPT !.scan = @ \ {f}, !.todo[f] = p]
      /\ raced' = raced \ {f}
      /\ UNCHANGED <<phase, active, draining, disk, backup, texts, faults, first, spoiled>>
  BY DEF Plan, lingarr, files
<1>2. p \in Subtitle \union {None} /\ (p # None => disk[f] # None /\ p = Merged(disk[f]))
  BY MergedType DEF IInv, TypeOK
<1>3. run.file = None
  BY <1>1 DEF IInv, InHand
<1> HIDE DEF p
<1>4. run \in RunState
  BY DEF IInv, TypeOK
<1>5. /\ run' \in RunState /\ run'.file = None
      /\ \A g \in Files : run'.todo[g] = IF g = f THEN p ELSE run.todo[g]
  BY <1>1, <1>2, <1>3, <1>4 DEF RunState
<1>6. TypeOK'
  BY <1>1, <1>5 DEF IInv, TypeOK
<1>7. InHand'
  BY <1>5 DEF InHand
<1>8. PlanInv'
  BY <1>1, <1>2, <1>5 DEF IInv, PlanInv
<1>9. CopyInv' /\ OriginalKept'
  BY <1>1 DEF IInv, CopyInv, OriginalKept
<1> QED
  BY <1>6, <1>7, <1>8, <1>9 DEF IInv

LEMMA UnreadableInv == ASSUME IInv, NEW f \in Files, Unreadable(f) PROVE IInv'
<1>1. /\ run.pc = "scan"
      /\ run' = [run EXCEPT !.scan = @ \ {f}]
      /\ faults' = faults + 1
      /\ UNCHANGED <<phase, active, draining, disk, backup, texts, first, raced, spoiled>>
  BY DEF Unreadable, lingarr, files, history
<1>2. run \in RunState /\ run.file = None
  BY <1>1 DEF IInv, TypeOK, InHand
<1>3. run' \in RunState /\ run'.file = None /\ run'.todo = run.todo
  BY <1>1, <1>2 DEF RunState
<1>4. TypeOK'
  BY <1>1, <1>3 DEF IInv, TypeOK
<1>5. InHand' /\ PlanInv'
  BY <1>1, <1>3 DEF IInv, InHand, PlanInv
<1>6. CopyInv' /\ OriginalKept'
  BY <1>1 DEF IInv, CopyInv, OriginalKept
<1> QED
  BY <1>4, <1>5, <1>6 DEF IInv

LEMMA AskInv == ASSUME IInv, AskLingarr PROVE IInv'
<1>1. CASE run' = Idle
  BY <1>1, IdleType, RunStops DEF AskLingarr, IInv, TypeOK
<1>2. CASE run' = [run EXCEPT !.pc = "write"]
  <2>1. run.file = None /\ run \in RunState
    BY DEF AskLingarr, IInv, InHand, TypeOK
  <2>2. run' \in RunState /\ run'.file = None /\ run'.todo = run.todo
    BY <1>2, <2>1 DEF RunState
  <2>3. UNCHANGED <<phase, active, draining, disk, backup, texts, faults, first, raced, spoiled>>
    BY DEF AskLingarr, lingarr, files, history
  <2>4. TypeOK'
    BY <2>2, <2>3 DEF IInv, TypeOK
  <2>5. InHand' /\ PlanInv' /\ CopyInv' /\ OriginalKept'
    BY <2>2, <2>3 DEF IInv, InHand, PlanInv, CopyInv, OriginalKept
  <2> QED
    BY <2>4, <2>5 DEF IInv
<1> QED
  BY <1>1, <1>2 DEF AskLingarr

\* A copy is made of the file as it is, and only where there was none.
LEMMA BackUpInv == ASSUME IInv, NEW f \in Files, BackUp(f) PROVE IInv'
<1> USE DedupeAssumption
<1>1. /\ run.pc = "write" /\ run.todo[f] # None
      /\ UNCHANGED <<phase, active, draining, disk, texts, faults, first, raced, spoiled>>
  BY DEF BackUp, lingarr, history, Planned
<1>2. CASE backup[f] = None /\ disk[f] = None
  BY <1>1, <1>2, IdleType, RunStops DEF BackUp, IInv, TypeOK, lingarr, files, history
<1>3. CASE backup[f] # None \/ disk[f] # None
  <2>1. /\ backup' = IF backup[f] # None THEN backup ELSE [backup EXCEPT ![f] = disk[f]]
        /\ run' = [run EXCEPT !.file = f]
    BY <1>3 DEF BackUp
  <2>2. backup'[f] # None
    BY <1>3, <2>1 DEF IInv, TypeOK
  <2>3. run' \in RunState /\ run'.pc = "write" /\ run'.file = f /\ run'.todo = run.todo
    BY <1>1, <2>1 DEF IInv, TypeOK, RunState
  <2>4. TypeOK'
    BY <1>1, <2>1, <2>3 DEF IInv, TypeOK, Planned
  <2>5. InHand'
    BY <2>2, <2>3 DEF InHand
  <2>6. PlanInv'
    BY <1>1, <2>3 DEF IInv, PlanInv
  <2>7. CopyInv'
    BY <1>1, <2>1 DEF IInv, CopyInv, TypeOK
  <2>8. OriginalKept'
    BY <1>1, <2>1 DEF IInv, OriginalKept, TypeOK
  <2> QED
    BY <2>4, <2>5, <2>6, <2>7, <2>8 DEF IInv
<1> QED
  BY <1>2, <1>3

\* A rewrite finds the copy of what it replaces.
LEMMA ReplaceInv == ASSUME IInv, NEW f \in Files, Replace(f) PROVE IInv'
<1> USE DedupeAssumption
<1>1. /\ run.pc = "write" /\ run.file = f
      /\ disk' = [disk EXCEPT ![f] = run.todo[f]]
      /\ first' = [first EXCEPT ![f] = IF @ = None THEN disk[f] ELSE @]
      /\ run' = [run EXCEPT !.file = None, !.todo[f] = None]
      /\ UNCHANGED <<phase, active, draining, backup, texts, faults, raced, spoiled>>
  BY DEF Replace, lingarr
<1>2. f # None /\ backup[f] # None /\ run.todo[f] # None
  <2>1. f # None
    BY DedupeAssumption
  <2> QED
    BY <1>1, <2>1 DEF IInv, InHand, TypeOK, Planned
<1>3. /\ run' \in RunState /\ run'.file = None
      /\ \A g \in Files : run'.todo[g] = IF g = f THEN None ELSE run.todo[g]
  BY <1>1 DEF IInv, TypeOK, RunState
<1>4. TypeOK'
  BY <1>1, <1>2, <1>3 DEF IInv, TypeOK, RunState
<1>5. InHand' /\ PlanInv'
  BY <1>1, <1>3 DEF IInv, InHand, PlanInv, TypeOK
<1>6. CopyInv'
  BY <1>1, <1>2 DEF IInv, CopyInv, TypeOK
<1>7. OriginalKept'
  BY <1>1, <1>2 DEF IInv, CopyInv, OriginalKept, TypeOK
<1> QED
  BY <1>4, <1>5, <1>6, <1>7 DEF IInv

LEMMA EndInv == ASSUME IInv, End PROVE IInv'
BY IdleType, RunStops DEF End, IInv, TypeOK

\* A copy cut short spoils its file.
LEMMA DieInv == ASSUME IInv, Die PROVE IInv'
<1> USE DedupeAssumption
<1>1. run' = Idle /\ faults' \in Nat
      /\ UNCHANGED <<phase, active, draining, disk, texts, first, raced>>
  BY DEF Die, lingarr, IInv, TypeOK
<1>2. CASE UNCHANGED <<backup, spoiled>>
  BY <1>1, <1>2, IdleType, RunStops DEF lingarr, files, history
<1>3. ASSUME NEW f \in Files, backup[f] = None, backup' = [backup EXCEPT ![f] = Torn],
             spoiled' = spoiled \union {f}
      PROVE  IInv'
  <2>1. TypeOK'
    BY <1>1, <1>3, IdleType DEF IInv, TypeOK
  <2>2. InHand' /\ PlanInv'
    BY <1>1, IdleType DEF InHand, PlanInv, Nothing
  <2>3. CopyInv' /\ OriginalKept'
    BY <1>1, <1>3 DEF IInv, CopyInv, OriginalKept, TypeOK
  <2> QED
    BY <2>1, <2>2, <2>3 DEF IInv
<1> QED
  BY <1>2, <1>3 DEF Die, Planned

LEMMA ClockInv == ASSUME IInv, Clock PROVE IInv'
<1>1. CASE PauseBegins
  BY <1>1, Frame DEF PauseBegins, files, history, IInv, TypeOK
<1>2. CASE SlotBegins
  <2>1. UNCHANGED <<active, draining, disk, backup, texts, faults, first, raced, spoiled>>
        /\ phase' = "slot"
    BY <1>2 DEF SlotBegins, lingarr, files, history
  <2>2. CASE run.pc # "idle"
    <3>1. run' = run
      BY <1>2, <2>2 DEF SlotBegins
    <3> QED
      BY <2>1, <3>1, Frame DEF IInv, TypeOK
  <2>3. CASE run.pc = "idle"
    <3>1. run' = [Idle EXCEPT !.pc = "scan", !.scan = Files]
      BY <1>2, <2>3 DEF SlotBegins
    <3>2. run' \in RunState /\ run'.file = None /\ run'.todo = Nothing
      BY <3>1, IdleType DEF RunState
    <3>3. TypeOK'
      BY <2>1, <3>2 DEF IInv, TypeOK
    <3>4. InHand' /\ PlanInv'
      BY <3>2 DEF InHand, PlanInv, Nothing
    <3>5. CopyInv' /\ OriginalKept'
      BY <2>1 DEF IInv, CopyInv, OriginalKept
    <3> QED
      BY <3>3, <3>4, <3>5 DEF IInv
  <2> QED
    BY <2>2, <2>3
<1>3. CASE PauseEnds
  BY <1>3, Frame DEF PauseEnds, lingarr, files, history, IInv, TypeOK
<1> QED
  BY <1>1, <1>2, <1>3 DEF Clock

\* Requests come and go without touching a file.
LEMMA LingarrInv == ASSUME IInv, NEW f \in Files, Request(f) \/ Finish(f) PROVE IInv'
BY Frame DEF Request, Finish, files, history, IInv, TypeOK

LEMMA StepInv == IInv /\ [Next]_vars => IInv'
<1> SUFFICES ASSUME IInv, [Next]_vars PROVE IInv'
  OBVIOUS
<1>1. CASE Dedupe
  BY <1>1, PlanStep, BackUpInv, ReplaceInv, AskInv, EndInv DEF Dedupe, FileStep
<1>2. CASE Clock
  BY <1>2, ClockInv
<1>3. CASE Translation \/ Requests
  BY <1>3, LingarrInv DEF Translation, Requests
<1>4. CASE Disturbance
  BY <1>4, DieInv, UnreadableInv, DownloadInv, DeleteInv DEF Disturbance
<1>5. CASE UNCHANGED vars
  BY <1>5, Frame DEF vars, lingarr, files, history, IInv, TypeOK
<1> QED
  BY <1>1, <1>2, <1>3, <1>4, <1>5 DEF Next, Calm

LEMMA Inductive == Spec => []IInv
BY InitInv, StepInv, PTL DEF Spec

\* Every variable keeps its type; in particular no subtitle is ever cut short, wherever
\* a run dies.
THEOREM TypeCorrect == Spec => []TypeOK
<1>1. IInv => TypeOK
  BY DEF IInv
<1> QED
  BY <1>1, Inductive, PTL

\* What the first rewrite of a file replaced is in --backup-dir, unless it was spoiled.
THEOREM Originals == Spec => []OriginalKept
<1>1. IInv => OriginalKept
  BY DEF IInv
<1> QED
  BY <1>1, Inductive, PTL

\* Only the rewrite changes a file, and only into what was planned.
LEMMA RewriteKeepsText ==
  ASSUME IInv, Dedupe
  PROVE  \A f \in Files : disk'[f] # disk[f] =>
            f \in raced \/ (disk[f] # None /\ disk'[f] = Merged(disk[f]))
<1>1. CASE disk' = disk
  BY <1>1
<1>2. ASSUME NEW f \in Files, Replace(f)
      PROVE  \A g \in Files : disk'[g] # disk[g] =>
                g \in raced \/ (disk[g] # None /\ disk'[g] = Merged(disk[g]))
  <2>1. disk' = [disk EXCEPT ![f] = run.todo[f]] /\ run.file = f
    BY <1>2 DEF Replace
  <2>2. f # None
    BY DedupeAssumption
  <2>3. run.todo[f] # None
    BY <2>1, <2>2 DEF IInv, TypeOK, Planned
  <2> QED
    BY <2>1, <2>3 DEF IInv, TypeOK, PlanInv
<1>3. CASE AskLingarr \/ End \/ \E f \in Files : Plan(f) \/ BackUp(f)
  <2>1. disk' = disk
    BY <1>3 DEF AskLingarr, End, Plan, BackUp, files
  <2> QED
    BY <2>1
<1> QED
  BY <1>2, <1>3 DEF Dedupe, FileStep

\* A rewrite keeps the text of the file it replaces, unless others changed the file.
THEOREM TextsKept == Spec => TextsSurvive
<1>1. IInv /\ [Next]_vars =>
        [Dedupe => \A f \in Files : disk'[f] # disk[f] =>
            f \in raced \/ (disk[f] # None /\ disk'[f] = Merged(disk[f]))]_vars
  BY RewriteKeepsText
<1> QED
  BY <1>1, Inductive, PTL DEF Spec, TextsSurvive
-----------------------------------------------------------------------------
(* Nothing starves the dedupe.  A run that is left alone meets no active    *)
(* translation (QuietInv), plans every dense file (Rids), ends (RunLeft),   *)
(* and no step but others' downloads makes a file dense.                    *)

DenseFiles == {f \in Files : disk[f] # None /\ disk[f].form = "dense"}

\* Requests that were active when the pause began drain; no other joins them.
QuietInv ==
    /\ phase = "pause" => active = draining
    /\ phase = "slot" => active = {}
    /\ run.pc = "scan" => phase = "slot"

\* What is planned is what a merge makes.
PlansMerged == \A f \in Files : run.todo[f] # None => run.todo[f].form = "merged"

\* A run that will leave no dense file.
Rids ==
    /\ run.pc # "idle" /\ (run.pc = "write" => run.scan = {})
    /\ DenseFiles \subseteq run.scan \union Planned
    /\ \A f \in Planned : disk[f] # None

\* The steps that are left to a run.
RunLeft ==
    CASE run.pc = "idle"  -> 0
      [] run.pc = "scan"  -> 3 * Cardinality(run.scan) + 2 * Cardinality(Planned) + 2
      [] run.pc = "write" -> 2 * Cardinality(Planned) + (IF run.file = None THEN 1 ELSE 0)

\* In every step: a run that begins will rid the files of dense ones; it stays so, unless it
\* is disturbed, until it ends and none is dense; its steps take it there; none adds to the
\* dense files, nor in the pause to what Lingarr has to drain, unless others disturb it.
RidsOfDense ==
    [][ /\ SlotBegins /\ run.pc = "idle" => Rids'
        /\ Calm /\ Rids => Rids' \/ (run'.pc = "idle" /\ DenseFiles' = {})
        /\ Dedupe => RunLeft' < RunLeft
        /\ Calm => DenseFiles' \subseteq DenseFiles
        /\ phase = "pause" => active' \subseteq active ]_vars

DInv == IInv /\ QuietInv /\ PlansMerged

LEMMA DInit == Init => DInv
<1> SUFFICES ASSUME Init PROVE DInv
  OBVIOUS
<1>1. QuietInv /\ PlansMerged
  BY IdleType DEF Init, QuietInv, PlansMerged, Nothing
<1> QED
  BY <1>1, InitInv DEF DInv

LEMMA QuietStep == ASSUME IInv, QuietInv, [Next]_vars PROVE QuietInv'
<1>0. draining \subseteq active
  BY DEF IInv, TypeOK
<1>1. CASE PauseBegins
  BY <1>1 DEF PauseBegins, files, QuietInv
<1>2. CASE SlotBegins
  <2>1. phase' = "slot" /\ active' = active /\ active = {}
    BY <1>2 DEF SlotBegins, lingarr, QuietInv
  <2> QED
    BY <2>1 DEF QuietInv
<1>3. CASE PauseEnds
  BY <1>3 DEF PauseEnds, lingarr, QuietInv
<1>4. ASSUME NEW f \in Files, Request(f) PROVE QuietInv'
  BY <1>4 DEF Request, QuietInv
<1>5. ASSUME NEW f \in Files, Finish(f) PROVE QuietInv'
  BY <1>5 DEF Finish, QuietInv
<1>6. ASSUME phase' = phase, active' = active, draining' = draining,
             run'.pc = "scan" => run.pc = "scan"
      PROVE  QuietInv'
  BY <1>6 DEF QuietInv
<1>7. ASSUME NEW f \in Files, Plan(f) \/ BackUp(f) \/ Replace(f) \/ Unreadable(f) PROVE QuietInv'
  <2>1. phase' = phase /\ active' = active /\ draining' = draining
    BY <1>7 DEF Plan, BackUp, Replace, Unreadable, lingarr
  <2>2. run'.pc = "scan" => run.pc = "scan"
    BY <1>7, IdleType DEF Plan, BackUp, Replace, Unreadable, IInv, TypeOK, RunState
  <2> QED
    BY <1>6, <2>1, <2>2
<1>8. CASE AskLingarr \/ End \/ Die
  <2>1. phase' = phase /\ active' = active /\ draining' = draining
    BY <1>8 DEF AskLingarr, End, Die, lingarr
  <2>2. run'.pc = "scan" => run.pc = "scan"
    BY <1>8, IdleType DEF AskLingarr, End, Die, IInv, TypeOK, RunState
  <2> QED
    BY <1>6, <2>1, <2>2
<1>9. ASSUME NEW f \in Files, Download(f) \/ Delete(f) PROVE QuietInv'
  <2>1. PICK c : Change(f, c)
    BY <1>9 DEF Download, Delete
  <2> QED
    BY <1>6, <2>1 DEF Change, lingarr
<1>10. CASE UNCHANGED vars
  BY <1>6, <1>10 DEF vars, lingarr
<1> QED
  BY <1>1, <1>2, <1>3, <1>4, <1>5, <1>7, <1>8, <1>9, <1>10
  DEF Next, Calm, Disturbance, Dedupe, FileStep, Clock, Translation, Requests

LEMMA PlansStep == ASSUME IInv, PlansMerged, [Next]_vars PROVE PlansMerged'
<1>1. ASSUME run'.todo = run.todo \/ run'.todo = Nothing PROVE PlansMerged'
  BY <1>1 DEF PlansMerged, Nothing
<1>2. ASSUME NEW f \in Files, Plan(f) PROVE PlansMerged'
  <2> DEFINE p == IF disk[f] # None /\ disk[f].form = "dense" THEN Merged(disk[f]) ELSE None
  <2>1. run'.todo = [run.todo EXCEPT ![f] = p]
    BY <1>2 DEF Plan, IInv, TypeOK, RunState
  <2>2. p # None => p.form = "merged"
    BY DEF Merged, IInv, TypeOK, Subtitle
  <2> HIDE DEF p
  <2>3. \A g \in Files : run'.todo[g] = IF g = f THEN p ELSE run.todo[g]
    BY <2>1 DEF IInv, TypeOK, RunState
  <2> QED
    BY <2>2, <2>3 DEF PlansMerged
<1>3. ASSUME NEW f \in Files, Replace(f) PROVE PlansMerged'
  <2>1. \A g \in Files : run'.todo[g] = IF g = f THEN None ELSE run.todo[g]
    BY <1>3 DEF Replace, IInv, TypeOK, RunState
  <2> QED
    BY <2>1 DEF PlansMerged
<1>4. ASSUME NEW f \in Files, BackUp(f) \/ Unreadable(f) PROVE PlansMerged'
  BY <1>1, <1>4, IdleType DEF BackUp, Unreadable, IInv, TypeOK, RunState
<1>5. CASE AskLingarr \/ End \/ Die \/ SlotBegins
  BY <1>1, <1>5, IdleType DEF AskLingarr, End, Die, SlotBegins, IInv, TypeOK, RunState
<1>6. CASE PauseBegins \/ PauseEnds \/ Translation \/ Requests \/ UNCHANGED vars
  BY <1>1, <1>6 DEF PauseBegins, PauseEnds, Translation, Requests, Finish, Request, vars
<1>7. ASSUME NEW f \in Files, Download(f) \/ Delete(f) PROVE PlansMerged'
  BY <1>1, <1>7 DEF Download, Delete, Change
<1> QED
  BY <1>2, <1>3, <1>4, <1>5, <1>6, <1>7
  DEF Next, Calm, Disturbance, Dedupe, FileStep, Clock

\* What a replaced file, or any other, is after the step.
LEMMA ReplaceIs ==
    ASSUME DInv, NEW f \in Files, Replace(f)
    PROVE  /\ disk'[f].form = "merged" /\ f \in Planned /\ Planned' = Planned \ {f}
           /\ \A g \in Files \ {f} : disk'[g] = disk[g]
           /\ DenseFiles' = DenseFiles \ {f}
           /\ run.pc = "write" /\ run.file # None
           /\ run'.pc = "write" /\ run'.scan = run.scan /\ run'.file = None
<1>1. f # None /\ run.todo[f] # None /\ run.file = f /\ run.pc = "write"
  <2>1. f # None /\ run.file = f /\ run.pc = "write"
    BY DedupeAssumption DEF Replace
  <2> QED
    BY <2>1 DEF DInv, IInv, TypeOK, Planned
<1>2. disk'[f] = run.todo[f] /\ \A g \in Files \ {f} : disk'[g] = disk[g]
  BY DEF Replace, DInv, IInv, TypeOK
<1>3. run.todo[f].form = "merged"
  BY <1>1 DEF DInv, PlansMerged
<1>4. \A g \in Files : run'.todo[g] = IF g = f THEN None ELSE run.todo[g]
  BY DEF Replace, DInv, IInv, TypeOK, RunState
<1>5. run'.pc = run.pc /\ run'.scan = run.scan /\ run'.file = None
  BY DEF Replace, DInv, IInv, TypeOK, RunState
<1> QED
  BY <1>1, <1>2, <1>3, <1>4, <1>5 DEF Planned, DenseFiles

\* What a planned file is after the step.
LEMMA PlanIs ==
    ASSUME DInv, NEW f \in Files, Plan(f)
    PROVE  /\ Planned' = IF f \in DenseFiles THEN Planned \union {f} ELSE Planned \ {f}
           /\ disk' = disk /\ DenseFiles' = DenseFiles
           /\ run.pc = "scan" /\ f \in run.scan
           /\ run'.pc = "scan" /\ run'.scan = run.scan \ {f}
<1> DEFINE p == IF disk[f] # None /\ disk[f].form = "dense" THEN Merged(disk[f]) ELSE None
<1>1. disk' = disk /\ run.pc = "scan" /\ f \in run.scan
      /\ run' = [run EXCEPT !.scan = @ \ {f}, !.todo[f] = p]
  BY DEF Plan, files
<1>2. p # None <=> f \in DenseFiles
  BY MergedType, DedupeAssumption DEF DenseFiles, DInv, IInv, TypeOK
<1> HIDE DEF p
<1>3. /\ run'.pc = "scan" /\ run'.scan = run.scan \ {f}
      /\ \A g \in Files : run'.todo[g] = IF g = f THEN p ELSE run.todo[g]
  BY <1>1 DEF DInv, IInv, TypeOK, RunState
<1>4. Planned' = IF f \in DenseFiles THEN Planned \union {f} ELSE Planned \ {f}
  BY <1>2, <1>3 DEF Planned
<1> QED
  BY <1>1, <1>3, <1>4 DEF DenseFiles

LEMMA BeginRids == ASSUME DInv, SlotBegins, run.pc = "idle" PROVE Rids'
<1>1. run' = [Idle EXCEPT !.pc = "scan", !.scan = Files] /\ disk' = disk
  BY DEF SlotBegins, files
<1>2. run'.pc = "scan" /\ run'.scan = Files /\ run'.todo = Nothing
  BY <1>1 DEF Idle
<1>3. Planned' = {}
  BY <1>2 DEF Planned, Nothing
<1> QED
  BY <1>2, <1>3 DEF Rids, DenseFiles

LEMMA RidsStep == ASSUME DInv, Calm, Rids PROVE Rids' \/ (run'.pc = "idle" /\ DenseFiles' = {})
<1>1. ASSUME NEW f \in Files, Plan(f) PROVE Rids'
  BY <1>1, PlanIs DEF Rids, DenseFiles
<1>2. ASSUME NEW f \in Files, BackUp(f) PROVE Rids'
  <2>1. disk[f] # None /\ disk' = disk
    BY <1>2 DEF BackUp, Rids, lingarr
  <2>2. run' = [run EXCEPT !.file = f]
    BY <1>2, <2>1 DEF BackUp
  <2>3. run'.pc = run.pc /\ run'.scan = run.scan /\ run'.todo = run.todo
    BY <2>2 DEF DInv, IInv, TypeOK, RunState
  <2> QED
    BY <2>1, <2>3 DEF Rids, DenseFiles, Planned
<1>3. ASSUME NEW f \in Files, Replace(f) PROVE Rids'
  <2>1. /\ Planned' = Planned \ {f} /\ DenseFiles' = DenseFiles \ {f}
        /\ run'.pc = "write" /\ run'.scan = {} /\ run.scan = {}
    BY <1>3, ReplaceIs DEF Rids
  <2>2. DenseFiles' \subseteq Planned'
    BY <2>1 DEF Rids
  <2>3. \A g \in Planned' : g \in Files \ {f} /\ disk[g] # None
    BY <2>1 DEF Rids, Planned
  <2>4. \A g \in Planned' : disk'[g] # None
    BY <1>3, <2>3, ReplaceIs
  <2> QED
    BY <2>1, <2>2, <2>4 DEF Rids
<1>4. CASE AskLingarr
  <2>1. active = {} /\ run.scan = {} /\ disk' = disk /\ run.pc = "scan"
    BY <1>4 DEF AskLingarr, DInv, QuietInv, files
  <2>2. CASE Planned = {}
    BY <1>4, <2>1, <2>2, IdleType DEF AskLingarr, Rids, DenseFiles
  <2>3. CASE Planned # {}
    <3>1. run' = [run EXCEPT !.pc = "write"]
      BY <1>4, <2>1, <2>3 DEF AskLingarr
    <3>2. run'.pc = "write" /\ run'.scan = run.scan /\ run'.todo = run.todo
      BY <3>1 DEF DInv, IInv, TypeOK, RunState
    <3> QED
      BY <2>1, <3>2 DEF Rids, DenseFiles, Planned
  <2> QED
    BY <2>2, <2>3
<1>5. CASE End
  BY <1>5, IdleType DEF End, Rids, DenseFiles, files
<1>6. CASE Clock \/ Translation \/ Requests
  <2>1. run' = run /\ disk' = disk
    BY <1>6 DEF Clock, Translation, Requests, PauseBegins, SlotBegins, PauseEnds, Finish,
       Request, files, Rids
  <2> QED
    BY <2>1 DEF Rids, DenseFiles, Planned
<1> QED
  BY <1>1, <1>2, <1>3, <1>4, <1>5, <1>6 DEF Calm, Dedupe, FileStep

LEMMA DenseStep == ASSUME DInv, Calm PROVE DenseFiles' \subseteq DenseFiles
<1>1. ASSUME NEW f \in Files, Replace(f) PROVE DenseFiles' \subseteq DenseFiles
  BY <1>1, ReplaceIs
<1>2. CASE ~\E f \in Files : Replace(f)
  <2>1. disk' = disk
    BY <1>2 DEF Calm, Dedupe, FileStep, Clock, Translation, Requests, Plan, BackUp, AskLingarr,
       End, PauseBegins, SlotBegins, PauseEnds, Finish, Request, files
  <2> QED
    BY <2>1 DEF DenseFiles
<1> QED
  BY <1>1, <1>2

LEMMA PauseDrains == ASSUME DInv, [Next]_vars, phase = "pause" PROVE active' \subseteq active
<1>1. ASSUME NEW f \in Files, Download(f) \/ Delete(f) PROVE active' = active
  <2>1. PICK c : Change(f, c)
    BY <1>1 DEF Download, Delete
  <2> QED
    BY <2>1 DEF Change, lingarr
<1>2. CASE Die \/ \E f \in Files : Unreadable(f)
  BY <1>2 DEF Die, Unreadable, lingarr
<1>3. CASE Calm
  BY <1>3 DEF Calm, Dedupe, FileStep, Clock, Translation, Requests, Plan, BackUp, Replace,
     AskLingarr, End, PauseBegins, SlotBegins, PauseEnds, Finish, Request, lingarr
<1>4. CASE UNCHANGED vars
  BY <1>4 DEF vars, lingarr
<1> QED
  BY <1>1, <1>2, <1>3, <1>4 DEF Next, Disturbance

LEMMA LeftIs ==
    ASSUME IsFiniteSet(Files), DInv
    PROVE  /\ IsFiniteSet(run.scan) /\ IsFiniteSet(Planned)
           /\ Cardinality(run.scan) \in Nat /\ Cardinality(Planned) \in Nat
<1>1. run.scan \subseteq Files /\ Planned \subseteq Files
  BY DEF DInv, IInv, TypeOK, RunState, Planned
<1>2. IsFiniteSet(run.scan) /\ IsFiniteSet(Planned)
  BY <1>1, FS_Subset
<1> QED
  BY <1>2, FS_CardinalityType

LEMMA LeftStep == ASSUME IsFiniteSet(Files), DInv, Dedupe PROVE RunLeft' < RunLeft
<1> DEFINE s == Cardinality(run.scan)
           p == Cardinality(Planned)
           q == Cardinality(Planned')
           now == RunLeft
           next == RunLeft'
<1>0. s \in Nat /\ p \in Nat /\ IsFiniteSet(run.scan) /\ IsFiniteSet(Planned)
  BY LeftIs
<1>a. run.pc = "scan" => now = 3 * s + 2 * p + 2
  BY DEF RunLeft
<1>b. run.pc = "write" => now = 2 * p + (IF run.file = None THEN 1 ELSE 0)
  BY DEF RunLeft
<1>c. run'.pc = "scan" => next = 3 * Cardinality(run'.scan) + 2 * q + 2
  BY DEF RunLeft
<1>d. run'.pc = "write" => next = 2 * q + (IF run'.file = None THEN 1 ELSE 0)
  BY DEF RunLeft
<1>e. run'.pc = "idle" => next = 0
  BY DEF RunLeft
<1> SUFFICES next < now
  OBVIOUS
<1>1. ASSUME NEW f \in Files, Plan(f) PROVE next < now
  <2>1. Cardinality(run'.scan) = s - 1
    BY <1>0, <1>1, PlanIs, FS_RemoveElement
  <2>2. q \in Nat /\ q <= p + 1
    <3>1. CASE Planned' = Planned \union {f}
      <4>1. q \in {p, p + 1}
        BY <1>0, <3>1, FS_AddElement
      <4> HIDE DEF q, p
      <4> QED
        BY <1>0, <4>1
    <3>2. CASE Planned' = Planned \ {f}
      <4>1. IsFiniteSet(Planned \ {f}) /\ q \in {p, p - 1}
        BY <1>0, <3>2, FS_RemoveElement
      <4>2. q \in Nat
        BY <3>2, <4>1, FS_CardinalityType
      <4> HIDE DEF q, p
      <4> QED
        BY <1>0, <4>1, <4>2
    <3> QED
      BY <1>1, <3>1, <3>2, PlanIs
  <2>3. now = 3 * s + 2 * p + 2 /\ next = 3 * (s - 1) + 2 * q + 2
    BY <1>1, <1>a, <1>c, <2>1, PlanIs
  <2> HIDE DEF q, s, p, now, next
  <2> QED
    BY <1>0, <2>2, <2>3
<1>2. ASSUME NEW f \in Files, Replace(f) PROVE next < now
  <2>1. q = p - 1
    BY <1>0, <1>2, ReplaceIs, FS_RemoveElement
  <2>2. next = 2 * q + 1 /\ now = 2 * p + 0
    BY <1>2, <1>b, <1>d, ReplaceIs
  <2> HIDE DEF p, q, now, next
  <2> QED
    BY <1>0, <2>1, <2>2
<1>3. ASSUME run.pc # "idle", run' = Idle, run.pc = "write" => run.file = None PROVE next < now
  <2>1. next = 0
    BY <1>3, <1>e, IdleType
  <2>2. run.pc \in {"scan", "write"}
    BY <1>3 DEF DInv, IInv, TypeOK, RunState
  <2>3. now \in {3 * s + 2 * p + 2, 2 * p + 1}
    BY <1>3, <1>a, <1>b, <2>2
  <2> HIDE DEF s, p, now, next
  <2> QED
    BY <1>0, <2>1, <2>3
<1>4. ASSUME NEW f \in Files, BackUp(f) PROVE next < now
  <2>1. CASE run' = Idle
    BY <1>3, <1>4, <2>1 DEF BackUp
  <2>2. CASE run' = [run EXCEPT !.file = f]
    <3>1. run'.pc = "write" /\ run'.todo = run.todo /\ run'.file = f /\ f # None
      BY <1>4, <2>2, DedupeAssumption DEF BackUp, DInv, IInv, TypeOK, RunState
    <3>2. q = p
      BY <3>1 DEF Planned
    <3>3. next = 2 * q + 0 /\ now = 2 * p + 1
      BY <1>4, <1>b, <1>d, <3>1 DEF BackUp
    <3> HIDE DEF p, q, now, next
    <3> QED
      BY <1>0, <3>2, <3>3
  <2> QED
    BY <1>4, <2>1, <2>2 DEF BackUp
<1>5. CASE AskLingarr
  <2>1. CASE run' = Idle
    BY <1>3, <1>5, <2>1 DEF AskLingarr
  <2>2. CASE run' = [run EXCEPT !.pc = "write"]
    <3>1. run'.pc = "write" /\ run'.todo = run.todo /\ run'.file = None
      BY <1>5, <2>2 DEF AskLingarr, DInv, IInv, InHand, TypeOK, RunState
    <3>2. q = p
      BY <3>1 DEF Planned
    <3>3. next = 2 * q + 1 /\ now = 3 * s + 2 * p + 2
      BY <1>5, <1>a, <1>d, <3>1 DEF AskLingarr
    <3> HIDE DEF s, p, q, now, next
    <3> QED
      BY <1>0, <3>2, <3>3
  <2> QED
    BY <1>5, <2>1, <2>2 DEF AskLingarr
<1>6. CASE End
  <2>1. run.file = None
    BY <1>6 DEF End, DInv, IInv, TypeOK
  <2> QED
    BY <1>3, <1>6, <2>1 DEF End
<1> QED
  BY <1>1, <1>2, <1>4, <1>5, <1>6 DEF Dedupe, FileStep

\* For any files that others download, delete or have translated: every run that is left
\* alone ends, is never refused by Lingarr, and leaves no dense file; and no dense file
\* comes but from others (quota-topup.py:32-36, 97-99, srt-dedupe.py:144-147).
THEOREM NotStarved == ASSUME IsFiniteSet(Files) PROVE Spec => RidsOfDense
<1>1. Init => DInv
  BY DInit
<1>2. DInv /\ [Next]_vars => DInv'
  BY StepInv, QuietStep, PlansStep DEF DInv
<1>3. DInv /\ [Next]_vars =>
        [/\ SlotBegins /\ run.pc = "idle" => Rids'
         /\ Calm /\ Rids => Rids' \/ (run'.pc = "idle" /\ DenseFiles' = {})
         /\ Dedupe => RunLeft' < RunLeft
         /\ Calm => DenseFiles' \subseteq DenseFiles
         /\ phase = "pause" => active' \subseteq active]_vars
  BY BeginRids, RidsStep, LeftStep, DenseStep, PauseDrains
<1> QED
  BY <1>1, <1>2, <1>3, PTL DEF Spec, RidsOfDense
=============================================================================
