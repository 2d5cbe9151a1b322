------------------------------ MODULE CueMerge ------------------------------
(***************************************************************************)
(* What srt-dedupe.py does with one file, run after run: parse() takes the *)
(* cues out of the blocks, dedupe() merges the cues of one text that touch *)
(* into runs, and plan() decides whether the runs are worth a rewrite.     *)
(* SubtitleDedupe has the same runs beside the programs that share the     *)
(* files; this module is why a merged file is left alone there.            *)
(*                                                                         *)
(* A cue is [start, end, body], in milliseconds.  Nothing orders start and *)
(* end: a file may have them the wrong way round.                          *)
(***************************************************************************)
EXTENDS Integers, Sequences, FiniteSets

CONSTANTS
    Clocks,       \* times as files have them: <<hours, minutes, seconds, milliseconds>>
    Bodies,       \* what a cue shows
    Blank,        \* the bodies of white space only
    Key,          \* Key[b]: b without tags, runs of white space and case
    Other,        \* a block without times in its first two lines
    Gap,          \* GAP_MS
    MinCues,      \* the least number of cues of a file worth a look
    MinRate,      \* --min-rate, cues per minute
    MinReduction, \* --min-reduction, in percent
    MaxBlocks     \* bound: the blocks of a file

Minute == 60000
ClockTime == Nat \X Nat \X Nat \X Nat
Texts == {Key[b] : b \in Bodies}

ASSUME CueAssumption ==
    /\ Clocks \subseteq ClockTime
    /\ Blank \subseteq Bodies /\ DOMAIN Key = Bodies
    /\ Gap \in Nat /\ MinRate \in Nat
    /\ MinCues \in Nat \ {0} /\ MinReduction \in Nat \ {0}

Stamped == [from : ClockTime, to : ClockTime, body : Bodies]
Cue == [start : Nat, end : Nat, body : Bodies]

ASSUME OtherAssumption == Other \notin Stamped

VARIABLES
    file,      \* the blocks of the file
    pc,        \* read, merge: where the run is
    rest,      \* positions of the cues that dedupe() has yet to see
    runs,      \* `runs`
    open,      \* `open_runs`: open[k] is the place of its run in runs, 0 for none
    rewritten  \* history: has a run rewritten the file?

cueVars == <<file, pc, rest, runs, open, rewritten>>
-----------------------------------------------------------------------------
(* Times and cues.                                                          *)

Ms(c) == ((c[1] * 60 + c[2]) * 60 + c[3]) * 1000 + c[4]

Fmt(t) == <<t \div 3600000, (t % 3600000) \div Minute, (t % Minute) \div 1000, t % 1000>>

\* parse(): the blocks with times and something to show are the cues.
IsCue(block) == block # Other /\ block.body \notin Blank
Positions(blocks) == {i \in DOMAIN blocks : IsCue(blocks[i])}
CueAt(block) == [start |-> Ms(block.from), end |-> Ms(block.to), body |-> block.body]
Cues(blocks) == {CueAt(blocks[i]) : i \in Positions(blocks)}
TextOf(cue) == Key[cue.body]

\* render(): the index of a cue is its place.
Block(cue) == [from |-> Fmt(cue.start), to |-> Fmt(cue.end), body |-> cue.body]

\* sorted() by start, then end; it is stable.
Earlier(s, i, j) ==
    \/ s[i].start < s[j].start
    \/ s[i].start = s[j].start /\ s[i].end < s[j].end
    \/ s[i].start = s[j].start /\ s[i].end = s[j].end /\ i < j

Parsed(blocks) == [i \in Positions(blocks) |-> CueAt(blocks[i])]

\* The orders that sorted() may return; there is one.
Orders(s) ==
    {p \in [DOMAIN s -> DOMAIN s] : \A i, j \in DOMAIN s : i < j => Earlier(s, p[i], p[j])}
-----------------------------------------------------------------------------
(* A run.                                                                   *)

Closed == [k \in Texts |-> 0]

CueInit ==
    /\ \E n \in 0..MaxBlocks :
          file \in [1..n -> {Other} \union [from : Clocks, to : Clocks, body : Bodies]]
    /\ pc = "read" /\ rest = {} /\ runs = <<>> /\ open = Closed
    /\ rewritten = FALSE

\* Cues per minute up to the last end; less than a minute counts as one.
Dense ==
    LET n == Cardinality(Positions(file))
    IN /\ n >= MinRate
       /\ \A c \in Cues(file) : n * Minute >= MinRate * c.end

Read ==
    /\ pc = "read"
    /\ Cardinality(Positions(file)) >= MinCues /\ Dense
    /\ pc' = "merge" /\ rest' = Positions(file)
    /\ UNCHANGED <<file, runs, open, rewritten>>

\* A file that is not worth a look is left alone.
Skip ==
    /\ pc = "read"
    /\ ~(Cardinality(Positions(file)) >= MinCues /\ Dense)
    /\ UNCHANGED cueVars

\* MUTANT: a text has one run.
TouchesAny(run, cue) == TRUE

Touches(run, cue) == cue.start <= run.end + Gap

\* MUTANT: the cues are taken as the file has them.
NextInFile(i) == \A j \in rest \ {i} : i < j

\* The cue that comes next.
NextUp(i) == \A j \in rest \ {i} : Earlier(Parsed(file), i, j)

\* MUTANT: the end of the last cue is the end of the run.
LastEnd(a, b) == b

Later(a, b) == IF a < b THEN b ELSE a

OpenAt(k) == [open EXCEPT ![k] = Len(runs) + 1]

Merge(i) ==
    LET cue == CueAt(file[i])
        k == TextOf(cue)
    IN /\ pc = "merge" /\ i \in rest /\ NextUp(i)
       /\ rest' = rest \ {i}
       /\ IF open[k] # 0 /\ Touches(runs[open[k]], cue)
          THEN /\ runs' = [runs EXCEPT ![open[k]].end = Later(@, cue.end)]
               /\ open' = open
          ELSE /\ runs' = Append(runs, cue)
               /\ open' = OpenAt(k)
       /\ UNCHANGED <<file, pc, rewritten>>

\* Enough was merged, and what was rendered has the same cues and texts.
Worth(out) ==
    LET n == Cardinality(Positions(file))
    IN /\ 100 * (n - Len(runs)) >= MinReduction * n
       /\ Cardinality(Positions(out)) = Len(runs)
       /\ {TextOf(c) : c \in Cues(out)} = {TextOf(c) : c \in Cues(file)}

Decide ==
    /\ pc = "merge" /\ rest = {}
    /\ \E p \in Orders(runs) :
          LET out == [i \in DOMAIN runs |-> Block(runs[p[i]])]
          IN IF Worth(out) THEN file' = out /\ rewritten' = TRUE
                           ELSE UNCHANGED <<file, rewritten>>
    /\ pc' = "read" /\ rest' = {} /\ runs' = <<>> /\ open' = Closed

CueNext == Read \/ Skip \/ Decide \/ \E i \in rest : Merge(i)

CueSpec == CueInit /\ [][CueNext]_cueVars
-----------------------------------------------------------------------------
(* Properties.                                                              *)

CueTypeOK ==
    /\ file \in Seq({Other} \union Stamped)
    /\ pc \in {"read", "merge"}
    /\ rest \subseteq Positions(file)
    /\ runs \in Seq(Cue)
    /\ open \in [Texts -> 0..Len(runs)]
    /\ \A k \in Texts : open[k] # 0 => TextOf(runs[open[k]]) = k
    /\ rewritten \in BOOLEAN

\* A rewrite takes nothing from the screen: every cue is inside one that is written, of
\* the same text (srt-dedupe.py:8-10, 65-76).
KeepsEveryCue ==
    [][file' # file => \A c \in Cues(file) : \E r \in Cues(file') :
            TextOf(r) = TextOf(c) /\ r.start <= c.start /\ c.end <= r.end]_cueVars

\* And it puts nothing on the screen: whenever a cue that is written shows, a cue of the
\* same text did, or had for at most Gap (srt-dedupe.py:8-10, 65-76).
AddsNoTime ==
    [][file' # file => \A r \in Cues(file') : \A t \in r.start..r.end : \E c \in Cues(file) :
            TextOf(c) = TextOf(r) /\ c.start <= t /\ t <= c.end + Gap]_cueVars

\* A file that was rewritten is left alone by every later run (srt-dedupe.py:12-14).
LeftAlone == [][rewritten => file' = file]_cueVars
=============================================================================
