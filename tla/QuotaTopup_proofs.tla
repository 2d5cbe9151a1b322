--------------------------- MODULE QuotaTopup_proofs ---------------------------
(***************************************************************************)
(* Theorems about QuotaTopup.  Fits and Shallow count the runs that a tick *)
(* has decided on and not started yet with the ones it has; SeenInv and    *)
(* TickInv bound how far a sample, and what a tick has read, are behind.   *)
(* Room is what a tick has left to give, and it gives all of it.           *)
(***************************************************************************)
EXTENDS QuotaTopup, TLAPS
-----------------------------------------------------------------------------
(* Products.                                                                *)

\* A product grows with its first factor.
LEMMA ProductGrows ==
    ASSUME NEW a \in Int, NEW b \in Int, NEW c \in Nat, a <= b
    PROVE  a * c <= b * c
<1> DEFINE d == b - a
<1>1. d \in Nat
  OBVIOUS
<1>2. d * c \in Nat
  BY <1>1
<1> HIDE DEF d
<1>3. b = a + d
  BY DEF d
<1>4. b * c = a * c + d * c
  BY <1>1, <1>3
<1> QED
  BY <1>2, <1>4

\* And with its second, if the first is not negative.
LEMMA ProductGrowsRight ==
    ASSUME NEW a \in Nat, NEW b \in Nat, NEW c \in Nat, b <= c
    PROVE  a * b <= a * c
<1>1. b * a <= c * a
  BY ProductGrows
<1>2. b * a = a * b /\ c * a = a * c
  OBVIOUS
<1> QED
  BY <1>1, <1>2

\* What fits still fits when there is less of it and more room.
LEMMA StillFits ==
    ASSUME NEW a \in Int, NEW b \in Int, NEW c \in Nat, NEW x \in Nat, NEW y \in Nat,
           a <= b, b * c <= x, x <= y
    PROVE  a * c <= y
<1>1. a * c <= b * c
  BY ProductGrows
<1>2. a * c \in Int /\ b * c \in Int
  OBVIOUS
<1> QED
  BY <1>1, <1>2

LEMMA OneLess ==
    ASSUME NEW a \in Int, NEW c \in Int
    PROVE  (a - 1) * c = a * c - c
  OBVIOUS

LEMMA OneMore ==
    ASSUME NEW a \in Int, NEW c \in Int
    PROVE  (a + 1) * c = a * c + c
  OBVIOUS

\* A whole quotient.
LEMMA Quotient ==
    ASSUME NEW a \in Nat, NEW p \in Nat \ {0}
    PROVE  (a \div p) \in Nat /\ (a \div p) * p <= a
  OBVIOUS

\* What Items allows is paid for by what is left, however much was done since the sample.
LEMMA ItemsFit ==
    ASSUME NEW left \in Nat, NEW floor \in Nat, NEW pts \in Nat, NEW cost \in Nat \ {0},
           cost <= pts,
           NEW now \in Nat, NEW u \in Nat, left <= now + u * cost, u * cost <= floor,
           NEW n \in Nat, n <= Items(left, floor, pts)
    PROVE  n * cost <= now
<1>1. CASE left > floor
  <2> DEFINE q == (left - floor) \div pts
  <2>1. q \in Nat /\ q * pts <= left - floor
    BY <1>1, Quotient
  <2>2. n <= q
    BY <1>1 DEF Items
  <2> HIDE DEF q
  <2>3. n * cost <= q * cost
    BY <2>1, <2>2, ProductGrows
  <2>4. q * cost <= q * pts
    BY <2>1, ProductGrowsRight
  <2>5. n * cost \in Int /\ q * cost \in Int /\ q * pts \in Int /\ u * cost \in Int
    BY <2>1
  <2> QED
    BY <2>1, <2>3, <2>4, <2>5
<1>2. CASE ~(left > floor)
  <2>1. n = 0
    BY <1>2 DEF Items
  <2> QED
    BY <2>1
<1> QED
  BY <1>1, <1>2
-----------------------------------------------------------------------------
(* The invariant.                                                           *)

\* What there would be, had others spent nothing that the last tick to start runs did not see.
HadWindow == window + taken.window
HadWeek   == week + taken.week

\* What the tick counted and what became of it, its runs to come included.
Counted == queue + (pending + own + tick.left) * RunSize - hidden * RunSize

Fits == Counted * WindowCost <= HadWindow /\ Counted * WeekCost <= HadWeek

Shallow == Counted <= QueueTarget

\* A sample that is not too old is behind by what was done, and what others spent, since.
SeenInv ==
    unseen <= MaxUnseen =>
        /\ seen.window <= window + unseen * WindowCost + aside.window
        /\ seen.week <= week + unseen * WeekCost + aside.week

\* So is what a tick has read.
TickInv ==
    /\ tick.pc = "window" => unseen <= tick.unseen
    /\ Reading => tick.week <= week + tick.unseen * WeekCost + tick.aside.week
    /\ tick.pc = "count" => tick.window <= window + tick.unseen * WindowCost + tick.aside.window

IInv == TypeOK /\ Fits /\ Shallow /\ SeenInv /\ TickInv

LEMMA IdleType == Idle \in TickState /\ Idle.pc = "idle" /\ Idle.left = 0
  BY QuotaAssumption DEF Idle, TickState, Untouched, Spent

LEMMA InitInv == Init => IInv
<1> SUFFICES ASSUME Init PROVE IInv
  OBVIOUS
<1> USE QuotaAssumption
<1>1. TypeOK
  <2>1. tick \in TickState /\ (tick.pc = "start" <=> tick.left > 0)
    BY IdleType DEF Init
  <2>2. seen \in [window : 0..Window, week : 0..Week] /\ aside \in Spent /\ taken \in Spent
    BY DEF Init, Untouched, Spent
  <2>3. unseen \in 0..MaxUnseen + 1 /\ own \in 0..1 /\ faults \in 0..MaxFaults
    BY DEF Init
  <2> QED
    BY <2>1, <2>2, <2>3 DEF Init, TypeOK
<1>2. Counted = 0
  BY IdleType DEF Init, Counted
<1>3. Fits /\ Shallow
  <2>1. HadWindow \in Nat /\ HadWeek \in Nat
    BY <1>1 DEF TypeOK, Spent, HadWindow, HadWeek
  <2>2. 0 * WindowCost = 0 /\ 0 * WeekCost = 0
    OBVIOUS
  <2> QED
    BY <1>2, <2>1, <2>2 DEF Fits, Shallow
<1>4. SeenInv /\ TickInv
  <2>1. seen.window = window /\ seen.week = week /\ unseen = 0 /\ aside.window = 0
        /\ aside.week = 0 /\ window \in Nat /\ week \in Nat
    BY DEF Init, Untouched
  <2>2. SeenInv
    BY <2>1 DEF SeenInv
  <2> QED
    BY <2>2, IdleType DEF Init, TickInv, Reading
<1> QED
  BY <1>1, <1>3, <1>4 DEF IInv

\* The types that arithmetic needs.
LEMMA Numbers ==
    ASSUME TypeOK
    PROVE  /\ window \in Nat /\ week \in Nat /\ queue \in Nat /\ pending \in Nat /\ own \in Nat
           /\ unseen \in Nat /\ hidden \in Nat /\ Counted \in Int
           /\ tick.left \in Nat /\ tick.unseen \in Nat /\ tick.week \in Nat /\ tick.window \in Nat
           /\ tick.pc # "start" <=> tick.left = 0
           /\ seen.window \in Nat /\ seen.week \in Nat
           /\ aside.window \in Nat /\ aside.week \in Nat /\ taken.window \in Nat /\ taken.week \in Nat
           /\ tick.aside.window \in Nat /\ tick.aside.week \in Nat
           /\ HadWindow \in Nat /\ HadWeek \in Nat
           /\ tick.pc \in {"idle", "window", "count", "start"} /\ tick.unseen <= MaxUnseen
<1> USE QuotaAssumption DEF TypeOK, TickState
<1>1. window \in Nat /\ week \in Nat /\ queue \in Nat /\ pending \in Nat /\ own \in Nat
      /\ unseen \in Nat /\ hidden \in Nat
  OBVIOUS
<1>2. tick.left \in Nat /\ tick.unseen \in Nat /\ tick.week \in Nat /\ tick.window \in Nat
      /\ (tick.pc # "start" <=> tick.left = 0)
      /\ tick.pc \in {"idle", "window", "count", "start"} /\ tick.unseen <= MaxUnseen
  OBVIOUS
<1>3. Counted \in Int
  BY <1>1, <1>2 DEF Counted
<1>4. /\ aside.window \in Nat /\ aside.week \in Nat /\ taken.window \in Nat /\ taken.week \in Nat
      /\ tick.aside.window \in Nat /\ tick.aside.week \in Nat
  BY DEF Spent
<1>5. HadWindow \in Nat /\ HadWeek \in Nat
  BY <1>1, <1>4 DEF HadWindow, HadWeek
<1> QED
  BY <1>1, <1>2, <1>3, <1>4, <1>5

\* A step after which no more is counted and no quota is lost.
LEMMA Frame ==
    ASSUME IInv, TypeOK', Counted' <= Counted, window' >= window, week' >= week, taken' = taken
    PROVE  Fits' /\ Shallow'
<1>1. /\ Counted \in Int /\ HadWindow \in Nat /\ HadWeek \in Nat /\ Counted' \in Int
      /\ HadWindow' \in Nat /\ HadWeek' \in Nat /\ HadWindow <= HadWindow' /\ HadWeek <= HadWeek'
  <2>1. Counted \in Int /\ HadWindow \in Nat /\ HadWeek \in Nat
    BY Numbers DEF IInv
  <2>2. /\ HadWindow' \in Nat /\ HadWeek' \in Nat
        /\ HadWindow <= HadWindow' /\ HadWeek <= HadWeek'
    <3>1. /\ window \in Nat /\ week \in Nat /\ window' \in Nat /\ week' \in Nat
          /\ taken.window \in Nat /\ taken.week \in Nat
      BY Numbers DEF IInv, TypeOK
    <3> QED
      BY <3>1 DEF HadWindow, HadWeek
  <2>3. queue' \in Nat /\ pending' \in Nat /\ own' \in Nat /\ hidden' \in Nat /\ tick'.left \in Nat
    BY DEF TypeOK, TickState
  <2> QED
    BY <2>1, <2>2, <2>3, QuotaAssumption DEF Counted
<1>2. WindowCost \in Nat /\ WeekCost \in Nat
  BY QuotaAssumption
<1>3. Counted * WindowCost <= HadWindow /\ Counted * WeekCost <= HadWeek
  BY DEF IInv, Fits
<1>4. Counted' * WindowCost <= HadWindow'
  BY <1>1, <1>2, <1>3, StillFits
<1>5. Counted' * WeekCost <= HadWeek'
  BY <1>1, <1>2, <1>3, StillFits
<1>6. QueueTarget \in Nat
  BY QuotaAssumption
<1> QED
  BY <1>1, <1>4, <1>5, <1>6 DEF IInv, Fits, Shallow

\* What was sampled stays a bound when the quotas grow.
LEMMA FrameSeen ==
    ASSUME IInv, TypeOK', window' >= window, week' >= week,
           UNCHANGED <<seen, unseen, aside, tick>>
    PROVE  SeenInv' /\ TickInv'
<1> USE QuotaAssumption
<1>1. /\ window \in Nat /\ week \in Nat /\ window' \in Nat /\ week' \in Nat
      /\ unseen \in Nat /\ tick.unseen \in Nat /\ tick.week \in Nat /\ tick.window \in Nat
      /\ seen.window \in Nat /\ seen.week \in Nat /\ aside.window \in Nat /\ aside.week \in Nat
      /\ tick.aside.window \in Nat /\ tick.aside.week \in Nat
  BY Numbers DEF IInv, TypeOK
<1>2. /\ unseen * WindowCost \in Nat /\ unseen * WeekCost \in Nat
      /\ tick.unseen * WindowCost \in Nat /\ tick.unseen * WeekCost \in Nat
  BY <1>1
<1> QED
  BY <1>1, <1>2 DEF IInv, SeenInv, TickInv, Reading
-----------------------------------------------------------------------------
(* The actions.                                                             *)

\* A step of MiniMax, the clock or Lingarr that only adds quota and takes work.
LEMMA Outside ==
    ASSUME IInv, TypeOK', Counted' <= Counted, window' >= window, week' >= week,
           UNCHANGED <<seen, unseen, aside, tick, taken>>
    PROVE  IInv'
  BY Frame, FrameSeen DEF IInv

LEMMA WindowResetInv == IInv /\ WindowReset => IInv'
<1> SUFFICES ASSUME IInv, WindowReset PROVE IInv'
  OBVIOUS
<1>1. TypeOK'
  BY QuotaAssumption DEF IInv, TypeOK, WindowReset, sample, lingarr, job, history
<1>2. Counted' = Counted /\ Counted \in Int
  BY Numbers DEF IInv, WindowReset, lingarr, job, history, Counted
<1>3. window' >= window /\ week' >= week
  BY QuotaAssumption DEF IInv, TypeOK, WindowReset
<1> QED
  BY <1>1, <1>2, <1>3, Outside DEF WindowReset, sample, job, history

LEMMA TimeInv == IInv /\ Time => IInv'
<1> SUFFICES ASSUME IInv, Time PROVE IInv'
  OBVIOUS
<1>1. TypeOK'
  BY QuotaAssumption DEF IInv, TypeOK, Time, sample, lingarr, job, history
<1>2. Counted' = Counted /\ Counted \in Int
  BY Numbers DEF IInv, Time, lingarr, job, history, Counted
<1>3. window' >= window /\ week' >= week
  BY QuotaAssumption DEF IInv, TypeOK, Time
<1> QED
  BY <1>1, <1>2, <1>3, Outside DEF Time, sample, job, history

LEMMA CoolInv == IInv /\ Cool => IInv'
<1> SUFFICES ASSUME IInv, Cool PROVE IInv'
  OBVIOUS
<1>1. TypeOK'
  BY DEF IInv, TypeOK, Cool, quota, sample, job, history
<1>2. Counted' = Counted /\ Counted \in Int
  BY Numbers DEF IInv, Cool, job, history, Counted
<1>3. window' >= window /\ week' >= week
  BY DEF IInv, TypeOK, Cool, quota
<1> QED
  BY <1>1, <1>2, <1>3, Outside DEF Cool, sample, job, history

LEMMA GiveUpInv == IInv /\ GiveUp => IInv'
<1> SUFFICES ASSUME IInv, GiveUp PROVE IInv'
  OBVIOUS
<1>1. TypeOK'
  BY DEF IInv, TypeOK, GiveUp, quota, sample, job
<1>2. Counted' = Counted - 1 /\ Counted \in Int
  BY Numbers, QuotaAssumption DEF IInv, GiveUp, job, Counted
<1>3. window' >= window /\ week' >= week
  BY DEF IInv, TypeOK, GiveUp, quota
<1> QED
  BY <1>1, <1>2, <1>3, Outside DEF GiveUp, sample, job

\* A run of Lingarr's own is counted, and it is not counted.
LEMMA OwnRunInv == IInv /\ OwnRun => IInv'
<1> SUFFICES ASSUME IInv, OwnRun PROVE IInv'
  OBVIOUS
<1>1. TypeOK'
  BY QuotaAssumption DEF IInv, TypeOK, OwnRun, quota, sample, job
<1>2. Counted' = Counted /\ Counted \in Int
  <2>1. Counted' = queue + (pending + 1 + tick.left) * RunSize - (hidden + 1) * RunSize
    BY DEF OwnRun, job, Counted
  <2>2. /\ (pending + 1 + tick.left) * RunSize = (pending + tick.left) * RunSize + RunSize
        /\ (hidden + 1) * RunSize = hidden * RunSize + RunSize
    <3>1. /\ pending + tick.left \in Int /\ hidden \in Int /\ RunSize \in Int
          /\ pending + 1 + tick.left = (pending + tick.left) + 1
      BY Numbers, QuotaAssumption DEF IInv
    <3> QED
      BY <3>1, OneMore
  <2>3. Counted = queue + (pending + tick.left) * RunSize - hidden * RunSize
    BY Numbers DEF IInv, OwnRun, Counted
  <2> QED
    BY <2>1, <2>2, <2>3, Numbers, QuotaAssumption DEF IInv
<1>3. window' >= window /\ week' >= week
  BY DEF IInv, TypeOK, OwnRun, quota
<1> QED
  BY <1>1, <1>2, <1>3, Outside DEF OwnRun, sample, job

\* What a run has queued is counted as itself.
LEMMA ScanInv == ASSUME IInv, NEW n \in 0..RunSize, Scan(n) PROVE IInv'
<1>1. TypeOK'
  BY QuotaAssumption DEF IInv, TypeOK, Scan, quota, sample, job, history
<1>2. pending' + own' = pending + own - 1
  BY Numbers DEF IInv, Scan
<1>3. Counted' <= Counted
  <2>1. Counted' = queue + n + (pending + own - 1 + tick.left) * RunSize - hidden * RunSize
    BY <1>2 DEF Scan, job, history, Counted
  <2>2. (pending + own - 1 + tick.left) * RunSize
            = (pending + own + tick.left) * RunSize - RunSize
    BY Numbers, QuotaAssumption DEF IInv
  <2>3. (pending + own + tick.left) * RunSize \in Int /\ hidden * RunSize \in Int
    BY Numbers, QuotaAssumption DEF IInv
  <2> QED
    BY <2>1, <2>2, <2>3, Numbers, QuotaAssumption DEF IInv, Counted
<1>4. window' >= window /\ week' >= week
  BY DEF IInv, TypeOK, Scan, quota
<1> QED
  BY <1>1, <1>3, <1>4, Outside DEF Scan, sample, job, history
LEMMA SampleInv == IInv /\ Sample => IInv'
<1> SUFFICES ASSUME IInv, Sample PROVE IInv'
  OBVIOUS
<1>1. TypeOK'
  BY QuotaAssumption DEF IInv, TypeOK, Sample, quota, lingarr, job, history, Untouched, Spent
<1>2. Fits' /\ Shallow'
  <2>1. Counted' = Counted /\ Counted \in Int
    BY Numbers DEF IInv, Sample, lingarr, job, history, Counted
  <2> QED
    BY <1>1, <2>1, Frame, Numbers DEF IInv, Sample, quota, history
<1>3. SeenInv'
  <2>1. /\ seen'.window = window' /\ seen'.week = week' /\ unseen' = 0
        /\ aside'.window = 0 /\ aside'.week = 0 /\ window' \in Nat /\ week' \in Nat
    BY Numbers DEF IInv, Sample, quota, Untouched
  <2>2. unseen' * WindowCost = 0 /\ unseen' * WeekCost = 0
    BY <2>1, QuotaAssumption
  <2> QED
    BY <2>1, <2>2 DEF SeenInv
<1>4. TickInv'
  BY Numbers, QuotaAssumption DEF IInv, Sample, quota, job, TickInv, Reading
<1> QED
  BY <1>1, <1>2, <1>3, <1>4 DEF IInv

\* An item done costs no more than was kept for it.
LEMMA TranslateInv ==
    ASSUME IInv, NEW w \in 1..WindowCost, NEW k \in 1..WeekCost, Translate(w, k)
    PROVE  IInv'
<1> USE Numbers
<1>1. TypeOK'
  <2>1. window' \in 0..Window /\ week' \in 0..Week /\ queue' \in Nat /\ unseen' \in 0..MaxUnseen + 1
    BY QuotaAssumption DEF IInv, TypeOK, Translate, AtMost
  <2>2. tick' \in TickState /\ (tick'.pc = "start" <=> tick'.left > 0)
    BY QuotaAssumption DEF IInv, TypeOK, TickState, Translate, Reading
  <2> QED
    BY <2>1, <2>2 DEF IInv, TypeOK, Translate, history
<1>2. tick'.left = tick.left /\ tick'.pc = tick.pc /\ tick'.week = tick.week
      /\ tick'.window = tick.window /\ tick'.aside = tick.aside
  BY DEF IInv, TypeOK, TickState, Translate
<1>3. Counted' = Counted - 1 /\ Counted \in Int
  BY <1>2, QuotaAssumption DEF IInv, Translate, history, Counted
<1>4. Fits' /\ Shallow'
  <2>1. /\ (Counted - 1) * WindowCost = Counted * WindowCost - WindowCost
        /\ (Counted - 1) * WeekCost = Counted * WeekCost - WeekCost
    BY <1>3, OneLess, QuotaAssumption
  <2>2. Counted * WindowCost \in Int /\ Counted * WeekCost \in Int
    BY <1>3, QuotaAssumption
  <2>3. WindowCost \in Nat /\ WeekCost \in Nat /\ QueueTarget \in Nat
    BY QuotaAssumption
  <2>4. /\ HadWindow' = HadWindow - w /\ HadWeek' = HadWeek - k
        /\ HadWindow \in Nat /\ HadWeek \in Nat /\ w \in Int /\ k \in Int
        /\ w <= WindowCost /\ k <= WeekCost
    <3>1. window' = window - w /\ week' = week - k /\ taken' = taken
      BY DEF Translate, history
    <3>2. window \in Nat /\ week \in Nat /\ taken.window \in Nat /\ taken.week \in Nat
      BY DEF IInv
    <3>3. HadWindow \in Nat /\ HadWeek \in Nat
      BY DEF IInv
    <3> QED
      BY <2>3, <3>1, <3>2, <3>3 DEF HadWindow, HadWeek
  <2>5. Counted * WindowCost <= HadWindow /\ Counted * WeekCost <= HadWeek
    BY DEF IInv, Fits
  <2>6. Counted' * WindowCost <= HadWindow'
    BY <1>3, <2>1, <2>2, <2>3, <2>4, <2>5
  <2>7. Counted' * WeekCost <= HadWeek'
    BY <1>3, <2>1, <2>2, <2>3, <2>4, <2>5
  <2> QED
    BY <1>3, <2>3, <2>6, <2>7 DEF IInv, Fits, Shallow
<1>5. /\ window - w = window' /\ week - k = week' /\ w <= WindowCost /\ k <= WeekCost
      /\ window' \in Int /\ week' \in Int /\ w \in Int /\ k \in Int
      /\ WindowCost \in Nat /\ WeekCost \in Nat
  BY QuotaAssumption DEF IInv, Translate
\* n items done since, and one more.
<1>6. ASSUME NEW n \in Nat
      PROVE  /\ (n + 1) * WindowCost = n * WindowCost + WindowCost
             /\ (n + 1) * WeekCost = n * WeekCost + WeekCost
             /\ n * WindowCost \in Int /\ n * WeekCost \in Int
  BY <1>5, OneMore
<1>7. SeenInv'
  <2> SUFFICES ASSUME unseen' <= MaxUnseen
               PROVE  /\ seen.window <= window' + unseen' * WindowCost + aside.window
                      /\ seen.week <= week' + unseen' * WeekCost + aside.week
    BY DEF IInv, SeenInv, Translate
  <2>1. unseen' = unseen + 1 /\ unseen <= MaxUnseen
    BY QuotaAssumption DEF IInv, Translate, AtMost
  <2>2. /\ seen.window <= window + unseen * WindowCost + aside.window
        /\ seen.week <= week + unseen * WeekCost + aside.week
    BY <2>1 DEF IInv, SeenInv
  <2>3. /\ unseen \in Nat /\ seen.window \in Nat /\ seen.week \in Nat /\ window \in Nat
        /\ week \in Nat /\ aside.window \in Nat /\ aside.week \in Nat
    BY DEF IInv
  <2>4. seen.window <= window' + unseen' * WindowCost + aside.window
    <3> DEFINE before == unseen * WindowCost
               after == unseen' * WindowCost
    <3>1. after = before + WindowCost /\ before \in Int
      BY <1>6, <2>1, <2>3
    <3>2. seen.window <= window + before + aside.window
      BY <2>2
    <3> HIDE DEF before, after
    <3>3. seen.window <= window' + after + aside.window
      BY <1>5, <3>1, <3>2, <2>3
    <3> QED
      BY <3>3 DEF after
  <2>5. seen.week <= week' + unseen' * WeekCost + aside.week
    <3> DEFINE before == unseen * WeekCost
               after == unseen' * WeekCost
    <3>1. after = before + WeekCost /\ before \in Int
      BY <1>6, <2>1, <2>3
    <3>2. seen.week <= week + before + aside.week
      BY <2>2
    <3> HIDE DEF before, after
    <3>3. seen.week <= week' + after + aside.week
      BY <1>5, <3>1, <3>2, <2>3
    <3> QED
      BY <3>3 DEF after
  <2> QED
    BY <2>4, <2>5
<1>8. TickInv'
  <2>1. CASE Reading
    <3>1. tick'.unseen = tick.unseen + 1 /\ tick.unseen \in Nat
      BY <2>1 DEF IInv, TypeOK, TickState, Translate
    <3>2. tick.pc = "window" => unseen' <= tick'.unseen
      <4>1. tick.pc = "window" => unseen <= tick.unseen
        BY DEF IInv, TickInv
      <4>2. unseen' <= unseen + 1 /\ unseen \in Nat /\ unseen' \in Nat
        BY QuotaAssumption DEF IInv, Translate, AtMost
      <4> QED
        BY <3>1, <4>1, <4>2
    <3>3. /\ tick.week <= week + tick.unseen * WeekCost + tick.aside.week
          /\ tick.pc = "count" => tick.window <= window + tick.unseen * WindowCost + tick.aside.window
      BY <2>1 DEF IInv, TickInv
    <3>4. /\ window \in Nat /\ week \in Nat /\ tick.week \in Nat /\ tick.window \in Nat
          /\ tick.aside.window \in Nat /\ tick.aside.week \in Nat
      BY DEF IInv
    <3>5. tick.week <= week' + tick'.unseen * WeekCost + tick.aside.week
      <4> DEFINE before == tick.unseen * WeekCost
                 after == tick'.unseen * WeekCost
      <4>1. after = before + WeekCost /\ before \in Int
        BY <1>6, <3>1
      <4>2. tick.week <= week + before + tick.aside.week
        BY <3>3
      <4> HIDE DEF before, after
      <4>3. tick.week <= week' + after + tick.aside.week
        BY <1>5, <4>1, <4>2, <3>4
      <4> QED
        BY <4>3 DEF after
    <3>6. tick.pc = "count" => tick.window <= window' + tick'.unseen * WindowCost + tick.aside.window
      <4> DEFINE before == tick.unseen * WindowCost
                 after == tick'.unseen * WindowCost
      <4>1. after = before + WindowCost /\ before \in Int
        BY <1>6, <3>1
      <4>2. tick.pc = "count" => tick.window <= window + before + tick.aside.window
        BY <3>3
      <4> HIDE DEF before, after
      <4>3. tick.pc = "count" => tick.window <= window' + after + tick.aside.window
        BY <1>5, <4>1, <4>2, <3>4
      <4> QED
        BY <4>3 DEF after
    <3> QED
      BY <1>2, <3>2, <3>5, <3>6 DEF TickInv
  <2>2. CASE ~Reading
    BY <1>2, <2>2 DEF TickInv, Reading
  <2> QED
    BY <2>1, <2>2
<1> QED
  BY <1>1, <1>4, <1>7, <1>8 DEF IInv
\* A step of the tick that starts nothing.
LEMMA TickReads ==
    ASSUME IInv, TypeOK', tick'.left = tick.left, TickInv',
           UNCHANGED <<quota, sample, lingarr, hidden, taken>>
    PROVE  IInv'
<1>1. Counted' = Counted /\ Counted \in Int
  BY Numbers DEF IInv, lingarr, Counted
<1>2. Fits' /\ Shallow'
  BY <1>1, Frame, Numbers DEF IInv, quota
<1>3. SeenInv'
  BY DEF IInv, quota, sample, SeenInv
<1> QED
  BY <1>2, <1>3 DEF IInv

LEMMA BeginInv == IInv /\ Begin => IInv'
<1> SUFFICES ASSUME IInv, Begin PROVE IInv'
  OBVIOUS
<1> USE IdleType
<1>0. retry' \in BOOLEAN
  BY DEF Begin
<1>1. CASE phase = "pause" \/ unseen > MaxUnseen
  <2>1. tick' = Idle
    BY <1>1 DEF Begin
  <2>2. TypeOK'
    BY <1>0, <2>1 DEF IInv, TypeOK, Begin, quota, sample, lingarr, history
  <2> QED
    BY <2>1, <2>2, TickReads, Numbers DEF IInv, Begin, TickInv, Reading, history
<1>2. CASE ~(phase = "pause" \/ unseen > MaxUnseen)
  <2>1. tick' = [Idle EXCEPT !.pc = "window", !.week = seen.week, !.unseen = unseen,
                             !.aside = aside]
    BY <1>2 DEF Begin
  <2>2. /\ tick'.pc = "window" /\ tick'.week = seen.week /\ tick'.unseen = unseen /\ tick'.left = 0
        /\ tick'.aside = aside /\ tick' \in TickState
    <3>1. seen.week \in 0..Week /\ unseen \in 0..MaxUnseen /\ aside \in Spent
      BY <1>2, QuotaAssumption DEF IInv, TypeOK
    <3> QED
      BY <2>1, <3>1 DEF TickState, Idle
  <2>3. TypeOK'
    BY <1>0, <2>2 DEF IInv, TypeOK, Begin, quota, sample, lingarr, history
  <2>4. TickInv'
    <3>1. unseen <= MaxUnseen /\ unseen \in Nat
      BY <1>2, Numbers, QuotaAssumption DEF IInv
    <3>2. seen.week <= week + unseen * WeekCost + aside.week
      BY <3>1 DEF IInv, SeenInv
    <3> QED
      BY <2>2, <3>1, <3>2 DEF TickInv, Begin, quota, sample
  <2> QED
    BY <2>2, <2>3, <2>4, TickReads, Numbers DEF IInv, Begin, history
<1> QED
  BY <1>1, <1>2

LEMMA ReadWindowInv == IInv /\ ReadWindow => IInv'
<1> SUFFICES ASSUME IInv, ReadWindow PROVE IInv'
  OBVIOUS
<1> USE IdleType
<1>1. CASE ~(phase # "far" /\ ~throttled)
  <2>1. tick' = Idle
    BY <1>1 DEF ReadWindow
  <2>2. TypeOK'
    BY <2>1 DEF IInv, TypeOK, ReadWindow, quota, sample, lingarr, history
  <2> QED
    BY <2>1, <2>2, TickReads, Numbers DEF IInv, ReadWindow, TickInv, Reading, history
<1>2. CASE phase # "far" /\ ~throttled
  <2>1. tick' = [tick EXCEPT !.pc = "count", !.window = seen.window,
                             !.aside.window = aside.window]
    BY <1>2 DEF ReadWindow
  <2>2. /\ tick'.pc = "count" /\ tick'.week = tick.week /\ tick'.unseen = tick.unseen
        /\ tick'.left = tick.left /\ tick'.window = seen.window /\ tick' \in TickState
        /\ tick'.aside.window = aside.window /\ tick'.aside.week = tick.aside.week
    <3>1. tick \in TickState /\ seen.window \in 0..Window /\ aside.window \in Nat
      BY Numbers DEF IInv, TypeOK
    <3> QED
      BY <2>1, <3>1 DEF TickState, Spent
  <2>3. TypeOK'
    BY <2>2 DEF IInv, TypeOK, ReadWindow, quota, sample, lingarr, history
  <2>4. seen.window <= window + tick.unseen * WindowCost + aside.window
    <3>1. unseen <= tick.unseen /\ tick.unseen <= MaxUnseen
      BY Numbers DEF IInv, TickInv, ReadWindow
    <3>2. unseen \in Nat /\ tick.unseen \in Nat /\ MaxUnseen \in Nat /\ WindowCost \in Nat
      BY Numbers, QuotaAssumption DEF IInv
    <3>3. seen.window <= window + unseen * WindowCost + aside.window
      BY <3>1, <3>2 DEF IInv, SeenInv
    <3>4. unseen * WindowCost <= tick.unseen * WindowCost
      BY <3>1, <3>2, ProductGrows
    <3>5. unseen * WindowCost \in Int /\ tick.unseen * WindowCost \in Int
      BY <3>2
    <3> QED
      BY <3>3, <3>4, <3>5, Numbers DEF IInv
  <2>5. TickInv'
    BY <2>2, <2>4 DEF IInv, TickInv, Reading, ReadWindow, quota
  <2> QED
    BY <2>2, <2>3, <2>5, TickReads DEF ReadWindow, history
<1> QED
  BY <1>1, <1>2

LEMMA AtMostIs ==
    ASSUME NEW a \in Int, NEW b \in Int
    PROVE  AtMost(a, b) \in {a, b} /\ AtMost(a, b) <= a /\ AtMost(a, b) <= b
  BY DEF AtMost

LEMMA ItemsType ==
    ASSUME NEW left \in Nat, NEW floor \in Nat, NEW pts \in Nat \ {0}
    PROVE  Items(left, floor, pts) \in Nat
  BY Quotient DEF Items

\* The runs that are decided on fit into what is wanted.
LEMMA RunsFit ==
    ASSUME NEW target \in Nat, NEW active \in Nat, Runs(target, active) > 0
    PROVE  /\ Runs(target, active) \in 1..MaxRuns
           /\ active + Runs(target, active) * RunSize <= target
<1> DEFINE n == Wanted(target, active)
           whole == n \div RunSize
           r == Runs(target, active)
<1>0. MaxRuns \in Nat /\ RunSize \in Nat /\ RunSize \in Nat \ {0}
  BY QuotaAssumption
<1>1. n \in Nat
  BY DEF Wanted
<1>2. whole \in Nat /\ whole * RunSize <= n
  BY <1>0, <1>1, Quotient
<1>3. r \in Int /\ r <= whole /\ r <= MaxRuns
  <2> HIDE DEF whole
  <2>1. AtMost(MaxRuns, whole) \in Int /\ AtMost(MaxRuns, whole) <= whole /\ AtMost(MaxRuns, whole) <= MaxRuns
    BY <1>0, <1>2, AtMostIs
  <2>2. r = IF active = 0 THEN AtMost(AtMost(MaxRuns, whole), 1) ELSE AtMost(MaxRuns, whole)
    BY DEF Runs, whole
  <2>3. /\ AtMost(AtMost(MaxRuns, whole), 1) \in Int
        /\ AtMost(AtMost(MaxRuns, whole), 1) <= AtMost(MaxRuns, whole)
    BY <2>1, AtMostIs
  <2> QED
    BY <1>0, <1>2, <2>1, <2>2, <2>3
<1>4. r > 0
  OBVIOUS
<1> HIDE DEF r
<1>5. r * RunSize <= whole * RunSize
  BY <1>0, <1>2, <1>3, ProductGrows
<1>6. n > 0
  <2>1. whole > 0
    BY <1>2, <1>3, <1>4
  <2>2. 1 * RunSize <= whole * RunSize
    BY <1>0, <1>2, <2>1, ProductGrows
  <2> HIDE DEF whole, n
  <2> QED
    BY <1>0, <1>1, <1>2, <2>2
<1>7. active + n = target
  BY <1>6 DEF Wanted
<1>8. r * RunSize \in Int /\ whole * RunSize \in Int
  BY <1>0, <1>2, <1>3
<1>9. active + r * RunSize <= target
  <2> HIDE DEF n, whole
  <2> QED
    BY <1>1, <1>2, <1>5, <1>7, <1>8
<1> QED
  BY <1>0, <1>3, <1>4, <1>9 DEF r
\* What is counted once a tick has decided: the queue, and what it will start.
LEMMA CountInv == IInv /\ Count => IInv'
<1> SUFFICES ASSUME IInv, Count PROVE IInv'
  OBVIOUS
<1> DEFINE r == Runs(Target, queue)
<1>1. CASE ~(r > 0)
  <2>1. tick' = Idle /\ hidden' = hidden /\ taken' = taken
    BY <1>1 DEF Count
  <2>2. TypeOK'
    BY <2>1, IdleType DEF IInv, TypeOK, Count, quota, sample, lingarr
  <2>3. tick'.left = tick.left /\ TickInv'
    BY <2>1, IdleType, Numbers DEF IInv, Count, TickInv, Reading
  <2> QED
    BY <2>1, <2>2, <2>3, TickReads DEF Count
<1>2. CASE r > 0
  <2> DEFINE byWindow == Items(tick.window, WindowFloor, WindowPts)
             byWeek == Items(tick.week, WeekFloor, WeekPts)
  <2>0. /\ QueueTarget \in Nat /\ RunSize \in Nat \ {0} /\ WindowFloor \in Nat /\ WeekFloor \in Nat
        /\ WindowPts \in Nat \ {0} /\ WeekPts \in Nat \ {0} /\ MaxUnseen \in Nat
        /\ WindowCost \in Nat \ {0} /\ WeekCost \in Nat \ {0}
    BY QuotaAssumption
  <2>1. byWindow \in Nat /\ byWeek \in Nat
    BY <2>0, Numbers, ItemsType DEF IInv
  <2>2. Target \in Nat /\ Target <= QueueTarget /\ Target <= byWindow /\ Target <= byWeek
    <3> DEFINE least == AtMost(byWindow, byWeek)
    <3>1. least \in Nat /\ least <= byWindow /\ least <= byWeek
      <4> HIDE DEF byWindow, byWeek
      <4> QED
        BY <2>1, AtMostIs
    <3>2. Target = AtMost(QueueTarget, least)
      BY DEF Target
    <3> HIDE DEF least, byWindow, byWeek
    <3> QED
      BY <2>0, <2>1, <3>1, <3>2, AtMostIs
  <2>3. r \in 1..MaxRuns /\ queue + r * RunSize <= Target
    BY <1>2, <2>2, RunsFit, Numbers DEF IInv
  <2>4. /\ tick' = [Idle EXCEPT !.pc = "start", !.left = r]
        /\ hidden' = pending + own /\ taken' = tick.aside
    BY <1>2 DEF Count
  <2>5. /\ tick'.pc = "start" /\ tick'.left = r /\ tick' \in TickState
    <3> HIDE DEF r
    <3> QED
      <4>1. r \in 0..MaxRuns
        BY <2>3
      <4> QED
        BY <2>4, <4>1, IdleType DEF Idle, TickState
  <2>6. TypeOK'
    <3>1. hidden' \in Nat /\ taken' \in Spent
      BY <2>4, Numbers DEF IInv, TypeOK, TickState
    <3>2. tick'.pc = "start" <=> tick'.left > 0
      BY <2>3, <2>5
    <3> QED
      BY <2>5, <3>1, <3>2 DEF IInv, TypeOK, Count, quota, sample, lingarr
  <2>7. Counted' = queue + r * RunSize
    <3> HIDE DEF r
    <3>1. Counted' = queue + (pending + own + r) * RunSize - (pending + own) * RunSize
      BY <2>4, <2>5 DEF Count, lingarr, Counted
    <3>2. r \in Int /\ pending + own \in Int /\ RunSize \in Int
      BY <2>0, <2>3, Numbers, QuotaAssumption DEF IInv
    <3>3. (pending + own + r) * RunSize = (pending + own) * RunSize + r * RunSize
      BY <3>2
    <3>4. (pending + own) * RunSize \in Int /\ r * RunSize \in Int /\ queue \in Int
      BY <3>2, Numbers DEF IInv
    <3> QED
      BY <3>1, <3>3, <3>4
  <2>8. Counted' \in Nat /\ Counted' <= Target
    <3> HIDE DEF r
    <3>1. r * RunSize \in Nat /\ queue \in Nat
      BY <2>0, <2>3, Numbers, QuotaAssumption DEF IInv
    <3> QED
      BY <2>3, <2>7, <3>1
  <2>9. tick.unseen * WindowCost <= WindowFloor /\ tick.unseen * WeekCost <= WeekFloor
    <3>1. tick.unseen \in Nat /\ tick.unseen <= MaxUnseen
      BY Numbers DEF IInv
    <3>2. /\ tick.unseen * WindowCost <= MaxUnseen * WindowCost
          /\ tick.unseen * WeekCost <= MaxUnseen * WeekCost
      BY <2>0, <3>1, ProductGrows
    <3>3. MaxUnseen * WindowCost <= WindowFloor /\ MaxUnseen * WeekCost <= WeekFloor
      BY QuotaAssumption
    <3>4. /\ tick.unseen * WindowCost \in Int /\ MaxUnseen * WindowCost \in Int
          /\ tick.unseen * WeekCost \in Int /\ MaxUnseen * WeekCost \in Int
      BY <2>0, <3>1
    <3> QED
      BY <2>0, <3>2, <3>3, <3>4
  <2>10. /\ tick.window <= HadWindow' + tick.unseen * WindowCost
         /\ tick.week <= HadWeek' + tick.unseen * WeekCost
    <3>1. /\ tick.window <= window + tick.unseen * WindowCost + tick.aside.window
          /\ tick.week <= week + tick.unseen * WeekCost + tick.aside.week
      BY DEF IInv, TickInv, Reading, Count
    <3>2. HadWindow' = window + tick.aside.window /\ HadWeek' = week + tick.aside.week
      BY <2>4 DEF Count, quota, HadWindow, HadWeek
    <3>3. tick.unseen * WindowCost \in Int /\ tick.unseen * WeekCost \in Int
      BY <2>0, Numbers DEF IInv
    <3> QED
      BY <3>1, <3>2, <3>3, Numbers DEF IInv
  <2>11. Counted' <= byWindow /\ Counted' <= byWeek
    <3> HIDE DEF byWindow, byWeek
    <3> QED
      BY <2>1, <2>2, <2>8
  <2>12. WindowCost <= WindowPts /\ WeekCost <= WeekPts
    BY QuotaAssumption
  <2>13. /\ window \in Nat /\ week \in Nat /\ tick.window \in Nat /\ tick.week \in Nat
         /\ tick.unseen \in Nat /\ HadWindow' \in Nat /\ HadWeek' \in Nat
    BY <2>4, Numbers DEF IInv, Count, quota, HadWindow, HadWeek
  <2>14. Counted' * WindowCost <= HadWindow'
    <3>1. Counted' <= Items(tick.window, WindowFloor, WindowPts)
      BY <2>11
    <3> QED
      BY <2>0, <2>8, <2>9, <2>10, <2>12, <2>13, <3>1, ItemsFit
  <2>15. Counted' * WeekCost <= HadWeek'
    <3>1. Counted' <= Items(tick.week, WeekFloor, WeekPts)
      BY <2>11
    <3> QED
      BY <2>0, <2>8, <2>9, <2>10, <2>12, <2>13, <3>1, ItemsFit
  <2>16. Shallow'
    BY <2>0, <2>2, <2>8 DEF Shallow
  <2>17. SeenInv' /\ TickInv'
    BY <2>5 DEF IInv, SeenInv, TickInv, Reading, Count, quota, sample
  <2> QED
    BY <2>6, <2>14, <2>15, <2>16, <2>17 DEF IInv, Fits
<1> QED
  BY <1>1, <1>2

\* What is started was counted when it was decided.
LEMMA StartInv == IInv /\ Start => IInv'
<1> SUFFICES ASSUME IInv, Start PROVE IInv'
  OBVIOUS
<1>1. tick.left \in 1..MaxRuns /\ tick.pc = "start"
  BY QuotaAssumption, Numbers DEF IInv, TypeOK, TickState, Start
<1>2. /\ tick' \in TickState /\ tick'.left = tick.left - 1
      /\ tick'.pc = "start" <=> tick'.left > 0
      /\ tick'.pc \notin {"window", "count"}
  <2>1. CASE tick.left > 1
    <3>1. tick' = [tick EXCEPT !.left = tick.left - 1]
      BY <2>1 DEF Start
    <3> QED
      BY <1>1, <2>1, <3>1, QuotaAssumption DEF IInv, TypeOK, TickState
  <2>2. CASE ~(tick.left > 1)
    <3>1. tick' = Idle
      BY <2>2 DEF Start
    <3> QED
      BY <1>1, <2>2, <3>1, IdleType
  <2> QED
    BY <2>1, <2>2
<1>3. TypeOK'
  BY <1>2 DEF IInv, TypeOK, Start, quota, sample, history
<1>4. Counted' = Counted /\ Counted \in Int
  <2>1. (pending + 1 + own + (tick.left - 1)) = pending + own + tick.left
    BY Numbers DEF IInv
  <2> QED
    BY <1>2, <2>1, Numbers DEF IInv, Start, history, Counted
<1>5. Fits' /\ Shallow'
  BY <1>3, <1>4, Frame, Numbers DEF IInv, Start, quota, history
<1>6. SeenInv' /\ TickInv'
  BY <1>2 DEF IInv, SeenInv, TickInv, Reading, Start, quota, sample
<1> QED
  BY <1>3, <1>5, <1>6 DEF IInv

\* A tick that fails drops what it has not started.
LEMMA FaultInv == IInv /\ Fault => IInv'
<1> SUFFICES ASSUME IInv, Fault PROVE IInv'
  OBVIOUS
<1>0. tick' = Idle /\ tick'.left = 0 /\ tick'.pc = "idle"
  BY IdleType DEF Fault
<1>1. pending' \in Nat /\ pending' <= pending + tick.left
  BY Numbers, QuotaAssumption DEF IInv, Fault, TypeOK
<1>2. TypeOK'
  <2>1. retry' \in BOOLEAN /\ faults' \in 0..MaxFaults
    BY QuotaAssumption DEF IInv, TypeOK, Fault
  <2> QED
    BY <1>0, <1>1, <2>1, IdleType DEF IInv, TypeOK, Fault, quota, sample, history
<1>3. Counted' <= Counted
  <2>1. Counted' = queue + (pending' + own) * RunSize - hidden * RunSize
    BY <1>0, <1>1, Numbers DEF IInv, Fault, history, Counted
  <2>2. pending' + own \in Int /\ pending + own + tick.left \in Int /\ RunSize \in Nat
        /\ pending' + own <= pending + own + tick.left
    BY <1>1, Numbers, QuotaAssumption DEF IInv
  <2>3. (pending' + own) * RunSize <= (pending + own + tick.left) * RunSize
    BY <2>2, ProductGrows
  <2>4. /\ (pending' + own) * RunSize \in Int /\ (pending + own + tick.left) * RunSize \in Int
        /\ hidden * RunSize \in Int /\ queue \in Int
    BY <2>2, Numbers DEF IInv
  <2> QED
    BY <2>1, <2>3, <2>4 DEF Counted
<1>4. Fits' /\ Shallow'
  BY <1>2, <1>3, Frame, Numbers DEF IInv, Fault, quota, history
<1>5. SeenInv' /\ TickInv'
  BY <1>0 DEF IInv, SeenInv, TickInv, Reading, Fault, quota, sample
<1> QED
  BY <1>2, <1>4, <1>5 DEF IInv

\* What others spend is taken, and what a sample or a tick did not see.
LEMMA SpendInv ==
    ASSUME IInv, NEW w \in 0..MaxOutside, NEW k \in 0..MaxOutside, Spend(w, k)
    PROVE  IInv'
<1> USE Numbers
<1>0. MaxOutside \in Nat /\ w \in Nat /\ k \in Nat
  BY QuotaAssumption
<1>1. TypeOK'
  <2>1. window' \in 0..Window /\ week' \in 0..Week
    BY <1>0, QuotaAssumption DEF IInv, TypeOK, Spend
  <2>2. \A s \in Spent : Plus(s, w, k) \in Spent
    BY <1>0 DEF Spent, Plus
  <2>3. tick' \in TickState /\ (tick'.pc = "start" <=> tick'.left > 0)
    BY <2>2 DEF IInv, TypeOK, TickState, Spend
  <2> QED
    BY <2>1, <2>2, <2>3 DEF IInv, TypeOK, Spend, lingarr
<1>2. /\ tick'.left = tick.left /\ tick'.pc = tick.pc /\ tick'.week = tick.week
      /\ tick'.window = tick.window /\ tick'.unseen = tick.unseen
  BY DEF IInv, TypeOK, TickState, Spend
<1>3. /\ window' = window - w /\ week' = week - k
      /\ taken'.window = taken.window + w /\ taken'.week = taken.week + k
      /\ aside'.window = aside.window + w /\ aside'.week = aside.week + k
  BY DEF Spend, Plus
<1>4. /\ window \in Nat /\ week \in Nat /\ taken.window \in Nat /\ taken.week \in Nat
      /\ aside.window \in Nat /\ aside.week \in Nat
  BY DEF IInv
<1>5. Fits' /\ Shallow'
  <2>1. Counted' = Counted
    BY <1>2 DEF Spend, lingarr, Counted
  <2>2. HadWindow' = HadWindow /\ HadWeek' = HadWeek
    BY <1>0, <1>3, <1>4 DEF HadWindow, HadWeek
  <2> QED
    BY <2>1, <2>2 DEF IInv, Fits, Shallow
<1>6. SeenInv'
  <2>1. seen' = seen /\ unseen' = unseen /\ unseen \in Nat /\ WindowCost \in Nat /\ WeekCost \in Nat
    BY QuotaAssumption DEF IInv, Spend
  <2>2. unseen * WindowCost \in Int /\ unseen * WeekCost \in Int
    BY <2>1
  <2> QED
    BY <1>0, <1>3, <1>4, <2>1, <2>2 DEF IInv, SeenInv
<1>7. TickInv'
  <2>1. CASE Reading
    <3>1. tick' = [tick EXCEPT !.aside = Plus(tick.aside, w, k)]
      BY <2>1 DEF Spend
    <3>2. tick'.aside.window = tick.aside.window + w /\ tick'.aside.week = tick.aside.week + k
      BY <3>1 DEF IInv, TypeOK, TickState, Plus
    <3>3. tick.unseen * WindowCost \in Int /\ tick.unseen * WeekCost \in Int
      BY QuotaAssumption DEF IInv
    <3>4. unseen' = unseen
      BY DEF Spend
    <3>5. /\ tick.week <= week + tick.unseen * WeekCost + tick.aside.week
          /\ tick.pc = "count" => tick.window <= window + tick.unseen * WindowCost + tick.aside.window
          /\ tick.pc = "window" => unseen <= tick.unseen
      BY <2>1 DEF IInv, TickInv
    <3>6. /\ tick.week \in Nat /\ tick.window \in Nat
          /\ tick.aside.window \in Nat /\ tick.aside.week \in Nat
      BY DEF IInv
    <3>7. tick.week <= week' + tick.unseen * WeekCost + tick'.aside.week
      BY <1>0, <1>3, <1>4, <3>2, <3>3, <3>5, <3>6
    <3>8. tick.pc = "count" => tick.window <= window' + tick.unseen * WindowCost + tick'.aside.window
      BY <1>0, <1>3, <1>4, <3>2, <3>3, <3>5, <3>6
    <3> QED
      BY <1>2, <3>4, <3>5, <3>7, <3>8 DEF TickInv
  <2>2. CASE ~Reading
    BY <1>2, <2>2 DEF TickInv, Reading
  <2> QED
    BY <2>1, <2>2
<1> QED
  BY <1>1, <1>5, <1>6, <1>7 DEF IInv

LEMMA NextInv == IInv /\ [Next]_vars => IInv'
<1> SUFFICES ASSUME IInv, [Next]_vars PROVE IInv'
  OBVIOUS
<1>1. CASE Step
  BY <1>1, BeginInv, ReadWindowInv, CountInv, StartInv DEF Step
<1>2. CASE Work
  BY <1>2, TranslateInv DEF Work
<1>3. CASE GiveUp \/ Cool \/ Sample \/ WindowReset \/ Fault \/ OwnRun \/ Time
  BY <1>3, GiveUpInv, CoolInv, SampleInv, WindowResetInv, FaultInv, OwnRunInv, TimeInv
<1>4. CASE Scan(RunSize)
  <2>1. RunSize \in 0..RunSize
    BY QuotaAssumption
  <2> QED
    BY <1>4, <2>1, ScanInv
<1>5. CASE \E n \in 0..RunSize - 1 : Scan(n)
  <2>1. PICK n \in 0..RunSize - 1 : Scan(n)
    BY <1>5
  <2>2. n \in 0..RunSize
    BY QuotaAssumption
  <2> QED
    BY <2>1, <2>2, ScanInv
<1>7. CASE \E w, k \in 0..MaxOutside : Spend(w, k)
  BY <1>7, SpendInv
<1>6. CASE UNCHANGED vars
  <2>1. TypeOK'
    BY <1>6 DEF IInv, TypeOK, vars, quota, sample, lingarr, job, history
  <2>2. TickInv'
    BY <1>6 DEF IInv, TickInv, Reading, vars, quota, sample, job
  <2> QED
    BY <1>6, <2>1, <2>2, TickReads DEF vars, quota, sample, lingarr, job, history
<1> QED
  BY <1>1, <1>2, <1>3, <1>4, <1>5, <1>6, <1>7 DEF Next, Calm, Disturbance

LEMMA Inductive == Spec => []IInv
<1>1. Init => IInv
  BY InitInv
<1>2. IInv /\ [Next]_vars => IInv'
  BY NextInv
<1> QED
  BY <1>1, <1>2, PTL DEF Spec
-----------------------------------------------------------------------------
(* The theorems.                                                            *)

\* What is counted is no less than what is committed.
LEMMA CountedCovers ==
    ASSUME IInv
    PROVE  /\ Committed - hidden * RunSize \in Int /\ Committed - hidden * RunSize <= Counted
           /\ Committed - hidden * RunSize >= queue - hidden * RunSize
<1>1. /\ queue \in Nat /\ pending + own \in Nat /\ tick.left \in Nat /\ RunSize \in Nat
      /\ hidden \in Nat /\ pending + own + tick.left \in Nat
      /\ pending + own <= pending + own + tick.left
  BY Numbers, QuotaAssumption DEF IInv
<1>2. (pending + own) * RunSize <= (pending + own + tick.left) * RunSize
  BY <1>1, ProductGrows
<1>3. /\ (pending + own) * RunSize \in Nat /\ (pending + own + tick.left) * RunSize \in Nat
      /\ hidden * RunSize \in Nat
  BY <1>1
<1> QED
  BY <1>1, <1>2, <1>3 DEF Committed, Counted

LEMMA FitsWork == IInv => WorkFits
<1> SUFFICES ASSUME IInv PROVE WorkFits
  OBVIOUS
<1>1. /\ WindowCost \in Nat /\ WeekCost \in Nat /\ Counted \in Int
      /\ HadWindow \in Nat /\ HadWeek \in Nat
  BY QuotaAssumption, Numbers DEF IInv
<1>2. Committed - hidden * RunSize \in Int /\ Committed - hidden * RunSize <= Counted
  BY CountedCovers
<1>3. Counted * WindowCost <= HadWindow /\ Counted * WeekCost <= HadWeek
  BY DEF IInv, Fits
<1>4. (Committed - hidden * RunSize) * WindowCost <= HadWindow
  BY <1>1, <1>2, <1>3, StillFits
<1>5. (Committed - hidden * RunSize) * WeekCost <= HadWeek
  BY <1>1, <1>2, <1>3, StillFits
<1> QED
  BY <1>4, <1>5 DEF WorkFits, HadWindow, HadWeek

LEMMA ShallowQueue == IInv => QueueBound
<1> SUFFICES ASSUME IInv PROVE QueueBound
  OBVIOUS
<1>1. Committed - hidden * RunSize <= Counted /\ Counted <= QueueTarget
  BY CountedCovers DEF IInv, Shallow
<1>2. Committed \in Int /\ hidden * RunSize \in Int /\ Counted \in Int /\ QueueTarget \in Int
  BY Numbers, QuotaAssumption DEF IInv, Committed
<1> QED
  BY <1>1, <1>2 DEF QueueBound

\* A request in a queue that fits can be paid for.
LEMMA PaidFor ==
    IInv /\ queue > 0 /\ hidden = 0 /\ taken = Untouched => window >= WindowCost /\ week >= WeekCost
<1> SUFFICES ASSUME IInv, queue > 0, hidden = 0, taken = Untouched
             PROVE  window >= WindowCost /\ week >= WeekCost
  OBVIOUS
<1>1. /\ WindowCost \in Nat /\ WeekCost \in Nat /\ Counted \in Int
      /\ HadWindow \in Nat /\ HadWeek \in Nat
  BY QuotaAssumption, Numbers DEF IInv
<1>2. 1 <= Counted
  <2>1. hidden * RunSize = 0
    BY QuotaAssumption
  <2> QED
    BY <1>1, <2>1, CountedCovers, Numbers DEF IInv
<1>3. Counted * WindowCost <= HadWindow /\ Counted * WeekCost <= HadWeek
  BY DEF IInv, Fits
<1>4. 1 * WindowCost <= HadWindow
  BY <1>1, <1>2, <1>3, StillFits
<1>5. 1 * WeekCost <= HadWeek
  BY <1>1, <1>2, <1>3, StillFits
<1>6. HadWindow = window /\ HadWeek = week
  BY Numbers DEF IInv, Untouched, HadWindow, HadWeek
<1> QED
  BY <1>1, <1>4, <1>5, <1>6

\* The variables keep their types; what a tick read was never too old (quota-topup.py:82-96).
THEOREM TypeCorrect == Spec => []TypeOK
<1>1. IInv => TypeOK
  BY DEF IInv
<1> QED
  BY <1>1, Inductive, PTL

\* Whatever quotas, prices and run sizes are: what is queued and running can be paid for, but
\* for the runs that the tick could not count and what others spent behind its back
\* (quota-topup.py:14-20, 101-109).
THEOREM AlwaysFits == Spec => []WorkFits
  BY FitsWork, Inductive, PTL

\* And the queue is no deeper than asked for, with the same exception (quota-topup.py:15-16).
THEOREM AlwaysBounded == Spec => []QueueBound
  BY ShallowQueue, Inductive, PTL

\* So no request is lost for want of quota, unless a tick met such runs or others spent
\* (quota-topup.py:17-19, Lingarr's helmrelease.yaml:41-43).
THEOREM NeverLost == Spec => NoneLost
<1>1. IInv /\ [Next]_vars => [failed' # failed => hidden > 0 \/ taken # Untouched]_vars
  <2> SUFFICES ASSUME IInv, Next, failed' # failed
               PROVE  hidden > 0 \/ taken # Untouched
    BY DEF vars
  <2>1. GiveUp
    <3>1. CASE Step
      BY <3>1 DEF Step, Begin, ReadWindow, Count, Start, history
    <3>2. CASE Work
      BY <3>2 DEF Work, Translate, history
    <3>3. CASE Cool \/ Sample \/ WindowReset \/ Fault \/ OwnRun \/ Time
      BY <3>3 DEF Cool, Sample, WindowReset, Fault, OwnRun, Time, history
    <3>4. CASE Scan(RunSize) \/ \E n \in 0..RunSize - 1 : Scan(n)
      BY <3>4 DEF Scan, history
    <3>5. CASE \E w, k \in 0..MaxOutside : Spend(w, k)
      BY <3>5 DEF Spend
    <3> QED
      BY <3>1, <3>2, <3>3, <3>4, <3>5 DEF Next, Calm, Disturbance
  <2>2. queue > 0 /\ ~(window >= WindowCost /\ week >= WeekCost)
    BY <2>1, Numbers, QuotaAssumption DEF IInv, GiveUp
  <2>3. hidden # 0 \/ taken # Untouched
    BY <2>2, PaidFor
  <2> QED
    BY <2>3, Numbers DEF IInv
<1> QED
  BY <1>1, Inductive, PTL DEF Spec, NoneLost
-----------------------------------------------------------------------------
(* No quota is left unused.                                                 *)

\* n more items fit in the queue, and in what the tick has read of the quotas.
Room(n) ==
    /\ queue + n <= QueueTarget
    /\ (queue + n) * WindowPts <= tick.window - WindowFloor
    /\ (queue + n) * WeekPts <= tick.week - WeekFloor

\* A tick starts as many whole runs as fit, and no more: one, to try, at an empty queue.
StartsWhatFits ==
    [][ Count =>
        /\ tick'.left > 0 => Room(tick'.left * RunSize)
        /\ \/ tick'.left = MaxRuns \/ (queue = 0 /\ tick'.left = 1)
           \/ ~Room((tick'.left + 1) * RunSize) ]_vars

\* A quotient is the last multiple.
LEMMA LastMultiple ==
    ASSUME NEW a \in Nat, NEW p \in Nat \ {0}, NEW k \in Nat
    PROVE  k * p <= a <=> k <= a \div p
<1> DEFINE q == a \div p
           m == (q + 1) * p
<1>1. q \in Nat /\ q * p <= a /\ a < m
  OBVIOUS
<1> HIDE DEF q
<1>2. CASE k <= q
  <2>1. k * p <= q * p
    BY <1>1, <1>2, ProductGrows
  <2>2. k * p \in Int /\ q * p \in Int
    BY <1>1
  <2> QED
    BY <1>1, <1>2, <2>1, <2>2 DEF q
<1>3. CASE ~(k <= q)
  <2>1. q + 1 <= k /\ q + 1 \in Nat
    BY <1>1, <1>3
  <2>2. m <= k * p
    BY <2>1, ProductGrows
  <2>3. k * p \in Int /\ m \in Int
    BY <1>1
  <2> HIDE DEF m
  <2>4. ~(k * p <= a)
    BY <1>1, <2>2, <2>3
  <2> QED
    BY <1>3, <2>4 DEF q
<1> QED
  BY <1>2, <1>3

\* Items is how many there is room for.
LEMMA ItemsIs ==
    ASSUME NEW left \in Nat, NEW floor \in Nat, NEW pts \in Nat \ {0}, NEW n \in Nat \ {0}
    PROVE  n <= Items(left, floor, pts) <=> n * pts <= left - floor
<1>1. CASE left > floor
  BY <1>1, LastMultiple DEF Items
<1>2. CASE ~(left > floor)
  <2>1. 1 * pts <= n * pts
    BY ProductGrows
  <2>2. n * pts \in Int /\ 1 * pts = pts
    OBVIOUS
  <2> DEFINE x == n * pts
  <2> HIDE DEF x
  <2>3. ~(x <= left - floor)
    BY <1>2, <2>1, <2>2 DEF x
  <2>4. ~(n <= Items(left, floor, pts))
    BY <1>2 DEF Items
  <2> QED
    BY <2>3, <2>4 DEF x
<1> QED
  BY <1>1, <1>2

\* Target is the deepest queue that there is room for.
LEMMA TargetIs ==
    ASSUME IInv, NEW n \in Nat \ {0}
    PROVE  /\ Target \in Nat
           /\ queue + n <= Target <=> Room(n)
<1>1. /\ queue \in Nat /\ tick.window \in Nat /\ tick.week \in Nat
      /\ WindowFloor \in Nat /\ WeekFloor \in Nat /\ QueueTarget \in Nat
      /\ WindowPts \in Nat \ {0} /\ WeekPts \in Nat \ {0}
  BY Numbers, QuotaAssumption DEF IInv, TypeOK, TickState
<1> DEFINE w == Items(tick.window, WindowFloor, WindowPts)
           k == Items(tick.week, WeekFloor, WeekPts)
           d == queue + n
<1>2. w \in Nat /\ k \in Nat
  BY <1>1, ItemsType
<1>3. d \in Nat \ {0}
  BY <1>1
<1> HIDE DEF d
<1>4. d <= w <=> d * WindowPts <= tick.window - WindowFloor
  BY <1>1, <1>3, ItemsIs
<1>5. d <= k <=> d * WeekPts <= tick.week - WeekFloor
  BY <1>1, <1>3, ItemsIs
<1> HIDE DEF w, k
<1>6. Target = AtMost(QueueTarget, AtMost(w, k))
  BY DEF Target, w, k
<1>7. Target \in Nat /\ (d <= Target <=> d <= QueueTarget /\ d <= w /\ d <= k)
  BY <1>1, <1>2, <1>3, <1>6 DEF AtMost
<1> QED
  BY <1>4, <1>5, <1>7 DEF Room, d

\* The runs that fit in n items wanted.
LEMMA RunsAre ==
    ASSUME NEW target \in Nat, NEW active \in Nat
    PROVE  LET runs == Runs(target, active)
           IN  /\ runs \in Nat
               /\ runs > 0 => active + runs * RunSize <= target
               /\ runs = MaxRuns \/ (active = 0 /\ runs = 1)
                     \/ ~(active + (runs + 1) * RunSize <= target)
<1> DEFINE runs == Runs(target, active)
           w == Wanted(target, active)
           fit == w \div RunSize
<1>1. w \in Nat /\ RunSize \in Nat \ {0} /\ MaxRuns \in Nat
  BY QuotaAssumption DEF Wanted
<1>2. fit \in Nat
  BY <1>1, Quotient
<1>3. \A n \in Nat : n * RunSize <= w <=> n <= fit
  BY <1>1, LastMultiple
<1>4. \A x \in Nat \ {0} : x <= w <=> active + x <= target
  BY DEF Wanted
<1>5. runs = IF active = 0 THEN AtMost(AtMost(MaxRuns, fit), 1) ELSE AtMost(MaxRuns, fit)
  BY DEF Runs
<1> HIDE DEF fit, w, runs
<1>6. runs \in Nat /\ runs <= fit /\ (runs = MaxRuns \/ (active = 0 /\ runs = 1) \/ runs = fit)
  BY <1>1, <1>2, <1>5 DEF AtMost
<1>7. \A n \in Nat \ {0} : n * RunSize \in Nat \ {0}
  <2> TAKE n \in Nat \ {0}
  <2>1. 1 * RunSize <= n * RunSize
    BY <1>1, ProductGrows
  <2>2. n * RunSize \in Int
    BY <1>1
  <2> QED
    BY <1>1, <2>1, <2>2
<1>8. \A n \in Nat \ {0} : n <= fit <=> active + n * RunSize <= target
  <2> TAKE n \in Nat \ {0}
  <2>1. n * RunSize <= w <=> n <= fit
    BY <1>3
  <2>2. n * RunSize \in Nat \ {0}
    BY <1>7
  <2>3. n * RunSize <= w <=> active + n * RunSize <= target
    BY <1>4, <2>2
  <2> QED
    BY <2>1, <2>3
<1>9. runs > 0 => active + runs * RunSize <= target
  BY <1>6, <1>8
<1>10. runs = fit => ~(active + (runs + 1) * RunSize <= target)
  BY <1>2, <1>8
<1> QED
  BY <1>6, <1>9, <1>10 DEF runs

\* For any quotas, floors, prices and sizes: one item more a run, and it would not fit.  So a
\* tick that gets to count never lets a run's worth of quota above the floors go unused
\* (quota-topup.py:101-117).
THEOREM StartsAll == Spec => StartsWhatFits
<1>1. IInv /\ [Next]_vars =>
        [Count =>
            /\ tick'.left > 0 => Room(tick'.left * RunSize)
            /\ \/ tick'.left = MaxRuns \/ (queue = 0 /\ tick'.left = 1)
               \/ ~Room((tick'.left + 1) * RunSize)]_vars
  <2> SUFFICES ASSUME IInv, Count
               PROVE  /\ tick'.left > 0 => Room(tick'.left * RunSize)
                      /\ \/ tick'.left = MaxRuns \/ (queue = 0 /\ tick'.left = 1)
                         \/ ~Room((tick'.left + 1) * RunSize)
    OBVIOUS
  <2> DEFINE runs == Runs(Target, queue)
  <2>1. Target \in Nat /\ queue \in Nat /\ RunSize \in Nat \ {0}
    BY TargetIs, QuotaAssumption DEF IInv, TypeOK
  <2>2. /\ runs \in Nat
        /\ runs > 0 => queue + runs * RunSize <= Target
        /\ runs = MaxRuns \/ (queue = 0 /\ runs = 1) \/ ~(queue + (runs + 1) * RunSize <= Target)
    BY <2>1, RunsAre
  <2>3. tick'.left = runs
    <3>1. tick' = IF runs > 0 THEN [Idle EXCEPT !.pc = "start", !.left = runs] ELSE Idle
      BY DEF Count
    <3> HIDE DEF runs
    <3>2. CASE runs > 0
      BY <3>1, <3>2 DEF Idle
    <3>3. CASE ~(runs > 0)
      BY <2>2, <3>1, <3>3, IdleType
    <3> QED
      BY <3>2, <3>3
  <2> HIDE DEF runs
  <2>4. \A n \in Nat \ {0} : queue + n * RunSize <= Target <=> Room(n * RunSize)
    <3> TAKE n \in Nat \ {0}
    <3>1. 1 * RunSize <= n * RunSize
      BY <2>1, ProductGrows
    <3>2. n * RunSize \in Int
      BY <2>1
    <3>3. n * RunSize \in Nat \ {0}
      BY <2>1, <3>1, <3>2
    <3> QED
      BY <3>3, TargetIs
  <2>5. runs + 1 \in Nat \ {0} /\ (runs > 0 => runs \in Nat \ {0})
    BY <2>2
  <2> QED
    BY <2>2, <2>3, <2>4, <2>5
<1> QED
  BY <1>1, Inductive, PTL DEF Spec, StartsWhatFits
=============================================================================
