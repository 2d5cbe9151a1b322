------------------------------ MODULE QuotaTopup ------------------------------
(***************************************************************************)
(* quota-topup.py, the CronJob that keeps Lingarr's queue as deep as       *)
(* MiniMax's quota can pay for, beside what it acts on: Lingarr, whose     *)
(* automation runs queue their items some time after they are asked for,   *)
(* and whose workers spend the quota; and the exporter, whose samples of   *)
(* the quota are behind.  Others spend the same quota.  WindowCost and     *)
(* WeekCost are what an item is reckoned at; if one costs more, the excess *)
(* counts as what others spent.                                            *)
(*                                                                         *)
(* Quotas, floors and prices are in points, as whole numbers.  Time shows  *)
(* as work: a sample is too old once more than MaxUnseen items were done   *)
(* since, which stands for 900 s of the workers and a tick.                *)
(***************************************************************************)
EXTENDS Integers

CONSTANTS
    Window, Week,           \* full quotas: of five hours, of the week
    WindowFloor, WeekFloor, \* what is not spent: WINDOW_FLOOR, WEEKLY_FLOOR
    WindowPts, WeekPts,     \* what an item is taken to cost: WINDOW_PTS, WEEKLY_PTS
    WindowCost, WeekCost,   \* the most that an item is reckoned at
    QueueTarget,            \* QUEUE_TARGET
    RunSize,                \* RUN_SIZE
    MaxRuns,                \* MAX_RUNS
    MaxUnseen,              \* the most items done from a sample to its use
    MaxFaults,              \* bound: calls that fail
    MaxOutside              \* bound: runs of Lingarr's schedule, and points that others
                            \* spend, until a tick starts a run

ASSUME QuotaAssumption ==
    /\ Window \in Nat /\ Week \in Nat /\ WindowFloor \in Nat /\ WeekFloor \in Nat
    /\ WindowCost \in Nat \ {0} /\ WindowPts \in Nat /\ WindowCost <= WindowPts
    /\ WeekCost \in Nat \ {0} /\ WeekPts \in Nat /\ WeekCost <= WeekPts
    /\ QueueTarget \in Nat /\ RunSize \in Nat \ {0} /\ MaxRuns \in Nat
    /\ MaxUnseen \in Nat /\ MaxFaults \in Nat /\ MaxOutside \in Nat
    /\ MaxUnseen * WindowCost <= WindowFloor /\ MaxUnseen * WeekCost <= WeekFloor

VARIABLES
    window, week,  \* what is left of the quotas
    phase,         \* far from the end of the week, within BURN_HORIZON_HOURS of it, or in
                   \* one of the pauses there, before a subtitle-dedupe run
    throttled,     \* were there THROTTLE_BRAKE 429s lately?
    seen,          \* the exporter's last sample of window and week
    unseen,        \* items done since
    aside,         \* what others spent since
    queue,         \* Lingarr: active requests
    pending,       \* Lingarr: runs asked for by ticks that have not queued their items
    own,           \* Lingarr: the same of its own schedule
    tick,          \* the tick: its step and what it has read
    retry,         \* did the tick fail, so that the Job starts another pod?
    faults,        \* how many calls failed
    hidden,        \* history: the runs that the last tick to start any did not count
    taken,         \* history: what others spent that the same tick did not see
    failed         \* history: did a request fail for want of quota?

quota   == <<window, week>>
sample  == <<seen, unseen, aside>>
lingarr == <<queue, pending, own, throttled>>
job     == <<tick, retry, faults>>
history == <<hidden, taken, failed>>
vars    == <<quota, phase, sample, lingarr, job, history>>

Untouched == [window |-> 0, week |-> 0]

Idle == [pc |-> "idle", week |-> 0, window |-> 0, unseen |-> 0, aside |-> Untouched, left |-> 0]

Init ==
    /\ window \in 0..Window /\ week \in 0..Week
    /\ phase = "far" /\ throttled = FALSE
    /\ seen = [window |-> window, week |-> week] /\ unseen = 0 /\ aside = Untouched
    /\ queue = 0 /\ pending = 0 /\ own = 0
    /\ tick = Idle /\ retry = FALSE /\ faults = 0
    /\ hidden = 0 /\ taken = Untouched /\ failed = FALSE
-----------------------------------------------------------------------------
(* MiniMax, its exporter and the clock.                                     *)

WindowReset ==
    /\ window' = Window
    /\ UNCHANGED <<week, phase, sample, lingarr, job, history>>

Time ==
    /\ \/ phase = "far" /\ phase' = "burn" /\ week' = week
       \/ phase = "burn" /\ phase' = "far" /\ week' = Week
       \/ phase = "burn" /\ phase' = "pause" /\ week' = week
       \/ phase = "pause" /\ phase' = "burn" /\ week' = week
    /\ UNCHANGED <<window, sample, lingarr, job, history>>

Sample ==
    /\ seen' = [window |-> window, week |-> week] /\ unseen' = 0 /\ aside' = Untouched
    /\ UNCHANGED <<quota, phase, lingarr, job, history>>
Plus(spent, w, k) == [window |-> spent.window + w, week |-> spent.week + k]

Reading == tick.pc \in {"window", "count"}

\* Another caller of MiniMax.
Spend(w, k) ==
    /\ window >= w /\ week >= k
    /\ hidden + taken.window + taken.week + w + k <= MaxOutside
    /\ window' = window - w /\ week' = week - k
    /\ aside' = Plus(aside, w, k) /\ taken' = Plus(taken, w, k)
    /\ tick' = IF Reading THEN [tick EXCEPT !.aside = Plus(@, w, k)] ELSE tick
    /\ UNCHANGED <<phase, seen, unseen, lingarr, retry, faults, hidden, failed>>
-----------------------------------------------------------------------------
(* Lingarr.                                                                 *)

OwnRun ==
    /\ own = 0 /\ hidden + taken.window + taken.week < MaxOutside
    /\ own' = 1
    /\ hidden' = hidden + 1
    /\ UNCHANGED <<quota, phase, sample, queue, pending, throttled, job, taken, failed>>

\* A run has scanned the library and found n items to queue.
Scan(n) ==
    /\ \/ pending > 0 /\ pending' = pending - 1 /\ own' = own
       \/ own > 0 /\ own' = own - 1 /\ pending' = pending
    /\ queue' = queue + n
    /\ UNCHANGED <<quota, phase, sample, throttled, job, history>>

AtMost(a, b) == IF a < b THEN a ELSE b

\* While a tick has yet to use its sample, no more is done than it allows for.
Translate(w, k) ==
    /\ queue > 0 /\ window >= w /\ week >= k
    /\ Reading => tick.unseen < MaxUnseen
    /\ queue' = queue - 1 /\ window' = window - w /\ week' = week - k
    /\ unseen' = AtMost(unseen + 1, MaxUnseen + 1)
    /\ tick' = IF Reading THEN [tick EXCEPT !.unseen = @ + 1] ELSE tick
    /\ UNCHANGED <<phase, seen, aside, pending, own, throttled, retry, faults, history>>

\* The cap is hit, and Lingarr gives the request up.
GiveUp ==
    /\ queue > 0 /\ (window < WindowCost \/ week < WeekCost)
    /\ queue' = queue - 1 /\ throttled' = TRUE /\ failed' = TRUE
    /\ UNCHANGED <<quota, phase, sample, pending, own, job, hidden, taken>>

\* The last 429 is 15 minutes ago.
Cool ==
    /\ throttled /\ throttled' = FALSE
    /\ UNCHANGED <<quota, phase, sample, queue, pending, own, job, history>>
-----------------------------------------------------------------------------
(* A tick.                                                                  *)

\* MUTANT: a sample of any age will do.
BeginAnyAge ==
    /\ tick.pc = "idle" /\ (pending = 0 \/ retry)
    /\ retry' = FALSE
    /\ tick' = IF phase = "pause" THEN Idle
               ELSE [Idle EXCEPT !.pc = "window", !.week = seen.week, !.unseen = unseen,
                                     !.aside = aside]
    /\ UNCHANGED <<quota, phase, sample, lingarr, faults, history>>

\* Every five minutes, by when the runs of the last tick are through; a Job that failed
\* does not wait.  The hour is that of the begin; then `age`, `status` and `weekly`: a
\* sample that is too old is not used.
Begin ==
    /\ tick.pc = "idle" /\ (pending = 0 \/ retry)
    /\ retry' = FALSE
    /\ tick' = IF phase = "pause" \/ unseen > MaxUnseen THEN Idle
               ELSE [Idle EXCEPT !.pc = "window", !.week = seen.week, !.unseen = unseen,
                                     !.aside = aside]
    /\ UNCHANGED <<quota, phase, sample, lingarr, faults, history>>

\* `window`, `reset_ms` and `throttled`.
ReadWindow ==
    /\ tick.pc = "window"
    /\ tick' = IF phase # "far" /\ ~throttled
               THEN [tick EXCEPT !.pc = "count", !.window = seen.window,
                                 !.aside.window = aside.window] ELSE Idle
    /\ UNCHANGED <<quota, phase, sample, lingarr, retry, faults, history>>

\* MUTANT: nothing is kept back.
ItemsToZero(left, floor, pts) == left \div pts

Items(left, floor, pts) == IF left > floor THEN (left - floor) \div pts ELSE 0

Target ==
    AtMost(QueueTarget, AtMost(Items(tick.window, WindowFloor, WindowPts),
                               Items(tick.week, WeekFloor, WeekPts)))

Wanted(target, active) == IF target > active THEN target - active ELSE 0

\* MUTANT: the last run need not fit.
RunsRoundedUp(target, active) ==
    LET fit == AtMost(MaxRuns, (Wanted(target, active) + RunSize - 1) \div RunSize)
    IN IF active = 0 THEN AtMost(fit, 1) ELSE fit

\* MUTANT: what is active is not taken off.
RunsFromTarget(target, active) ==
    LET fit == AtMost(MaxRuns, target \div RunSize)
    IN IF active = 0 THEN AtMost(fit, 1) ELSE fit

\* MUTANT: an empty queue has nothing to do.
RunsIfActive(target, active) ==
    IF active = 0 THEN 0 ELSE AtMost(MaxRuns, Wanted(target, active) \div RunSize)

\* Whole runs that fit; one, to try, if the queue is empty.
Runs(target, active) ==
    LET fit == AtMost(MaxRuns, Wanted(target, active) \div RunSize)
    IN IF active = 0 THEN AtMost(fit, 1) ELSE fit

Count ==
    LET runs == Runs(Target, queue)
    IN /\ tick.pc = "count"
       /\ tick' = IF runs > 0 THEN [Idle EXCEPT !.pc = "start", !.left = runs] ELSE Idle
       /\ hidden' = IF runs > 0 THEN pending + own ELSE hidden
       /\ taken' = IF runs > 0 THEN tick.aside ELSE taken
       /\ UNCHANGED <<quota, phase, sample, lingarr, retry, faults, failed>>

Start ==
    /\ tick.pc = "start"
    /\ pending' = pending + 1
    /\ tick' = IF tick.left > 1 THEN [tick EXCEPT !.left = @ - 1] ELSE Idle
    /\ UNCHANGED <<quota, phase, sample, queue, own, throttled, retry, faults, history>>

\* A call fails; one that starts a run may have been heard.
Fault ==
    /\ tick.pc # "idle" /\ faults < MaxFaults
    /\ faults' = faults + 1 /\ retry' = TRUE /\ tick' = Idle
    /\ pending' \in {pending, pending + (IF tick.pc = "start" THEN 1 ELSE 0)}
    /\ UNCHANGED <<quota, phase, sample, queue, own, throttled, history>>

Step == Begin \/ ReadWindow \/ Count \/ Start
Work == \E w \in 1..WindowCost, k \in 1..WeekCost : Translate(w, k)
Calm == Step \/ Work \/ GiveUp \/ Cool \/ Scan(RunSize) \/ Sample \/ WindowReset
Disturbance ==
    \/ Fault \/ OwnRun \/ Time
    \/ \E n \in 0..RunSize - 1 : Scan(n)
    \/ \E w, k \in 0..MaxOutside : Spend(w, k)

Next == Calm \/ Disturbance

Spec == Init /\ [][Next]_vars

\* The schedule goes on, workers work, runs end, the exporter samples, time passes.
FairSpec ==
    /\ Spec
    /\ WF_vars(Step) /\ WF_vars(Work) /\ WF_vars(Scan(RunSize))
    /\ WF_vars(Sample) /\ WF_vars(WindowReset) /\ WF_vars(Cool)
-----------------------------------------------------------------------------
(* Properties.                                                              *)

Spent == [window : Nat, week : Nat]

TickState ==
    [pc : {"idle", "window", "count", "start"},
     week : 0..Week, window : 0..Window, unseen : 0..MaxUnseen, aside : Spent, left : 0..MaxRuns]

TypeOK ==
    /\ window \in 0..Window /\ week \in 0..Week
    /\ phase \in {"far", "burn", "pause"} /\ throttled \in BOOLEAN
    /\ seen \in [window : 0..Window, week : 0..Week]
    /\ unseen \in 0..MaxUnseen + 1 /\ aside \in Spent
    /\ queue \in Nat /\ pending \in Nat /\ own \in 0..1
    /\ tick \in TickState /\ (tick.pc = "start" <=> tick.left > 0)
    /\ retry \in BOOLEAN /\ faults \in 0..MaxFaults
    /\ hidden \in Nat /\ taken \in Spent /\ failed \in BOOLEAN

\* Items that are queued or will be.
Committed == queue + (pending + own) * RunSize

\* Queued and running work fits in what is left of the window and of the week, but for the
\* runs that the tick could not count, and what others have spent since the samples it used
\* (quota-topup.py:14-20, 101-109).
WorkFits ==
    /\ (Committed - hidden * RunSize) * WindowCost <= window + taken.window
    /\ (Committed - hidden * RunSize) * WeekCost <= week + taken.week

\* The queue gets no deeper than asked for, but for the same runs (quota-topup.py:15-16).
QueueBound == Committed <= QueueTarget + hidden * RunSize

\* No request is lost to the cap unless a tick met runs that it could not count, or others
\* spent of the quota since (quota-topup.py:17-19, Lingarr's helmrelease.yaml:41-43).
NoneLost == [][failed' # failed => hidden > 0 \/ taken # Untouched]_vars

\* Near its end the week gets spent, down to less than a run above the floor
\* (quota-topup.py:2-12).
Spends ==
    <>[][Calm]_vars /\ <>[](phase = "burn") => <>(week - WeekFloor < RunSize * WeekPts)
=============================================================================
