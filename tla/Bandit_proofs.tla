--------------------------- MODULE Bandit_proofs ---------------------------
(***************************************************************************)
(* Theorems about Bandit, for any number of arms, threads, overlapping     *)
(* refits and rewards, and any drift of the sampled posteriors.  A reward  *)
(* that a thread has yet to count is in neither the log nor the counts of  *)
(* a run, nor, if the redis client does not resend, the store (Cell): so   *)
(* none is counted twice, and refits heal what resends count twice.  Only  *)
(* runs that are stale take the counters away from the log (StaleRuns).    *)
(***************************************************************************)
EXTENDS Bandit, FiniteSetTheorems, TLAPS

\* The threads that have yet to do one of the steps S for a reward r of arm a.
Waiting(S, a, r) ==
    {h \in Handlers : /\ handler[h] # Idle
                      /\ handler[h].pc \in S
                      /\ handler[h].arm = a
                      /\ handler[h].reward = r}

NotCounted(a, r) == Cardinality(Waiting({"incr"}, a, r))
NotLogged(a, r) == Cardinality(Waiting({"incr", "log"}, a, r))

\* A reward still to be counted is neither in the log, nor in what a refit
\* fetched or computed, nor in the store.
Cell(a, r) ==
    /\ log[a][r] + NotLogged(a, r) <= posted[a][r]
    /\ Resends \/ store[a][r] + NotCounted(a, r) <= posted[a][r] + 2 + Drift
    /\ \A n \in Runs :
          /\ run[n].pc = "refit" => run[n].counts[a][r] + NotCounted(a, r) <= posted[a][r]
          /\ run[n].pc = "write" => run[n].counts[a][r] + NotCounted(a, r) <= posted[a][r] + 2 + Drift

CountInv == \A a \in Arms, r \in Reward : Cell(a, r)

-----------------------------------------------------------------------------
(* Counters and sets of threads.                                           *)

LEMMA PlusCounts ==
    ASSUME NEW c \in Counts, NEW a \in Arms, NEW r \in Reward
    PROVE  /\ Plus(c, a, r) \in Counts
           /\ \A b \in Arms, q \in Reward :
                 Plus(c, a, r)[b][q] = IF b = a /\ q = r THEN c[b][q] + 1 ELSE c[b][q]
  BY DEF Plus, Counts, Reward

LEMMA WaitingFinite ==
    ASSUME NEW S, NEW a, NEW r
    PROVE  IsFiniteSet(Waiting(S, a, r)) /\ Cardinality(Waiting(S, a, r)) \in Nat
  <1>1. Waiting(S, a, r) \subseteq Handlers
    BY DEF Waiting
  <1>2. QED  BY <1>1, BanditAssumption, FS_Subset, FS_CardinalityType

LEMMA WaitingPrimeFinite ==
    ASSUME NEW S, NEW a, NEW r
    PROVE  IsFiniteSet(Waiting(S, a, r)') /\ Cardinality(Waiting(S, a, r)') \in Nat
  <1>1. Waiting(S, a, r)' \subseteq Handlers
    BY DEF Waiting
  <1>2. QED  BY <1>1, BanditAssumption, FS_Subset, FS_CardinalityType

\* What is still to be counted is still to be logged.
LEMMA NotCountedNotLogged ==
    ASSUME NEW a \in Arms, NEW r \in Reward
    PROVE  /\ NotCounted(a, r) \in Nat /\ NotLogged(a, r) \in Nat
           /\ NotCounted(a, r) <= NotLogged(a, r)
  <1>1. Waiting({"incr"}, a, r) \subseteq Waiting({"incr", "log"}, a, r)
    BY DEF Waiting
  <1>2. QED  BY <1>1, WaitingFinite, FS_Subset DEF NotCounted, NotLogged

\* The threads that wait never grow in number unless one joins.
LEMMA WaitingShrinks ==
    ASSUME NEW a \in Arms, NEW r \in Reward,
           Waiting({"incr"}, a, r)' \subseteq Waiting({"incr"}, a, r),
           Waiting({"incr", "log"}, a, r)' \subseteq Waiting({"incr", "log"}, a, r)
    PROVE  /\ NotCounted(a, r)' <= NotCounted(a, r)
           /\ NotLogged(a, r)' <= NotLogged(a, r)
           /\ NotCounted(a, r)' \in Nat /\ NotLogged(a, r)' \in Nat
  BY WaitingFinite, WaitingPrimeFinite, FS_Subset DEF NotCounted, NotLogged

\* One thread leaves a set of waiting threads.
LEMMA WaitingLeaves ==
    ASSUME NEW S, NEW a, NEW r, NEW h \in Waiting(S, a, r),
           Waiting(S, a, r)' = Waiting(S, a, r) \ {h}
    PROVE  Cardinality(Waiting(S, a, r)') = Cardinality(Waiting(S, a, r)) - 1
  BY WaitingFinite, FS_RemoveElement

\* One thread joins.
LEMMA WaitingJoins ==
    ASSUME NEW S, NEW a, NEW r, NEW h, h \notin Waiting(S, a, r),
           Waiting(S, a, r)' = Waiting(S, a, r) \union {h}
    PROVE  Cardinality(Waiting(S, a, r)') = Cardinality(Waiting(S, a, r)) + 1
  BY WaitingFinite, FS_AddElement
-----------------------------------------------------------------------------
(* Type correctness.                                                       *)

\* A refit raises a count by the prior and the drift at most.
LEMMA PosteriorType ==
    ASSUME NEW stats \in Counts, NEW shift \in [Arms -> Shift]
    PROVE  /\ Posterior(stats, shift) \in Counts
           /\ Posterior(stats, shift) \in Posteriors
           /\ \A a \in Arms, r \in Reward : Posterior(stats, shift)[a][r] <= stats[a][r] + 2 + Drift
  <1> DEFINE p == Posterior(stats, shift)
  <1>1. \A a \in Arms, r \in Reward : stats[a][r] \in Nat
    BY DEF Counts
  <1>2. \A a \in Arms, r \in Reward : shift[a][r] \in Int /\ shift[a][r] <= Drift
    BY BanditAssumption DEF Shift
  <1>3. ASSUME NEW a \in Arms, NEW r \in Reward
        PROVE  /\ p[a][r] \in Nat
               /\ p[a][r] <= stats[a][r] + 2 + Drift
               /\ p[a][r] = 0 <=> ~Observed(stats, a)
    <2>1. p[a][r] = IF Observed(stats, a) THEN AtLeast1(stats[a][r] + 2 + shift[a][r]) ELSE 0
      BY DEF Posterior
    <2>2. AtLeast1(stats[a][r] + 2 + shift[a][r]) \in Nat \ {0}
      BY <1>1, <1>2 DEF AtLeast1
    <2>3. AtLeast1(stats[a][r] + 2 + shift[a][r]) <= stats[a][r] + 2 + Drift
      BY <1>1, <1>2, BanditAssumption DEF AtLeast1
    <2>4. QED  BY <1>1, <2>1, <2>2, <2>3, BanditAssumption
  <1>4. p \in Counts
    BY <1>3 DEF Posterior, Counts
  <1>5. p \in Posteriors
    BY <1>3, <1>4 DEF Posteriors, Reward
  <1>6. QED  BY <1>3, <1>4, <1>5

\* Counters stay naturals and every thread and run in one of its steps.
THEOREM TypeCorrect == Spec => []TypeOK
  <1>1. Init => TypeOK
    <2> SUFFICES ASSUME Init PROVE TypeOK
      OBVIOUS
    <2>1. store \in Counts /\ log \in Counts /\ posted \in Counts
      BY DEF Init, Counts, Zero, Reward
    <2>2. handler \in [Handlers -> HandlerState] /\ run \in [Runs -> RunState]
      BY DEF Init, HandlerState, RunState
    <2>3. \A n \in Runs : run[n].pc # "write"
      BY DEF Init, Idle
    <2>4. schema \in BOOLEAN
      BY DEF Init
    <2>5. QED  BY <2>1, <2>2, <2>3, <2>4 DEF TypeOK
  <1>2. TypeOK /\ [Next]_vars => TypeOK'
    <2> SUFFICES ASSUME TypeOK, [Next]_vars PROVE TypeOK'
      OBVIOUS
    <2> USE DEF TypeOK
    <2>1. ASSUME NEW h \in Handlers, RewardStep(h) PROVE TypeOK'
      <3>1. ASSUME NEW a \in Arms, NEW r \in Reward, Post(h, a, r) PROVE TypeOK'
        BY <3>1, PlusCounts DEF Post, HandlerState, Then
      <3>2. CASE Incr(h)
        <4>1. handler[h].arm \in Arms /\ handler[h].reward \in Reward
          BY <3>2 DEF Incr, HandlerState, Idle
        <4>2. QED  BY <3>2, <4>1, PlusCounts DEF Incr, Goto, Then, HandlerState, Idle
      <3>6. CASE IncrUnanswered(h)
        <4>1. handler[h].arm \in Arms /\ handler[h].reward \in Reward
          BY <3>6 DEF IncrUnanswered, HandlerState, Idle
        <4>2. QED  BY <3>6, <4>1, PlusCounts DEF IncrUnanswered
      <3>3. CASE LogReward(h)
        <4>1. handler[h].arm \in Arms /\ handler[h].reward \in Reward
          BY <3>3 DEF LogReward, HandlerState, Idle
        <4>2. QED  BY <3>3, <4>1, PlusCounts DEF LogReward, Goto, Then, HandlerState
      <3>4. CASE HandlerFails(h)  BY <3>4 DEF HandlerFails, HandlerState
      <3>5. QED  BY <2>1, <3>1, <3>2, <3>6, <3>3, <3>4 DEF RewardStep
    <2>2. CASE Restart  BY <2>2 DEF Restart, HandlerState
    <2>3. ASSUME NEW n \in Runs, RefitStep(n) \/ WriteUnanswered(n) \/ RunFails(n) PROVE TypeOK'
      <3> USE DEF Idle
      <3>1. CASE Fetch(n)  BY <3>1 DEF Fetch, RunState
      <3>2. CASE Refit(n)
        <4>1. run[n].counts \in Counts
          BY <3>2 DEF Refit, RunState, Idle
        <4>2. QED  BY <3>2, <4>1, PosteriorType DEF Refit, RunState
      <3>3. CASE Write(n)
        <4>1. run[n].counts \in Counts
          BY <3>3 DEF Write, RunState, Idle
        <4>2. store' \in Counts
          BY <3>3, <4>1 DEF Write, Counts
        <4>3. QED  BY <3>3, <4>2 DEF Write, RunState
      <3>4. CASE RunFails(n)  BY <3>4 DEF RunFails, RunState
      <3>6. CASE WriteUnanswered(n)
        <4>1. run[n].counts \in Counts
          BY <3>6 DEF WriteUnanswered, RunState
        <4>2. store' \in Counts
          BY <3>6, <4>1 DEF WriteUnanswered, Counts
        <4>3. QED  BY <3>6, <4>2 DEF WriteUnanswered
      <3>5. QED  BY <2>3, <3>1, <3>2, <3>3, <3>4, <3>6 DEF RefitStep
    <2>4. ASSUME NEW a \in Arms, Seed(a) PROVE TypeOK'
      BY <2>4 DEF Seed, Counts
    <2>5. ASSUME NEW a \in Arms, NEW r \in Reward, Expire(a, r) PROVE TypeOK'
      BY <2>5 DEF Expire, Counts
    <2>6. CASE Flush  BY <2>6 DEF Flush, Zero, Counts
    <2>7. CASE UNCHANGED vars  BY <2>7 DEF vars
    <2>8. QED  BY <2>1, <2>2, <2>3, <2>4, <2>5, <2>6, <2>7 DEF Next
  <1>3. QED  BY <1>1, <1>2, PTL DEF Spec
-----------------------------------------------------------------------------
(* No double counting.                                                     *)

\* The numbers a cell speaks about are naturals.
LEMMA CellTypes ==
    ASSUME TypeOK, NEW a \in Arms, NEW r \in Reward
    PROVE  /\ store[a][r] \in Nat /\ log[a][r] \in Nat /\ posted[a][r] \in Nat
           /\ NotCounted(a, r) \in Nat /\ NotLogged(a, r) \in Nat
           /\ NotCounted(a, r) <= NotLogged(a, r)
           /\ Drift \in Nat
           /\ \A n \in Runs : run[n] # Idle => run[n].counts \in Counts /\ run[n].counts[a][r] \in Nat
           /\ \A n \in Runs : run[n].pc \in {"refit", "write"} => run[n] # Idle
  <1>1. /\ NotCounted(a, r) \in Nat /\ NotLogged(a, r) \in Nat
        /\ NotCounted(a, r) <= NotLogged(a, r)
    BY NotCountedNotLogged
  <1>2. store[a][r] \in Nat /\ log[a][r] \in Nat /\ posted[a][r] \in Nat
    BY DEF TypeOK, Counts
  <1>3. \A n \in Runs : run[n] # Idle => run[n].counts \in Counts
    BY DEF TypeOK, RunState
  <1>4. \A n \in Runs : run[n].pc \in {"refit", "write"} => run[n] # Idle
    BY DEF Idle
  <1>5. QED  BY <1>1, <1>2, <1>3, <1>4, BanditAssumption DEF Counts

\* A step that fails or stops threads and leaves the counts alone keeps a cell.
LEMMA CellShrinks ==
    ASSUME TypeOK, NEW a \in Arms, NEW r \in Reward, Cell(a, r),
           \A h \in Handlers : handler'[h] \in {handler[h], Idle},
           UNCHANGED <<store, log, posted, run>>
    PROVE  Cell(a, r)'
  <1>1. /\ Waiting({"incr"}, a, r)' \subseteq Waiting({"incr"}, a, r)
        /\ Waiting({"incr", "log"}, a, r)' \subseteq Waiting({"incr", "log"}, a, r)
    BY DEF Waiting
  <1>2. /\ NotCounted(a, r)' <= NotCounted(a, r)
        /\ NotLogged(a, r)' <= NotLogged(a, r)
        /\ NotCounted(a, r)' \in Nat /\ NotLogged(a, r)' \in Nat
    BY <1>1, WaitingShrinks
  <1>3. QED  BY <1>2, CellTypes DEF Cell

\* A step that leaves the threads alone leaves their numbers alone.
LEMMA SameThreads ==
    ASSUME NEW a \in Arms, NEW r \in Reward, UNCHANGED handler
    PROVE  NotCounted(a, r)' = NotCounted(a, r) /\ NotLogged(a, r)' = NotLogged(a, r)
  BY DEF NotCounted, NotLogged, Waiting

LEMMA PostKeepsCells ==
    ASSUME TypeOK, NEW h \in Handlers, NEW b \in Arms, NEW q \in Reward, Post(h, b, q),
           NEW a \in Arms, NEW r \in Reward, Cell(a, r)
    PROVE  Cell(a, r)'
  <1>1. handler' = [handler EXCEPT ![h] = [pc |-> "incr", arm |-> b, reward |-> q]]
    BY DEF Post, Then
  <1>2. handler \in [Handlers -> HandlerState]
    BY DEF TypeOK
  <1>3. handler'[h] = [pc |-> "incr", arm |-> b, reward |-> q] /\ handler'[h] # Idle
    BY <1>1, <1>2 DEF Idle
  <1>4. posted'[a][r] = IF a = b /\ r = q THEN posted[a][r] + 1 ELSE posted[a][r]
    BY PlusCounts DEF Post, TypeOK
  <1>5. CASE a = b /\ r = q
    <2>1. \A S : h \notin Waiting(S, a, r)
      BY DEF Waiting, Post
    <2>2. /\ Waiting({"incr"}, a, r)' = Waiting({"incr"}, a, r) \union {h}
          /\ Waiting({"incr", "log"}, a, r)' = Waiting({"incr", "log"}, a, r) \union {h}
      BY <1>1, <1>2, <1>3, <1>5 DEF Waiting
    <2>3. /\ NotCounted(a, r)' = NotCounted(a, r) + 1
          /\ NotLogged(a, r)' = NotLogged(a, r) + 1
      BY <2>1, <2>2, WaitingJoins DEF NotCounted, NotLogged
    <2>4. QED  BY <1>4, <1>5, <2>3, CellTypes DEF Cell, Post
  <1>6. CASE ~(a = b /\ r = q)
    <2>1. \A S : Waiting(S, a, r)' = Waiting(S, a, r)
      BY <1>1, <1>2, <1>3, <1>6 DEF Waiting, Post
    <2>2. NotCounted(a, r)' = NotCounted(a, r) /\ NotLogged(a, r)' = NotLogged(a, r)
      BY <2>1 DEF NotCounted, NotLogged
    <2>3. QED  BY <1>4, <1>6, <2>2, CellTypes DEF Cell, Post
  <1>7. QED  BY <1>5, <1>6

LEMMA IncrKeepsCells ==
    ASSUME TypeOK, NEW h \in Handlers, Incr(h),
           NEW a \in Arms, NEW r \in Reward, Cell(a, r)
    PROVE  Cell(a, r)'
  <1> DEFINE b == handler[h].arm
             q == handler[h].reward
  <1>1. handler \in [Handlers -> HandlerState] /\ handler[h] # Idle /\ handler[h].pc = "incr"
    BY DEF TypeOK, Incr, Idle
  <1>2. b \in Arms /\ q \in Reward
    BY <1>1 DEF HandlerState
  <1>3. handler' = [handler EXCEPT ![h] = [pc |-> "log", arm |-> b, reward |-> q]]
    BY DEF Incr, Goto, Then
  <1>4. handler'[h] = [pc |-> "log", arm |-> b, reward |-> q] /\ handler'[h] # Idle
    BY <1>1, <1>3 DEF Idle
  <1>5. store'[a][r] = IF a = b /\ r = q THEN store[a][r] + 1 ELSE store[a][r]
    BY <1>2, PlusCounts DEF Incr, TypeOK
  <1>6. Waiting({"incr", "log"}, a, r)' = Waiting({"incr", "log"}, a, r)
    BY <1>1, <1>3, <1>4 DEF Waiting
  <1>7. CASE a = b /\ r = q
    <2>1. h \in Waiting({"incr"}, a, r)
      BY <1>1, <1>7 DEF Waiting
    <2>2. Waiting({"incr"}, a, r)' = Waiting({"incr"}, a, r) \ {h}
      BY <1>1, <1>3, <1>4 DEF Waiting
    <2>3. NotCounted(a, r)' = NotCounted(a, r) - 1
      BY <2>1, <2>2, WaitingLeaves DEF NotCounted
    <2>4. NotCounted(a, r)' \in Nat
      BY WaitingPrimeFinite DEF NotCounted
    <2>5. QED  BY <1>5, <1>6, <1>7, <2>3, <2>4, CellTypes DEF Cell, Incr, NotLogged
  <1>8. CASE ~(a = b /\ r = q)
    <2>1. Waiting({"incr"}, a, r)' = Waiting({"incr"}, a, r)
      BY <1>1, <1>3, <1>4, <1>8 DEF Waiting
    <2>2. QED  BY <1>5, <1>6, <1>8, <2>1, CellTypes DEF Cell, Incr, NotCounted, NotLogged
  <1>9. QED  BY <1>7, <1>8

LEMMA LogKeepsCells ==
    ASSUME TypeOK, NEW h \in Handlers, LogReward(h),
           NEW a \in Arms, NEW r \in Reward, Cell(a, r)
    PROVE  Cell(a, r)'
  <1> DEFINE b == handler[h].arm
             q == handler[h].reward
  <1>1. handler \in [Handlers -> HandlerState] /\ handler[h] # Idle /\ handler[h].pc = "log"
    BY DEF TypeOK, LogReward, Idle
  <1>2. b \in Arms /\ q \in Reward
    BY <1>1 DEF HandlerState
  <1>3. handler' = [handler EXCEPT ![h] = Idle]
    BY DEF LogReward, Goto, Then
  <1>4. log'[a][r] = log[a][r] \/ (a = b /\ r = q /\ log'[a][r] = log[a][r] + 1)
    BY <1>2, PlusCounts DEF LogReward, TypeOK
  <1>5. Waiting({"incr"}, a, r)' = Waiting({"incr"}, a, r)
    BY <1>1, <1>3 DEF Waiting
  <1>6. CASE a = b /\ r = q
    <2>1. h \in Waiting({"incr", "log"}, a, r)
      BY <1>1, <1>6 DEF Waiting
    <2>2. Waiting({"incr", "log"}, a, r)' = Waiting({"incr", "log"}, a, r) \ {h}
      BY <1>1, <1>3 DEF Waiting
    <2>3. NotLogged(a, r)' = NotLogged(a, r) - 1
      BY <2>1, <2>2, WaitingLeaves DEF NotLogged
    <2>4. QED  BY <1>4, <1>5, <2>3, CellTypes DEF Cell, LogReward, NotCounted
  <1>7. CASE ~(a = b /\ r = q)
    <2>1. Waiting({"incr", "log"}, a, r)' = Waiting({"incr", "log"}, a, r)
      BY <1>1, <1>3, <1>7 DEF Waiting
    <2>2. QED  BY <1>4, <1>5, <1>7, <2>1, CellTypes DEF Cell, LogReward, NotCounted, NotLogged
  <1>8. QED  BY <1>6, <1>7

\* Whatever a refit carries or writes was logged or computed from what was.
LEMMA RefitKeepsCells ==
    ASSUME TypeOK, NEW m \in Runs, RefitStep(m) \/ WriteUnanswered(m) \/ RunFails(m),
           NEW a \in Arms, NEW r \in Reward, Cell(a, r)
    PROVE  Cell(a, r)'
  <1>1. handler' = handler /\ posted' = posted /\ log' = log
    BY DEF RefitStep, Fetch, Refit, Write, WriteUnanswered, RunFails
  <1>2. NotCounted(a, r)' = NotCounted(a, r) /\ NotLogged(a, r)' = NotLogged(a, r)
    BY <1>1, SameThreads
  <1>3. run \in [Runs -> RunState]
    BY DEF TypeOK
  <1>4. log[a][r] + NotCounted(a, r) <= posted[a][r]
    BY CellTypes DEF Cell
  <1>5. CASE Fetch(m)
    BY <1>1, <1>2, <1>3, <1>4, <1>5 DEF Fetch, Cell
  <1>6. CASE Refit(m)
    <2>1. run[m].pc = "refit" /\ run[m].counts \in Counts /\ run[m].counts[a][r] \in Nat
      BY <1>6, CellTypes DEF Refit
    <2>2. PICK shift \in [Arms -> Shift] :
             run' = [run EXCEPT ![m] =
                        [pc |-> "write", counts |-> Posterior(run[m].counts, shift)]]
      BY <1>6 DEF Refit
    <2> DEFINE p == Posterior(run[m].counts, shift)[a][r]
    <2>3. p \in Nat /\ p <= run[m].counts[a][r] + 2 + Drift
      <3>1. /\ Posterior(run[m].counts, shift) \in Counts
            /\ \A b \in Arms, q \in Reward :
                  Posterior(run[m].counts, shift)[b][q] <= run[m].counts[b][q] + 2 + Drift
        BY <2>1, PosteriorType
      <3>2. QED  BY <3>1 DEF Counts
    <2>4. p + NotCounted(a, r) <= posted[a][r] + 2 + Drift
      BY <2>1, <2>3, CellTypes DEF Cell
    <2>5. run'[m].pc = "write" /\ run'[m].counts[a][r] = p
      BY <1>3, <2>2
    <2>6. \A n \in Runs : n # m => run'[n] = run[n]
      BY <1>3, <2>2
    <2>7. QED  BY <1>1, <1>2, <1>6, <2>4, <2>5, <2>6 DEF Cell, Refit
  <1>7. CASE Write(m)
    <2>1. run[m].pc = "write" /\ run' = [run EXCEPT ![m] = Idle]
      BY <1>7 DEF Write
    <2>2. store'[a][r] \in {run[m].counts[a][r], store[a][r]}
      BY <1>7 DEF Write
    <2>3. Resends \/ store'[a][r] + NotCounted(a, r) <= posted[a][r] + 2 + Drift
      BY <2>1, <2>2, CellTypes DEF Cell
    <2>4. \A n \in Runs : run'[n] = run[n] \/ run'[n] = Idle
      BY <1>3, <2>1
    <2>5. \A n \in Runs : run'[n].pc \in {"refit", "write"} => run'[n] = run[n]
      BY <2>4 DEF Idle
    <2>6. QED  BY <1>1, <1>2, <2>3, <2>5 DEF Cell
  <1>8. CASE RunFails(m)
    <2>1. run' = [run EXCEPT ![m] = Idle] /\ store' = store
      BY <1>8 DEF RunFails
    <2>2. \A n \in Runs : run'[n] = run[n] \/ run'[n] = Idle
      BY <1>3, <2>1
    <2>3. \A n \in Runs : run'[n].pc \in {"refit", "write"} => run'[n] = run[n]
      BY <2>2 DEF Idle
    <2>4. QED  BY <1>1, <1>2, <2>1, <2>3 DEF Cell
  <1>9. CASE WriteUnanswered(m)
    BY <1>1, <1>2, <1>9 DEF WriteUnanswered, Cell
  <1>10. QED  BY <1>5, <1>6, <1>7, <1>8, <1>9 DEF RefitStep

\* Seeding, expiry and the loss of the store.
LEMMA WorldKeepsCells ==
    ASSUME TypeOK, NEW a \in Arms, NEW r \in Reward, Cell(a, r),
           \/ \E b \in Arms : Seed(b) \/ \E q \in Reward : Expire(b, q)
           \/ Flush
    PROVE  Cell(a, r)'
  <1>1. UNCHANGED <<handler, posted, run>>
    BY DEF Seed, Expire, Flush
  <1>2. NotCounted(a, r)' = NotCounted(a, r) /\ NotLogged(a, r)' = NotLogged(a, r)
    BY <1>1, SameThreads
  <1>3. log'[a][r] <= log[a][r] /\ log'[a][r] \in Nat
    <2>1. log[a][r] \in Nat
      BY CellTypes
    <2>2. ASSUME NEW b \in Arms, NEW q \in Reward, Expire(b, q)
          PROVE  log'[a][r] <= log[a][r] /\ log'[a][r] \in Nat
      <3>1. log' = [log EXCEPT ![b][q] = @ - 1] /\ log[b][q] > 0
        BY <2>2 DEF Expire
      <3>2. log'[a][r] = IF a = b /\ r = q THEN log[a][r] - 1 ELSE log[a][r]
        BY <3>1 DEF TypeOK, Counts
      <3>3. QED  BY <2>1, <3>1, <3>2
    <2>3. QED  BY <2>1, <2>2 DEF Seed, Flush
  <1>4. store'[a][r] = store[a][r] \/ store'[a][r] \in {0, 1}
    BY DEF Seed, Expire, Flush, TypeOK, Counts, Zero
  <1>5. Resends \/ store'[a][r] + NotCounted(a, r) <= posted[a][r] + 2 + Drift
    BY <1>4, CellTypes DEF Cell
  <1>6. log'[a][r] + NotLogged(a, r) <= posted[a][r]
    BY <1>3, CellTypes DEF Cell
  <1>7. QED  BY <1>1, <1>2, <1>5, <1>6 DEF Cell

LEMMA Counting == Spec => []CountInv
  <1>1. Init => CountInv
    <2> SUFFICES ASSUME Init, NEW a \in Arms, NEW r \in Reward PROVE Cell(a, r)
      BY DEF CountInv
    <2>1. \A S : Waiting(S, a, r) = {}
      BY DEF Init, Waiting
    <2>2. NotCounted(a, r) = 0 /\ NotLogged(a, r) = 0
      BY <2>1, FS_EmptySet DEF NotCounted, NotLogged
    <2>3. store[a][r] = 0 /\ log[a][r] = 0 /\ posted[a][r] = 0
      BY DEF Init, Zero
    <2>4. \A n \in Runs : run[n].pc = "idle"
      BY DEF Init, Idle
    <2>5. QED  BY <2>2, <2>3, <2>4, BanditAssumption DEF Cell
  <1>2. TypeOK /\ CountInv /\ [Next]_vars => CountInv'
    <2> SUFFICES ASSUME TypeOK, CountInv, [Next]_vars, NEW a \in Arms, NEW r \in Reward
                 PROVE  Cell(a, r)'
      BY DEF CountInv
    <2>1. Cell(a, r)
      BY DEF CountInv
    <2>2. ASSUME NEW h \in Handlers, RewardStep(h) PROVE Cell(a, r)'
      <3>1. CASE HandlerFails(h)
        BY <2>1, <3>1, CellShrinks DEF HandlerFails, TypeOK
      <3>2. CASE IncrUnanswered(h)
        BY <2>1, <3>2, SameThreads DEF IncrUnanswered, Cell
      <3>3. QED  BY <2>1, <2>2, <3>1, <3>2, PostKeepsCells, IncrKeepsCells, LogKeepsCells
                DEF RewardStep
    <2>3. CASE Restart
      BY <2>1, <2>3, CellShrinks DEF Restart
    <2>4. ASSUME NEW n \in Runs, RefitStep(n) \/ WriteUnanswered(n) \/ RunFails(n) PROVE Cell(a, r)'
      BY <2>1, <2>4, RefitKeepsCells
    <2>5. CASE \/ \E b \in Arms : Seed(b) \/ \E q \in Reward : Expire(b, q)
               \/ Flush
      BY <2>1, <2>5, WorldKeepsCells
    <2>6. CASE UNCHANGED vars
      BY <2>1, <2>6, SameThreads DEF vars, Cell
    <2>7. QED  BY <2>2, <2>3, <2>4, <2>5, <2>6 DEF Next
  <1>3. QED  BY <1>1, <1>2, TypeCorrect, PTL DEF Spec

\* No reward is counted twice: a counter never exceeds the rewards posted for it
\* plus the prior and the drift, whatever threads, refits, restarts and failures do
\* (a client that resends commands can break it, until the next refit).
THEOREM NoDoubleCount == ASSUME ~Resends PROVE Spec => []NeverOvercounts
  <1>1. TypeOK /\ CountInv => NeverOvercounts
    BY CellTypes DEF CountInv, Cell, NeverOvercounts
  <1>2. QED  BY <1>1, Counting, TypeCorrect, PTL

\* Whatever the client resends, a reward is in the log once at most, and what a refit puts
\* in the store is not more than was posted, up to the prior and the drift.
WritesNoOvercount ==
    [][ /\ \A a \in Arms, r \in Reward : log'[a][r] <= posted'[a][r]
        /\ \A n \in Runs : Write(n) \/ WriteUnanswered(n) =>
              \A a \in Arms, r \in Reward :
                 Observed(run[n].counts, a) => store'[a][r] <= posted[a][r] + 2 + Drift ]_vars

\* So the refit heals what a client that resends has counted twice (ops.py:33-52, 108-119).
THEOREM RefitHeals == Spec => WritesNoOvercount
  <1>1. TypeOK /\ CountInv /\ TypeOK' /\ CountInv' =>
          [ /\ \A a \in Arms, r \in Reward : log'[a][r] <= posted'[a][r]
            /\ \A n \in Runs : Write(n) \/ WriteUnanswered(n) =>
                  \A a \in Arms, r \in Reward :
                     Observed(run[n].counts, a) => store'[a][r] <= posted[a][r] + 2 + Drift ]_vars
    <2> SUFFICES ASSUME TypeOK, CountInv, TypeOK', CountInv', NEW a \in Arms, NEW r \in Reward
                 PROVE  /\ log'[a][r] <= posted'[a][r]
                        /\ \A n \in Runs : Write(n) \/ WriteUnanswered(n) =>
                              (Observed(run[n].counts, a) =>
                                  store'[a][r] <= posted[a][r] + 2 + Drift)
      OBVIOUS
    <2>1. log'[a][r] <= posted'[a][r]
      <3>1. Cell(a, r)'
        BY DEF CountInv
      <3>2. log'[a][r] \in Nat /\ posted'[a][r] \in Nat /\ NotLogged(a, r)' \in Nat
        BY WaitingPrimeFinite DEF TypeOK, Counts, NotLogged
      <3>3. QED  BY <3>1, <3>2 DEF Cell
    <2>2. ASSUME NEW n \in Runs, Write(n) \/ WriteUnanswered(n), Observed(run[n].counts, a)
          PROVE  store'[a][r] <= posted[a][r] + 2 + Drift
      <3>1. run[n].pc = "write" /\ store'[a][r] = run[n].counts[a][r]
        BY <2>2 DEF Write, WriteUnanswered
      <3>2. run[n].counts[a][r] + NotCounted(a, r) <= posted[a][r] + 2 + Drift
        BY <3>1 DEF CountInv, Cell
      <3>3. QED  BY <3>1, <3>2, CellTypes
    <2>3. QED  BY <2>1, <2>2
  <1>2. QED  BY <1>1, Counting, TypeCorrect, PTL DEF Spec, WritesNoOvercount
-----------------------------------------------------------------------------
(* Catching up.  A run is stale when rows came or went since it read the    *)
(* log.  Only a stale run can take the counters away from the log.          *)

\* Counts that a refit of the log as it is could have made.
Near(counts) ==
    \A a \in Arms : Observed(log, a) =>
        /\ Observed(counts, a)
        /\ \A r \in Reward : counts[a][r] - log[a][r] \in 2 - Drift .. 2 + Drift

StaleRuns ==
    {n \in Runs : \/ run[n].pc = "refit" /\ run[n].counts # log
                  \/ run[n].pc = "write" /\ ~Near(run[n].counts)}

CaughtUp ==
    \A a \in Arms, r \in Reward :
        Observed(log, a) => store[a][r] - log[a][r] \in 2 - Drift .. 2 + Drift

\* While only refits happen: none becomes stale, a stale one is not after two steps of its
\* own, what any other writes is caught up, and that lasts once no stale one is left.
RefitsSettle ==
    [][ (\E n \in Runs : RefitStep(n)) =>
        /\ StaleRuns' \subseteq StaleRuns
        /\ \A n \in Runs : RefitStep(n) /\ n \in StaleRuns' => Refit(n)
        /\ \A n \in Runs : Write(n) /\ n \notin StaleRuns => CaughtUp'
        /\ CaughtUp /\ StaleRuns = {} => CaughtUp' ]_vars

\* A refit of the log is near it.
LEMMA RefitNear ==
    ASSUME TypeOK, NEW shift \in [Arms -> Shift]
    PROVE  Near(Posterior(log, shift))
<1> SUFFICES ASSUME NEW a \in Arms, Observed(log, a)
             PROVE  /\ Observed(Posterior(log, shift), a)
                    /\ \A r \in Reward :
                          Posterior(log, shift)[a][r] - log[a][r] \in 2 - Drift .. 2 + Drift
  BY DEF Near
<1>1. ASSUME NEW r \in Reward
      PROVE  /\ Posterior(log, shift)[a][r] \in Nat \ {0}
             /\ Posterior(log, shift)[a][r] - log[a][r] \in 2 - Drift .. 2 + Drift
  <2>1. log[a][r] \in Nat /\ Drift \in Nat
    BY BanditAssumption DEF TypeOK, Counts
  <2>2. shift[a][r] \in -Drift..Drift
    BY DEF Shift
  <2>3. Posterior(log, shift)[a][r] = AtLeast1(log[a][r] + 2 + shift[a][r])
    BY DEF Posterior
  <2> DEFINE l == log[a][r]
             s == shift[a][r]
             p == Posterior(log, shift)[a][r]
  <2> HIDE DEF l, s, p
  <2>4. l \in Nat /\ s \in -Drift..Drift /\ p = AtLeast1(l + 2 + s)
    BY <2>1, <2>2, <2>3 DEF l, s, p
  <2>5. p \in Nat \ {0} /\ p - l \in 2 - Drift .. 2 + Drift
    BY <2>1, <2>4 DEF AtLeast1
  <2> QED
    BY <2>5 DEF p, l
<1>2. 0 \in Reward /\ 1 \in Reward
  BY DEF Reward
<1>3. Posterior(log, shift)[a][0] + Posterior(log, shift)[a][1] > 0
  <2> DEFINE p == Posterior(log, shift)[a][0]
             q == Posterior(log, shift)[a][1]
  <2>1. p \in Nat \ {0} /\ q \in Nat \ {0}
    BY <1>1, <1>2
  <2> HIDE DEF p, q
  <2>2. p + q > 0
    BY <2>1
  <2> QED
    BY <2>2 DEF p, q
<1> QED
  BY <1>1, <1>3 DEF Observed

\* The run that moves is stale only if it was, and had the counts still to refit.
LEMMA MoverStale ==
    ASSUME TypeOK, NEW n \in Runs, RefitStep(n), n \in StaleRuns'
    PROVE  n \in StaleRuns /\ Refit(n)
<1>1. ~Fetch(n)
  <2> SUFFICES ASSUME Fetch(n) PROVE FALSE
    OBVIOUS
  <2>1. run'[n] = [pc |-> "refit", counts |-> log] /\ log' = log
    BY DEF Fetch, TypeOK
  <2> QED
    BY <2>1 DEF StaleRuns
<1>2. ~Write(n)
  <2> SUFFICES ASSUME Write(n) PROVE FALSE
    OBVIOUS
  <2>1. run'[n] = Idle
    BY DEF Write, TypeOK
  <2> QED
    BY <2>1 DEF StaleRuns, Idle
<1>3. Refit(n)
  BY <1>1, <1>2 DEF RefitStep
<1>4. PICK shift \in [Arms -> Shift] :
        run' = [run EXCEPT ![n] = [pc |-> "write", counts |-> Posterior(run[n].counts, shift)]]
  BY <1>3 DEF Refit
<1>5. run'[n].pc = "write" /\ run'[n].counts = Posterior(run[n].counts, shift)
  BY <1>4 DEF TypeOK
<1>6. log' = log /\ run[n].pc = "refit"
  BY <1>3 DEF Refit
<1>7. ASSUME run[n].counts = log PROVE FALSE
  <2>1. Near(run'[n].counts)
    BY <1>5, <1>7, RefitNear
  <2>2. Near(run[n].counts)'
    BY <1>6, <2>1 DEF Near, Observed
  <2> QED
    BY <1>5, <2>2 DEF StaleRuns
<1> QED
  BY <1>3, <1>6, <1>7 DEF StaleRuns

\* The others are as stale as they were.
LEMMA StaleShrinks ==
    ASSUME TypeOK, NEW n \in Runs, RefitStep(n)
    PROVE  StaleRuns' \subseteq StaleRuns /\ log' = log
<1>1. log' = log /\ \A m \in Runs \ {n} : run'[m] = run[m]
  BY DEF RefitStep, Fetch, Refit, Write, TypeOK
<1>2. ASSUME NEW m \in Runs \ {n}, m \in StaleRuns' PROVE m \in StaleRuns
  BY <1>1, <1>2 DEF StaleRuns, Near, Observed
<1> QED
  BY <1>1, <1>2, MoverStale DEF StaleRuns

\* What a run that is not stale writes.
LEMMA FreshWrite ==
    ASSUME TypeOK, NEW n \in Runs, Write(n), n \notin StaleRuns
    PROVE  CaughtUp'
<1>1. Near(run[n].counts) /\ log' = log
  BY DEF Write, StaleRuns
<1>2. \A a \in Arms : store'[a] = IF Observed(run[n].counts, a) THEN run[n].counts[a] ELSE store[a]
  BY DEF Write
<1>3. ASSUME NEW a \in Arms, NEW r \in Reward, Observed(log, a)
      PROVE  store'[a][r] - log[a][r] \in 2 - Drift .. 2 + Drift
  BY <1>1, <1>2, <1>3 DEF Near
<1> QED
  BY <1>1, <1>3 DEF CaughtUp, Observed

\* For any arms, runs that overlap, drift, and client: once nothing but refits happens, the
\* counters come to what the log says, and stay there (ops.py:108-119).
THEOREM CatchUp == Spec => RefitsSettle
<1>1. TypeOK /\ [Next]_vars =>
        [(\E n \in Runs : RefitStep(n)) =>
            /\ StaleRuns' \subseteq StaleRuns
            /\ \A n \in Runs : RefitStep(n) /\ n \in StaleRuns' => Refit(n)
            /\ \A n \in Runs : Write(n) /\ n \notin StaleRuns => CaughtUp'
            /\ CaughtUp /\ StaleRuns = {} => CaughtUp']_vars
  <2> SUFFICES ASSUME TypeOK, NEW n \in Runs, RefitStep(n)
               PROVE  /\ StaleRuns' \subseteq StaleRuns
                      /\ \A m \in Runs : RefitStep(m) /\ m \in StaleRuns' => Refit(m)
                      /\ \A m \in Runs : Write(m) /\ m \notin StaleRuns => CaughtUp'
                      /\ CaughtUp /\ StaleRuns = {} => CaughtUp'
    OBVIOUS
  <2>1. CASE Write(n)
    BY <2>1, StaleShrinks, MoverStale, FreshWrite
  <2>2. CASE ~Write(n)
    <3>1. store' = store /\ log' = log
      BY <2>2 DEF RefitStep, Fetch, Refit
    <3>2. CaughtUp => CaughtUp'
      BY <3>1 DEF CaughtUp, Observed
    <3> QED
      BY <3>2, StaleShrinks, MoverStale, FreshWrite
  <2> QED
    BY <2>1, <2>2
<1> QED
  BY <1>1, TypeCorrect, PTL DEF Spec, RefitsSettle
=============================================================================
