------------------------------- MODULE Bandit -------------------------------
(***************************************************************************)
(* The reward path of the bandit service and its hourly refit.             *)
(*                                                                         *)
(* POST /reward runs on a thread of FastAPI's pool: it increments the      *)
(* arm's counter in Dragonfly, then, best effort, inserts a row into the   *)
(* Postgres reward log.  bandit_refit_job aggregates the log, refits on    *)
(* Ray and overwrites the counters.  Nothing orders the two: rewards       *)
(* arrive while a refit runs, refits may overlap, either side may fail.    *)
(*                                                                         *)
(* One experiment.  A counter is indexed by the reward that increments it: *)
(* store[a][1] is alpha, store[a][0] is beta.                              *)
(***************************************************************************)
EXTENDS Integers, FiniteSets

CONSTANTS
    Arms,        \* the arm ids rewards are posted for
    Handlers,    \* the threads that serve POST /reward
    Runs,        \* the runs of bandit_refit_job that may overlap
    Drift,       \* how far the sampled mean of a refit can move a counter
    Resends,     \* does the redis client send a command again when its reply is
                 \* lost?  (redis-py does from 6.0 on, requirements.txt takes any >= 5)
    MaxRewards   \* bound: rewards posted per arm and kind

ASSUME BanditAssumption ==
    /\ Drift \in Nat /\ Resends \in BOOLEAN /\ MaxRewards \in Nat
    /\ IsFiniteSet(Handlers)

VARIABLES
    store,    \* store[a][r]: Dragonfly's counter, 0 when the key is missing
    log,      \* log[a][r]: rows of bandit_rewards in the lookback window
    schema,   \* does the table bandit_rewards exist?
    handler,  \* handler[h]: the step the thread is at, its arm and its reward
    run,      \* run[n]: the step the refit is at, and the counts it carries
    posted    \* history: posted[a][r] rewards that passed validation

vars == <<store, log, schema, handler, run, posted>>

Reward == {0, 1}
Counts == [Arms -> [Reward -> Nat]]
Zero == [a \in Arms |-> [r \in Reward |-> 0]]
Plus(counts, a, r) == [counts EXCEPT ![a][r] = @ + 1]

\* A run's stats and posteriors only have entries for the arms with rows.
Observed(counts, a) == counts[a][0] + counts[a][1] > 0

Idle == [pc |-> "idle"]
HandlerState == {Idle} \union [pc : {"incr", "log"}, arm : Arms, reward : Reward]
RunState == {Idle} \union [pc : {"refit", "write"}, counts : Counts]

\* A posterior has both counters, at least 1, or none.
Posteriors == {p \in Counts : \A a \in Arms : p[a][0] = 0 <=> p[a][1] = 0}

Init ==
    /\ store = Zero /\ log = Zero /\ posted = Zero
    /\ schema \in BOOLEAN
    /\ handler = [h \in Handlers |-> Idle]
    /\ run = [n \in Runs |-> Idle]

\* seed_arm: SETNX both counters to the Beta(1,1) prior.
Seed(a) ==
    /\ \E r \in Reward : store[a][r] = 0
    /\ store' = [store EXCEPT ![a] = [r \in Reward |-> IF @[r] = 0 THEN 1 ELSE @[r]]]
    /\ UNCHANGED <<log, schema, handler, run, posted>>

\* get_arm_params: a missing counter reads as the prior's 1.
Read(a, r) == IF store[a][r] = 0 THEN 1 ELSE store[a][r]
-----------------------------------------------------------------------------
(* POST /reward                                                            *)

\* MUTANT: the durable log first, the counter second.
LogFirst == [start |-> "log", log |-> "incr", incr |-> "idle"]

\* The order of the handler's steps.
Then == [start |-> "incr", incr |-> "log", log |-> "idle"]

Goto(h, step) ==
    handler' = [handler EXCEPT ![h] =
                   IF Then[step] = "idle" THEN Idle
                   ELSE [pc |-> Then[step], arm |-> @.arm, reward |-> @.reward]]

\* A request with another reward than 0 or 1 gets a 422 and changes nothing.
Post(h, a, r) ==
    /\ handler[h] = Idle
    /\ posted[a][r] < MaxRewards
    /\ posted' = Plus(posted, a, r)
    /\ handler' = [handler EXCEPT ![h] = [pc |-> Then["start"], arm |-> a, reward |-> r]]
    /\ UNCHANGED <<store, log, schema, run>>

Incr(h) ==
    /\ handler[h].pc = "incr"
    /\ store' = Plus(store, handler[h].arm, handler[h].reward)
    /\ Goto(h, "incr")
    /\ UNCHANGED <<log, schema, run, posted>>

\* The INCR is done but its reply is lost, and the client sends it again.
IncrUnanswered(h) ==
    /\ Resends
    /\ handler[h].pc = "incr"
    /\ store[handler[h].arm][handler[h].reward] <= MaxRewards
    /\ store' = Plus(store, handler[h].arm, handler[h].reward)
    /\ UNCHANGED <<log, schema, handler, run, posted>>

\* db.log_reward with Postgres reachable: without the table the INSERT fails and
\* is rolled back.
LogReward(h) ==
    /\ handler[h].pc = "log"
    /\ log' = IF schema THEN Plus(log, handler[h].arm, handler[h].reward) ELSE log
    /\ Goto(h, "log")
    /\ UNCHANGED <<store, schema, run, posted>>

\* Dragonfly is unreachable (the request fails), or no connection of the pool is
\* free or Postgres is unreachable (the request succeeds): the thread is done.
HandlerFails(h) ==
    /\ handler[h] # Idle
    /\ handler' = [handler EXCEPT ![h] = Idle]
    /\ UNCHANGED <<store, log, schema, run, posted>>

\* The service restarts; ensure_schema runs, and a failure is only logged.
Restart ==
    /\ handler' = [h \in Handlers |-> Idle]
    /\ schema' \in {schema, TRUE}
    /\ UNCHANGED <<store, log, run, posted>>
-----------------------------------------------------------------------------
(* bandit_refit_job                                                        *)

Fetch(n) ==
    /\ run[n] = Idle
    /\ schema
    /\ run' = [run EXCEPT ![n] = [pc |-> "refit", counts |-> log]]
    /\ UNCHANGED <<store, log, schema, handler, posted>>

\* refit_experiment: the sampled mean times n_eff = trials + 4 is off successes + 2
\* by some error, what is left of n_eff by its opposite, and int() rounds both down.
Shift == {shift \in [Reward -> -Drift..Drift] : shift[0] + shift[1] \in {-1, 0}}

AtLeast1(n) == IF n < 1 THEN 1 ELSE n

\* MUTANT: without the max(1, ...) around int().
PosteriorUnclamped(stats, shift) ==
    [a \in Arms |-> [r \in Reward |->
        IF Observed(stats, a) THEN stats[a][r] + 2 + shift[a][r] ELSE 0]]

Posterior(stats, shift) ==
    [a \in Arms |-> [r \in Reward |->
        IF Observed(stats, a) THEN AtLeast1(stats[a][r] + 2 + shift[a][r]) ELSE 0]]

Refit(n) ==
    /\ run[n].pc = "refit"
    /\ \E shift \in [Arms -> Shift] :
          run' = [run EXCEPT ![n] =
                     [pc |-> "write", counts |-> Posterior(run[n].counts, shift)]]
    /\ UNCHANGED <<store, log, schema, handler, posted>>

\* MUTANT: SETNX instead of SET.
WriteIfMissing(n) ==
    /\ run[n].pc = "write"
    /\ store' = [a \in Arms |-> [r \in Reward |->
                     IF store[a][r] = 0 THEN run[n].counts[a][r] ELSE store[a][r]]]
    /\ run' = [run EXCEPT ![n] = Idle]
    /\ UNCHANGED <<log, schema, handler, posted>>

\* write_posteriors_to_store: one MULTI/EXEC for all arms.
Write(n) ==
    /\ run[n].pc = "write"
    /\ store' = [a \in Arms |->
                    IF Observed(run[n].counts, a) THEN run[n].counts[a] ELSE store[a]]
    /\ run' = [run EXCEPT ![n] = Idle]
    /\ UNCHANGED <<log, schema, handler, posted>>

\* The reply of the EXEC is lost, and the client sends the writes again.
WriteUnanswered(n) ==
    /\ Resends
    /\ run[n].pc = "write"
    /\ store' = [a \in Arms |->
                    IF Observed(run[n].counts, a) THEN run[n].counts[a] ELSE store[a]]
    /\ UNCHANGED <<log, schema, handler, run, posted>>

\* Postgres, Ray or Dragonfly fails an op; the job has no retry.
RunFails(n) ==
    /\ run[n] # Idle
    /\ run' = [run EXCEPT ![n] = Idle]
    /\ UNCHANGED <<store, log, schema, handler, posted>>
-----------------------------------------------------------------------------
(* The rest of the world.                                                  *)

\* A row gets older than BANDIT_LOOKBACK_HOURS.
Expire(a, r) ==
    /\ log[a][r] > 0
    /\ log' = [log EXCEPT ![a][r] = @ - 1]
    /\ UNCHANGED <<store, schema, handler, run, posted>>

\* Dragonfly restarts: it keeps nothing on disk.
Flush ==
    /\ store' = Zero
    /\ UNCHANGED <<log, schema, handler, run, posted>>

RewardStep(h) ==
    \/ \E a \in Arms, r \in Reward : Post(h, a, r)
    \/ Incr(h) \/ IncrUnanswered(h) \/ LogReward(h) \/ HandlerFails(h)

RefitStep(n) == Fetch(n) \/ Refit(n) \/ Write(n)

Next ==
    \/ \E h \in Handlers : RewardStep(h)
    \/ Restart
    \/ \E n \in Runs : RefitStep(n) \/ WriteUnanswered(n) \/ RunFails(n)
    \/ \E a \in Arms : Seed(a) \/ \E r \in Reward : Expire(a, r)
    \/ Flush

\* The hourly schedule keeps starting runs, and a run that does not fail goes on.
Fairness == \A n \in Runs : WF_vars(RefitStep(n))

Spec == Init /\ [][Next]_vars
FairSpec == Spec /\ Fairness
-----------------------------------------------------------------------------
(* Properties.                                                             *)

TypeOK ==
    /\ store \in Counts /\ log \in Counts /\ posted \in Counts
    /\ schema \in BOOLEAN
    /\ handler \in [Handlers -> HandlerState]
    /\ run \in [Runs -> RunState]
    /\ \A n \in Runs : run[n].pc = "write" => run[n].counts \in Posteriors

\* No reward is ever counted twice: whatever interleaving of increments, log rows
\* and refits, a counter is at most the posted rewards of its kind plus the refit's
\* prior of 2 and its drift (main.py:129-139, ops.py:108-119, inference.py:85-92).
\* With a client that resends, an INCR counts twice until the next refit.
NeverOvercounts ==
    \A a \in Arms, r \in Reward : store[a][r] <= posted[a][r] + 2 + Drift

\* The rewards a refit overwrote are back once refits run undisturbed: every arm
\* with rows in the window ends up at its logged counts plus the prior, up to drift.
CatchesUp ==
    <>[][\E n \in Runs : RefitStep(n)]_vars =>
        <>[](schema => \A a \in Arms, r \in Reward :
                Observed(log, a) => store[a][r] - log[a][r] \in 2 - Drift .. 2 + Drift)

\* An increment moves the counter a select reads by one (main.py:129).  Not when the key
\* is missing, so no run checks it: INCR makes it 1, which a select read before.
ConjugateUpdate ==
    [][\A h \in Handlers : Incr(h) =>
          LET a == handler[h].arm
              r == handler[h].reward
          IN Read(a, r)' = Read(a, r) + 1]_vars

\* A reward handled with Postgres reachable finds or makes the table (main.py:51).
SchemaRetried == [][\A h \in Handlers : LogReward(h) => schema']_vars
=============================================================================
