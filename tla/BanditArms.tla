------------------------------ MODULE BanditArms ------------------------------
(***************************************************************************)
(* The arms of one experiment: Strapi, where editors turn them on and off, *)
(* the cache of the bandit service, which its threads share without a      *)
(* lock, and the counters that a sync seeds in Dragonfly.  Bandit has what *)
(* becomes of the counters afterwards.                                     *)
(*                                                                         *)
(* What Strapi says of an arm is a number, its version.                    *)
(***************************************************************************)
EXTENDS Integers, FiniteSets, FiniteSetsExt

CONSTANTS
    Arms,       \* the arms an experiment may have
    Threads,    \* the threads that serve requests
    Boot,       \* the thread that starts the service
    None,       \* no version: not active, not cached
    PageSize,   \* pagination[pageSize]
    MaxEdits,   \* bound: edits in Strapi
    MaxFaults   \* bound: calls that fail, flushes and restarts

ASSUME ArmsAssumption ==
    /\ IsFiniteSet(Arms) /\ Boot \in Threads
    /\ None \notin Nat /\ None \notin Arms
    /\ PageSize \in Nat /\ MaxEdits \in Nat /\ MaxFaults \in Nat

VARIABLES
    strapi,  \* strapi[a]: the version of an arm that is active and published
    edits,   \* how many edits there were
    cached,  \* is the experiment in _arm_cache?
    cache,   \* _arm_cache[experiment]
    seeded,  \* the arms whose counters are in Dragonfly
    ready,   \* has the service started?
    thread,  \* thread[t]: its step, is it a select's, what it fetched, the arms in hand
    faults,  \* how many faults there were
    live,    \* history: the arms that were active at some time since the start
    bare,    \* history: cached arms whose seeding failed, or that were flushed
    empty,   \* history: the threads that fetched nothing
    ahead    \* history: has a sync overtaken all older ones since an edit or a fault?

world   == <<strapi, edits>>
service == <<cached, cache, seeded, ready>>
history == <<live, bare, empty, ahead>>
vars    == <<world, service, thread, faults, history>>

Nothing == [a \in Arms |-> None]
Listed(f) == {a \in Arms : f[a] # None}
Idle == [pc |-> "idle", select |-> FALSE, fetched |-> Nothing, arm |-> None, ids |-> {}]
Booting == [Idle EXCEPT !.pc = "fetch"]

Init ==
    /\ strapi \in [Arms -> {None, 0}] /\ edits = 0
    /\ cached = FALSE /\ cache = Nothing /\ seeded = {} /\ ready = FALSE
    /\ thread = [t \in Threads |-> IF t = Boot THEN Booting ELSE Idle]
    /\ faults = 0
    /\ live = Listed(strapi) /\ bare = {} /\ empty = {} /\ ahead = FALSE

At(t, pc) == thread[t].pc = pc
Goto(t, state) == thread' = [thread EXCEPT ![t] = state]
-----------------------------------------------------------------------------
(* Strapi.                                                                  *)

Edit(a) ==
    /\ edits < MaxEdits /\ edits' = edits + 1
    /\ \E version \in {None, edits + 1} : strapi' = [strapi EXCEPT ![a] = version]
    /\ live' = live \union Listed(strapi')
    /\ ahead' = FALSE
    /\ UNCHANGED <<service, thread, faults, bare, empty>>
-----------------------------------------------------------------------------
(* _sync_arms_from_strapi().                                                *)

\* MUTANT: a select that is not asked to does not sync.
RequestNoSync(t, select, refresh) ==
    /\ ready /\ At(t, "idle")
    /\ Goto(t, [Idle EXCEPT !.select = select,
                            !.pc = IF select /\ ~refresh THEN "look" ELSE "fetch"])
    /\ empty' = empty \ {t}
    /\ UNCHANGED <<world, service, faults, live, bare, ahead>>

\* GET /select, with refresh or without, and POST /sync.
Request(t, select, refresh) ==
    /\ ready /\ At(t, "idle")
    /\ Goto(t, [Idle EXCEPT !.select = select,
                            !.pc = IF select /\ cached /\ ~refresh THEN "look" ELSE "fetch"])
    /\ empty' = empty \ {t}
    /\ UNCHANGED <<world, service, faults, live, bare, ahead>>

\* After the last arm.
Synced(t) == IF thread[t].select THEN [thread[t] EXCEPT !.pc = "look"] ELSE Idle

\* No other sync has fetched its arms and not put the last one into the cache yet.
Alone(t) == \A u \in Threads \ {t} : thread[u].pc \notin {"cache", "new", "seed"}

\* One page of the active arms; none if Strapi does not answer.
Fetch(t, fails) ==
    /\ At(t, "fetch")
    /\ fails => faults < MaxFaults
    /\ faults' = IF fails THEN faults + 1 ELSE faults
    /\ \E page \in IF fails THEN {{}}
                   ELSE kSubset(Min({PageSize, Cardinality(Listed(strapi))}), Listed(strapi)) :
          /\ Goto(t, [thread[t] EXCEPT !.pc = "cache",
                         !.fetched = [a \in Arms |-> IF a \in page THEN strapi[a] ELSE None]])
          /\ empty' = IF page = {} THEN empty \union {t} ELSE empty
          /\ ahead' = (ahead \/ (~fails /\ Alone(t) /\ page = Listed(strapi)))
    /\ UNCHANGED <<world, service, live, bare>>

\* `if exp not in _arm_cache`, and then: another thread may have been between the two.
Check(t) ==
    /\ At(t, "cache") /\ ~cached /\ Listed(thread[t].fetched) # {}
    /\ Goto(t, [thread[t] EXCEPT !.pc = "new"])
    /\ UNCHANGED <<world, service, faults, history>>

AddExperiment(t) ==
    /\ At(t, "new")
    /\ cached' = TRUE /\ cache' = Nothing
    /\ Goto(t, [thread[t] EXCEPT !.pc = "cache"])
    /\ UNCHANGED <<world, seeded, ready, faults, history>>

\* MUTANT: an arm that is cached is left as it is.
CacheIfNew(t, a) == IF cache[a] = None THEN thread[t].fetched[a] ELSE cache[a]

CacheArm(t, a) == thread[t].fetched[a]

Add(t, a) ==
    /\ At(t, "cache") /\ cached /\ a \in Listed(thread[t].fetched)
    /\ cache' = [cache EXCEPT ![a] = CacheArm(t, a)]
    /\ Goto(t, [thread[t] EXCEPT !.pc = "seed", !.arm = a, !.fetched[a] = None])
    /\ UNCHANGED <<world, cached, seeded, ready, faults, history>>

\* MUTANT: only a new experiment's arms are seeded.
SeededFirst(t) == IF seeded = {} THEN {thread[t].arm} ELSE seeded

\* seed_arm: HSETNX and two SETNX in one MULTI/EXEC.
Seeded(t) == seeded \union {thread[t].arm}

Seed(t) ==
    /\ At(t, "seed")
    /\ seeded' = Seeded(t)
    /\ bare' = bare \ {thread[t].arm}
    /\ Goto(t, [thread[t] EXCEPT !.pc = "cache", !.arm = None])
    /\ UNCHANGED <<world, cached, cache, ready, faults, live, empty, ahead>>

Done(t) ==
    /\ At(t, "cache") /\ Listed(thread[t].fetched) = {}
    /\ Goto(t, Synced(t))
    /\ ready' = TRUE
    /\ UNCHANGED <<world, cached, cache, seeded, faults, history>>
-----------------------------------------------------------------------------
(* The rest of a select.                                                    *)

\* MUTANT: without the 404.
LookAnyway(t) ==
    /\ At(t, "look")
    /\ Goto(t, [thread[t] EXCEPT !.pc = "draw", !.ids = Listed(cache)])
    /\ UNCHANGED <<world, service, faults, history>>

\* list(arm_meta.keys()), or a 404.
Look(t) ==
    /\ At(t, "look")
    /\ IF Listed(cache) = {}
       THEN Goto(t, Idle)
       ELSE Goto(t, [thread[t] EXCEPT !.pc = "draw", !.ids = Listed(cache)])
    /\ UNCHANGED <<world, service, faults, history>>

\* get_arm_params for every arm, and the best sample.
Draw(t) ==
    /\ At(t, "draw")
    /\ Goto(t, Idle)
    /\ UNCHANGED <<world, service, faults, history>>
-----------------------------------------------------------------------------
(* Faults.                                                                  *)

\* MUTANT: the cache outlives the service.
FreshKeepsCache ==
    /\ ready' = FALSE
    /\ thread' = [t \in Threads |-> IF t = Boot THEN Booting ELSE Idle]
    /\ live' = Listed(strapi) /\ bare' = {} /\ empty' = {} /\ ahead' = FALSE
    /\ UNCHANGED <<cached, cache>>

\* The service starts afresh.
Fresh ==
    /\ cached' = FALSE /\ cache' = Nothing /\ ready' = FALSE
    /\ thread' = [t \in Threads |-> IF t = Boot THEN Booting ELSE Idle]
    /\ live' = Listed(strapi) /\ bare' = {} /\ empty' = {} /\ ahead' = FALSE

Faulty == faults < MaxFaults /\ faults' = faults + 1

\* Dragonfly does not answer: the request fails, what is cached stays; a start fails.
DragonflyFails(t) ==
    /\ At(t, "seed") \/ At(t, "draw")
    /\ Faulty
    /\ IF ready
       THEN /\ Goto(t, Idle)
            /\ bare' = bare \union ({thread[t].arm} \ (seeded \union {None}))
            /\ ahead' = FALSE
            /\ UNCHANGED <<cached, cache, ready, live, empty>>
       ELSE Fresh
    /\ UNCHANGED <<world, seeded>>

Restart ==
    /\ Faulty /\ Fresh
    /\ UNCHANGED <<world, seeded>>

\* Dragonfly restarts: it keeps nothing on disk.
Flush ==
    /\ Faulty
    /\ seeded' = {} /\ bare' = bare \union Listed(cache) /\ ahead' = FALSE
    /\ UNCHANGED <<world, cached, cache, ready, thread, live, empty>>

Step(t) ==
    \/ Fetch(t, FALSE) \/ Check(t) \/ AddExperiment(t) \/ Seed(t) \/ Done(t) \/ Look(t) \/ Draw(t)
    \/ \E a \in Arms : Add(t, a)

Requests == \E t \in Threads, select, refresh \in BOOLEAN : Request(t, select, refresh)
Calm == Requests \/ \E t \in Threads : Step(t)
Disturbance ==
    \/ Restart \/ Flush \/ \E a \in Arms : Edit(a)
    \/ \E t \in Threads : Fetch(t, TRUE) \/ DragonflyFails(t)

Next == Calm \/ Disturbance

Spec == Init /\ [][Next]_vars
-----------------------------------------------------------------------------
(* Properties.                                                              *)

Versions == 0..MaxEdits
ThreadState ==
    [pc : {"idle", "fetch", "cache", "new", "seed", "look", "draw"}, select : BOOLEAN,
     fetched : [Arms -> Versions \union {None}], arm : Arms \union {None}, ids : SUBSET Arms]

TypeOK ==
    /\ strapi \in [Arms -> Versions \union {None}] /\ edits \in Versions
    /\ cached \in BOOLEAN /\ ready \in BOOLEAN
    /\ cache \in [Arms -> Versions \union {None}]
    /\ seeded \subseteq Arms
    /\ thread \in [Threads -> ThreadState]
    /\ \A t \in Threads : At(t, "seed") <=> thread[t].arm # None
    /\ \A t \in Threads : At(t, "draw") => thread[t].ids # {}
    /\ faults \in 0..MaxFaults
    /\ live \subseteq Arms /\ bare \subseteq Arms /\ empty \subseteq Threads /\ ahead \in BOOLEAN

\* A select never gives an arm that was off when the service started and ever since:
\* a restart makes it forget what was turned off (main.py:26-41, 113).
SelectsWhatWasLive == \A t \in Threads : thread[t].ids \subseteq live

\* An arm that is cached has its counters in Dragonfly, unless a thread is about to seed
\* it, its seeding failed, or Dragonfly lost them (main.py:36-41, store.py:28-46).
CachedIsSeeded ==
    \A a \in Listed(cache) : a \in seeded \union bare \/ \E t \in Threads : thread[t].arm = a

\* A select gets a 404 only if it fetched nothing itself, or another thread is about to
\* put the experiment's first arm into the cache (main.py:34-36, 102-111).
NotFoundMeansNone ==
    [][\A t \in Threads : At(t, "look") /\ thread'[t].pc = "idle" /\ ready' =>
          \/ t \in empty
          \/ \E u \in Threads \ {t} : thread[u].pc \in {"cache", "new"} /\ Listed(thread[u].fetched) # {}]_vars

\* A sync that asked Strapi when no older one was under way leaves the cache with all that
\* Strapi has (on one page), whatever other syncs and selects begin after it, until Strapi is
\* edited or something fails: an arm that is on is cached as it is and seeded, or some
\* thread is about to do that, and none is about to do anything else (main.py:29-42, 159-162).
SyncTakes ==
    ahead =>
        /\ \A t \in Threads, a \in Arms : thread[t].fetched[a] \in {None, strapi[a]}
        /\ \A a \in Listed(strapi) :
              \/ \E t \in Threads : thread[t].fetched[a] # None
              \/ /\ cache[a] = strapi[a]
                 /\ a \in seeded \/ \E t \in Threads : thread[t].arm = a
=============================================================================
