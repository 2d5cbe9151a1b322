-------------------------- MODULE BanditArms_proofs --------------------------
(***************************************************************************)
(* Theorems about BanditArms, for any arms, threads, page size, edits and  *)
(* faults.  A thread that looks into an empty place of the cache either    *)
(* fetched nothing (SyncOK) or looks while another is about to fill the    *)
(* place (FillInv); and whatever is in the cache or in a thread's hands    *)
(* came from Strapi since the service started (LiveShared, LiveOK).        *)
(* Last, that a cache which has caught up with Strapi stays so, and that a *)
(* sync without older ones beside it makes it so (AheadInv).               *)
(***************************************************************************)
EXTENDS BanditArms, FiniteSetTheorems, TLAPS

\* A thread that has arms which it is about to put into the cache.
Adding(t) == thread[t].pc \in {"cache", "new"} /\ Listed(thread[t].fetched) # {}

\* What a thread at each step knows of the experiment's place in the cache.
SyncOK(t) ==
    /\ At(t, "seed") => cached
    /\ At(t, "new") => Listed(thread[t].fetched) # {}
    /\ At(t, "look") /\ t \notin empty => cached
    /\ At(t, "cache") /\ Listed(thread[t].fetched) = {} /\ t \notin empty => cached

\* A place that is empty is about to be filled.
FillInv == cached /\ Listed(cache) = {} => \E t \in Threads : Adding(t)

\* What is in Strapi, in the cache or in hand was on at some time since the start.
LiveOK(t) == thread[t].ids \subseteq live /\ Listed(thread[t].fetched) \subseteq live
LiveShared == Listed(strapi) \subseteq live /\ Listed(cache) \subseteq live

IInv ==
    /\ TypeOK /\ FillInv /\ LiveShared /\ CachedIsSeeded
    /\ \A t \in Threads : SyncOK(t) /\ LiveOK(t)
-----------------------------------------------------------------------------
(* Threads.                                                                 *)

Fetched == [Arms -> Versions \union {None}]

LEMMA NothingListed == Nothing \in Fetched /\ Listed(Nothing) = {}
  BY DEF Nothing, Fetched, Listed

LEMMA IdleType ==
    /\ Idle \in ThreadState /\ Idle.pc = "idle" /\ Idle.ids = {} /\ Idle.arm = None
    /\ Listed(Idle.fetched) = {}
    /\ Booting \in ThreadState /\ Booting.pc = "fetch" /\ Booting.ids = {} /\ Booting.arm = None
    /\ Listed(Booting.fetched) = {}
  BY NothingListed DEF Idle, Booting, ThreadState, Fetched

\* The thread that takes a step is the only one that moves.
LEMMA Moves ==
    ASSUME thread \in [Threads -> ThreadState], NEW t \in Threads, NEW r, Goto(t, r)
    PROVE  thread'[t] = r /\ \A u \in Threads \ {t} : thread'[u] = thread[u]
  BY DEF Goto

ThreadOK(r) ==
    /\ r \in ThreadState
    /\ r.pc = "seed" <=> r.arm # None
    /\ r.pc = "draw" => r.ids # {}

ThreadsOK == thread \in [Threads -> ThreadState] /\ \A t \in Threads : ThreadOK(thread[t])

LEMMA TypeParts ==
    TypeOK <=> /\ strapi \in Fetched /\ edits \in Versions
               /\ cached \in BOOLEAN /\ ready \in BOOLEAN /\ cache \in Fetched
               /\ seeded \subseteq Arms /\ ThreadsOK /\ faults \in 0..MaxFaults
               /\ live \subseteq Arms /\ bare \subseteq Arms /\ empty \subseteq Threads
               /\ ahead \in BOOLEAN
  BY DEF TypeOK, Fetched, ThreadsOK, ThreadOK, At

LEMMA MovesType ==
    ASSUME ThreadsOK, NEW t \in Threads, NEW r, Goto(t, r), ThreadOK(r)
    PROVE  ThreadsOK'
  BY DEF Goto, ThreadsOK, ThreadOK

\* What each step leaves in the hands of the thread that takes it.
LEMMA RequestEffect ==
    ASSUME ThreadsOK, NEW t \in Threads, NEW select \in BOOLEAN, NEW refresh \in BOOLEAN,
           Request(t, select, refresh)
    PROVE  /\ ThreadsOK' /\ \A u \in Threads \ {t} : thread'[u] = thread[u]
           /\ At(t, "idle") /\ thread'[t].arm = None /\ thread'[t].ids = {}
           /\ Listed(thread'[t].fetched) = {}
           /\ thread'[t].pc = "fetch" \/ (thread'[t].pc = "look" /\ cached)
  <1> DEFINE r == [Idle EXCEPT !.select = select,
                               !.pc = IF select /\ cached /\ ~refresh THEN "look" ELSE "fetch"]
  <1>1. /\ r \in ThreadState /\ r.arm = None /\ r.ids = {} /\ Listed(r.fetched) = {}
        /\ r.pc = "fetch" \/ (r.pc = "look" /\ cached)
    <2>1. Idle \in ThreadState /\ Idle.arm = None /\ Idle.ids = {} /\ Listed(Idle.fetched) = {}
      BY IdleType
    <2>2. CASE select /\ cached /\ ~refresh
      <3>1. r = [Idle EXCEPT !.select = select, !.pc = "look"]
        BY <2>2
      <3> HIDE DEF r
      <3>2. QED  BY <2>1, <2>2, <3>1 DEF ThreadState
    <2>3. CASE ~(select /\ cached /\ ~refresh)
      <3>1. r = [Idle EXCEPT !.select = select, !.pc = "fetch"]
        BY <2>3
      <3> HIDE DEF r
      <3>2. QED  BY <2>1, <3>1 DEF ThreadState
    <2>4. QED  BY <2>2, <2>3
  <1>2. Goto(t, r) /\ At(t, "idle")
    BY DEF Request
  <1> HIDE DEF r
  <1>3. ThreadOK(r)
    BY <1>1 DEF ThreadOK
  <1>4. thread'[t] = r /\ \A u \in Threads \ {t} : thread'[u] = thread[u]
    BY <1>2, Moves DEF ThreadsOK
  <1>5. QED  BY <1>1, <1>2, <1>3, <1>4, MovesType

LEMMA FetchEffect ==
    ASSUME ThreadsOK, strapi \in Fetched, NEW t \in Threads, NEW fails \in BOOLEAN, Fetch(t, fails)
    PROVE  /\ ThreadsOK' /\ \A u \in Threads \ {t} : thread'[u] = thread[u]
           /\ At(t, "fetch") /\ thread'[t].pc = "cache" /\ thread'[t].arm = None
           /\ thread'[t].ids = thread[t].ids
           /\ Listed(thread'[t].fetched) \subseteq Listed(strapi)
           /\ empty' = empty \union {t} \/ (Listed(thread'[t].fetched) # {} /\ empty' = empty)
  <1>1. PICK page \in SUBSET Listed(strapi) :
            /\ Goto(t, [thread[t] EXCEPT !.pc = "cache",
                           !.fetched = [a \in Arms |-> IF a \in page THEN strapi[a] ELSE None]])
            /\ empty' = IF page = {} THEN empty \union {t} ELSE empty
    <2>1. PICK page \in IF fails THEN {{}}
                   ELSE kSubset(Min({PageSize, Cardinality(Listed(strapi))}), Listed(strapi)) :
            /\ Goto(t, [thread[t] EXCEPT !.pc = "cache",
                           !.fetched = [a \in Arms |-> IF a \in page THEN strapi[a] ELSE None]])
            /\ empty' = IF page = {} THEN empty \union {t} ELSE empty
      BY DEF Fetch
    <2>2. page \in SUBSET Listed(strapi)
      <3>1. \A k, S : kSubset(k, S) \subseteq SUBSET S
        BY DEF kSubset
      <3>2. CASE fails
        BY <2>1, <3>2
      <3>3. CASE ~fails
        BY <2>1, <3>1, <3>3
      <3>4. QED  BY <3>2, <3>3
    <2>3. QED  BY <2>1, <2>2
  <1> DEFINE f == [a \in Arms |-> IF a \in page THEN strapi[a] ELSE None]
             r == [thread[t] EXCEPT !.pc = "cache", !.fetched = f]
  <1>2. f \in Fetched /\ Listed(f) = page
    BY DEF Fetched, Listed
  <1>3. At(t, "fetch") /\ thread[t] \in ThreadState /\ thread[t].arm = None
    BY DEF Fetch, ThreadsOK, ThreadOK, At
  <1>4. Goto(t, r)
    BY <1>1
  <1> HIDE DEF f
  <1>5. r \in ThreadState /\ r.pc = "cache" /\ r.arm = None /\ r.ids = thread[t].ids /\ r.fetched = f
    BY <1>2, <1>3 DEF ThreadState, Fetched
  <1> HIDE DEF r
  <1>6. ThreadOK(r)
    BY <1>5 DEF ThreadOK
  <1>7. thread'[t] = r /\ \A u \in Threads \ {t} : thread'[u] = thread[u]
    BY <1>4, Moves DEF ThreadsOK
  <1>8. (page = {} /\ empty' = empty \union {t}) \/ (page # {} /\ empty' = empty)
    <2>1. empty' = IF page = {} THEN empty \union {t} ELSE empty
      BY <1>1
    <2>2. QED  BY <2>1
  <1>9. ThreadsOK'
    BY <1>4, <1>6, MovesType
  <1>10. thread'[t].fetched = f
    BY <1>5, <1>7
  <1>11. empty' = empty \union {t} \/ (Listed(thread'[t].fetched) # {} /\ empty' = empty)
    BY <1>1, <1>2, <1>8, <1>10
  <1>12. Listed(thread'[t].fetched) \subseteq Listed(strapi)
    BY <1>2, <1>10
  <1>13. QED  BY <1>3, <1>5, <1>7, <1>9, <1>11, <1>12

\* The steps that keep what was fetched and what is in hand.
LEMMA StepEffect ==
    ASSUME ThreadsOK, NEW t \in Threads, NEW pc \in {"new", "cache"},
           Goto(t, [thread[t] EXCEPT !.pc = pc]), thread[t].arm = None
    PROVE  /\ ThreadsOK' /\ \A u \in Threads \ {t} : thread'[u] = thread[u]
           /\ thread'[t].pc = pc /\ thread'[t].arm = None /\ thread'[t].ids = thread[t].ids
           /\ thread'[t].fetched = thread[t].fetched
  <1> DEFINE r == [thread[t] EXCEPT !.pc = pc]
  <1>1. thread[t] \in ThreadState
    BY DEF ThreadsOK
  <1>2. r \in ThreadState /\ r.pc = pc /\ r.arm = None /\ r.ids = thread[t].ids
        /\ r.fetched = thread[t].fetched
    BY <1>1 DEF ThreadState
  <1>3. Goto(t, r)
    OBVIOUS
  <1> HIDE DEF r
  <1>4. ThreadOK(r)
    BY <1>2 DEF ThreadOK
  <1>5. thread'[t] = r /\ \A u \in Threads \ {t} : thread'[u] = thread[u]
    BY <1>3, Moves DEF ThreadsOK
  <1>6. QED  BY <1>2, <1>3, <1>4, <1>5, MovesType

LEMMA AddEffect ==
    ASSUME TypeOK, NEW t \in Threads, NEW a \in Arms, Add(t, a)
    PROVE  /\ ThreadsOK' /\ \A u \in Threads \ {t} : thread'[u] = thread[u]
           /\ At(t, "cache") /\ thread[t].arm = None /\ cached
           /\ thread'[t].pc = "seed" /\ thread'[t].arm = a /\ thread'[t].ids = thread[t].ids
           /\ Listed(thread'[t].fetched) \subseteq Listed(thread[t].fetched)
           /\ cache' \in Fetched /\ a \in Listed(thread[t].fetched)
           /\ Listed(cache') = Listed(cache) \union {a}
  <1> DEFINE r == [thread[t] EXCEPT !.pc = "seed", !.arm = a, !.fetched[a] = None]
  <1>1. thread[t] \in ThreadState /\ thread[t].fetched \in Fetched /\ ThreadsOK
    BY TypeParts DEF ThreadsOK, ThreadState, Fetched
  <1>2. r \in ThreadState /\ r.pc = "seed" /\ r.arm = a /\ r.ids = thread[t].ids
        /\ r.fetched = [thread[t].fetched EXCEPT ![a] = None]
    BY <1>1 DEF ThreadState, Fetched
  <1>3. Goto(t, r) /\ At(t, "cache") /\ cached /\ a \in Listed(thread[t].fetched)
    BY DEF Add
  <1> HIDE DEF r
  <1>4. ThreadOK(r)
    BY <1>2, ArmsAssumption DEF ThreadOK
  <1>5. thread'[t] = r /\ \A u \in Threads \ {t} : thread'[u] = thread[u]
    BY <1>1, <1>3, Moves DEF ThreadsOK
  <1>6. Listed(r.fetched) \subseteq Listed(thread[t].fetched)
    BY <1>1, <1>2 DEF Fetched, Listed
  <1>7. thread[t].arm = None
    BY <1>1, <1>3 DEF ThreadsOK, ThreadOK, At
  <1>8. cache' \in Fetched /\ Listed(cache') = Listed(cache) \union {a}
    <2>1. cache' = [cache EXCEPT ![a] = thread[t].fetched[a]] /\ cache \in Fetched
      BY TypeParts DEF Add, CacheArm
    <2>2. thread[t].fetched[a] \in Versions /\ thread[t].fetched[a] # None
      BY <1>1, <1>3 DEF Fetched, Listed
    <2>3. QED  BY <2>1, <2>2 DEF Fetched, Listed
  <1>9. QED  BY <1>1, <1>2, <1>3, <1>4, <1>5, <1>6, <1>7, <1>8, MovesType

LEMMA SeedEffect ==
    ASSUME ThreadsOK, NEW t \in Threads, Seed(t)
    PROVE  /\ ThreadsOK' /\ \A u \in Threads \ {t} : thread'[u] = thread[u]
           /\ At(t, "seed") /\ thread[t].arm \in Arms
           /\ thread'[t].pc = "cache" /\ thread'[t].arm = None /\ thread'[t].ids = thread[t].ids
           /\ thread'[t].fetched = thread[t].fetched
  <1> DEFINE r == [thread[t] EXCEPT !.pc = "cache", !.arm = None]
  <1>1. thread[t] \in ThreadState /\ At(t, "seed") /\ thread[t].arm # None
    BY DEF ThreadsOK, ThreadOK, Seed, At
  <1>2. r \in ThreadState /\ r.pc = "cache" /\ r.arm = None /\ r.ids = thread[t].ids
        /\ r.fetched = thread[t].fetched /\ thread[t].arm \in Arms
    BY <1>1 DEF ThreadState
  <1>3. Goto(t, r)
    BY DEF Seed
  <1> HIDE DEF r
  <1>4. ThreadOK(r)
    BY <1>2 DEF ThreadOK
  <1>5. thread'[t] = r /\ \A u \in Threads \ {t} : thread'[u] = thread[u]
    BY <1>3, Moves DEF ThreadsOK
  <1>6. QED  BY <1>1, <1>2, <1>3, <1>4, <1>5, MovesType

LEMMA DoneEffect ==
    ASSUME ThreadsOK, NEW t \in Threads, Done(t)
    PROVE  /\ ThreadsOK' /\ \A u \in Threads \ {t} : thread'[u] = thread[u]
           /\ At(t, "cache") /\ Listed(thread[t].fetched) = {} /\ thread'[t].arm = None
           /\ Listed(thread'[t].fetched) = {} /\ thread'[t].ids \subseteq thread[t].ids
           /\ thread'[t].pc \in {"idle", "look"}
  <1>1. /\ thread[t] \in ThreadState /\ At(t, "cache") /\ Listed(thread[t].fetched) = {}
        /\ thread[t].arm = None /\ Goto(t, Synced(t))
    BY DEF Done, ThreadsOK, ThreadOK, At
  <1>2. /\ Synced(t) \in ThreadState /\ Synced(t).arm = None /\ Synced(t).pc \in {"idle", "look"}
        /\ Listed(Synced(t).fetched) = {} /\ Synced(t).ids \subseteq thread[t].ids
    <2>1. CASE thread[t].select
      <3>1. Synced(t) = [thread[t] EXCEPT !.pc = "look"]
        BY <2>1 DEF Synced
      <3>2. QED  BY <1>1, <3>1 DEF ThreadState
    <2>2. CASE ~thread[t].select
      BY <1>1, <2>2, IdleType DEF Synced
    <2>3. QED  BY <2>1, <2>2
  <1>3. ThreadOK(Synced(t))
    BY <1>2 DEF ThreadOK
  <1>4. thread'[t] = Synced(t) /\ \A u \in Threads \ {t} : thread'[u] = thread[u]
    BY <1>1, Moves DEF ThreadsOK
  <1>5. QED  BY <1>1, <1>2, <1>3, <1>4, MovesType

LEMMA LookEffect ==
    ASSUME ThreadsOK, NEW t \in Threads, Look(t)
    PROVE  /\ ThreadsOK' /\ \A u \in Threads \ {t} : thread'[u] = thread[u]
           /\ At(t, "look") /\ thread'[t].arm = None
           /\ \/ /\ thread'[t].pc = "idle" /\ Listed(cache) = {} /\ thread'[t].ids = {}
                 /\ Listed(thread'[t].fetched) = {}
              \/ /\ thread'[t].pc = "draw" /\ thread'[t].ids = Listed(cache)
                 /\ thread'[t].fetched = thread[t].fetched
  <1>1. thread[t] \in ThreadState /\ At(t, "look") /\ thread[t].arm = None
    BY DEF Look, ThreadsOK, ThreadOK, At
  <1>2. CASE Listed(cache) = {}
    <2>1. Goto(t, Idle)
      BY <1>2 DEF Look
    <2>2. ThreadOK(Idle)
      BY IdleType DEF ThreadOK
    <2>3. thread'[t] = Idle /\ \A u \in Threads \ {t} : thread'[u] = thread[u]
      BY <2>1, Moves DEF ThreadsOK
    <2>4. QED  BY <1>1, <1>2, <2>1, <2>2, <2>3, IdleType, MovesType
  <1>3. CASE Listed(cache) # {}
    <2> DEFINE r == [thread[t] EXCEPT !.pc = "draw", !.ids = Listed(cache)]
    <2>1. Goto(t, r)
      BY <1>3 DEF Look
    <2>2. r \in ThreadState /\ r.pc = "draw" /\ r.ids = Listed(cache) /\ r.arm = None
          /\ r.fetched = thread[t].fetched
      BY <1>1 DEF ThreadState, Listed
    <2> HIDE DEF r
    <2>3. ThreadOK(r)
      BY <1>3, <2>2 DEF ThreadOK
    <2>4. thread'[t] = r /\ \A u \in Threads \ {t} : thread'[u] = thread[u]
      BY <2>1, Moves DEF ThreadsOK
    <2>5. QED  BY <1>1, <2>1, <2>2, <2>3, <2>4, MovesType
  <1>4. QED  BY <1>2, <1>3

LEMMA IdleEffect ==
    ASSUME ThreadsOK, NEW t \in Threads, Goto(t, Idle)
    PROVE  /\ ThreadsOK' /\ \A u \in Threads \ {t} : thread'[u] = thread[u]
           /\ thread'[t].pc = "idle" /\ thread'[t].arm = None /\ thread'[t].ids = {}
           /\ Listed(thread'[t].fetched) = {}
  <1>1. ThreadOK(Idle)
    BY IdleType DEF ThreadOK
  <1>2. thread'[t] = Idle /\ \A u \in Threads \ {t} : thread'[u] = thread[u]
    BY Moves DEF ThreadsOK
  <1>3. QED  BY <1>1, <1>2, IdleType, MovesType

LEMMA CheckEffect ==
    ASSUME ThreadsOK, NEW t \in Threads, Check(t)
    PROVE  /\ ThreadsOK' /\ \A u \in Threads \ {t} : thread'[u] = thread[u]
           /\ At(t, "cache") /\ thread'[t].pc = "new" /\ thread'[t].arm = None
           /\ thread[t].arm = None /\ thread'[t].ids = thread[t].ids
           /\ thread'[t].fetched = thread[t].fetched /\ Listed(thread[t].fetched) # {}
  BY StepEffect DEF Check, ThreadsOK, ThreadOK, At

LEMMA AddExperimentEffect ==
    ASSUME ThreadsOK, NEW t \in Threads, AddExperiment(t)
    PROVE  /\ ThreadsOK' /\ \A u \in Threads \ {t} : thread'[u] = thread[u]
           /\ At(t, "new") /\ thread'[t].pc = "cache" /\ thread'[t].arm = None
           /\ thread[t].arm = None /\ thread'[t].ids = thread[t].ids
           /\ thread'[t].fetched = thread[t].fetched
  BY StepEffect DEF AddExperiment, ThreadsOK, ThreadOK, At

LEMMA FreshEffect ==
    ASSUME ArmsAssumption, Fresh
    PROVE  /\ ThreadsOK' /\ cached' = FALSE /\ cache' = Nothing /\ ready' = FALSE
           /\ live' = Listed(strapi) /\ bare' = {} /\ empty' = {} /\ ahead' = FALSE
           /\ \A u \in Threads : /\ thread'[u].arm = None /\ thread'[u].ids = {}
                                 /\ Listed(thread'[u].fetched) = {}
                                 /\ thread'[u].pc \in {"idle", "fetch"}
  <1>1. \A u \in Threads : thread'[u] \in {Idle, Booting}
    BY DEF Fresh
  <1>2. thread' \in [Threads -> ThreadState]
    BY IdleType DEF Fresh
  <1>3. \A u \in Threads : ThreadOK(thread'[u])
    BY <1>1, IdleType DEF ThreadOK
  <1>4. QED  BY <1>1, <1>2, <1>3, IdleType DEF Fresh, ThreadsOK, ThreadOK
-----------------------------------------------------------------------------
(* Each step keeps the invariant.                                           *)

LEMMA InitInv == ASSUME ArmsAssumption, Init PROVE IInv
  <1>1. \A t \in Threads : thread[t] \in {Idle, Booting}
    BY DEF Init
  <1>2. ThreadsOK
    <2>1. thread \in [Threads -> ThreadState]
      BY IdleType DEF Init
    <2>2. QED  BY <1>1, <2>1, IdleType DEF ThreadsOK, ThreadOK
  <1>3. TypeOK
    <2>1. 0 \in Versions /\ 0 \in 0..MaxFaults
      BY DEF ArmsAssumption, Versions
    <2>2. strapi \in Fetched /\ live \subseteq Arms
      BY <2>1 DEF Init, Fetched, Listed
    <2>3. QED  BY <1>2, <2>1, <2>2, NothingListed, TypeParts DEF Init
  <1>4. \A t \in Threads : SyncOK(t) /\ LiveOK(t)
    BY <1>1, IdleType DEF SyncOK, LiveOK, At
  <1>5. FillInv /\ LiveShared /\ CachedIsSeeded
    BY NothingListed DEF Init, FillInv, LiveShared, CachedIsSeeded
  <1>6. QED  BY <1>3, <1>4, <1>5 DEF IInv

\* A step of one thread that keeps what was on, and what the cache has of it.
LEMMA ThreadKeeps ==
    ASSUME IInv, NEW t \in Threads, \A u \in Threads \ {t} : thread'[u] = thread[u],
           UNCHANGED <<strapi, live>>, Listed(cache') \subseteq live, cached => cached',
           \A u \in Threads \ {t} : u \in empty => u \in empty',
           SyncOK(t)', LiveOK(t)'
    PROVE  LiveShared' /\ \A u \in Threads : SyncOK(u)' /\ LiveOK(u)'
  <1>1. LiveShared'
    BY DEF IInv, LiveShared, Listed
  <1>2. ASSUME NEW u \in Threads \ {t} PROVE SyncOK(u)' /\ LiveOK(u)'
    BY <1>2 DEF IInv, SyncOK, LiveOK, At, Listed
  <1>3. QED  BY <1>1, <1>2

\* A cached arm keeps its reason for having counters, or being without them.
LEMMA SeededKeeps ==
    ASSUME IInv, NEW t \in Threads, \A u \in Threads \ {t} : thread'[u] = thread[u],
           ArmsAssumption, thread[t].arm \in Arms => thread[t].arm \in seeded' \union bare',
           seeded \union bare \subseteq seeded' \union bare',
           \A a \in Listed(cache') : a \in Listed(cache) \/ thread'[t].arm = a
    PROVE  CachedIsSeeded'
  <1> SUFFICES ASSUME NEW a \in Arms, a \in Listed(cache')
               PROVE  a \in seeded' \union bare' \/ \E u \in Threads : thread'[u].arm = a
    BY DEF CachedIsSeeded, Listed
  <1>1. CASE thread'[t].arm = a
    BY <1>1
  <1>2. CASE a \in Listed(cache)
    <2>1. a \in seeded \union bare \/ \E u \in Threads : thread[u].arm = a
      BY <1>2 DEF IInv, CachedIsSeeded
    <2>2. ASSUME NEW u \in Threads, thread[u].arm = a
          PROVE  a \in seeded' \union bare' \/ \E v \in Threads : thread'[v].arm = a
      BY <2>2
    <2>3. QED  BY <2>1, <2>2
  <1>3. QED  BY <1>1, <1>2

\* Whoever was filling the cache is still at it, if the thread that moves was not.
LEMMA FillKeeps ==
    ASSUME FillInv, NEW t \in Threads, \A u \in Threads \ {t} : thread'[u] = thread[u],
           Adding(t) => Adding(t)', UNCHANGED <<cached, cache>>
    PROVE  FillInv'
  <1> SUFFICES ASSUME cached, Listed(cache) = {} PROVE \E u \in Threads : Adding(u)'
    BY DEF FillInv, Listed
  <1>1. PICK u \in Threads : Adding(u)
    BY DEF FillInv
  <1>2. u # t => Adding(u)'
    BY <1>1 DEF Adding, Listed
  <1>3. QED  BY <1>1, <1>2

LEMMA RequestInv ==
    ASSUME ArmsAssumption, IInv, NEW t \in Threads, NEW select \in BOOLEAN,
           NEW refresh \in BOOLEAN, Request(t, select, refresh)
    PROVE  IInv'
  <1>1. ThreadsOK /\ empty \subseteq Threads
    BY TypeParts DEF IInv
  <1>2. /\ ThreadsOK' /\ \A u \in Threads \ {t} : thread'[u] = thread[u]
        /\ At(t, "idle") /\ thread'[t].arm = None /\ thread'[t].ids = {}
        /\ Listed(thread'[t].fetched) = {}
        /\ thread'[t].pc = "fetch" \/ (thread'[t].pc = "look" /\ cached)
    BY <1>1, RequestEffect
  <1>3. UNCHANGED <<strapi, edits, cached, cache, seeded, ready, faults, live, bare, ahead>>
        /\ empty' = empty \ {t}
    BY DEF Request, world, service
  <1>4. TypeOK'
    BY <1>2, <1>3, TypeParts DEF IInv, TypeOK, ThreadsOK, ThreadOK, At
  <1>5. SyncOK(t)' /\ LiveOK(t)'
    BY <1>2, <1>3 DEF SyncOK, LiveOK, At, Listed
  <1>6. thread[t].arm = None
    BY <1>1, <1>2 DEF ThreadsOK, ThreadOK, At
  <1>7. CachedIsSeeded'
    BY <1>2, <1>3, <1>6, SeededKeeps DEF ArmsAssumption
  <1>8. FillInv'
    BY <1>2, <1>3, FillKeeps DEF IInv, Adding, At
  <1>9. LiveShared' /\ \A u \in Threads : SyncOK(u)' /\ LiveOK(u)'
    BY <1>2, <1>3, <1>5, ThreadKeeps DEF IInv, LiveShared
  <1>10. QED  BY <1>4, <1>7, <1>8, <1>9 DEF IInv

LEMMA FetchInv ==
    ASSUME ArmsAssumption, IInv, NEW t \in Threads, NEW fails \in BOOLEAN, Fetch(t, fails)
    PROVE  IInv'
  <1>1. ThreadsOK /\ strapi \in Fetched
    BY TypeParts DEF IInv
  <1>2. /\ ThreadsOK' /\ \A u \in Threads \ {t} : thread'[u] = thread[u]
        /\ At(t, "fetch") /\ thread'[t].pc = "cache" /\ thread'[t].arm = None
        /\ thread'[t].ids = thread[t].ids
        /\ Listed(thread'[t].fetched) \subseteq Listed(strapi)
        /\ empty' = empty \union {t} \/ (Listed(thread'[t].fetched) # {} /\ empty' = empty)
    BY <1>1, FetchEffect
  <1>3. UNCHANGED <<strapi, edits, cached, cache, seeded, ready, live, bare>>
        /\ faults' \in 0..MaxFaults /\ ahead' \in BOOLEAN
    BY DEF Fetch, world, service, IInv, TypeOK, ArmsAssumption
  <1>4. TypeOK'
    BY <1>2, <1>3, TypeParts DEF IInv, TypeOK, ThreadsOK, ThreadOK, At
  <1>5. SyncOK(t)' /\ LiveOK(t)'
    BY <1>2, <1>3 DEF SyncOK, LiveOK, At, IInv, LiveShared, Listed
  <1>6. thread[t].arm = None
    BY <1>1, <1>2 DEF ThreadsOK, ThreadOK, At
  <1>7. CachedIsSeeded'
    BY <1>2, <1>3, <1>6, SeededKeeps DEF ArmsAssumption
  <1>8. FillInv'
    BY <1>2, <1>3, FillKeeps DEF IInv, Adding, At
  <1>9. LiveShared' /\ \A u \in Threads : SyncOK(u)' /\ LiveOK(u)'
    BY <1>2, <1>3, <1>5, ThreadKeeps DEF IInv, LiveShared
  <1>10. QED  BY <1>4, <1>7, <1>8, <1>9 DEF IInv

LEMMA CheckInv == ASSUME ArmsAssumption, IInv, NEW t \in Threads, Check(t) PROVE IInv'
  <1>1. ThreadsOK
    BY TypeParts DEF IInv
  <1>2. /\ ThreadsOK' /\ \A u \in Threads \ {t} : thread'[u] = thread[u]
        /\ At(t, "cache") /\ thread'[t].pc = "new" /\ thread'[t].arm = None
        /\ thread[t].arm = None /\ thread'[t].ids = thread[t].ids
        /\ thread'[t].fetched = thread[t].fetched /\ Listed(thread[t].fetched) # {}
    BY <1>1, CheckEffect
  <1>3. UNCHANGED <<strapi, edits, cached, cache, seeded, ready, faults, live, bare, empty, ahead>>
    BY DEF Check, world, service, history
  <1>4. TypeOK'
    BY <1>2, <1>3, TypeParts DEF IInv, TypeOK, ThreadsOK, ThreadOK, At
  <1>5. SyncOK(t)' /\ LiveOK(t)'
    BY <1>2, <1>3 DEF SyncOK, LiveOK, At, IInv, Listed
  <1>6. CachedIsSeeded'
    BY <1>2, <1>3, SeededKeeps DEF ArmsAssumption
  <1>7. FillInv'
    BY <1>2, <1>3, FillKeeps DEF IInv, Adding, At, Listed
  <1>8. LiveShared' /\ \A u \in Threads : SyncOK(u)' /\ LiveOK(u)'
    BY <1>2, <1>3, <1>5, ThreadKeeps DEF IInv, LiveShared
  <1>9. QED  BY <1>4, <1>6, <1>7, <1>8 DEF IInv

\* The new place in the cache is empty, and the thread that made it has arms for it.
LEMMA AddExperimentInv ==
    ASSUME ArmsAssumption, IInv, NEW t \in Threads, AddExperiment(t)
    PROVE  IInv'
  <1>1. ThreadsOK
    BY TypeParts DEF IInv
  <1>2. /\ ThreadsOK' /\ \A u \in Threads \ {t} : thread'[u] = thread[u]
        /\ At(t, "new") /\ thread'[t].pc = "cache" /\ thread'[t].arm = None
        /\ thread[t].arm = None /\ thread'[t].ids = thread[t].ids
        /\ thread'[t].fetched = thread[t].fetched
    BY <1>1, AddExperimentEffect
  <1>3. /\ UNCHANGED <<strapi, edits, seeded, ready, faults, live, bare, empty, ahead>>
        /\ cached' = TRUE /\ cache' = Nothing
    BY DEF AddExperiment, world, history
  <1>4. TypeOK'
    BY <1>2, <1>3, TypeParts, NothingListed
       DEF IInv, TypeOK, ThreadsOK, ThreadOK, At, Fetched
  <1>5. SyncOK(t)' /\ LiveOK(t)'
    BY <1>2, <1>3 DEF SyncOK, LiveOK, At, IInv, Listed
  <1>6. Listed(cache') = {}
    BY <1>3, NothingListed
  <1>7. CachedIsSeeded'
    BY <1>6 DEF CachedIsSeeded, Listed
  <1>8. FillInv'
    BY <1>2 DEF IInv, SyncOK, FillInv, Adding, At, Listed
  <1>9. LiveShared' /\ \A u \in Threads : SyncOK(u)' /\ LiveOK(u)'
    BY <1>2, <1>3, <1>5, <1>6, ThreadKeeps DEF IInv, LiveShared
  <1>10. QED  BY <1>4, <1>7, <1>8, <1>9 DEF IInv

LEMMA AddInv ==
    ASSUME ArmsAssumption, IInv, NEW t \in Threads, NEW a \in Arms, Add(t, a)
    PROVE  IInv'
  <1>1. /\ ThreadsOK' /\ \A u \in Threads \ {t} : thread'[u] = thread[u]
        /\ At(t, "cache") /\ thread[t].arm = None /\ cached
        /\ thread'[t].pc = "seed" /\ thread'[t].arm = a /\ thread'[t].ids = thread[t].ids
        /\ Listed(thread'[t].fetched) \subseteq Listed(thread[t].fetched)
        /\ cache' \in Fetched /\ a \in Listed(thread[t].fetched)
        /\ Listed(cache') = Listed(cache) \union {a}
    BY AddEffect DEF IInv
  <1>2. UNCHANGED <<strapi, edits, cached, seeded, ready, faults, live, bare, empty, ahead>>
    BY DEF Add, world, history
  <1>3. TypeOK'
    BY <1>1, <1>2, TypeParts DEF IInv, TypeOK, ThreadsOK, ThreadOK, At, Fetched
  <1>4. SyncOK(t)' /\ LiveOK(t)'
    BY <1>1, <1>2 DEF SyncOK, LiveOK, At, IInv, Listed
  <1>5. Listed(cache') \subseteq live
    BY <1>1 DEF IInv, LiveOK, LiveShared
  <1>6. CachedIsSeeded'
    BY <1>1, <1>2, SeededKeeps DEF ArmsAssumption
  <1>7. FillInv'
    BY <1>1 DEF FillInv, Listed
  <1>8. LiveShared' /\ \A u \in Threads : SyncOK(u)' /\ LiveOK(u)'
    BY <1>1, <1>2, <1>4, <1>5, ThreadKeeps
  <1>9. QED  BY <1>3, <1>6, <1>7, <1>8 DEF IInv

LEMMA SeedInv == ASSUME ArmsAssumption, IInv, NEW t \in Threads, Seed(t) PROVE IInv'
  <1>1. ThreadsOK
    BY TypeParts DEF IInv
  <1>2. /\ ThreadsOK' /\ \A u \in Threads \ {t} : thread'[u] = thread[u]
        /\ At(t, "seed") /\ thread[t].arm \in Arms
        /\ thread'[t].pc = "cache" /\ thread'[t].arm = None /\ thread'[t].ids = thread[t].ids
        /\ thread'[t].fetched = thread[t].fetched
    BY <1>1, SeedEffect
  <1>3. /\ UNCHANGED <<strapi, edits, cached, cache, ready, faults, live, empty, ahead>>
        /\ seeded' = seeded \union {thread[t].arm} /\ bare' = bare \ {thread[t].arm}
    BY DEF Seed, Seeded, world
  <1>4. TypeOK'
    BY <1>2, <1>3, TypeParts DEF IInv, TypeOK, ThreadsOK, ThreadOK, At
  <1>5. SyncOK(t)' /\ LiveOK(t)'
    BY <1>2, <1>3 DEF SyncOK, LiveOK, At, IInv, Listed
  <1>6. CachedIsSeeded'
    BY <1>2, <1>3, SeededKeeps DEF ArmsAssumption
  <1>7. FillInv'
    BY <1>2, <1>3, FillKeeps DEF IInv, Adding, At
  <1>8. LiveShared' /\ \A u \in Threads : SyncOK(u)' /\ LiveOK(u)'
    BY <1>2, <1>3, <1>5, ThreadKeeps DEF IInv, LiveShared
  <1>9. QED  BY <1>4, <1>6, <1>7, <1>8 DEF IInv

LEMMA DoneInv == ASSUME ArmsAssumption, IInv, NEW t \in Threads, Done(t) PROVE IInv'
  <1>1. ThreadsOK
    BY TypeParts DEF IInv
  <1>2. /\ ThreadsOK' /\ \A u \in Threads \ {t} : thread'[u] = thread[u]
        /\ At(t, "cache") /\ Listed(thread[t].fetched) = {} /\ thread'[t].arm = None
        /\ Listed(thread'[t].fetched) = {} /\ thread'[t].ids \subseteq thread[t].ids
        /\ thread'[t].pc \in {"idle", "look"}
    BY <1>1, DoneEffect
  <1>3. UNCHANGED <<strapi, edits, cached, cache, seeded, faults, live, bare, empty, ahead>>
        /\ ready' = TRUE
    BY DEF Done, world, history
  <1>4. TypeOK'
    BY <1>2, <1>3, TypeParts DEF IInv, TypeOK, ThreadsOK, ThreadOK, At
  <1>5. SyncOK(t)' /\ LiveOK(t)'
    BY <1>2, <1>3 DEF SyncOK, LiveOK, At, IInv, Listed
  <1>6. thread[t].arm = None
    BY <1>1, <1>2 DEF ThreadsOK, ThreadOK, At
  <1>7. CachedIsSeeded'
    BY <1>2, <1>3, <1>6, SeededKeeps DEF ArmsAssumption
  <1>8. FillInv'
    BY <1>2, <1>3, FillKeeps DEF IInv, Adding, At
  <1>9. LiveShared' /\ \A u \in Threads : SyncOK(u)' /\ LiveOK(u)'
    BY <1>2, <1>3, <1>5, ThreadKeeps DEF IInv, LiveShared
  <1>10. QED  BY <1>4, <1>7, <1>8, <1>9 DEF IInv

LEMMA LookInv == ASSUME ArmsAssumption, IInv, NEW t \in Threads, Look(t) PROVE IInv'
  <1>1. ThreadsOK
    BY TypeParts DEF IInv
  <1>2. /\ ThreadsOK' /\ \A u \in Threads \ {t} : thread'[u] = thread[u]
        /\ At(t, "look") /\ thread'[t].arm = None
        /\ \/ /\ thread'[t].pc = "idle" /\ Listed(cache) = {} /\ thread'[t].ids = {}
              /\ Listed(thread'[t].fetched) = {}
           \/ /\ thread'[t].pc = "draw" /\ thread'[t].ids = Listed(cache)
              /\ thread'[t].fetched = thread[t].fetched
    BY <1>1, LookEffect
  <1>3. UNCHANGED <<strapi, edits, cached, cache, seeded, ready, faults, live, bare, empty, ahead>>
    BY DEF Look, world, service, history
  <1>4. TypeOK'
    BY <1>2, <1>3, TypeParts DEF IInv, TypeOK, ThreadsOK, ThreadOK, At
  <1>5. SyncOK(t)' /\ LiveOK(t)'
    BY <1>2, <1>3 DEF SyncOK, LiveOK, LiveShared, At, IInv, Listed
  <1>6. thread[t].arm = None
    BY <1>1, <1>2 DEF ThreadsOK, ThreadOK, At
  <1>7. CachedIsSeeded'
    BY <1>2, <1>3, <1>6, SeededKeeps DEF ArmsAssumption
  <1>8. FillInv'
    BY <1>2, <1>3, FillKeeps DEF IInv, Adding, At
  <1>9. LiveShared' /\ \A u \in Threads : SyncOK(u)' /\ LiveOK(u)'
    BY <1>2, <1>3, <1>5, ThreadKeeps DEF IInv, LiveShared
  <1>10. QED  BY <1>4, <1>7, <1>8, <1>9 DEF IInv

LEMMA DrawInv == ASSUME ArmsAssumption, IInv, NEW t \in Threads, Draw(t) PROVE IInv'
  <1>1. ThreadsOK
    BY TypeParts DEF IInv
  <1>2. /\ ThreadsOK' /\ \A u \in Threads \ {t} : thread'[u] = thread[u]
        /\ thread'[t].pc = "idle" /\ thread'[t].arm = None /\ thread'[t].ids = {}
        /\ Listed(thread'[t].fetched) = {}
    BY <1>1, IdleEffect DEF Draw
  <1>3. UNCHANGED <<strapi, edits, cached, cache, seeded, ready, faults, live, bare, empty, ahead>>
        /\ At(t, "draw")
    BY DEF Draw, world, service, history
  <1>4. TypeOK'
    BY <1>2, <1>3, TypeParts DEF IInv, TypeOK, ThreadsOK, ThreadOK, At
  <1>5. SyncOK(t)' /\ LiveOK(t)'
    BY <1>2, <1>3 DEF SyncOK, LiveOK, At, Listed
  <1>6. thread[t].arm = None
    BY <1>1, <1>3 DEF ThreadsOK, ThreadOK, At
  <1>7. CachedIsSeeded'
    BY <1>2, <1>3, <1>6, SeededKeeps DEF ArmsAssumption
  <1>8. FillInv'
    BY <1>2, <1>3, FillKeeps DEF IInv, Adding, At
  <1>9. LiveShared' /\ \A u \in Threads : SyncOK(u)' /\ LiveOK(u)'
    BY <1>2, <1>3, <1>5, ThreadKeeps DEF IInv, LiveShared
  <1>10. QED  BY <1>4, <1>7, <1>8, <1>9 DEF IInv

\* An edit only adds to what was on.
LEMMA EditInv == ASSUME ArmsAssumption, IInv, NEW a \in Arms, Edit(a) PROVE IInv'
  <1>1. PICK version \in {None, edits + 1} : strapi' = [strapi EXCEPT ![a] = version]
    BY DEF Edit
  <1>2. /\ UNCHANGED <<cached, cache, seeded, ready, thread, faults, bare, empty>>
        /\ ahead' = FALSE /\ live' = live \union Listed(strapi') /\ edits' = edits + 1 /\ edits' \in Versions
    BY DEF Edit, service, IInv, TypeOK, Versions, ArmsAssumption
  <1>3. strapi' \in Fetched /\ Listed(strapi') \subseteq Arms
    BY <1>1, <1>2 DEF IInv, TypeOK, Fetched, Listed
  <1>4. TypeOK'
    BY <1>2, <1>3 DEF IInv, TypeOK, Fetched, At
  <1>5. FillInv' /\ CachedIsSeeded'
    BY <1>2 DEF IInv, FillInv, CachedIsSeeded, Adding, Listed
  <1>6. LiveShared' /\ \A u \in Threads : SyncOK(u)' /\ LiveOK(u)'
    BY <1>2 DEF IInv, LiveShared, SyncOK, LiveOK, At, Listed
  <1>7. QED  BY <1>4, <1>5, <1>6 DEF IInv

LEMMA FlushInv == ASSUME ArmsAssumption, IInv, Flush PROVE IInv'
  <1>1. /\ UNCHANGED <<strapi, edits, cached, cache, ready, thread, live, empty>>
        /\ ahead' = FALSE /\ seeded' = {} /\ bare' = bare \union Listed(cache) /\ faults' \in 0..MaxFaults
    BY DEF Flush, Faulty, world, IInv, TypeOK, ArmsAssumption
  <1>2. TypeOK'
    BY <1>1 DEF IInv, TypeOK, At, Listed
  <1>3. FillInv' /\ CachedIsSeeded'
    BY <1>1 DEF IInv, FillInv, CachedIsSeeded, Adding, Listed
  <1>4. LiveShared' /\ \A u \in Threads : SyncOK(u)' /\ LiveOK(u)'
    BY <1>1 DEF IInv, LiveShared, SyncOK, LiveOK, At, Listed
  <1>5. QED  BY <1>2, <1>3, <1>4 DEF IInv

LEMMA FreshInv ==
    ASSUME ArmsAssumption, IInv, Fresh, UNCHANGED <<strapi, edits, seeded>>, faults' \in 0..MaxFaults
    PROVE  IInv'
  <1>1. /\ ThreadsOK' /\ cached' = FALSE /\ cache' = Nothing /\ ready' = FALSE
        /\ live' = Listed(strapi) /\ bare' = {} /\ empty' = {} /\ ahead' = FALSE
        /\ \A u \in Threads : /\ thread'[u].arm = None /\ thread'[u].ids = {}
                              /\ Listed(thread'[u].fetched) = {}
                              /\ thread'[u].pc \in {"idle", "fetch"}
    BY FreshEffect
  <1>2. Listed(cache') = {} /\ cache' \in Fetched
    BY <1>1, NothingListed
  <1>3. TypeOK'
    BY <1>1, <1>2 DEF IInv, TypeOK, ThreadsOK, ThreadOK, At, Listed, Fetched
  <1>4. FillInv' /\ CachedIsSeeded'
    BY <1>1, <1>2 DEF FillInv, CachedIsSeeded, Listed
  <1>5. LiveShared' /\ \A u \in Threads : SyncOK(u)' /\ LiveOK(u)'
    BY <1>1, <1>2 DEF LiveShared, SyncOK, LiveOK, At, Listed
  <1>6. QED  BY <1>3, <1>4, <1>5 DEF IInv

LEMMA DragonflyFailsInv ==
    ASSUME ArmsAssumption, IInv, NEW t \in Threads, DragonflyFails(t)
    PROVE  IInv'
  <1>1. /\ UNCHANGED <<strapi, edits, seeded>> /\ faults' \in 0..MaxFaults
        /\ At(t, "seed") \/ At(t, "draw")
    BY DEF DragonflyFails, Faulty, world, IInv, TypeOK, ArmsAssumption
  <1>2. CASE ~ready
    BY <1>1, <1>2, FreshInv DEF DragonflyFails
  <1>3. CASE ready
    <2>1. /\ Goto(t, Idle) /\ UNCHANGED <<cached, cache, ready, live, empty>>
          /\ bare' = bare \union ({thread[t].arm} \ (seeded \union {None})) /\ ahead' = FALSE
      BY <1>3 DEF DragonflyFails
    <2>2. ThreadsOK /\ thread[t] \in ThreadState
      BY TypeParts DEF IInv, ThreadsOK
    <2>3. /\ ThreadsOK' /\ \A u \in Threads \ {t} : thread'[u] = thread[u]
          /\ thread'[t].pc = "idle" /\ thread'[t].arm = None /\ thread'[t].ids = {}
          /\ Listed(thread'[t].fetched) = {}
      BY <2>1, <2>2, IdleEffect
    <2>4. thread[t].arm \in Arms \union {None}
      BY <2>2 DEF ThreadState
    <2>5. TypeOK'
      BY <1>1, <2>1, <2>3, <2>4 DEF IInv, TypeOK, ThreadsOK, ThreadOK, At
    <2>6. SyncOK(t)' /\ LiveOK(t)'
      BY <2>1, <2>3 DEF SyncOK, LiveOK, At, Listed
    <2>7. CachedIsSeeded'
      BY <1>1, <2>1, <2>3, SeededKeeps DEF ArmsAssumption
    <2>8. FillInv'
      BY <1>1, <2>1, <2>3, FillKeeps DEF IInv, Adding, At
    <2>9. LiveShared' /\ \A u \in Threads : SyncOK(u)' /\ LiveOK(u)'
      BY <1>1, <2>1, <2>3, <2>6, ThreadKeeps DEF IInv, LiveShared
    <2>10. QED  BY <2>5, <2>7, <2>8, <2>9 DEF IInv
  <1>4. QED  BY <1>2, <1>3

LEMMA NextInv == ASSUME ArmsAssumption PROVE IInv /\ [Next]_vars => IInv'
  <1> SUFFICES ASSUME IInv, [Next]_vars PROVE IInv'
    OBVIOUS
  <1>1. ASSUME NEW t \in Threads, Step(t) PROVE IInv'
    BY <1>1, FetchInv, CheckInv, AddExperimentInv, AddInv, SeedInv, DoneInv, LookInv, DrawInv
       DEF Step
  <1>2. CASE Requests
    BY <1>2, RequestInv DEF Requests
  <1>3. CASE Restart
    BY <1>3, FreshInv DEF Restart, Faulty, world, IInv, TypeOK, ArmsAssumption
  <1>4. CASE Flush
    BY <1>4, FlushInv
  <1>5. CASE \E a \in Arms : Edit(a)
    BY <1>5, EditInv
  <1>6. ASSUME NEW t \in Threads, Fetch(t, TRUE) \/ DragonflyFails(t) PROVE IInv'
    BY <1>6, FetchInv, DragonflyFailsInv
  <1>7. CASE UNCHANGED vars
    <2>1. TypeOK'
      BY <1>7 DEF vars, world, service, history, IInv, TypeOK, At
    <2>2. FillInv' /\ CachedIsSeeded'
      BY <1>7 DEF vars, world, service, history, IInv, FillInv, CachedIsSeeded, Adding, Listed
    <2>3. LiveShared' /\ \A u \in Threads : SyncOK(u)' /\ LiveOK(u)'
      BY <1>7 DEF vars, world, service, history, IInv, LiveShared, SyncOK, LiveOK, At, Listed
    <2>4. QED  BY <2>1, <2>2, <2>3 DEF IInv
  <1>8. QED  BY <1>1, <1>2, <1>3, <1>4, <1>5, <1>6, <1>7 DEF Next, Calm, Disturbance

LEMMA Inductive == Spec => []IInv
  <1>1. Init => IInv
    BY InitInv, ArmsAssumption
  <1>2. IInv /\ [Next]_vars => IInv'
    BY NextInv, ArmsAssumption
  <1>3. QED  BY <1>1, <1>2, PTL DEF Spec
-----------------------------------------------------------------------------

\* Every variable keeps its type: a thread has an arm in hand exactly while it seeds it,
\* and never draws from no arms (main.py:29-42, 105-113).
THEOREM TypeCorrect == Spec => []TypeOK
  <1>1. IInv => TypeOK
    BY DEF IInv
  <1>2. QED  BY <1>1, Inductive, PTL

\* A select never gives an arm that was off when the service started and ever since,
\* whatever threads, edits, failed calls and restarts do (main.py:26-41, 113).
THEOREM OnlyLive == Spec => []SelectsWhatWasLive
  <1>1. IInv => SelectsWhatWasLive
    BY DEF IInv, LiveOK, SelectsWhatWasLive
  <1>2. QED  BY <1>1, Inductive, PTL

\* A cached arm has its counters in Dragonfly, is about to get them, or its seeding
\* failed or was lost (main.py:36-41, store.py:28-46).
THEOREM Counters == Spec => []CachedIsSeeded
  <1>1. IInv => CachedIsSeeded
    BY DEF IInv
  <1>2. QED  BY <1>1, Inductive, PTL

\* Only its own look takes a thread from there to a 404.
LEMMA LookFails ==
    ASSUME ArmsAssumption, IInv, [Next]_vars, NEW t \in Threads,
           At(t, "look"), thread'[t].pc = "idle", ready'
    PROVE  Look(t) /\ Listed(cache) = {}
  <1>1. thread \in [Threads -> ThreadState] /\ ThreadsOK
    BY TypeParts DEF IInv, ThreadsOK
  <1>2. thread' # thread
    BY DEF At
  <1>3. ASSUME NEW u \in Threads, NEW r, Goto(u, r) PROVE u = t
    BY <1>1, <1>3 DEF Goto, At
  <1>4. ASSUME NEW u \in Threads, Step(u) \/ Fetch(u, TRUE) \/ Draw(u) PROVE Look(t)
    <2>1. ~At(t, "look") \/ ~(\/ \E fails \in BOOLEAN : Fetch(t, fails)
                            \/ Check(t) \/ AddExperiment(t) \/ Seed(t) \/ Done(t) \/ Draw(t)
                            \/ \E a \in Arms : Add(t, a))
      BY DEF At, Fetch, Check, AddExperiment, Seed, Done, Draw, Add
    <2>2. u = t
      BY <1>3, <1>4 DEF Step, Fetch, Check, AddExperiment, Add, Seed, Done, Look, Draw
    <2>3. QED  BY <1>4, <2>1, <2>2 DEF Step
  <1>5. ~Requests
    <2> SUFFICES ASSUME NEW u \in Threads, NEW select \in BOOLEAN, NEW refresh \in BOOLEAN,
                        Request(u, select, refresh)
                 PROVE  FALSE
      BY DEF Requests
    <2>1. u = t
      BY <1>3 DEF Request
    <2>2. QED  BY <2>1 DEF Request, At
  <1>6. ASSUME NEW u \in Threads PROVE ~DragonflyFails(u)
    <2> SUFFICES ASSUME DragonflyFails(u) PROVE FALSE
      OBVIOUS
    <2>1. Goto(u, Idle) /\ (At(u, "seed") \/ At(u, "draw"))
      BY DEF DragonflyFails, Fresh
    <2>2. QED  BY <1>3, <2>1 DEF At
  <1>7. ~Restart /\ ~Flush /\ ~\E a \in Arms : Edit(a)
    BY <1>2 DEF Restart, Fresh, Flush, Edit
  <1>8. Look(t)
    BY <1>2, <1>4, <1>5, <1>6, <1>7 DEF Next, Calm, Disturbance, vars
  <1>9. QED  BY <1>1, <1>8, LookEffect

\* A select gets a 404 only if it fetched nothing, or while another thread is about to
\* put the first arm into the cache (main.py:34-36, 102-111).
THEOREM NoLostSelect == Spec => NotFoundMeansNone
  <1>1. ASSUME ArmsAssumption, IInv, [Next]_vars, NEW t \in Threads,
               At(t, "look"), thread'[t].pc = "idle", ready'
        PROVE  \/ t \in empty
               \/ \E u \in Threads \ {t} :
                     thread[u].pc \in {"cache", "new"} /\ Listed(thread[u].fetched) # {}
    <2>1. Listed(cache) = {} /\ At(t, "look")
      BY <1>1, LookFails
    <2>2. SyncOK(t) /\ FillInv
      BY <1>1 DEF IInv
    <2>3. QED  BY <2>1, <2>2 DEF SyncOK, FillInv, Adding, At
  <1>2. IInv /\ [Next]_vars =>
            [\A t \in Threads : At(t, "look") /\ thread'[t].pc = "idle" /\ ready' =>
              \/ t \in empty
              \/ \E u \in Threads \ {t} :
                    thread[u].pc \in {"cache", "new"} /\ Listed(thread[u].fetched) # {}]_vars
    BY <1>1, ArmsAssumption
  <1>3. QED  BY <1>2, Inductive, PTL DEF Spec, NotFoundMeansNone
-----------------------------------------------------------------------------
(* What has caught up stays so.                                             *)

\* Every arm that is on is cached as it is and seeded, and no sync that is under way holds
\* an older version of one, or is about to throw the cache away.
Settled ==
    /\ Listed(strapi) # {} => cached
    /\ \A a \in Listed(strapi) : cache[a] = strapi[a] /\ a \in seeded
    /\ \A t \in Threads :
          /\ ~At(t, "new")
          /\ \A a \in Arms : thread[t].fetched[a] \in {None, strapi[a]}

\* Nothing but edits and faults ends that.
StaysSettled == [][Settled => Settled' \/ Disturbance]_vars

\* A thread moves on, and has nothing in hand that it did not have, or that is old.
LEMMA SettledThreads ==
    ASSUME Settled, UNCHANGED <<strapi, cached, cache>>, seeded \subseteq seeded',
           NEW t \in Threads, \A u \in Threads \ {t} : thread'[u] = thread[u],
           thread'[t].pc # "new",
           \A a \in Arms : thread'[t].fetched[a] \in {None, strapi[a], thread[t].fetched[a]}
    PROVE  Settled'
  <1>1. \A a \in Arms : thread'[t].fetched[a] \in {None, strapi'[a]}
    BY DEF Settled
  <1>2. \A u \in Threads : thread'[u].pc # "new" /\ \A a \in Arms : thread'[u].fetched[a] \in {None, strapi'[a]}
    BY <1>1 DEF Settled, At
  <1>3. Listed(strapi)' = Listed(strapi)
    BY DEF Listed
  <1>4. QED  BY <1>2, <1>3 DEF Settled, At

LEMMA IdleHolds == \A a \in Arms : Idle.fetched[a] = None
  BY DEF Idle, Nothing

LEMMA SettledSteps ==
    ASSUME ArmsAssumption, IInv, Settled, NEW t \in Threads, Step(t)
    PROVE  Settled'
  <1>0. thread \in [Threads -> ThreadState] /\ ThreadsOK /\ thread[t] \in ThreadState
        /\ thread[t].fetched \in Fetched /\ cache \in Fetched /\ Idle.pc = "idle"
    BY TypeParts, IdleType DEF IInv, ThreadsOK, ThreadState, Fetched
  <1>1. CASE Fetch(t, FALSE)
    <2>1. PICK page \in SUBSET Listed(strapi) :
              Goto(t, [thread[t] EXCEPT !.pc = "cache",
                          !.fetched = [a \in Arms |-> IF a \in page THEN strapi[a] ELSE None]])
      <3>1. PICK page \in kSubset(Min({PageSize, Cardinality(Listed(strapi))}), Listed(strapi)) :
                Goto(t, [thread[t] EXCEPT !.pc = "cache",
                            !.fetched = [a \in Arms |-> IF a \in page THEN strapi[a] ELSE None]])
        BY <1>1 DEF Fetch
      <3>2. page \in SUBSET Listed(strapi)
        BY <3>1 DEF kSubset
      <3>3. QED  BY <3>1, <3>2
    <2>2. /\ thread'[t].pc = "cache" /\ \A u \in Threads \ {t} : thread'[u] = thread[u]
          /\ thread'[t].fetched = [a \in Arms |-> IF a \in page THEN strapi[a] ELSE None]
      <3> DEFINE f == [a \in Arms |-> IF a \in page THEN strapi[a] ELSE None]
      <3>1. Goto(t, [thread[t] EXCEPT !.pc = "cache", !.fetched = f])
        BY <2>1
      <3> HIDE DEF f
      <3>2. thread'[t] = [thread[t] EXCEPT !.pc = "cache", !.fetched = f]
            /\ \A u \in Threads \ {t} : thread'[u] = thread[u]
        BY <1>0, <3>1, Moves
      <3>3. thread'[t].pc = "cache" /\ thread'[t].fetched = f
        BY <1>0, <3>2 DEF ThreadState
      <3>4. QED  BY <3>2, <3>3 DEF f
    <2>3. QED  BY <1>1, <2>2, SettledThreads DEF Fetch, world, service
  <1>2. ~Check(t)
    <2> SUFFICES ASSUME Check(t) PROVE FALSE
      OBVIOUS
    <2>1. ~cached /\ Listed(thread[t].fetched) # {}
      BY DEF Check
    <2>2. PICK a \in Arms : thread[t].fetched[a] # None
      BY <2>1 DEF Listed
    <2>3. a \in Listed(strapi)
      BY <2>2 DEF Settled, Listed
    <2>4. QED  BY <2>1, <2>3 DEF Settled
  <1>3. ~AddExperiment(t)
    BY DEF AddExperiment, Settled
  <1>4. CASE Seed(t)
    <2>1. Goto(t, [thread[t] EXCEPT !.pc = "cache", !.arm = None])
          /\ UNCHANGED <<strapi, cached, cache>> /\ seeded \subseteq seeded'
      BY <1>4 DEF Seed, Seeded, world
    <2>2. /\ thread'[t].pc = "cache" /\ thread'[t].fetched = thread[t].fetched
          /\ \A u \in Threads \ {t} : thread'[u] = thread[u]
      <3>1. thread'[t] = [thread[t] EXCEPT !.pc = "cache", !.arm = None]
            /\ \A u \in Threads \ {t} : thread'[u] = thread[u]
        BY <1>0, <2>1, Moves
      <3>2. QED  BY <1>0, <3>1 DEF ThreadState
    <2>3. QED  BY <2>1, <2>2, SettledThreads
  <1>5. CASE Done(t)
    <2>1. Goto(t, Synced(t)) /\ UNCHANGED <<strapi, cached, cache, seeded>>
      BY <1>5 DEF Done, world
    <2>2. thread'[t] = Synced(t) /\ \A u \in Threads \ {t} : thread'[u] = thread[u]
      BY <1>0, <2>1, Moves
    <2>3. Synced(t).pc # "new"
          /\ \A a \in Arms : Synced(t).fetched[a] \in {None, thread[t].fetched[a]}
      BY <1>0, IdleHolds DEF Synced, ThreadState
    <2>4. QED  BY <2>1, <2>2, <2>3, SettledThreads
  <1>6. CASE Look(t)
    <2>1. Goto(t, Idle) \/ Goto(t, [thread[t] EXCEPT !.pc = "draw", !.ids = Listed(cache)])
      BY <1>6 DEF Look
    <2>2. /\ \A u \in Threads \ {t} : thread'[u] = thread[u]
          /\ thread'[t] = Idle \/ thread'[t] = [thread[t] EXCEPT !.pc = "draw", !.ids = Listed(cache)]
      BY <1>0, <2>1, Moves
    <2>3. thread'[t].pc # "new"
          /\ \A a \in Arms : thread'[t].fetched[a] \in {None, thread[t].fetched[a]}
      BY <1>0, <2>2, IdleHolds DEF ThreadState
    <2>4. QED  BY <1>6, <2>2, <2>3, SettledThreads DEF Look, world, service
  <1>7. CASE Draw(t)
    <2>1. thread'[t] = Idle /\ \A u \in Threads \ {t} : thread'[u] = thread[u]
      BY <1>0, <1>7, Moves DEF Draw
    <2>2. QED  BY <1>0, <1>7, <2>1, IdleHolds, SettledThreads DEF Draw, world, service
  <1>8. ASSUME NEW a \in Arms, Add(t, a) PROVE Settled'
    <2>1. /\ Goto(t, [thread[t] EXCEPT !.pc = "seed", !.arm = a, !.fetched[a] = None])
          /\ UNCHANGED <<strapi, cached, seeded>>
          /\ cache' = [cache EXCEPT ![a] = thread[t].fetched[a]] /\ thread[t].fetched[a] # None
      BY <1>8 DEF Add, CacheArm, Listed, world
    <2>2. cache' = [cache EXCEPT ![a] = strapi[a]]
      BY <2>1 DEF Settled
    <2>3. /\ thread'[t].pc = "seed" /\ \A u \in Threads \ {t} : thread'[u] = thread[u]
          /\ thread'[t].fetched = [thread[t].fetched EXCEPT ![a] = None]
      <3>1. thread'[t] = [thread[t] EXCEPT !.pc = "seed", !.arm = a, !.fetched[a] = None]
            /\ \A u \in Threads \ {t} : thread'[u] = thread[u]
        BY <1>0, <2>1, Moves
      <3>2. QED  BY <1>0, <3>1 DEF ThreadState
    <2>4. \A b \in Arms : thread'[t].fetched[b] \in {None, strapi[b]}
      BY <1>0, <2>3 DEF Settled, Fetched
    <2>5. \A u \in Threads : thread'[u].pc # "new"
                             /\ \A b \in Arms : thread'[u].fetched[b] \in {None, strapi'[b]}
      BY <2>1, <2>3, <2>4 DEF Settled, At
    <2>6. \A b \in Listed(strapi)' : cache'[b] = strapi'[b] /\ b \in seeded'
      BY <1>0, <2>1, <2>2 DEF Settled, Listed, Fetched
    <2>7. Listed(strapi)' = Listed(strapi)
      BY <2>1 DEF Listed
    <2>8. QED  BY <2>1, <2>5, <2>6, <2>7 DEF Settled, At
  <1>9. QED  BY <1>1, <1>2, <1>3, <1>4, <1>5, <1>6, <1>7, <1>8 DEF Step

\* For any arms, threads and page size: once every arm that is on is cached as it is, and no
\* thread has an older answer of Strapi's in hand, no request and no sync changes that,
\* however threads interleave, until Strapi is edited or something fails (main.py:26-41,
\* 102-113, 159-162).
THEOREM StaysCaughtUp == Spec => StaysSettled
  <1>1. ASSUME ArmsAssumption, IInv, Settled, [Next]_vars
        PROVE  Settled' \/ Disturbance
    <2>1. CASE UNCHANGED vars
      <3>1. UNCHANGED <<strapi, cached, cache, seeded, thread>>
        BY <2>1 DEF vars, world, service
      <3>2. Listed(strapi)' = Listed(strapi)
        BY <3>1 DEF Listed
      <3>3. \A t \in Threads : thread'[t].pc # "new"
                               /\ \A a \in Arms : thread'[t].fetched[a] \in {None, strapi'[a]}
        BY <1>1, <3>1 DEF Settled, At
      <3>4. (Listed(strapi)' # {} => cached')
            /\ \A a \in Listed(strapi)' : cache'[a] = strapi'[a] /\ a \in seeded'
        BY <1>1, <3>1, <3>2 DEF Settled
      <3>5. QED  BY <3>3, <3>4 DEF Settled, At
    <2>2. ASSUME NEW t \in Threads, NEW select \in BOOLEAN, NEW refresh \in BOOLEAN,
                 Request(t, select, refresh)
          PROVE  Settled'
      <3>1. /\ ThreadsOK /\ thread'[t].pc \in {"fetch", "look"} /\ Listed(thread'[t].fetched) = {}
            /\ \A u \in Threads \ {t} : thread'[u] = thread[u]
        BY <1>1, <2>2, RequestEffect, TypeParts DEF IInv
      <3>2. \A a \in Arms : thread'[t].fetched[a] = None
        BY <3>1 DEF Listed
      <3>3. QED  BY <1>1, <2>2, <3>1, <3>2, SettledThreads DEF Request, world, service
    <2>3. QED  BY <1>1, <2>1, <2>2, SettledSteps DEF Next, Calm, Requests
  <1>2. IInv /\ [Next]_vars => [Settled => Settled' \/ Disturbance]_vars
    BY <1>1, ArmsAssumption
  <1>3. QED  BY <1>2, Inductive, PTL DEF Spec, StaysSettled
-----------------------------------------------------------------------------
(* A sync that has overtaken the older ones.                                *)

\* Only a sync that is under way has arms in hand.
HandInv ==
    \A t \in Threads : thread[t].pc \notin {"cache", "new", "seed"} => Listed(thread[t].fetched) = {}

\* Nobody has an older version, and whoever may make the place in the cache afresh has all arms.
OvertakenInv ==
    ahead =>
        /\ Cardinality(Listed(strapi)) <= PageSize
        /\ \A t \in Threads :
              At(t, "new") \/ (At(t, "cache") /\ ~cached /\ Listed(thread[t].fetched) # {})
                => \A a \in Arms : thread[t].fetched[a] = strapi[a]

AheadInv == HandInv /\ OvertakenInv /\ SyncTakes

\* A page holds every arm that is on, if there are no more than PageSize.
LEMMA FetchPage ==
    ASSUME ArmsAssumption, IInv, NEW t \in Threads, NEW fails \in BOOLEAN, Fetch(t, fails)
    PROVE  \E page \in SUBSET Listed(strapi) :
              /\ \A a \in Arms : thread'[t].fetched[a] = IF a \in page THEN strapi[a] ELSE None
              /\ Cardinality(Listed(strapi)) <= PageSize => page = {} \/ page = Listed(strapi)
              /\ ahead' => ahead \/ (Alone(t) /\ page = Listed(strapi)
                                     /\ Cardinality(Listed(strapi)) <= PageSize)
  <1> DEFINE S == Listed(strapi)
             N == Cardinality(S)
  <1>0. thread \in [Threads -> ThreadState] /\ thread[t] \in ThreadState /\ IsFiniteSet(S) /\ N \in Nat
        /\ PageSize \in Nat
    <2>1. IsFiniteSet(S)
      BY FS_Subset DEF ArmsAssumption, Listed
    <2>2. QED  BY <2>1, FS_CardinalityType, TypeParts DEF IInv, ThreadsOK, ArmsAssumption
  <1>1. PICK page \in IF fails THEN {{}} ELSE kSubset(Min({PageSize, N}), S) :
            /\ Goto(t, [thread[t] EXCEPT !.pc = "cache",
                           !.fetched = [a \in Arms |-> IF a \in page THEN strapi[a] ELSE None]])
            /\ ahead' = (ahead \/ (~fails /\ Alone(t) /\ page = S))
    BY DEF Fetch
  <1>2. page \in SUBSET S /\ (~fails => Cardinality(page) = Min({PageSize, N}))
    BY <1>1 DEF kSubset
  <1>3. Min({PageSize, N}) <= PageSize /\ (N <= PageSize => Min({PageSize, N}) = N)
    BY <1>0 DEF Min
  <1>4. \A a \in Arms : thread'[t].fetched[a] = IF a \in page THEN strapi[a] ELSE None
    <2> DEFINE f == [a \in Arms |-> IF a \in page THEN strapi[a] ELSE None]
    <2>1. Goto(t, [thread[t] EXCEPT !.pc = "cache", !.fetched = f])
      BY <1>1
    <2> HIDE DEF f
    <2>2. thread'[t] = [thread[t] EXCEPT !.pc = "cache", !.fetched = f]
      BY <1>0, <2>1, Moves
    <2>3. thread'[t].fetched = f
      BY <1>0, <2>2 DEF ThreadState
    <2>4. QED  BY <2>3 DEF f
  <1>5. N <= PageSize => fails \/ page = S
    BY <1>0, <1>2, <1>3, FS_Subset
  <1>6. ~fails /\ page = S => N <= PageSize
    BY <1>2, <1>3
  <1>7. fails => page = {}
    BY <1>1
  <1>8. QED  BY <1>1, <1>2, <1>4, <1>5, <1>6, <1>7

LEMMA FetchAhead ==
    ASSUME ArmsAssumption, IInv, AheadInv, NEW t \in Threads, NEW fails \in BOOLEAN, Fetch(t, fails)
    PROVE  AheadInv'
  <1>1. /\ \A u \in Threads \ {t} : thread'[u] = thread[u]
        /\ At(t, "fetch") /\ thread'[t].pc = "cache" /\ thread'[t].arm = None
        /\ thread[t].arm = None
    BY FetchEffect, TypeParts DEF IInv, ThreadsOK, ThreadOK, At
  <1>2. UNCHANGED <<strapi, cached, cache, seeded>>
    BY DEF Fetch, world, service
  <1>3. PICK page \in SUBSET Listed(strapi) :
              /\ \A a \in Arms : thread'[t].fetched[a] = IF a \in page THEN strapi[a] ELSE None
              /\ Cardinality(Listed(strapi)) <= PageSize => page = {} \/ page = Listed(strapi)
              /\ ahead' => ahead \/ (Alone(t) /\ page = Listed(strapi)
                                     /\ Cardinality(Listed(strapi)) <= PageSize)
    BY FetchPage
  <1>4. HandInv'
    BY <1>1 DEF AheadInv, HandInv, Listed
  <1>5. Listed(thread[t].fetched) = {} /\ Listed(strapi)' = Listed(strapi)
    BY <1>1, <1>2 DEF AheadInv, HandInv, At, Listed
  <1>6. page = Listed(strapi) => \A a \in Arms : thread'[t].fetched[a] = strapi[a]
    BY <1>3 DEF Listed
  <1>7. page = {} => Listed(thread'[t].fetched) = {}
    BY <1>3 DEF Listed
  <1>8. CASE ahead
    <2>1. page = Listed(strapi) \/ Listed(thread'[t].fetched) = {}
      <3>1. Cardinality(Listed(strapi)) <= PageSize
        BY <1>8 DEF AheadInv, OvertakenInv
      <3>2. QED  BY <1>3, <1>7, <3>1
    <2>2. OvertakenInv'
      BY <1>1, <1>2, <1>5, <1>6, <1>8, <2>1 DEF AheadInv, OvertakenInv, At, Listed
    <2>3. SyncTakes'
      <3>1. \A u \in Threads, a \in Arms : thread'[u].fetched[a] \in {None, strapi'[a]}
        BY <1>1, <1>2, <1>3, <1>8 DEF AheadInv, SyncTakes
      <3>2. ASSUME NEW a \in Listed(strapi)
            PROVE  \/ \E u \in Threads : thread'[u].fetched[a] # None
                   \/ /\ cache'[a] = strapi'[a]
                      /\ a \in seeded' \/ \E u \in Threads : thread'[u].arm = a
        <4>1. a \in Arms /\ a # None
          BY DEF Listed, ArmsAssumption
        <4>2. thread[t].fetched[a] = None
          BY <1>5, <4>1 DEF Listed
        <4>3. QED  BY <1>1, <1>2, <1>8, <4>1, <4>2 DEF AheadInv, SyncTakes
      <3>3. QED  BY <1>5, <3>1, <3>2 DEF SyncTakes
    <2>4. QED  BY <1>4, <2>2, <2>3 DEF AheadInv
  <1>9. CASE ~ahead /\ ahead'
    <2>1. Alone(t) /\ page = Listed(strapi) /\ Cardinality(Listed(strapi)) <= PageSize
      BY <1>3, <1>9
    <2>2. \A u \in Threads \ {t} : Listed(thread'[u].fetched) = {} /\ ~(thread'[u].pc = "new")
      BY <1>1, <2>1 DEF Alone, AheadInv, HandInv
    <2>3. OvertakenInv'
      BY <1>1, <1>2, <1>5, <1>6, <2>1, <2>2 DEF OvertakenInv, At
    <2>4. SyncTakes'
      BY <1>2, <1>3, <1>5, <1>6, <2>1, <2>2 DEF SyncTakes, Listed
    <2>5. QED  BY <1>4, <2>3, <2>4 DEF AheadInv
  <1>10. CASE ~ahead'
    BY <1>4, <1>10 DEF AheadInv, OvertakenInv, SyncTakes
  <1>11. QED  BY <1>8, <1>9, <1>10

\* A thread that has nothing to put into the cache takes a step and has nothing after it.
LEMMA EmptyHanded ==
    ASSUME ArmsAssumption, AheadInv, NEW t \in Threads, ThreadsOK,
           \A u \in Threads \ {t} : thread'[u] = thread[u],
           UNCHANGED <<strapi, cached, cache, seeded, ahead>>,
           Listed(thread[t].fetched) = {}, Listed(thread'[t].fetched) = {},
           ~At(t, "seed"), thread'[t].pc # "new"
    PROVE  AheadInv'
  <1>1. thread[t].arm = None /\ \A a \in Arms : a # None
    BY DEF ThreadsOK, ThreadOK, At, ArmsAssumption
  <1>2. \A a \in Arms : thread[t].fetched[a] = None /\ thread'[t].fetched[a] = None
    BY DEF Listed
  <1>3. Listed(strapi)' = Listed(strapi)
    BY DEF Listed
  <1>4. HandInv'
    BY DEF AheadInv, HandInv, Listed
  <1>5. OvertakenInv'
    BY <1>3 DEF AheadInv, OvertakenInv, At, Listed
  <1>6. SyncTakes'
    <2> SUFFICES ASSUME ahead PROVE SyncTakes'
      BY DEF SyncTakes
    <2>1. \A u \in Threads, a \in Arms : thread'[u].fetched[a] \in {None, strapi'[a]}
      BY <1>2 DEF AheadInv, SyncTakes
    <2>2. ASSUME NEW a \in Listed(strapi)
          PROVE  \/ \E u \in Threads : thread'[u].fetched[a] # None
                 \/ /\ cache'[a] = strapi'[a]
                    /\ a \in seeded' \/ \E u \in Threads : thread'[u].arm = a
      <3>1. a \in Arms
        BY DEF Listed
      <3>2. QED  BY <1>1, <1>2, <3>1 DEF AheadInv, SyncTakes
    <2>3. QED  BY <1>3, <2>1, <2>2 DEF SyncTakes
  <1>7. QED  BY <1>4, <1>5, <1>6 DEF AheadInv

LEMMA CheckAhead ==
    ASSUME ArmsAssumption, IInv, AheadInv, NEW t \in Threads, Check(t)
    PROVE  AheadInv'
  <1>1. /\ \A u \in Threads \ {t} : thread'[u] = thread[u]
        /\ At(t, "cache") /\ thread'[t].pc = "new" /\ thread'[t].arm = None
        /\ thread[t].arm = None /\ thread'[t].fetched = thread[t].fetched
        /\ Listed(thread[t].fetched) # {} /\ ~cached
    BY CheckEffect, TypeParts DEF IInv, Check
  <1>2. UNCHANGED <<strapi, cached, cache, seeded, ahead>>
    BY DEF Check, world, service, history
  <1>3. /\ Listed(strapi)' = Listed(strapi)
        /\ \A u \in Threads : thread'[u].fetched = thread[u].fetched /\ thread'[u].arm = thread[u].arm
    BY <1>1, <1>2 DEF Listed
  <1>4. HandInv'
    BY <1>1 DEF AheadInv, HandInv, Listed
  <1>5. OvertakenInv'
    BY <1>1, <1>2, <1>3 DEF AheadInv, OvertakenInv, At, Listed
  <1>6. SyncTakes'
    BY <1>2, <1>3 DEF AheadInv, SyncTakes
  <1>7. QED  BY <1>4, <1>5, <1>6 DEF AheadInv

LEMMA AddExperimentAhead ==
    ASSUME ArmsAssumption, IInv, AheadInv, NEW t \in Threads, AddExperiment(t)
    PROVE  AheadInv'
  <1>1. /\ \A u \in Threads \ {t} : thread'[u] = thread[u]
        /\ At(t, "new") /\ thread'[t].pc = "cache" /\ thread'[t].arm = None
        /\ thread[t].arm = None /\ thread'[t].fetched = thread[t].fetched
    BY AddExperimentEffect, TypeParts DEF IInv
  <1>2. UNCHANGED <<strapi, seeded, ahead>> /\ cached' = TRUE
    BY DEF AddExperiment, world, history
  <1>3. Listed(strapi)' = Listed(strapi) /\ \A u \in Threads : thread'[u].fetched = thread[u].fetched
    BY <1>1, <1>2 DEF Listed
  <1>4. HandInv'
    BY <1>1 DEF AheadInv, HandInv, Listed
  <1>5. OvertakenInv'
    BY <1>1, <1>2, <1>3 DEF AheadInv, OvertakenInv, At
  <1>6. ahead => \A a \in Listed(strapi) : thread'[t].fetched[a] # None
    BY <1>1 DEF AheadInv, OvertakenInv, Listed
  <1>7. SyncTakes'
    BY <1>2, <1>3, <1>6 DEF AheadInv, SyncTakes
  <1>8. QED  BY <1>4, <1>5, <1>7 DEF AheadInv

LEMMA AddAhead ==
    ASSUME ArmsAssumption, IInv, AheadInv, NEW t \in Threads, NEW a \in Arms, Add(t, a)
    PROVE  AheadInv'
  <1>1. /\ \A u \in Threads \ {t} : thread'[u] = thread[u]
        /\ At(t, "cache") /\ thread[t].arm = None /\ cached
        /\ thread'[t].pc = "seed" /\ thread'[t].arm = a
    BY AddEffect DEF IInv
  <1>2. UNCHANGED <<strapi, cached, seeded, ahead>>
        /\ cache' = [cache EXCEPT ![a] = thread[t].fetched[a]] /\ thread[t].fetched[a] # None
    BY DEF Add, CacheArm, world, history, Listed
  <1>3. thread \in [Threads -> ThreadState] /\ thread[t] \in ThreadState
        /\ thread[t].fetched \in Fetched /\ cache \in Fetched
    BY TypeParts DEF IInv, ThreadsOK, ThreadState, Fetched
  <1>4. thread'[t].fetched = [thread[t].fetched EXCEPT ![a] = None]
    <2>1. thread'[t] = [thread[t] EXCEPT !.pc = "seed", !.arm = a, !.fetched[a] = None]
      BY <1>3, Moves DEF Add
    <2>2. QED  BY <1>3, <2>1 DEF ThreadState
  <1>5. /\ \A b \in Arms : thread'[t].fetched[b] = IF b = a THEN None ELSE thread[t].fetched[b]
        /\ \A b \in Arms : cache'[b] = IF b = a THEN thread[t].fetched[a] ELSE cache[b]
        /\ Listed(strapi)' = Listed(strapi)
    BY <1>2, <1>3, <1>4 DEF Fetched, Listed
  <1>6. HandInv'
    BY <1>1 DEF AheadInv, HandInv, Listed
  <1>7. OvertakenInv'
    BY <1>1, <1>2, <1>5 DEF AheadInv, OvertakenInv, At
  <1>8. SyncTakes'
    <2> SUFFICES ASSUME ahead PROVE SyncTakes'
      BY <1>2 DEF SyncTakes
    <2>1. \A u \in Threads, b \in Arms : thread'[u].fetched[b] \in {None, strapi'[b]}
      BY <1>1, <1>2, <1>5 DEF AheadInv, SyncTakes
    <2>2. ASSUME NEW b \in Listed(strapi)
          PROVE  \/ \E u \in Threads : thread'[u].fetched[b] # None
                 \/ /\ cache'[b] = strapi'[b]
                    /\ b \in seeded' \/ \E u \in Threads : thread'[u].arm = b
      <3>1. b \in Arms /\ b # None
        BY DEF Listed, ArmsAssumption
      <3>2. CASE b = a
        <4>1. cache'[b] = strapi'[b]
          BY <1>2, <1>5, <3>2 DEF AheadInv, SyncTakes
        <4>2. QED  BY <1>1, <3>2, <4>1
      <3>3. CASE b # a
        BY <1>1, <1>2, <1>5, <3>1, <3>3 DEF AheadInv, SyncTakes
      <3>4. QED  BY <3>2, <3>3
    <2>3. QED  BY <1>5, <2>1, <2>2 DEF SyncTakes
  <1>9. QED  BY <1>6, <1>7, <1>8 DEF AheadInv

LEMMA SeedAhead ==
    ASSUME ArmsAssumption, IInv, AheadInv, NEW t \in Threads, Seed(t)
    PROVE  AheadInv'
  <1>1. /\ \A u \in Threads \ {t} : thread'[u] = thread[u]
        /\ At(t, "seed") /\ thread'[t].pc = "cache" /\ thread'[t].arm = None
        /\ thread'[t].fetched = thread[t].fetched
    BY SeedEffect, TypeParts DEF IInv
  <1>2. UNCHANGED <<strapi, cached, cache, ahead>> /\ seeded' = seeded \union {thread[t].arm} /\ cached
    BY <1>1 DEF Seed, Seeded, world, IInv, SyncOK
  <1>3. Listed(strapi)' = Listed(strapi) /\ \A u \in Threads : thread'[u].fetched = thread[u].fetched
    BY <1>1, <1>2 DEF Listed
  <1>4. HandInv'
    BY <1>1 DEF AheadInv, HandInv, Listed
  <1>5. OvertakenInv'
    BY <1>1, <1>2, <1>3 DEF AheadInv, OvertakenInv, At
  <1>6. SyncTakes'
    BY <1>1, <1>2, <1>3 DEF AheadInv, SyncTakes
  <1>7. QED  BY <1>4, <1>5, <1>6 DEF AheadInv

\* An edit or a fault ends what is claimed.
LEMMA DisturbedAhead ==
    ASSUME ahead' = FALSE, HandInv' PROVE AheadInv'
  BY DEF AheadInv, OvertakenInv, SyncTakes

LEMMA NextAhead ==
    ASSUME ArmsAssumption, IInv, AheadInv, [Next]_vars
    PROVE  AheadInv'
  <1>0. ThreadsOK /\ HandInv
    BY TypeParts DEF IInv, AheadInv
  <1>1. CASE UNCHANGED vars
    <2>1. UNCHANGED <<strapi, cached, cache, seeded, thread, ahead>>
      BY <1>1 DEF vars, world, service, history
    <2>2. Listed(strapi)' = Listed(strapi) /\ \A t \in Threads : thread'[t] = thread[t]
      BY <2>1 DEF Listed
    <2>3. HandInv'
      BY <1>0, <2>2 DEF HandInv, Listed
    <2>4. OvertakenInv'
      BY <2>1, <2>2 DEF AheadInv, OvertakenInv, At, Listed
    <2>5. SyncTakes'
      BY <2>1, <2>2 DEF AheadInv, SyncTakes
    <2>6. QED  BY <2>3, <2>4, <2>5 DEF AheadInv
  <1>2. ASSUME NEW t \in Threads, NEW select \in BOOLEAN, NEW refresh \in BOOLEAN,
               Request(t, select, refresh)
        PROVE  AheadInv'
    <2>1. /\ \A u \in Threads \ {t} : thread'[u] = thread[u]
          /\ At(t, "idle") /\ Listed(thread'[t].fetched) = {} /\ thread'[t].pc \in {"fetch", "look"}
      BY <1>0, <1>2, RequestEffect
    <2>2. UNCHANGED <<strapi, cached, cache, seeded, ahead>>
      BY <1>2 DEF Request, world, service
    <2>3. QED  BY <1>0, <2>1, <2>2, EmptyHanded DEF HandInv, At
  <1>3. ASSUME NEW t \in Threads, Done(t) PROVE AheadInv'
    <2>1. /\ \A u \in Threads \ {t} : thread'[u] = thread[u]
          /\ At(t, "cache") /\ Listed(thread[t].fetched) = {}
          /\ Listed(thread'[t].fetched) = {} /\ thread'[t].pc \in {"idle", "look"}
      BY <1>0, <1>3, DoneEffect
    <2>2. UNCHANGED <<strapi, cached, cache, seeded, ahead>>
      BY <1>3 DEF Done, world, history
    <2>3. QED  BY <1>0, <2>1, <2>2, EmptyHanded DEF At
  <1>4. ASSUME NEW t \in Threads, Look(t) PROVE AheadInv'
    <2>1. /\ \A u \in Threads \ {t} : thread'[u] = thread[u]
          /\ At(t, "look") /\ thread'[t].pc \in {"idle", "draw"}
          /\ Listed(thread'[t].fetched) = {} \/ thread'[t].fetched = thread[t].fetched
      BY <1>0, <1>4, LookEffect
    <2>2. UNCHANGED <<strapi, cached, cache, seeded, ahead>>
      BY <1>4 DEF Look, world, service, history
    <2>3. Listed(thread[t].fetched) = {}
      BY <1>0, <2>1 DEF HandInv, At
    <2>4. QED  BY <1>0, <2>1, <2>2, <2>3, EmptyHanded DEF At
  <1>5. ASSUME NEW t \in Threads, Draw(t) PROVE AheadInv'
    <2>1. /\ \A u \in Threads \ {t} : thread'[u] = thread[u]
          /\ At(t, "draw") /\ thread'[t].pc = "idle" /\ Listed(thread'[t].fetched) = {}
      BY <1>0, <1>5, IdleEffect DEF Draw
    <2>2. UNCHANGED <<strapi, cached, cache, seeded, ahead>>
      BY <1>5 DEF Draw, world, service, history
    <2>3. QED  BY <1>0, <2>1, <2>2, EmptyHanded DEF HandInv, At
  <1>6. ASSUME Fresh PROVE AheadInv'
    BY <1>6, FreshEffect, DisturbedAhead DEF HandInv, Listed
  <1>7. ASSUME NEW a \in Arms, Edit(a) PROVE AheadInv'
    BY <1>0, <1>7, DisturbedAhead DEF Edit, HandInv, Listed
  <1>8. ASSUME Flush PROVE AheadInv'
    BY <1>0, <1>8, DisturbedAhead DEF Flush, HandInv, Listed
  <1>9. ASSUME NEW t \in Threads, DragonflyFails(t) PROVE AheadInv'
    <2>1. CASE ready
      <3>1. Goto(t, Idle) /\ ahead' = FALSE
        BY <1>9, <2>1 DEF DragonflyFails
      <3>2. HandInv'
        BY <1>0, <3>1, IdleEffect DEF HandInv, Listed
      <3>3. QED  BY <3>1, <3>2, DisturbedAhead
    <2>2. CASE ~ready
      BY <1>6, <1>9, <2>2 DEF DragonflyFails
    <2>3. QED  BY <2>1, <2>2
  <1>10. QED
    BY <1>1, <1>2, <1>3, <1>4, <1>5, <1>6, <1>7, <1>8, <1>9, FetchAhead, CheckAhead,
       AddExperimentAhead, AddAhead, SeedAhead
    DEF Next, Calm, Requests, Step, Disturbance, Restart

\* For any arms, threads and page size: a sync that asked Strapi when no older one was under
\* way leaves the cache with all that Strapi has on one page, whatever begins after it, until
\* Strapi is edited or something fails (main.py:29-42, 159-162).
THEOREM SyncLands == Spec => []SyncTakes
  <1>1. ASSUME ArmsAssumption, Init PROVE AheadInv
    <2>1. \A t \in Threads : thread[t] \in {Idle, Booting}
      BY <1>1 DEF Init
    <2>2. HandInv
      BY <2>1, IdleType DEF HandInv
    <2>3. QED  BY <1>1, <2>2 DEF Init, AheadInv, OvertakenInv, SyncTakes
  <1>2. Init => AheadInv
    BY <1>1, ArmsAssumption
  <1>3. IInv /\ AheadInv /\ [Next]_vars => AheadInv'
    BY NextAhead, ArmsAssumption
  <1>4. AheadInv => SyncTakes
    BY DEF AheadInv
  <1>5. QED  BY <1>2, <1>3, <1>4, Inductive, PTL DEF Spec
=============================================================================
