--------------------------- MODULE RepoWiki_proofs ---------------------------
(***************************************************************************)
(* Proofs about RepoWiki, for any pages, contents, commits and faults.  One *)
(* inductive invariant, IInv, carries the theorems about what is served    *)
(* and marked; KeptInv is for failed pages, CleanInv for runs that end.    *)
(***************************************************************************)
EXTENDS RepoWiki, FiniteSets, FiniteSetTheorems, TLAPS

\* Every text is at least as new as the entry that announces it.
AtLeast(texts, entries) ==
    \A s \in Slugs : texts[s] # None /\ entries[s] # None => texts[s].gen >= entries[s].gen

\* No entry, or text, was made after n; all were made before.
UpTo(entries, n) == \A s \in Slugs : entries[s] # None => entries[s].gen <= n
Before(entries, n) == \A s \in Slugs : entries[s] # None => entries[s].gen < n

\* The entries tell of texts that are there, and what these were made from, but for
\* texts from before the manifest.
Vouched(texts, entries) ==
    \A s \in Slugs : entries[s] # None =>
        /\ texts[s] # None /\ texts[s].gen = entries[s].gen
        /\ texts[s].gen = 0 \/ texts[s].content = entries[s].hash

Swapping == {"in", "manifest"}
Regenerating == {"pages", "out", "in", "manifest"}

\* What pages and entries a run makes have their types.
FilesKnown ==
    run.pc \in Regenerating \union {"mark"} => run.files \in [Slugs -> Contents]

\* The order of the writes keeps every text ahead of what announces it.
AgeInv ==
    /\ UpTo(manifest, now) /\ UpTo(run.done, now) /\ UpTo(base, now) /\ UpTo(run.stage, now)
    /\ AtLeast(base, manifest) /\ AtLeast(run.stage, manifest) /\ AtLeast(run.stage, run.done)
    /\ snap # None => UpTo(snap, now) /\ AtLeast(base, snap) /\ AtLeast(run.stage, snap)
    /\ run.pc = "manifest" => base = run.stage
    /\ \A s \in Slugs : cache[s] # None => cache[s].stamp <= now
    /\ NeverOlderThanAnnounced

\* A clean run has made every page from the files of a commit not before its sha.
CommitInv ==
    /\ run.sha <= head /\ state <= head
    /\ run.pc # "idle" => state < head
    /\ run.pc \in {"idle", "fetch"} => run.done = Nothing
    /\ run.pc \in Regenerating \union {"mark"} =>
        /\ run.sha = head => run.files = src
        /\ ~run.failed => \A s \in Slugs : run.done[s] # None => run.done[s].hash = run.files[s]
    /\ run.pc = "mark" => ~run.failed /\ manifest = run.done
    /\ state = head => \A s \in Slugs : manifest[s] # None => manifest[s].hash = src[s]

\* The pages are those of the manifest, except between the swap and its write, or those
\* from before there was one.
MatchInv ==
    /\ run.pc \notin Swapping =>
        /\ Vouched(base, manifest)
        /\ \A s \in Slugs : base[s] # None /\ manifest[s] = None =>
              base[s].gen = 0 /\ Listed(manifest) = {}
    /\ Vouched(run.stage, run.done)
    /\ \A s \in Slugs : run.stage[s] # None => run.done[s] # None

\* Once there is a manifest there always is; before, wiki-mcp has no page.
BareInv ==
    /\ run.pc \in {"out", "in", "manifest"} => Listed(run.done) # {}
    /\ Listed(manifest) = {} =>
        /\ Listed(cache) = {}
        /\ snap # None => Listed(snap) = {}

\* What a new page is stamped with was never seen before.
StampInv ==
    /\ run.pc \in Regenerating =>
        /\ Before(manifest, now)
        /\ snap # None => Before(snap, now)
        /\ \A s \in Slugs : cache[s] # None => cache[s].stamp < now
    /\ run.pc \in {"pages", "out"} =>
        \A s \in Slugs : run.done[s] # None => \/ run.done[s].gen = now
                                               \/ run.stage[s] = base[s]
    /\ run.pc = "in" => base = Nothing

\* A cached page whose stamp is in force is the one on disk, or about to be.
CacheInv ==
    /\ run.pc \notin Swapping =>
        \A s \in Slugs : cache[s] # None /\ manifest[s] # None
                         /\ cache[s].stamp = manifest[s].gen => cache[s].text = base[s]
    /\ run.pc \in Regenerating =>
        \A s \in Slugs : cache[s] # None /\ run.done[s] # None
                         /\ cache[s].stamp = run.done[s].gen => cache[s].text = run.stage[s]

IInv ==
    /\ TypeOK /\ FilesKnown /\ AgeInv /\ CommitInv /\ StampInv /\ BareInv
    /\ ~exposed => MatchInv /\ CacheInv
-----------------------------------------------------------------------------
(* What each step does to the generator's record.                          *)

RunSameBut(pc, todo, failed, stage, done) ==
    /\ run'.pc = pc /\ run'.sha = run.sha /\ run'.files = run.files
    /\ run'.pages = run.pages /\ run'.todo = todo
    /\ run'.stage = stage /\ run'.done = done /\ run'.failed = failed
    /\ run' \in [pc : {run'.pc}, sha : {run'.sha}, files : {run'.files}, pages : {run'.pages},
                 todo : {run'.todo}, stage : {run'.stage}, done : {run'.done},
                 failed : {run'.failed}]

LEMMA GotoRun ==
    ASSUME run \in RunState, NEW p, run' = [run EXCEPT !.pc = p]
    PROVE  RunSameBut(p, run.todo, run.failed, run.stage, run.done)
BY DEF RunState, RunSameBut

LEMMA StagedRun ==
    ASSUME run \in RunState, NEW s \in Slugs, NEW text, NEW entry, Staged(s, text, entry)
    PROVE  RunSameBut(run.pc, run.todo \ {s}, run.failed, [run.stage EXCEPT ![s] = text],
                      [run.done EXCEPT ![s] = entry])
BY DEF RunState, RunSameBut, Staged

LEMMA FailedRun ==
    ASSUME run \in RunState, NEW s \in Slugs, NEW text, NEW entry,
           run' = [run EXCEPT !.todo = @ \ {s}, !.failed = TRUE, !.stage[s] = text, !.done[s] = entry]
    PROVE  RunSameBut(run.pc, run.todo \ {s}, TRUE, [run.stage EXCEPT ![s] = text],
                      [run.done EXCEPT ![s] = entry])
BY DEF RunState, RunSameBut

LEMMA RunTyped ==
    ASSUME run \in RunState, NEW p, NEW todo, NEW failed, NEW stage, NEW done,
           RunSameBut(p, todo, failed, stage, done),
           p \in {"idle", "fetch", "pages", "out", "in", "manifest", "mark"},
           todo \in SUBSET Slugs, failed \in BOOLEAN, stage \in Pages, done \in Manifest
    PROVE  run' \in RunState
BY DEF RunState, RunSameBut

LEMMA IdleTyped == Idle \in RunState /\ Idle.todo \subseteq Idle.pages
BY DEF Idle, RunState, Nothing, Pages, Manifest

-----------------------------------------------------------------------------
(* Types.                                                                  *)

LEMMA TypeInit == Init => TypeOK /\ FilesKnown
<1> SUFFICES ASSUME Init PROVE TypeOK /\ FilesKnown
  OBVIOUS
<1>1. Nothing \in Pages /\ Nothing \in Manifest /\ Nothing \in Cache
  BY DEF Nothing, Pages, Manifest, Cache
<1>2. Idle.pc = "idle" /\ base \in Pages /\ state \in Nat
  BY DEF Idle, Init, Pages, Text
<1> QED
  BY <1>1, <1>2, IdleTyped DEF Init, TypeOK, FilesKnown, Regenerating

\* The steps that leave the generator's record alone.
LEMMA TypeOthers ==
    ASSUME TypeOK, FilesKnown,
           \/ Commit \/ Reader
    PROVE  TypeOK' /\ FilesKnown'
<1>1. CASE Commit
  BY <1>1 DEF TypeOK, FilesKnown, Commit, disk, reader, Pages, Manifest, Cache
<1>2. CASE ReadManifest
  BY <1>2 DEF TypeOK, FilesKnown, ReadManifest, repo, disk
<1>3. CASE Reply
  BY <1>3 DEF TypeOK, FilesKnown, Reply, repo, disk
<1>4. CASE ReaderRestarts
  BY <1>4 DEF TypeOK, FilesKnown, ReaderRestarts, repo, disk, Cache, Nothing
<1>5. ASSUME NEW s \in Slugs, PageText(s)
      PROVE  TypeOK' /\ FilesKnown'
  <2>1. snap[s].gen \in Nat /\ base[s] \in Text
    BY <1>5 DEF TypeOK, PageText, Manifest, Entry, Pages
  <2>2. cache' \in Cache
    BY <1>5, <2>1 DEF TypeOK, PageText, Cache
  <2> QED
    BY <1>5, <2>2 DEF TypeOK, FilesKnown, PageText, repo, disk
<1> QED
  BY <1>1, <1>2, <1>3, <1>4, <1>5 DEF Reader

\* The steps of a run up to its pages.
LEMMA TypePages ==
    ASSUME TypeOK, FilesKnown,
           NEW s \in Slugs, KeepPage(s) \/ WritePage(s) \/ FailPage(s)
    PROVE  TypeOK' /\ FilesKnown'
<1> run \in RunState /\ FilesKnown /\ run.todo \subseteq run.pages
  BY DEF TypeOK
<1>1. run.files \in [Slugs -> Contents]
  BY DEF FilesKnown, KeepPage, WritePage, FailPage, Regenerating
<1>2. run.stage \in Pages /\ run.done \in Manifest /\ base \in Pages /\ manifest \in Manifest
      /\ now \in Nat /\ run.todo \in SUBSET Slugs /\ run.failed \in BOOLEAN
      /\ run.pc \in {"idle", "fetch", "pages", "out", "in", "manifest", "mark"}
  BY DEF TypeOK, RunState
<1>3. ASSUME NEW text \in Text \union {None}, NEW entry \in Entry \union {None}, NEW failed \in BOOLEAN,
             RunSameBut(run.pc, run.todo \ {s}, failed, [run.stage EXCEPT ![s] = text],
                        [run.done EXCEPT ![s] = entry])
      PROVE  run' \in RunState /\ run'.todo \subseteq run'.pages /\ FilesKnown'
  <2>1. [run.stage EXCEPT ![s] = text] \in Pages /\ [run.done EXCEPT ![s] = entry] \in Manifest
    BY <1>2 DEF Pages, Manifest
  <2>2. run' \in RunState
    BY <1>2, <1>3, <2>1, RunTyped
  <2> QED
    BY <1>3, <2>2, <1>1 DEF RunSameBut, FilesKnown
<1>4. CASE KeepPage(s)
  <2> DEFINE entry == [hash |-> run.files[s],
                       gen |-> IF Adopts(s) THEN base[s].gen ELSE manifest[s].gen]
  <2>1. base[s] \in Text /\ (~Adopts(s) => manifest[s] \in Entry)
    BY <1>2, <1>4 DEF KeepPage, Adopts, Current, Pages, Manifest
  <2>2. entry \in Entry
    BY <1>1, <2>1 DEF Entry, Text
  <2>3. Staged(s, base[s], entry)
    BY <1>4 DEF KeepPage
  <2> HIDE DEF entry
  <2>4. RunSameBut(run.pc, run.todo \ {s}, run.failed, [run.stage EXCEPT ![s] = base[s]],
                   [run.done EXCEPT ![s] = entry])
    BY <2>3, StagedRun
  <2>5. run' \in RunState /\ run'.todo \subseteq run'.pages /\ FilesKnown'
    BY <1>2, <1>3, <2>1, <2>2, <2>4
  <2> QED
    BY <1>4, <2>5 DEF TypeOK, KeepPage, repo, disk, reader
<1>5. CASE WritePage(s)
  <2> DEFINE text == [content |-> run.files[s], gen |-> now]
             entry == [hash |-> run.files[s], gen |-> now]
  <2>1. text \in Text /\ entry \in Entry
    BY <1>1, <1>2 DEF Text, Entry
  <2>2. Staged(s, text, entry)
    BY <1>5 DEF WritePage
  <2> HIDE DEF text, entry
  <2>3. RunSameBut(run.pc, run.todo \ {s}, run.failed, [run.stage EXCEPT ![s] = text],
                   [run.done EXCEPT ![s] = entry])
    BY <2>2, StagedRun
  <2>4. run' \in RunState /\ run'.todo \subseteq run'.pages /\ FilesKnown'
    BY <1>2, <1>3, <2>1, <2>3
  <2> QED
    BY <1>5, <2>4 DEF TypeOK, WritePage, repo, disk, reader
<1>6. CASE FailPage(s)
  <2> DEFINE entry == IF base[s] = None THEN None
                      ELSE IF manifest[s] = None THEN [hash |-> NoHash, gen |-> 0]
                      ELSE manifest[s]
  <2>1. base[s] \in Text \union {None} /\ entry \in Entry \union {None}
    BY <1>2 DEF Pages, Manifest, Entry
  <2>2. run' = [run EXCEPT !.todo = @ \ {s}, !.failed = TRUE, !.stage[s] = base[s],
                           !.done[s] = entry]
    BY <1>6 DEF FailPage
  <2> HIDE DEF entry
  <2>3. RunSameBut(run.pc, run.todo \ {s}, TRUE, [run.stage EXCEPT ![s] = base[s]],
                   [run.done EXCEPT ![s] = entry])
    BY <2>2, FailedRun
  <2>4. run' \in RunState /\ run'.todo \subseteq run'.pages /\ FilesKnown'
    BY <1>2, <1>3, <2>1, <2>3
  <2> QED
    BY <1>6, <2>4 DEF TypeOK, FailPage, repo, disk, reader
<1> QED
  BY <1>4, <1>5, <1>6

LEMMA TypeRest ==
    ASSUME TypeOK, FilesKnown,
           Start \/ Plan \/ PagesDone \/ SwapOut \/ SwapIn \/ WriteManifest \/ Mark \/ Die
    PROVE  TypeOK' /\ FilesKnown'
<1>1. run \in RunState /\ run.todo \subseteq run.pages
      /\ run.stage \in Pages /\ run.done \in Manifest /\ run.sha \in Nat
  BY DEF TypeOK, RunState
<1>2. Nothing \in Pages
  BY DEF Nothing, Pages
<1>3. ASSUME run' = Idle
      PROVE  run' \in RunState /\ run'.todo \subseteq run'.pages /\ FilesKnown'
  BY <1>3, IdleTyped DEF FilesKnown, Regenerating, Idle
<1>4. ASSUME NEW p \in {"out", "in", "manifest", "mark"}, Goto(p), run.pc \in Regenerating
      PROVE  run' \in RunState /\ run'.todo \subseteq run'.pages /\ FilesKnown'
  <2>1. run' = [run EXCEPT !.pc = p]
    BY <1>4 DEF Goto
  <2> QED
    BY <1>1, <1>4, <2>1 DEF FilesKnown, RunState
<1>5. CASE Start
  <2>1. run' \in RunState /\ run'.todo \subseteq run'.pages /\ FilesKnown'
    BY <1>5 DEF Start, TypeOK, FilesKnown, Regenerating, Idle, RunState, Nothing, Pages, Manifest
  <2> QED
    BY <1>5, <2>1 DEF Start, TypeOK, disk, repo, reader
<1>6. CASE Plan
  <2>1. PICK pages \in SUBSET Slugs :
            /\ run' = [run EXCEPT !.pc = "pages", !.files = src, !.pages = pages, !.todo = pages]
            /\ owed' = IF pages = Listed(manifest) THEN owed ELSE owed \intersect pages
    BY <1>6 DEF Plan
  <2>2. run' \in RunState /\ run'.todo \subseteq run'.pages /\ FilesKnown'
    BY <1>1, <2>1 DEF FilesKnown, RunState, TypeOK
  <2>3. owed' \subseteq Slugs
    BY <2>1 DEF TypeOK
  <2>4. now' = now + 1 /\ UNCHANGED <<repo, disk, faults, exposed, reader>>
    BY <1>6, ZenonT(30) DEF Plan
  <2>5. /\ head' = head /\ src' = src /\ base' = base /\ manifest' = manifest
        /\ state' = state /\ torn' = torn /\ faults' = faults /\ exposed' = exposed
        /\ snap' = snap /\ cache' = cache
    BY <2>4 DEF disk, repo, reader
  <2> QED
    BY <2>2, <2>3, <2>4, <2>5 DEF TypeOK
<1>7. CASE PagesDone
  BY <1>1, <1>3, <1>4, <1>7 DEF PagesDone, TypeOK, disk, repo, reader, Regenerating
<1>8. CASE SwapOut
  BY <1>1, <1>2, <1>4, <1>8 DEF SwapOut, TypeOK, repo, reader, Regenerating
<1>9. CASE SwapIn
  BY <1>1, <1>4, <1>9 DEF SwapIn, TypeOK, repo, reader, Regenerating
<1>10. CASE WriteManifest
  <2>1. run' = Idle \/ Goto("mark")
    BY <1>10 DEF WriteManifest, Goto
  <2> QED
    BY <1>1, <1>3, <1>4, <1>10, <2>1 DEF WriteManifest, TypeOK, repo, reader, Regenerating
<1>11. CASE Mark
  BY <1>1, <1>3, <1>11 DEF Mark, TypeOK, repo, reader
<1>12. CASE Die
  <2>1. torn' \subseteq {"manifest", "state"}
    BY <1>12 DEF Die, TypeOK
  <2> QED
    BY <1>3, <1>12, <2>1 DEF Die, TypeOK, repo, reader
<1> QED
  BY <1>5, <1>6, <1>7, <1>8, <1>9, <1>10, <1>11, <1>12

LEMMA Steps ==
    Next => \/ Commit \/ Reader
            \/ \E s \in Slugs : KeepPage(s) \/ WritePage(s) \/ FailPage(s)
            \/ Start \/ Plan \/ PagesDone \/ SwapOut \/ SwapIn \/ WriteManifest \/ Mark \/ Die
BY DEF Next, Calm, Generator, PageStep, Fault

LEMMA TypeStep == TypeOK /\ FilesKnown /\ [Next]_vars => TypeOK' /\ FilesKnown'
<1> SUFFICES ASSUME TypeOK, FilesKnown, [Next]_vars PROVE TypeOK' /\ FilesKnown'
  OBVIOUS
<1>1. CASE Next
  BY <1>1, Steps, TypeOthers, TypePages, TypeRest
<1>2. CASE UNCHANGED vars
  BY <1>2 DEF vars, repo, disk, reader, TypeOK, FilesKnown
<1> QED
  BY <1>1, <1>2

\* Every variable of the generator, the volume and the reader keeps its type.
THEOREM TypeCorrect == Spec => []TypeOK
<1>1. Init => TypeOK /\ FilesKnown
  BY TypeInit
<1>2. TypeOK /\ FilesKnown /\ [Next]_vars => (TypeOK /\ FilesKnown)'
  BY TypeStep
<1> QED
  BY <1>1, <1>2, PTL DEF Spec
-----------------------------------------------------------------------------
(* Ages.                                                                   *)

LEMMA NothingIsAnything ==
    ASSUME NEW f, NEW n
    PROVE  UpTo(Nothing, n) /\ Before(Nothing, n) /\ AtLeast(Nothing, f) /\ AtLeast(f, Nothing)
BY DEF UpTo, Before, AtLeast, Nothing

\* Steps that rename directories, start a run or end one.
LEMMA AgeFrame ==
    ASSUME TypeOK, AgeInv,
           manifest' = manifest, snap' = snap, cache' = cache, now' \in {now, now + 1},
           base' \in {base, Nothing, run.stage},
           run'.stage \in {run.stage, Nothing}, run'.done \in {run.done, Nothing},
           run'.pc = "manifest" => base' = run'.stage
    PROVE  AgeInv'
<1>1. now \in Nat /\ manifest \in Manifest /\ run.done \in Manifest
      /\ snap \in Manifest \union {None} /\ cache \in Cache
      /\ base \in Pages /\ run.stage \in Pages
  BY DEF TypeOK, RunState
<1>2. UpTo(manifest, now)' /\ (snap # None => UpTo(snap, now))'
  BY <1>1 DEF AgeInv, UpTo, Manifest, Entry
<1>3. UpTo(run.done, now)' /\ UpTo(base, now)' /\ UpTo(run.stage, now)'
  <2>1. UpTo(run.done, now') /\ UpTo(base, now') /\ UpTo(run.stage, now')
    BY <1>1 DEF AgeInv, UpTo, Manifest, Entry, Pages, Text
  <2> QED
    BY <2>1, NothingIsAnything DEF UpTo
<1>4. AtLeast(base, manifest)' /\ AtLeast(run.stage, manifest)'
      /\ (snap # None => AtLeast(base, snap) /\ AtLeast(run.stage, snap))'
  BY NothingIsAnything DEF AgeInv, AtLeast
<1>5. AtLeast(run.stage, run.done)'
  BY NothingIsAnything DEF AgeInv, AtLeast
<1>6. \A s \in Slugs : cache'[s] # None => cache'[s].stamp <= now'
  BY <1>1 DEF AgeInv, Cache
<1>7. NeverOlderThanAnnounced'
  BY DEF AgeInv, NeverOlderThanAnnounced
<1> QED
  BY <1>2, <1>3, <1>4, <1>5, <1>6, <1>7 DEF AgeInv

\* A page that a run has dealt with.
LEMMA AgePages ==
    ASSUME TypeOK, FilesKnown, AgeInv,
           NEW s \in Slugs, KeepPage(s) \/ WritePage(s) \/ FailPage(s)
    PROVE  AgeInv'
<1>1. /\ run \in RunState /\ run.stage \in Pages /\ run.done \in Manifest
      /\ base \in Pages /\ manifest \in Manifest /\ now \in Nat
      /\ snap \in Manifest \union {None}
  BY DEF TypeOK, RunState
<1>2. /\ run.pc = "pages" /\ UNCHANGED <<base, manifest, snap, cache, now>>
  BY DEF KeepPage, WritePage, FailPage, disk, reader
<1>3. ASSUME NEW text, NEW entry, NEW failed,
             RunSameBut(run.pc, run.todo \ {s}, failed, [run.stage EXCEPT ![s] = text],
                        [run.done EXCEPT ![s] = entry]),
             entry # None => entry.gen <= now,
             text # None => text.gen <= now,
             entry # None /\ text # None => text.gen >= entry.gen,
             manifest[s] # None /\ text # None => text.gen >= manifest[s].gen,
             snap # None => (snap[s] # None /\ text # None => text.gen >= snap[s].gen)
      PROVE  AgeInv'
  <2>1. run'.stage = [run.stage EXCEPT ![s] = text] /\ run'.done = [run.done EXCEPT ![s] = entry]
        /\ run'.pc = "pages"
    BY <1>2, <1>3 DEF RunSameBut
  <2>2. /\ run'.stage[s] = text /\ run'.done[s] = entry
        /\ \A r \in Slugs \ {s} : run'.stage[r] = run.stage[r] /\ run'.done[r] = run.done[r]
    BY <1>1, <2>1 DEF Pages, Manifest
  <2>3. UpTo(run'.done, now) /\ UpTo(run'.stage, now) /\ AtLeast(run'.stage, run'.done) /\ AtLeast(run'.stage, manifest)
        /\ (snap # None => AtLeast(run'.stage, snap))
    BY <1>3, <2>2 DEF AgeInv, UpTo, AtLeast
  <2> QED
    BY <1>2, <2>1, <2>3 DEF AgeInv, UpTo, AtLeast, NeverOlderThanAnnounced
<1>4. base[s] # None => /\ manifest[s] # None => base[s].gen >= manifest[s].gen
                        /\ snap # None => (snap[s] # None => base[s].gen >= snap[s].gen)
  BY DEF AgeInv, AtLeast
<1>5. /\ manifest[s] # None => manifest[s].gen \in Nat /\ manifest[s].gen <= now
      /\ snap # None => (snap[s] # None => snap[s].gen \in Nat /\ snap[s].gen <= now)
      /\ base[s] # None => base[s].gen \in Nat /\ base[s].gen <= now
  BY <1>1 DEF AgeInv, UpTo, Manifest, Entry, Pages, Text
<1>6. CASE KeepPage(s)
  <2> DEFINE entry == [hash |-> run.files[s],
                       gen |-> IF Adopts(s) THEN base[s].gen ELSE manifest[s].gen]
  <2>1. base[s] # None /\ (~Adopts(s) => manifest[s] # None)
    BY <1>6 DEF KeepPage, Adopts, Current
  <2>2. entry.gen = IF Adopts(s) THEN base[s].gen ELSE manifest[s].gen
    OBVIOUS
  <2>3. Staged(s, base[s], entry)
    BY <1>6 DEF KeepPage
  <2> HIDE DEF entry
  <2>4. entry.gen <= now /\ base[s].gen >= entry.gen
    BY <1>4, <1>5, <2>1, <2>2
  <2>5. RunSameBut(run.pc, run.todo \ {s}, run.failed, [run.stage EXCEPT ![s] = base[s]],
                   [run.done EXCEPT ![s] = entry])
    BY <1>1, <2>3, StagedRun
  <2> QED
    BY <1>3, <1>4, <1>5, <2>4, <2>5
<1>7. CASE WritePage(s)
  <2> DEFINE text == [content |-> run.files[s], gen |-> now]
             entry == [hash |-> run.files[s], gen |-> now]
  <2>1. text.gen = now /\ entry.gen = now
    OBVIOUS
  <2>2. Staged(s, text, entry)
    BY <1>7 DEF WritePage
  <2> HIDE DEF text, entry
  <2>3. RunSameBut(run.pc, run.todo \ {s}, run.failed, [run.stage EXCEPT ![s] = text],
                   [run.done EXCEPT ![s] = entry])
    BY <1>1, <2>2, StagedRun
  <2> QED
    BY <1>1, <1>3, <1>5, <2>1, <2>3
<1>8. CASE FailPage(s)
  <2> DEFINE entry == IF base[s] = None THEN None
                      ELSE IF manifest[s] = None THEN [hash |-> NoHash, gen |-> 0]
                      ELSE manifest[s]
  <2>1. [hash |-> NoHash, gen |-> 0].gen = 0
    OBVIOUS
  <2>2. entry # None => entry.gen <= now /\ base[s].gen >= entry.gen
    BY <1>1, <1>4, <1>5, <2>1
  <2>3. run' = [run EXCEPT !.todo = @ \ {s}, !.failed = TRUE, !.stage[s] = base[s],
                           !.done[s] = entry]
    BY <1>8 DEF FailPage
  <2> HIDE DEF entry
  <2>4. RunSameBut(run.pc, run.todo \ {s}, TRUE, [run.stage EXCEPT ![s] = base[s]],
                   [run.done EXCEPT ![s] = entry])
    BY <1>1, <2>3, FailedRun
  <2> QED
    BY <1>3, <1>4, <1>5, <2>2, <2>4
<1> QED
  BY <1>6, <1>7, <1>8

LEMMA AgeOthers ==
    ASSUME TypeOK, AgeInv, Commit \/ Reader
    PROVE  AgeInv'
<1>1. /\ run' = run /\ base' = base /\ manifest' = manifest /\ now' = now
  BY DEF Commit, Reader, ReadManifest, PageText, Reply, ReaderRestarts, disk
<1>2. CASE cache' = cache /\ (snap' = snap \/ snap' = None)
  BY <1>1, <1>2 DEF AgeInv, NeverOlderThanAnnounced, AtLeast, UpTo
<1>3. CASE ReadManifest
  BY <1>1, <1>3 DEF ReadManifest, AgeInv, NeverOlderThanAnnounced, AtLeast, UpTo
<1>4. CASE ReaderRestarts
  BY <1>1, <1>4 DEF ReaderRestarts, AgeInv, NeverOlderThanAnnounced, AtLeast, UpTo, Nothing
<1>5. ASSUME NEW s \in Slugs, PageText(s)
      PROVE  AgeInv'
  <2> DEFINE copy == [stamp |-> snap[s].gen, text |-> base[s]]
  <2>1. copy.stamp = snap[s].gen /\ copy.text = base[s]
    OBVIOUS
  <2>2. snap # None /\ snap[s] # None /\ base[s] # None /\ snap' = snap
        /\ cache' = [cache EXCEPT ![s] = copy]
    BY <1>5 DEF PageText
  <2> HIDE DEF copy
  <2>3. snap[s].gen <= now /\ base[s].gen >= snap[s].gen
    BY <2>2 DEF AgeInv, UpTo, AtLeast
  <2>4. cache'[s] = copy /\ \A r \in Slugs \ {s} : cache'[r] = cache[r]
    BY <2>2 DEF TypeOK, Cache
  <2>5. \A r \in Slugs : cache'[r] # None =>
            cache'[r].stamp <= now /\ cache'[r].text.gen >= cache'[r].stamp
    BY <2>1, <2>3, <2>4 DEF AgeInv, NeverOlderThanAnnounced
  <2> QED
    BY <1>1, <2>2, <2>5 DEF AgeInv, NeverOlderThanAnnounced, AtLeast, UpTo
<1> QED
  BY <1>2, <1>3, <1>4, <1>5 DEF Commit, Reader, Reply, reader

LEMMA AgeRest ==
    ASSUME TypeOK, AgeInv,
           Start \/ Plan \/ PagesDone \/ SwapOut \/ SwapIn \/ WriteManifest \/ Mark \/ Die
    PROVE  AgeInv'
<1>1. run \in RunState /\ snap' = snap /\ cache' = cache
  BY DEF TypeOK, Start, Plan, PagesDone, SwapOut, SwapIn, WriteManifest, Mark, Die, reader
<1>2. Idle.stage = Nothing /\ Idle.done = Nothing /\ Idle.pc = "idle"
  BY DEF Idle
<1>3. CASE Start
  <2>1. run'.stage = Nothing /\ run'.done = Nothing /\ run'.pc = "fetch"
    BY <1>3 DEF Start, Idle
  <2> QED
    BY <1>1, <1>3, <2>1, AgeFrame DEF Start, disk
<1>4. CASE Plan
  <2>1. run'.stage = run.stage /\ run'.done = run.done /\ run'.pc = "pages"
    BY <1>1, <1>4 DEF Plan, RunState
  <2>2. now' = now + 1 /\ base' = base /\ manifest' = manifest
    BY <1>4, ZenonT(30) DEF Plan, disk
  <2> QED
    BY <1>1, <2>1, <2>2, AgeFrame
<1>5. CASE PagesDone
  <2>1. run'.stage \in {run.stage, Nothing} /\ run'.done \in {run.done, Nothing}
        /\ run'.pc # "manifest"
    BY <1>1, <1>2, <1>5 DEF PagesDone, Goto, RunState
  <2> QED
    BY <1>1, <1>5, <2>1, AgeFrame DEF PagesDone, disk
<1>6. CASE SwapOut
  <2>1. run'.stage = run.stage /\ run'.done = run.done /\ run'.pc = "in"
    BY <1>1, <1>6 DEF SwapOut, Goto, RunState
  <2> QED
    BY <1>1, <1>6, <2>1, AgeFrame DEF SwapOut
<1>7. CASE SwapIn
  <2>1. run'.stage = run.stage /\ run'.done = run.done
    BY <1>1, <1>7 DEF SwapIn, Goto, RunState
  <2> QED
    BY <1>1, <1>7, <2>1, AgeFrame DEF SwapIn
<1>8. CASE WriteManifest
  <2>1. run'.stage \in {run.stage, Nothing} /\ run'.done \in {run.done, Nothing}
        /\ run'.pc # "manifest"
    BY <1>1, <1>2, <1>8 DEF WriteManifest, RunState
  <2>3. /\ manifest' = run.done /\ base' = base /\ base = run.stage /\ now' = now
    BY <1>8 DEF WriteManifest, AgeInv
  <2>4. UpTo(manifest, now)' /\ AtLeast(base, manifest)' /\ UpTo(run.done, now)'
        /\ UpTo(base, now)' /\ UpTo(run.stage, now)'
    BY <2>1, <2>3, NothingIsAnything DEF AgeInv
  <2>5. AtLeast(run.stage, manifest)' /\ AtLeast(run.stage, run.done)'
    BY <2>1, <2>3, NothingIsAnything DEF AgeInv, AtLeast
  <2>6. (snap # None => UpTo(snap, now) /\ AtLeast(base, snap) /\ AtLeast(run.stage, snap))'
    BY <1>1, <2>1, <2>3, NothingIsAnything DEF AgeInv, AtLeast, UpTo
  <2> QED
    BY <1>1, <2>1, <2>3, <2>4, <2>5, <2>6 DEF AgeInv, NeverOlderThanAnnounced
<1>9. CASE Mark
  BY <1>1, <1>2, <1>9, AgeFrame DEF Mark
<1>10. CASE Die
  BY <1>1, <1>2, <1>10, AgeFrame DEF Die
<1> QED
  BY <1>3, <1>4, <1>5, <1>6, <1>7, <1>8, <1>9, <1>10

LEMMA AgeInit == Init => AgeInv
<1>1. Init => UpTo(base, now) /\ AtLeast(base, manifest)
  BY DEF Init, UpTo, AtLeast, Nothing
<1> QED
  BY <1>1, NothingIsAnything DEF Init, AgeInv, Idle, NeverOlderThanAnnounced, Nothing

LEMMA AgeStep == TypeOK /\ FilesKnown /\ AgeInv /\ [Next]_vars => AgeInv'
<1> SUFFICES ASSUME TypeOK, FilesKnown, AgeInv, [Next]_vars PROVE AgeInv'
  OBVIOUS
<1>1. CASE Next
  BY <1>1, Steps, AgeOthers, AgePages, AgeRest
<1>2. CASE UNCHANGED vars
  BY <1>2 DEF vars, repo, disk, reader, AgeInv, NeverOlderThanAnnounced, AtLeast, UpTo
<1> QED
  BY <1>1, <1>2

\* For any pages, commits and faults, wherever runs die: wiki-mcp never gives out a
\* page older than the generated_at it announces.
THEOREM Announced == Spec => []NeverOlderThanAnnounced
<1>1. Init => TypeOK /\ FilesKnown /\ AgeInv
  BY TypeInit, AgeInit
<1>2. (TypeOK /\ FilesKnown /\ AgeInv) /\ [Next]_vars => (TypeOK /\ FilesKnown /\ AgeInv)'
  BY TypeStep, AgeStep
<1>3. TypeOK /\ FilesKnown /\ AgeInv => NeverOlderThanAnnounced
  BY DEF AgeInv
<1> QED
  BY <1>1, <1>2, <1>3, PTL DEF Spec

-----------------------------------------------------------------------------
(* What is marked done.                                                    *)

LEMMA StagedAt ==
    ASSUME run \in RunState, NEW s \in Slugs, NEW text, NEW entry, NEW failed,
           RunSameBut(run.pc, run.todo \ {s}, failed, [run.stage EXCEPT ![s] = text],
                      [run.done EXCEPT ![s] = entry])
    PROVE  /\ run'.pc = run.pc /\ run'.sha = run.sha /\ run'.files = run.files
           /\ run'.failed = failed /\ run'.stage[s] = text /\ run'.done[s] = entry
           /\ \A r \in Slugs \ {s} : run'.stage[r] = run.stage[r] /\ run'.done[r] = run.done[r]
<1>1. run.stage \in Pages /\ run.done \in Manifest
  BY DEF RunState
<1> QED
  BY <1>1 DEF RunSameBut, Pages, Manifest

Kept(s) ==
    /\ Adopts(s) \/ Current(s)
    /\ run'.failed = run.failed /\ base[s] # None
    /\ run'.stage[s] = base[s] /\ run'.done[s] # None
    /\ run'.done[s].hash = run.files[s]
    /\ run'.done[s].gen = IF Adopts(s) THEN base[s].gen ELSE manifest[s].gen

Written(s) ==
    /\ run'.failed = run.failed
    /\ run'.stage[s] # None /\ run'.stage[s].content = run.files[s] /\ run'.stage[s].gen = now
    /\ run'.done[s] # None /\ run'.done[s].hash = run.files[s] /\ run'.done[s].gen = now

Failed(s) ==
    /\ run'.failed = TRUE /\ ~Adopts(s)
    /\ run'.stage[s] = base[s]
    /\ base[s] = None => run'.done[s] = None
    /\ base[s] # None /\ manifest[s] # None => run'.done[s] = manifest[s]

\* A step of a run at page s, as a change of what it has staged.
LEMMA PageEffect ==
    ASSUME TypeOK, FilesKnown, NEW s \in Slugs, KeepPage(s) \/ WritePage(s) \/ FailPage(s)
    PROVE  /\ run.pc = "pages" /\ UNCHANGED <<repo, disk, now, exposed, reader>>
           /\ run'.pc = run.pc /\ run'.sha = run.sha /\ run'.files = run.files
           /\ \A r \in Slugs \ {s} : run'.stage[r] = run.stage[r] /\ run'.done[r] = run.done[r]
           /\ Kept(s) \/ Written(s) \/ Failed(s)
<1>1. run \in RunState /\ run.pc = "pages" /\ run.files \in [Slugs -> Contents]
      /\ base \in Pages /\ manifest \in Manifest /\ now \in Nat
  BY DEF TypeOK, FilesKnown, KeepPage, WritePage, FailPage, Regenerating
<1>2. UNCHANGED <<repo, disk, now, exposed, reader>>
  BY DEF KeepPage, WritePage, FailPage
<1>3. CASE KeepPage(s)
  <2> DEFINE entry == [hash |-> run.files[s],
                       gen |-> IF Adopts(s) THEN base[s].gen ELSE manifest[s].gen]
  <2>1. (Adopts(s) \/ Current(s)) /\ base[s] # None /\ (~Adopts(s) => manifest[s] # None)
    BY <1>3 DEF KeepPage, Adopts, Current
  <2>2. entry \in Entry
    BY <1>1, <2>1 DEF Entry, Text, Pages, Manifest
  <2>3. /\ entry # None /\ entry.hash = run.files[s]
        /\ entry.gen = IF Adopts(s) THEN base[s].gen ELSE manifest[s].gen
    BY <2>2, WikiAssumption
  <2>4. Staged(s, base[s], entry)
    BY <1>3 DEF KeepPage
  <2> HIDE DEF entry
  <2>5. RunSameBut(run.pc, run.todo \ {s}, run.failed, [run.stage EXCEPT ![s] = base[s]],
                   [run.done EXCEPT ![s] = entry])
    BY <1>1, <2>4, StagedRun
  <2>6. /\ run'.pc = run.pc /\ run'.sha = run.sha /\ run'.files = run.files
        /\ run'.failed = run.failed /\ run'.stage[s] = base[s] /\ run'.done[s] = entry
        /\ \A r \in Slugs \ {s} : run'.stage[r] = run.stage[r] /\ run'.done[r] = run.done[r]
    BY <1>1, <2>5, StagedAt
  <2> QED
    BY <1>1, <1>2, <2>1, <2>3, <2>6 DEF Kept
<1>4. CASE WritePage(s)
  <2> DEFINE text == [content |-> run.files[s], gen |-> now]
             entry == [hash |-> run.files[s], gen |-> now]
  <2>1. text \in Text /\ entry \in Entry
    BY <1>1 DEF Text, Entry
  <2>2. /\ text # None /\ text.content = run.files[s] /\ text.gen = now
        /\ entry # None /\ entry.hash = run.files[s] /\ entry.gen = now
    BY <2>1, WikiAssumption
  <2>3. Staged(s, text, entry)
    BY <1>4 DEF WritePage
  <2> HIDE DEF text, entry
  <2>4. RunSameBut(run.pc, run.todo \ {s}, run.failed, [run.stage EXCEPT ![s] = text],
                   [run.done EXCEPT ![s] = entry])
    BY <1>1, <2>3, StagedRun
  <2>5. /\ run'.pc = run.pc /\ run'.sha = run.sha /\ run'.files = run.files
        /\ run'.failed = run.failed /\ run'.stage[s] = text /\ run'.done[s] = entry
        /\ \A r \in Slugs \ {s} : run'.stage[r] = run.stage[r] /\ run'.done[r] = run.done[r]
    BY <1>1, <2>4, StagedAt
  <2> QED
    BY <1>1, <1>2, <2>2, <2>5 DEF Written
<1>5. CASE FailPage(s)
  <2> DEFINE entry == IF base[s] = None THEN None
                      ELSE IF manifest[s] = None THEN [hash |-> NoHash, gen |-> 0]
                      ELSE manifest[s]
  <2>1. run' = [run EXCEPT !.todo = @ \ {s}, !.failed = TRUE, !.stage[s] = base[s],
                           !.done[s] = entry]
    BY <1>5 DEF FailPage
  <2>2. /\ base[s] = None => entry = None
        /\ base[s] # None /\ manifest[s] # None => entry = manifest[s]
    OBVIOUS
  <2>3. ~Adopts(s)
    BY <1>5 DEF FailPage
  <2> HIDE DEF entry
  <2>4. RunSameBut(run.pc, run.todo \ {s}, TRUE, [run.stage EXCEPT ![s] = base[s]],
                   [run.done EXCEPT ![s] = entry])
    BY <1>1, <2>1, FailedRun
  <2>5. /\ run'.pc = run.pc /\ run'.sha = run.sha /\ run'.files = run.files
        /\ run'.failed = TRUE /\ run'.stage[s] = base[s] /\ run'.done[s] = entry
        /\ \A r \in Slugs \ {s} : run'.stage[r] = run.stage[r] /\ run'.done[r] = run.done[r]
    BY <1>1, <2>4, StagedAt
  <2> QED
    BY <1>1, <1>2, <2>2, <2>3, <2>5 DEF Failed
<1> QED
  BY <1>3, <1>4, <1>5

LEMMA CommitInit == Init => CommitInv /\ MatchInv
<1>1. Init => CommitInv
  BY DEF Init, CommitInv, Idle, Nothing, Regenerating
<1>2. Init => MatchInv
  BY DEF Init, MatchInv, Idle, Nothing, Vouched, Listed
<1> QED
  BY <1>1, <1>2

LEMMA CommitPages ==
    ASSUME TypeOK, FilesKnown, CommitInv, NEW s \in Slugs, KeepPage(s) \/ WritePage(s) \/ FailPage(s)
    PROVE  CommitInv'
<1>1. /\ run.pc = "pages" /\ run'.pc = "pages" /\ run'.sha = run.sha /\ run'.files = run.files
      /\ UNCHANGED <<head, src, state, manifest>>
      /\ \A r \in Slugs \ {s} : run'.done[r] = run.done[r]
      /\ \/ run'.failed = run.failed /\ run'.done[s].hash = run.files[s]
         \/ run'.failed = TRUE
  BY PageEffect DEF repo, disk, Kept, Written, Failed
<1> QED
  BY <1>1 DEF CommitInv, Regenerating

LEMMA CommitOthers ==
    ASSUME TypeOK, FilesKnown, CommitInv, Commit \/ Reader
    PROVE  CommitInv'
<1>1. CASE Commit
  BY <1>1 DEF Commit, TypeOK, RunState, CommitInv, disk
<1>2. CASE Reader
  <2>1. UNCHANGED <<head, src, state, manifest, run>>
    BY <1>2 DEF Reader, ReadManifest, PageText, Reply, ReaderRestarts, repo, disk
  <2> QED
    BY <2>1 DEF CommitInv
<1> QED
  BY <1>1, <1>2

LEMMA CommitRest ==
    ASSUME TypeOK, FilesKnown, CommitInv,
           Start \/ Plan \/ PagesDone \/ SwapOut \/ SwapIn \/ WriteManifest \/ Mark \/ Die
    PROVE  CommitInv'
<1>1. run \in RunState /\ head \in Nat /\ state \in Nat /\ run.sha \in Nat
  BY DEF TypeOK, RunState
<1>2. Idle.pc = "idle" /\ Idle.sha = 0 /\ Idle.done = Nothing
  BY DEF Idle
<1>3. ASSUME run.pc # "idle", run' = Idle, UNCHANGED <<head, src, state>>
      PROVE  CommitInv'
  BY <1>1, <1>2, <1>3 DEF CommitInv, Regenerating
<1>4. ASSUME NEW p, Goto(p), {run.pc, p} \subseteq Regenerating,
             UNCHANGED <<head, src, state, manifest>>
      PROVE  CommitInv'
  <2>1. /\ run'.pc = p /\ run'.sha = run.sha /\ run'.files = run.files
        /\ run'.failed = run.failed /\ run'.done = run.done
    BY <1>1, <1>4 DEF Goto, RunState
  <2> QED
    BY <1>4, <2>1 DEF CommitInv, Regenerating
<1>5. CASE Start
  <2>1. run'.pc = "fetch" /\ run'.sha = head /\ run'.done = Nothing
    BY <1>5 DEF Start, Idle
  <2>2. UNCHANGED <<head, src, state, manifest>> /\ state # head
    BY <1>5 DEF Start, repo, disk
  <2> QED
    BY <1>1, <2>1, <2>2 DEF CommitInv, Regenerating
<1>6. CASE Plan
  <2>1. /\ run'.pc = "pages" /\ run'.files = src /\ run'.sha = run.sha
        /\ run'.done = run.done /\ run.pc = "fetch"
    BY <1>1, <1>6 DEF Plan, RunState
  <2>2. UNCHANGED <<head, src, state, manifest>>
    BY <1>6, ZenonT(30) DEF Plan, repo, disk
  <2> QED
    BY <2>1, <2>2 DEF CommitInv, Regenerating, Nothing
<1>7. CASE PagesDone
  BY <1>3, <1>4, <1>7 DEF PagesDone, repo, disk, Regenerating
<1>8. CASE SwapOut
  BY <1>4, <1>8 DEF SwapOut, repo, Regenerating
<1>9. CASE SwapIn
  BY <1>4, <1>9 DEF SwapIn, repo, Regenerating
<1>10. CASE WriteManifest
  <2>1. CASE run.failed
    BY <1>3, <1>10, <2>1 DEF WriteManifest, repo
  <2>2. CASE ~run.failed
    <3>1. /\ run'.pc = "mark" /\ run'.sha = run.sha /\ run'.files = run.files
          /\ run'.failed = run.failed /\ run'.done = run.done
      BY <1>1, <1>10, <2>2 DEF WriteManifest, RunState
    <3>2. UNCHANGED <<head, src, state>> /\ manifest' = run.done /\ run.pc = "manifest"
      BY <1>10 DEF WriteManifest, repo
    <3> QED
      BY <1>1, <2>2, <3>1, <3>2 DEF CommitInv, Regenerating
  <2> QED
    BY <2>1, <2>2
<1>11. CASE Mark
  <2>1. UNCHANGED <<head, src, manifest>> /\ state' = run.sha /\ run' = Idle /\ run.pc = "mark"
    BY <1>11 DEF Mark, repo
  <2> QED
    BY <1>1, <1>2, <2>1 DEF CommitInv, Regenerating
<1>12. CASE Die
  BY <1>3, <1>12 DEF Die, repo
<1> QED
  BY <1>5, <1>6, <1>7, <1>8, <1>9, <1>10, <1>11, <1>12

LEMMA CommitStep == TypeOK /\ FilesKnown /\ CommitInv /\ [Next]_vars => CommitInv'
<1> SUFFICES ASSUME TypeOK, FilesKnown, CommitInv, [Next]_vars PROVE CommitInv'
  OBVIOUS
<1>1. CASE Next
  BY <1>1, Steps, CommitOthers, CommitPages, CommitRest
<1>2. CASE UNCHANGED vars
  BY <1>2 DEF vars, repo, disk, CommitInv
<1> QED
  BY <1>1, <1>2

LEMMA MatchPages ==
    ASSUME TypeOK, FilesKnown, MatchInv, NEW s \in Slugs, KeepPage(s) \/ WritePage(s) \/ FailPage(s)
    PROVE  MatchInv'
<1>1. /\ run.pc = "pages" /\ run'.pc = "pages" /\ UNCHANGED <<base, manifest>>
      /\ \A r \in Slugs \ {s} : run'.stage[r] = run.stage[r] /\ run'.done[r] = run.done[r]
      /\ Kept(s) \/ Written(s) \/ Failed(s)
  BY PageEffect DEF disk
<1>2. /\ Vouched(base, manifest) /\ Vouched(run.stage, run.done)
      /\ \A r \in Slugs : run.stage[r] # None => run.done[r] # None
      /\ base[s] # None /\ manifest[s] = None => base[s].gen = 0 /\ Listed(manifest) = {}
  BY <1>1 DEF MatchInv, Swapping
<1>3. /\ Adopts(s) => base[s].gen = 0
      /\ ~Adopts(s) /\ base[s] # None => manifest[s] # None
  BY <1>2 DEF Adopts, Listed
<1>4. /\ run'.stage[s] # None => run'.done[s] # None
      /\ run'.done[s] # None =>
            /\ run'.stage[s] # None /\ run'.stage[s].gen = run'.done[s].gen
            /\ run'.stage[s].gen = 0 \/ run'.stage[s].content = run'.done[s].hash
  <2>1. CASE Kept(s)
    BY <1>2, <1>3, <2>1 DEF Kept, Current, Vouched
  <2>2. CASE Written(s)
    BY <2>2 DEF Written
  <2>3. CASE Failed(s)
    BY <1>2, <1>3, <2>3 DEF Failed, Vouched
  <2> QED
    BY <1>1, <2>1, <2>2, <2>3
<1>5. Vouched(run'.stage, run'.done) /\ \A r \in Slugs : run'.stage[r] # None => run'.done[r] # None
  BY <1>1, <1>2, <1>4 DEF Vouched
<1> QED
  BY <1>1, <1>5 DEF MatchInv, Vouched, Listed, Swapping

LEMMA MatchStep ==
    ASSUME TypeOK, FilesKnown, AgeInv, MatchInv, ~exposed', [Next]_vars
    PROVE  MatchInv'
<1>1. run \in RunState
  BY DEF TypeOK
<1>2. Idle.stage = Nothing /\ Idle.done = Nothing /\ Idle.pc = "idle"
  BY DEF Idle
<1>3. Vouched(Nothing, Nothing)
  BY DEF Vouched, Nothing
<1>4. ASSUME UNCHANGED <<base, manifest>>, run.pc \notin Swapping,
             \/ run'.stage = run.stage /\ run'.done = run.done
             \/ run'.stage = Nothing /\ run'.done = Nothing
      PROVE  MatchInv'
  BY <1>3, <1>4 DEF MatchInv, Vouched
<1>5. CASE Commit \/ Reader
  <2>1. UNCHANGED <<base, manifest, run>>
    BY <1>5 DEF Commit, Reader, ReadManifest, PageText, Reply, ReaderRestarts, disk
  <2> QED
    BY <2>1 DEF MatchInv, Vouched
<1>6. ASSUME NEW s \in Slugs, KeepPage(s) \/ WritePage(s) \/ FailPage(s)
      PROVE  MatchInv'
  BY <1>6, MatchPages
<1>7. CASE Start
  <2>1. run'.stage = Nothing /\ run'.done = Nothing
    BY <1>7 DEF Start, Idle
  <2> QED
    BY <1>4, <1>7, <2>1 DEF Start, disk, Swapping
<1>8. CASE Plan
  <2>1. run'.stage = run.stage /\ run'.done = run.done /\ run.pc = "fetch"
    BY <1>1, <1>8 DEF Plan, RunState
  <2>2. UNCHANGED <<base, manifest>>
    BY <1>8, ZenonT(30) DEF Plan, disk
  <2> QED
    BY <1>4, <2>1, <2>2 DEF Swapping
<1>9. CASE PagesDone
  <2>1. \/ run'.stage = run.stage /\ run'.done = run.done
        \/ run'.stage = Nothing /\ run'.done = Nothing
    BY <1>1, <1>2, <1>9 DEF PagesDone, Goto, RunState
  <2> QED
    BY <1>4, <1>9, <2>1 DEF PagesDone, disk, Swapping
<1>10. CASE SwapOut \/ SwapIn
  <2>1. run'.stage = run.stage /\ run'.done = run.done /\ run'.pc \in Swapping
    BY <1>1, <1>10 DEF SwapOut, SwapIn, Goto, RunState, Swapping
  <2> QED
    BY <2>1 DEF MatchInv, Vouched
<1>11. CASE WriteManifest
  <2>1. \/ run'.stage = run.stage /\ run'.done = run.done
        \/ run'.stage = Nothing /\ run'.done = Nothing
    BY <1>1, <1>2, <1>11 DEF WriteManifest, RunState
  <2>2. manifest' = run.done /\ base' = run.stage
    BY <1>11 DEF WriteManifest, AgeInv
  <2> QED
    BY <1>3, <2>1, <2>2 DEF MatchInv, Vouched
<1>12. CASE Mark
  BY <1>2, <1>4, <1>12 DEF Mark, Swapping
<1>13. CASE Die
  <2>1. run.pc \notin Swapping
    BY <1>13 DEF Die, Swapping
  <2> QED
    BY <1>2, <1>4, <1>13, <2>1 DEF Die
<1>14. CASE UNCHANGED vars
  BY <1>14 DEF vars, disk, MatchInv, Vouched
<1> QED
  BY <1>5, <1>6, <1>7, <1>8, <1>9, <1>10, <1>11, <1>12, <1>13, <1>14, Steps

\* A run that died between the swap and the manifest is remembered.
LEMMA ExposedStays == TypeOK /\ [Next]_vars /\ ~exposed' => ~exposed
<1> SUFFICES ASSUME TypeOK, [Next]_vars, exposed PROVE exposed'
  BY DEF TypeOK
<1>1. CASE Die
  BY <1>1 DEF Die
<1>2. CASE Plan
  BY <1>2, ZenonT(30) DEF Plan
<1>3. CASE \E s \in Slugs : KeepPage(s) \/ WritePage(s) \/ FailPage(s)
  BY <1>3 DEF KeepPage, WritePage, FailPage
<1>4. CASE Commit \/ Reader \/ UNCHANGED vars
  BY <1>4 DEF Commit, Reader, ReadManifest, PageText, Reply, ReaderRestarts, vars
<1>5. CASE Start \/ PagesDone \/ SwapOut \/ SwapIn \/ WriteManifest \/ Mark
  BY <1>5 DEF Start, PagesDone, SwapOut, SwapIn, WriteManifest, Mark
<1> QED
  BY <1>1, <1>2, <1>3, <1>4, <1>5, Steps

\* For any pages, commits and faults, and whether or not the volume has pages from before the
\* manifest: when HEAD is marked done, every page of the manifest is on disk, and was made
\* from HEAD's files unless it was adopted; or a run once died between the swap and the
\* manifest (configmap.yaml:278-299, 334-337).
THEOREM DoneCurrent == Spec => []DoneIsCurrent
<1> DEFINE Inv == TypeOK /\ FilesKnown /\ AgeInv /\ CommitInv /\ (~exposed => MatchInv)
<1>1. Init => Inv
  BY TypeInit, AgeInit, CommitInit
<1>2. Inv /\ [Next]_vars => Inv'
  BY TypeStep, AgeStep, CommitStep, MatchStep, ExposedStays
<1>3. Inv => DoneIsCurrent
  BY DEF CommitInv, MatchInv, Swapping, Vouched, DoneIsCurrent, Listed
<1> QED
  BY <1>1, <1>2, <1>3, PTL DEF Spec

-----------------------------------------------------------------------------
(* What is cached.                                                         *)

LEMMA CacheInit == Init => StampInv /\ CacheInv
BY DEF Init, StampInv, CacheInv, Idle, Nothing, Regenerating

\* A step of the reader, as a change of its cache.
LEMMA ReaderEffect ==
    ASSUME TypeOK, Reader
    PROVE  /\ UNCHANGED <<base, manifest, run, now, exposed>>
           /\ snap' \in {snap, None, manifest}
           /\ \A s \in Slugs : cache'[s] # None =>
                 \/ cache'[s] = cache[s]
                 \/ /\ snap # None /\ snap[s] # None /\ base[s] # None
                    /\ cache'[s].stamp = snap[s].gen /\ cache'[s].text = base[s]
<1>1. UNCHANGED <<base, manifest, run, now, exposed>>
  BY DEF Reader, ReadManifest, PageText, Reply, ReaderRestarts, disk
<1>2. CASE ReadManifest \/ Reply
  BY <1>1, <1>2 DEF ReadManifest, Reply
<1>3. CASE ReaderRestarts
  BY <1>1, <1>3 DEF ReaderRestarts, Nothing
<1>4. ASSUME NEW s \in Slugs, PageText(s)
      PROVE  /\ snap' = snap
             /\ \A r \in Slugs : cache'[r] # None =>
                   \/ cache'[r] = cache[r]
                   \/ /\ snap # None /\ snap[r] # None /\ base[r] # None
                      /\ cache'[r].stamp = snap[r].gen /\ cache'[r].text = base[r]
  <2> DEFINE copy == [stamp |-> snap[s].gen, text |-> base[s]]
  <2>1. copy.stamp = snap[s].gen /\ copy.text = base[s]
    OBVIOUS
  <2>2. snap # None /\ snap[s] # None /\ base[s] # None /\ snap' = snap
        /\ cache' = [cache EXCEPT ![s] = copy]
    BY <1>4 DEF PageText
  <2> HIDE DEF copy
  <2>3. cache'[s] = copy /\ \A r \in Slugs \ {s} : cache'[r] = cache[r]
    BY <2>2 DEF TypeOK, Cache
  <2> QED
    BY <2>1, <2>2, <2>3
<1> QED
  BY <1>1, <1>2, <1>3, <1>4 DEF Reader

\* A step that leaves the pages a run has staged, the cache and the clock alone.
LEMMA StampFrame ==
    ASSUME StampInv, UNCHANGED <<manifest, snap, cache, now>>,
           run'.pc \in Regenerating => run.pc \in Regenerating,
           run'.pc \in {"pages", "out"} =>
               run.pc \in {"pages", "out"} /\ base' = base
               /\ run'.done = run.done /\ run'.stage = run.stage,
           run'.pc = "in" => base' = Nothing
    PROVE  StampInv'
BY DEF StampInv, Before

LEMMA StampPages ==
    ASSUME TypeOK, FilesKnown, StampInv, NEW s \in Slugs, KeepPage(s) \/ WritePage(s) \/ FailPage(s)
    PROVE  StampInv'
<1>1. /\ run.pc = "pages" /\ run'.pc = "pages" /\ UNCHANGED <<base, manifest, snap, cache, now>>
      /\ \A r \in Slugs \ {s} : run'.stage[r] = run.stage[r] /\ run'.done[r] = run.done[r]
      /\ run'.done[s] # None => run'.done[s].gen = now \/ run'.stage[s] = base[s]
  BY PageEffect DEF disk, reader, Kept, Written, Failed
<1> QED
  BY <1>1 DEF StampInv, Before, Regenerating

LEMMA StampStep ==
    ASSUME TypeOK, FilesKnown, AgeInv, CommitInv, StampInv, [Next]_vars
    PROVE  StampInv'
<1>1. run \in RunState /\ now \in Nat /\ manifest \in Manifest /\ cache \in Cache
      /\ snap \in Manifest \union {None}
  BY DEF TypeOK
<1>2. Idle.pc = "idle"
  BY DEF Idle
<1>3. CASE Reader
  BY <1>3, ReaderEffect DEF StampInv, Before
<1>4. ASSUME NEW s \in Slugs, KeepPage(s) \/ WritePage(s) \/ FailPage(s)
      PROVE  StampInv'
  BY <1>4, StampPages
<1>5. CASE Plan
  <2>1. /\ run'.pc = "pages" /\ run'.done = run.done /\ run.pc = "fetch"
    BY <1>1, <1>5 DEF Plan, RunState
  <2>2. now' = now + 1 /\ UNCHANGED <<base, manifest, snap, cache>>
    BY <1>5, ZenonT(30) DEF Plan, disk, reader
  <2>3. Before(manifest, now)' /\ (snap # None => Before(snap, now))'
    BY <1>1, <2>2 DEF AgeInv, UpTo, Before, Manifest, Entry
  <2>4. \A s \in Slugs : cache'[s] # None => cache'[s].stamp < now'
    BY <1>1, <2>2 DEF AgeInv, Cache
  <2>5. run'.done = Nothing
    BY <2>1 DEF CommitInv
  <2> QED
    BY <2>1, <2>3, <2>4, <2>5 DEF StampInv, Nothing
<1>6. CASE Start
  <2>1. run'.pc = "fetch"
    BY <1>6 DEF Start, Idle
  <2> QED
    BY <2>1 DEF StampInv, Regenerating
<1>7. CASE WriteManifest \/ Mark \/ Die
  <2>1. run'.pc \notin Regenerating
    BY <1>1, <1>2, <1>7 DEF WriteManifest, Mark, Die, RunState, Regenerating
  <2> QED
    BY <2>1 DEF StampInv, Regenerating
<1>8. CASE PagesDone
  <2>1. \/ run'.pc = "out" /\ run'.done = run.done /\ run'.stage = run.stage
        \/ run'.pc = "idle"
    BY <1>1, <1>2, <1>8 DEF PagesDone, Goto, RunState
  <2>2. run.pc = "pages" /\ UNCHANGED <<base, manifest, snap, cache, now>>
    BY <1>8 DEF PagesDone, disk, reader
  <2> QED
    BY <2>1, <2>2, StampFrame DEF Regenerating
<1>9. CASE SwapOut \/ SwapIn
  <2>1. /\ run'.pc \in Swapping /\ run.pc \in Regenerating
        /\ UNCHANGED <<manifest, snap, cache, now>>
        /\ run'.pc = "in" => base' = Nothing
    BY <1>1, <1>9 DEF SwapOut, SwapIn, Goto, RunState, Swapping, Regenerating, reader
  <2> QED
    BY <2>1, StampFrame DEF Swapping
<1>10. CASE Commit \/ UNCHANGED vars
  <2>1. UNCHANGED <<base, manifest, snap, cache, now, run>>
    BY <1>10 DEF Commit, vars, disk, reader
  <2> QED
    BY <2>1 DEF StampInv, Before
<1> QED
  BY <1>3, <1>4, <1>5, <1>6, <1>7, <1>8, <1>9, <1>10, Steps

LEMMA CachePages ==
    ASSUME TypeOK, FilesKnown, MatchInv, StampInv, CacheInv, BareInv,
           NEW s \in Slugs, KeepPage(s) \/ WritePage(s) \/ FailPage(s)
    PROVE  CacheInv'
<1>1. /\ run.pc = "pages" /\ run'.pc = "pages" /\ UNCHANGED <<base, manifest, snap, cache, now>>
      /\ \A r \in Slugs \ {s} : run'.stage[r] = run.stage[r] /\ run'.done[r] = run.done[r]
      /\ Kept(s) \/ Written(s) \/ Failed(s)
  BY PageEffect DEF disk, reader
<1>2. /\ Vouched(base, manifest) /\ now \in Nat
      /\ base[s] # None /\ manifest[s] = None => Listed(manifest) = {}
  BY <1>1 DEF MatchInv, Swapping, TypeOK
<1>3. /\ Adopts(s) => cache[s] = None
      /\ ~Adopts(s) /\ base[s] # None => manifest[s] # None
  BY <1>2 DEF Adopts, BareInv, Listed
<1>4. cache[s] # None /\ manifest[s] # None /\ cache[s].stamp = manifest[s].gen =>
          cache[s].text = base[s]
  BY <1>1 DEF CacheInv, Swapping
<1>5. cache[s] # None /\ run'.done[s] # None /\ cache[s].stamp = run'.done[s].gen =>
          cache[s].text = run'.stage[s]
  <2>1. CASE Kept(s)
    BY <1>3, <1>4, <2>1 DEF Kept, Current
  <2>2. CASE Written(s)
    BY <1>1, <1>2, <2>2 DEF Written, StampInv, Regenerating, TypeOK, Cache
  <2>3. CASE Failed(s)
    BY <1>2, <1>3, <1>4, <2>3 DEF Failed, Vouched
  <2> QED
    BY <1>1, <2>1, <2>2, <2>3
<1> QED
  BY <1>1, <1>5 DEF CacheInv, Swapping, Regenerating

\* What wiki-mcp has, it has from a manifest.
LEMMA BareStep ==
    ASSUME TypeOK, BareInv, FilesKnown, [Next]_vars
    PROVE  BareInv'
<1>1. run \in RunState /\ Idle.pc = "idle"
  BY DEF TypeOK, Idle
<1>2. ASSUME UNCHANGED <<manifest, snap, cache>>,
             run'.pc \in {"out", "in", "manifest"} => Listed(run'.done) # {}
      PROVE  BareInv'
  BY <1>2 DEF BareInv, Listed
<1>3. CASE Reader
  <2>1. /\ UNCHANGED <<manifest, run>> /\ snap' \in {snap, None, manifest}
        /\ \A s \in Slugs : cache'[s] # None =>
              cache'[s] = cache[s] \/ (snap # None /\ snap[s] # None)
    BY <1>3, ReaderEffect
  <2>2. Listed(manifest) = {} => Listed(cache') = {}
    BY <2>1 DEF BareInv, Listed
  <2> QED
    BY <2>1, <2>2 DEF BareInv, Listed
<1>4. CASE Commit \/ UNCHANGED vars
  <2>1. UNCHANGED <<manifest, snap, cache, run>>
    BY <1>4 DEF Commit, vars, disk, reader
  <2> QED
    BY <1>2, <2>1 DEF BareInv
<1>5. ASSUME NEW s \in Slugs, KeepPage(s) \/ WritePage(s) \/ FailPage(s)
      PROVE  BareInv'
  <2>1. run'.pc = "pages" /\ UNCHANGED <<manifest, snap, cache>>
    BY <1>5, PageEffect DEF disk, reader
  <2> QED
    BY <1>2, <2>1
<1>6. CASE Plan
  <2>1. run'.pc = "pages"
    BY <1>1, <1>6 DEF Plan, RunState
  <2>2. UNCHANGED <<manifest, snap, cache>>
    BY <1>6, ZenonT(30) DEF Plan, disk, reader
  <2> QED
    BY <1>2, <2>1, <2>2
<1>7. CASE Start \/ Mark \/ Die
  <2>1. run'.pc \in {"fetch", "idle"} /\ UNCHANGED <<manifest, snap, cache>>
    BY <1>1, <1>7 DEF Start, Mark, Die, Idle, disk, reader
  <2> QED
    BY <1>2, <2>1
<1>8. CASE PagesDone
  <2>1. run'.pc # "idle" => run'.done = run.done /\ Listed(run.done) # {}
    BY <1>1, <1>8 DEF PagesDone, Goto, RunState
  <2> QED
    BY <1>2, <1>8, <2>1 DEF PagesDone, disk, reader
<1>9. CASE SwapOut \/ SwapIn
  <2>1. run'.done = run.done /\ run.pc \in {"out", "in", "manifest"}
    BY <1>1, <1>9 DEF SwapOut, SwapIn, Goto, RunState
  <2> QED
    BY <1>2, <1>9, <2>1 DEF SwapOut, SwapIn, reader, BareInv
<1>10. CASE WriteManifest
  <2>1. manifest' = run.done /\ Listed(run.done) # {}
    BY <1>10 DEF WriteManifest, BareInv
  <2>2. run'.pc \in {"idle", "mark"}
    BY <1>1, <1>10 DEF WriteManifest, RunState
  <2> QED
    BY <2>1, <2>2 DEF BareInv, Listed
<1> QED
  BY <1>3, <1>4, <1>5, <1>6, <1>7, <1>8, <1>9, <1>10, Steps

LEMMA CacheReader ==
    ASSUME TypeOK, AgeInv, StampInv, CacheInv, Reader
    PROVE  CacheInv'
<1>1. /\ UNCHANGED <<base, manifest, run, now>>
      /\ \A s \in Slugs : cache'[s] # None =>
            \/ cache'[s] = cache[s]
            \/ /\ snap # None /\ snap[s] # None /\ base[s] # None
               /\ cache'[s].stamp = snap[s].gen /\ cache'[s].text = base[s]
  BY ReaderEffect
<1>2. run.pc \in Regenerating => \A s \in Slugs :
          cache'[s] # None /\ run.done[s] # None /\ cache'[s].stamp = run.done[s].gen =>
              cache'[s].text = run.stage[s]
  <2> SUFFICES ASSUME run.pc \in Regenerating, NEW s \in Slugs,
                      cache'[s] # None, run.done[s] # None,
                      cache'[s].stamp = run.done[s].gen
               PROVE  cache'[s].text = run.stage[s]
    OBVIOUS
  <2>1. CASE cache'[s] = cache[s]
    BY <2>1 DEF CacheInv
  <2>2. CASE /\ snap # None /\ snap[s] # None /\ base[s] # None
             /\ cache'[s].stamp = snap[s].gen /\ cache'[s].text = base[s]
    <3>1. snap[s].gen < now /\ snap[s].gen \in Nat /\ now \in Nat
      BY <2>2 DEF StampInv, Before, TypeOK, Manifest, Entry
    <3>2. CASE run.pc \in {"pages", "out"}
      <4>1. run.done[s].gen # now
        BY <2>2, <3>1
      <4> QED
        BY <2>2, <3>2, <4>1 DEF StampInv
    <3>3. CASE run.pc = "in"
      BY <2>2, <3>3 DEF StampInv, Nothing
    <3>4. CASE run.pc = "manifest"
      BY <2>2, <3>4 DEF AgeInv
    <3> QED
      BY <3>2, <3>3, <3>4 DEF Regenerating
  <2> QED
    BY <1>1, <2>1, <2>2
<1> QED
  BY <1>1, <1>2 DEF CacheInv

\* Steps that write neither a page nor the manifest.
LEMMA CacheFrame ==
    ASSUME CacheInv, UNCHANGED <<base, manifest, cache>>, run.pc \notin Swapping,
           run'.pc \in Regenerating => \/ run'.done = Nothing
                                       \/ /\ run'.done = run.done /\ run'.stage = run.stage
                                          /\ run.pc \in Regenerating
    PROVE  CacheInv'
BY DEF CacheInv, Nothing

LEMMA CacheStep ==
    ASSUME TypeOK, FilesKnown, AgeInv, CommitInv, StampInv, MatchInv, CacheInv, BareInv,
           ~exposed', [Next]_vars
    PROVE  CacheInv'
<1>1. run \in RunState
  BY DEF TypeOK
<1>2. Idle.pc = "idle"
  BY DEF Idle
<1>3. CASE Reader
  BY <1>3, CacheReader
<1>4. ASSUME NEW s \in Slugs, KeepPage(s) \/ WritePage(s) \/ FailPage(s)
      PROVE  CacheInv'
  BY <1>4, CachePages
<1>5. CASE Plan
  <2>1. run.pc = "fetch" /\ run'.done = run.done
    BY <1>1, <1>5 DEF Plan, RunState
  <2>2. UNCHANGED <<base, manifest, cache>>
    BY <1>5, ZenonT(30) DEF Plan, disk, reader
  <2> QED
    BY <2>1, <2>2, CacheFrame DEF CommitInv, Swapping
<1>6. CASE Start
  <2>1. run.pc = "idle" /\ run'.pc = "fetch" /\ UNCHANGED <<base, manifest, cache>>
    BY <1>6 DEF Start, Idle, disk, reader
  <2> QED
    BY <2>1, CacheFrame DEF Swapping, Regenerating
<1>7. CASE PagesDone
  <2>1. \/ run'.pc = "out" /\ run'.done = run.done /\ run'.stage = run.stage
        \/ run'.pc = "idle"
    BY <1>1, <1>2, <1>7 DEF PagesDone, Goto, RunState
  <2>2. run.pc = "pages" /\ UNCHANGED <<base, manifest, cache>>
    BY <1>7 DEF PagesDone, disk, reader
  <2> QED
    BY <2>1, <2>2, CacheFrame DEF Regenerating, Swapping
<1>8. CASE SwapOut \/ SwapIn
  <2>1. /\ run'.pc \in Swapping /\ run.pc \in Regenerating
        /\ run'.done = run.done /\ run'.stage = run.stage /\ cache' = cache
    BY <1>1, <1>8 DEF SwapOut, SwapIn, Goto, RunState, Swapping, Regenerating, reader
  <2> QED
    BY <2>1 DEF CacheInv
<1>9. CASE WriteManifest
  <2>1. /\ manifest' = run.done /\ base' = run.stage /\ cache' = cache
        /\ run.pc \in Regenerating
    BY <1>9 DEF WriteManifest, AgeInv, reader, Regenerating
  <2>2. run'.pc \notin Regenerating
    BY <1>1, <1>2, <1>9 DEF WriteManifest, RunState, Regenerating
  <2> QED
    BY <2>1, <2>2 DEF CacheInv
<1>10. CASE Mark
  <2>1. run.pc = "mark" /\ UNCHANGED <<base, manifest, cache>> /\ run'.pc = "idle"
    BY <1>2, <1>10 DEF Mark, reader
  <2> QED
    BY <2>1, CacheFrame DEF Swapping, Regenerating
<1>11. CASE Die
  <2>1. run.pc \notin Swapping /\ UNCHANGED <<base, manifest, cache>> /\ run'.pc = "idle"
    BY <1>2, <1>11 DEF Die, Swapping, reader
  <2> QED
    BY <2>1, CacheFrame DEF Regenerating
<1>12. CASE Commit \/ UNCHANGED vars
  <2>1. UNCHANGED <<base, manifest, cache, run>>
    BY <1>12 DEF Commit, vars, disk, reader
  <2> QED
    BY <2>1 DEF CacheInv
<1> QED
  BY <1>3, <1>4, <1>5, <1>6, <1>7, <1>8, <1>9, <1>10, <1>11, <1>12, Steps

\* For any pages, commits and faults: between runs, what wiki-mcp would serve from its
\* cache is what is on disk, unless a run once died between the swap and the manifest.
THEOREM Coherent == Spec => []CacheIsCoherent
<1>1. Init => IInv
  <2>1. Init => BareInv
    BY DEF Init, BareInv, Idle, Nothing, Listed
  <2> QED
    BY <2>1, TypeInit, AgeInit, CommitInit, CacheInit DEF IInv
<1>2. IInv /\ [Next]_vars => IInv'
  BY TypeStep, AgeStep, CommitStep, StampStep, BareStep, MatchStep, CacheStep, ExposedStays DEF IInv
<1>3. IInv => CacheIsCoherent
  BY DEF IInv, CacheInv, Swapping, CacheIsCoherent
<1> QED
  BY <1>1, <1>2, <1>3, PTL DEF Spec
-----------------------------------------------------------------------------
(* What a failed page leaves behind.                                       *)

\* A page that was dealt with is staged whenever the volume has it.
KeptInv ==
    /\ run.pc = "pages" =>
          \A s \in run.pages \ run.todo : base[s] # None => run.stage[s] # None
    /\ FailureKeepsOldPage

LEMMA TodoEffect ==
    ASSUME TypeOK, NEW s \in Slugs, KeepPage(s) \/ WritePage(s) \/ FailPage(s)
    PROVE  run'.pages = run.pages /\ run'.todo = run.todo \ {s}
BY DEF TypeOK, RunState, KeepPage, WritePage, FailPage, Staged

LEMMA KeptPages ==
    ASSUME TypeOK, FilesKnown, KeptInv,
           NEW s \in Slugs, KeepPage(s) \/ WritePage(s) \/ FailPage(s)
    PROVE  KeptInv'
<1>1. /\ run.pc = "pages" /\ run'.pc = "pages" /\ base' = base
      /\ \A r \in Slugs \ {s} : run'.stage[r] = run.stage[r]
      /\ base[s] # None => run'.stage[s] # None
  BY PageEffect DEF disk, Kept, Written, Failed
<1>2. run.pages \subseteq Slugs /\ run'.pages = run.pages /\ run'.todo = run.todo \ {s}
  BY TodoEffect DEF TypeOK, RunState
<1>3. ASSUME NEW r \in run.pages \ (run.todo \ {s}), base[r] # None
      PROVE  run'.stage[r] # None
  <2>1. CASE r = s
    BY <1>1, <1>3, <2>1
  <2>2. CASE r # s
    BY <1>1, <1>2, <1>3, <2>2 DEF KeptInv
  <2> QED
    BY <2>1, <2>2
<1> QED
  BY <1>1, <1>2, <1>3 DEF KeptInv, FailureKeepsOldPage

LEMMA KeptStep == TypeOK /\ FilesKnown /\ KeptInv /\ [Next]_vars => KeptInv'
<1> SUFFICES ASSUME TypeOK, FilesKnown, KeptInv, [Next]_vars PROVE KeptInv'
  OBVIOUS
<1>1. run \in RunState
  BY DEF TypeOK
<1>2. Idle.pc = "idle"
  BY DEF Idle
<1>3. ASSUME run'.pc \notin {"pages", "out"}
      PROVE  KeptInv'
  BY <1>3 DEF KeptInv, FailureKeepsOldPage
<1>4. ASSUME NEW s \in Slugs, KeepPage(s) \/ WritePage(s) \/ FailPage(s)
      PROVE  KeptInv'
  BY <1>4, KeptPages
<1>5. CASE Plan
  <2>1. run'.pc = "pages" /\ run'.todo = run'.pages
    BY <1>1, <1>5 DEF Plan, RunState
  <2> QED
    BY <2>1 DEF KeptInv, FailureKeepsOldPage
<1>6. CASE PagesDone
  <2>1. \/ run'.pc = "idle"
        \/ run'.pc = "out" /\ run'.pages = run.pages /\ run'.stage = run.stage
    BY <1>1, <1>2, <1>6 DEF PagesDone, Goto, RunState
  <2>2. run.pc = "pages" /\ run.todo = {} /\ base' = base
    BY <1>6 DEF PagesDone, disk
  <2> QED
    BY <1>3, <2>1, <2>2 DEF KeptInv, FailureKeepsOldPage
<1>7. CASE Start \/ SwapOut \/ SwapIn \/ WriteManifest \/ Mark \/ Die
  <2>1. run'.pc \notin {"pages", "out"}
    BY <1>1, <1>2, <1>7
    DEF Start, SwapOut, SwapIn, WriteManifest, Mark, Die, Goto, Idle, RunState
  <2> QED
    BY <1>3, <2>1
<1>8. CASE Commit \/ Reader \/ UNCHANGED vars
  <2>1. UNCHANGED <<base, run>>
    BY <1>8 DEF Commit, Reader, ReadManifest, PageText, Reply, ReaderRestarts, disk, vars
  <2> QED
    BY <2>1 DEF KeptInv, FailureKeepsOldPage
<1> QED
  BY <1>4, <1>5, <1>6, <1>7, <1>8, Steps

\* For any pages, commits and faults: a page that is on disk and still planned is
\* among those the swap brings in, whatever became of its completion.
THEOREM OldPageKept == Spec => []FailureKeepsOldPage
<1>1. Init => TypeOK /\ FilesKnown /\ KeptInv
  BY TypeInit DEF Init, Idle, KeptInv, FailureKeepsOldPage
<1>2. TypeOK /\ FilesKnown /\ KeptInv /\ [Next]_vars => (TypeOK /\ FilesKnown /\ KeptInv)'
  BY TypeStep, KeptStep
<1>3. KeptInv => FailureKeepsOldPage
  BY DEF KeptInv
<1> QED
  BY <1>1, <1>2, <1>3, PTL DEF Spec
-----------------------------------------------------------------------------
(* HEAD comes to be marked done: the safety half of CatchesUp.              *)

\* A clean run has an entry for every page that it dealt with, and has pages.
CleanInv ==
    /\ run.pc = "pages" => run.pages # {}
    /\ run.pc = "pages" /\ ~run.failed => \A s \in run.pages \ run.todo : run.done[s] # None

\* The steps of a run from its first one on, at most.
Whole == Cardinality(Slugs) + 7

\* Those that it has left.
RunLeft ==
    CASE run.pc = "idle"     -> 0
      [] run.pc = "fetch"    -> Cardinality(Slugs) + 6
      [] run.pc = "pages"    -> Cardinality(run.todo) + 5
      [] run.pc = "out"      -> 4
      [] run.pc = "in"       -> 3
      [] run.pc = "manifest" -> 2
      [] run.pc = "mark"     -> 1

\* A run that fell behind, or in which a page failed, is followed by another.
Again == run.pc = "idle" \/ run.failed \/ run.sha # head

\* The generator's steps until HEAD is marked done.
GeneratorLeft ==
    IF state = head THEN 0 ELSE RunLeft + (IF Again THEN Whole ELSE 0)

\* Whatever it does takes the generator nearer to that; only commits and faults take it
\* further away, and wiki-mcp has no part in it.
ComesToHead ==
    [][/\ GeneratorLeft = 0 <=> state = head
       /\ Generator => GeneratorLeft' < GeneratorLeft
       /\ Reader => GeneratorLeft' = GeneratorLeft
       /\ GeneratorLeft' > GeneratorLeft => Commit \/ Fault]_vars

\* Nothing happens to what is served until the next commit.
StillWhenDone == [][state = head => UNCHANGED <<disk, run>>]_vars

\* Start, Plan, ..., Mark: what they make of the generator's record.
LEMMA StartRun ==
    ASSUME Start
    PROVE  run'.pc = "fetch" /\ run'.sha = head /\ run'.failed = FALSE
BY DEF Start, Idle

LEMMA PlanRun ==
    ASSUME TypeOK, Plan
    PROVE  /\ run'.pc = "pages" /\ run'.sha = run.sha /\ run'.failed = run.failed
           /\ run'.todo = run'.pages /\ run'.pages # {} /\ run'.pages \subseteq Slugs
BY DEF TypeOK, RunState, Plan

LEMMA CleanPages ==
    ASSUME TypeOK, FilesKnown, CleanInv,
           NEW s \in Slugs, KeepPage(s) \/ WritePage(s) \/ FailPage(s)
    PROVE  CleanInv'
<1>1. /\ run.pc = "pages" /\ run'.pc = "pages" /\ run'.sha = run.sha /\ head' = head
      /\ \A r \in Slugs \ {s} : run'.done[r] = run.done[r]
      /\ (run'.failed = run.failed /\ run'.done[s] # None) \/ run'.failed = TRUE
  BY PageEffect DEF repo, Kept, Written, Failed
<1>2. run.pages \subseteq Slugs /\ run'.pages = run.pages /\ run'.todo = run.todo \ {s}
  BY TodoEffect DEF TypeOK, RunState
<1>3. ASSUME NEW r \in run'.pages \ run'.todo, ~run'.failed
      PROVE  run'.done[r] # None
  <2>1. CASE r = s
    BY <1>1, <1>3, <2>1
  <2>2. CASE r # s
    BY <1>1, <1>2, <1>3, <2>2 DEF CleanInv
  <2> QED
    BY <2>1, <2>2
<1> QED
  BY <1>1, <1>2, <1>3 DEF CleanInv

LEMMA CleanStep == TypeOK /\ FilesKnown /\ CleanInv /\ [Next]_vars => CleanInv'
<1> SUFFICES ASSUME TypeOK, FilesKnown, CleanInv, [Next]_vars PROVE CleanInv'
  OBVIOUS
<1>1. run \in RunState /\ head \in Nat /\ Idle.pc = "idle"
  BY DEF TypeOK, Idle
<1>2. ASSUME NEW s \in Slugs, KeepPage(s) \/ WritePage(s) \/ FailPage(s)
      PROVE  CleanInv'
  BY <1>2, CleanPages
<1>3. CASE Start
  BY <1>1, <1>3, StartRun DEF CleanInv, Start, repo
<1>4. CASE Plan
  <2>1. head' = head /\ run.pc = "fetch"
    BY <1>4 DEF Plan, repo
  <2> QED
    BY <1>4, <2>1, PlanRun DEF CleanInv
<1>5. CASE PagesDone \/ SwapOut \/ SwapIn \/ WriteManifest \/ Mark \/ Die
  <2>1. run'.pc = "idle" \/ (run'.sha = run.sha /\ run'.pc # "pages" /\ run.pc # "idle")
    BY <1>1, <1>5 DEF PagesDone, SwapOut, SwapIn, WriteManifest, Mark, Die, Goto, RunState
  <2>2. head' = head
    BY <1>5 DEF PagesDone, SwapOut, SwapIn, WriteManifest, Mark, Die, repo
  <2> QED
    BY <2>1, <2>2 DEF CleanInv
<1>6. CASE Commit \/ Reader \/ UNCHANGED vars
  <2>1. run' = run /\ (head' = head \/ head' = head + 1)
    BY <1>6 DEF Commit, Reader, ReadManifest, PageText, Reply, ReaderRestarts, repo, disk, vars
  <2>2. run.sha \in Nat
    BY <1>1 DEF RunState
  <2> QED
    BY <1>1, <2>1, <2>2 DEF CleanInv
<1> QED
  BY <1>2, <1>3, <1>4, <1>5, <1>6, Steps

\* A run that brings nothing in was not clean.
LEMMA EmptyIsFailed ==
    ASSUME TypeOK, CleanInv, run.pc = "pages", run.todo = {}, Listed(run.done) = {}
    PROVE  run.failed
<1>1. PICK s \in run.pages : s \in Slugs
  BY DEF CleanInv, TypeOK, RunState
<1>2. run.done[s] = None
  BY <1>1 DEF Listed
<1> QED
  BY <1>1, <1>2 DEF CleanInv

LEMMA LeftType ==
    ASSUME TypeOK, IsFiniteSet(Slugs)
    PROVE  /\ Cardinality(Slugs) \in Nat /\ Whole \in Nat /\ Whole = Cardinality(Slugs) + 7
           /\ Cardinality(run.todo) \in Nat /\ Cardinality(run.todo) <= Cardinality(Slugs)
           /\ IsFiniteSet(run.todo)
           /\ RunLeft \in Nat /\ RunLeft < Whole /\ GeneratorLeft \in Nat
<1>1. run.todo \subseteq Slugs /\ run.pc \in {"idle", "fetch", "pages", "out", "in", "manifest", "mark"}
  BY DEF TypeOK, RunState
<1>2. IsFiniteSet(run.todo) /\ Cardinality(run.todo) \in Nat /\ Cardinality(Slugs) \in Nat
      /\ Cardinality(run.todo) <= Cardinality(Slugs)
  BY <1>1, FS_Subset, FS_CardinalityType
<1> DEFINE n == Cardinality(Slugs)
           m == Cardinality(run.todo)
<1>3. n \in Nat /\ m \in Nat /\ m <= n /\ Whole = n + 7
  BY <1>2 DEF Whole
<1>4. /\ run.pc = "idle" => RunLeft = 0
      /\ run.pc = "fetch" => RunLeft = n + 6
      /\ run.pc = "pages" => RunLeft = m + 5
      /\ run.pc \in {"out", "in", "manifest", "mark"} => RunLeft \in 1..4
  BY DEF RunLeft
<1> HIDE DEF n, m
<1>5. RunLeft \in Nat /\ RunLeft < Whole /\ Whole \in Nat
  BY <1>1, <1>3, <1>4
<1>6. GeneratorLeft \in Nat
  BY <1>5 DEF GeneratorLeft
<1> QED
  BY <1>2, <1>5, <1>6 DEF Whole

LEMMA LeftNext ==
    ASSUME TypeOK', IsFiniteSet(Slugs)
    PROVE  GeneratorLeft' \in Nat
<1>1. run'.todo \subseteq Slugs
      /\ run'.pc \in {"idle", "fetch", "pages", "out", "in", "manifest", "mark"}
  BY DEF TypeOK, RunState
<1> DEFINE n == Cardinality(Slugs)
           m == Cardinality(run'.todo)
<1>2. n \in Nat /\ m \in Nat /\ Whole' = n + 7
  BY <1>1, FS_Subset, FS_CardinalityType DEF Whole
<1>3. RunLeft' \in {0, n + 6, m + 5, 1, 2, 3, 4}
  BY <1>1 DEF RunLeft
<1> DEFINE l == RunLeft'
           w == Whole'
<1>4. l \in Nat /\ w \in Nat
  <2> HIDE DEF n, m
  <2> QED
    BY <1>2, <1>3
<1>5. GeneratorLeft' = IF state' = head' THEN 0 ELSE l + (IF Again' THEN w ELSE 0)
  BY DEF GeneratorLeft
<1> HIDE DEF l, w
<1> QED
  BY <1>4, <1>5

\* The steps of a run, one by one.
LEMMA StartLess ==
    ASSUME TypeOK, CommitInv, IsFiniteSet(Slugs), Start
    PROVE  GeneratorLeft' < GeneratorLeft
<1>1. /\ run.pc = "idle" /\ state # head /\ state' = state /\ head' = head
      /\ run'.pc = "fetch" /\ run'.sha = head /\ run'.failed = FALSE
  BY StartRun DEF Start, repo, disk
<1> DEFINE n == Cardinality(Slugs)
<1>2. n \in Nat /\ Whole = n + 7
  BY LeftType DEF Whole
<1>3. GeneratorLeft = Whole
  BY <1>1, <1>2 DEF GeneratorLeft, Again, RunLeft
<1>4. GeneratorLeft' = n + 6
  BY <1>1, <1>2 DEF GeneratorLeft, Again, RunLeft
<1> HIDE DEF n
<1> QED
  BY <1>2, <1>3, <1>4

\* A run goes on: it is followed by another if it was before, and has less left.
LEMMA GoesOnLess ==
    ASSUME TypeOK, TypeOK', CommitInv, IsFiniteSet(Slugs), run.pc # "idle",
           run'.pc # "idle", run'.sha = run.sha, run'.failed = run.failed,
           head' = head, state' = state, RunLeft' < RunLeft, RunLeft' \in Nat
    PROVE  GeneratorLeft' < GeneratorLeft
<1>1. state # head /\ state' # head'
  BY DEF CommitInv, TypeOK
<1>2. Again' <=> Again
  BY DEF Again
<1> DEFINE e == IF Again THEN Whole ELSE 0
           l == RunLeft
           k == RunLeft'
<1>3. e \in Nat /\ l \in Nat /\ k \in Nat /\ k < l
  BY LeftType
<1>4. GeneratorLeft = l + e
  BY <1>1 DEF GeneratorLeft
<1>5. GeneratorLeft' = k + e
  BY <1>1, <1>2 DEF GeneratorLeft, Whole
<1> HIDE DEF e, l, k
<1> QED
  BY <1>3, <1>4, <1>5

\* A run ends without marking HEAD done: it was one that is followed by another.
LEMMA EndsLess ==
    ASSUME TypeOK, CommitInv, IsFiniteSet(Slugs), run.pc # "idle", run.failed \/ run.sha # head,
           run'.pc = "idle", head' = head, RunLeft > 0
    PROVE  GeneratorLeft' < GeneratorLeft
<1>1. state # head
  BY DEF CommitInv, TypeOK
<1> DEFINE w == Whole
           l == RunLeft
<1>2. w \in Nat /\ l \in Nat /\ l > 0
  BY LeftType
<1>3. GeneratorLeft = l + w
  BY <1>1 DEF GeneratorLeft, Again
<1>4. GeneratorLeft' \in {0, w}
  <2>1. RunLeft' = 0 /\ Again'
    BY DEF RunLeft, Again
  <2>2. Whole' = w
    BY DEF Whole
  <2>3. GeneratorLeft' = IF state' = head' THEN 0 ELSE 0 + w
    BY <2>1, <2>2 DEF GeneratorLeft
  <2> HIDE DEF w
  <2> QED
    BY <1>2, <2>3
<1> HIDE DEF w, l
<1> QED
  BY <1>2, <1>3, <1>4

LEMMA GeneratorLess ==
    ASSUME TypeOK, TypeOK', CommitInv, CleanInv, IsFiniteSet(Slugs), FilesKnown, Generator
    PROVE  GeneratorLeft' < GeneratorLeft
<1> DEFINE n == Cardinality(Slugs)
           m == Cardinality(run.todo)
<1>0. run \in RunState /\ n \in Nat /\ m \in Nat /\ IsFiniteSet(run.todo) /\ Idle.pc = "idle"
      /\ run.todo \subseteq Slugs
  <2>1. n \in Nat /\ m \in Nat /\ IsFiniteSet(run.todo)
    BY LeftType
  <2> HIDE DEF n, m
  <2> QED
    BY <2>1 DEF TypeOK, RunState, Idle
<1>1. CASE Start
  BY <1>1, StartLess
<1>2. CASE Plan
  <2>1. /\ run.pc = "fetch" /\ run'.pc = "pages" /\ run'.sha = run.sha /\ run'.failed = run.failed
        /\ head' = head /\ state' = state /\ run'.todo \subseteq Slugs
    BY <1>2, PlanRun DEF Plan, repo, disk
  <2> DEFINE k == Cardinality(run'.todo)
  <2>2. k \in Nat /\ k <= n
    BY <2>1, FS_Subset, FS_CardinalityType
  <2>3. RunLeft = n + 6 /\ RunLeft' = k + 5
    BY <2>1 DEF RunLeft
  <2>4. RunLeft' < RunLeft /\ RunLeft' \in Nat
    <3> HIDE DEF n, k
    <3> QED
      BY <1>0, <2>2, <2>3
  <2> QED
    BY <2>1, <2>4, GoesOnLess
<1>3. ASSUME NEW s \in Slugs, KeepPage(s) \/ WritePage(s)
      PROVE  GeneratorLeft' < GeneratorLeft
  <2>1. /\ run.pc = "pages" /\ s \in run.todo /\ head' = head /\ state' = state
        /\ run'.pc = "pages" /\ run'.sha = run.sha /\ run'.failed = run.failed
        /\ run'.todo = run.todo \ {s}
    BY <1>0, <1>3 DEF KeepPage, WritePage, Staged, RunState, repo, disk
  <2> DEFINE k == Cardinality(run.todo \ {s})
  <2>2. k = m - 1 /\ k \in Nat
    BY <1>0, <2>1, FS_RemoveElement, FS_CardinalityType
  <2>3. RunLeft = m + 5 /\ RunLeft' = k + 5
    BY <2>1 DEF RunLeft
  <2>4. RunLeft' < RunLeft /\ RunLeft' \in Nat
    <3> HIDE DEF m, k
    <3> QED
      BY <1>0, <2>2, <2>3
  <2> QED
    BY <2>1, <2>4, GoesOnLess
<1>4. CASE PagesDone
  <2>1. run.pc = "pages" /\ run.todo = {} /\ head' = head /\ state' = state
    BY <1>4 DEF PagesDone, repo, disk
  <2>2. RunLeft = 5
    BY <2>1, FS_EmptySet DEF RunLeft
  <2>3. CASE Listed(run.done) = {}
    <3>1. run.failed /\ run'.pc = "idle"
      BY <1>0, <1>4, <2>1, <2>3, EmptyIsFailed DEF PagesDone
    <3> QED
      BY <2>1, <2>2, <3>1, EndsLess
  <2>4. CASE Listed(run.done) # {}
    <3>1. run'.pc = "out" /\ run'.sha = run.sha /\ run'.failed = run.failed
      BY <1>0, <1>4, <2>4 DEF PagesDone, Goto, RunState
    <3>2. RunLeft' = 4
      BY <3>1 DEF RunLeft
    <3> QED
      BY <2>1, <2>2, <3>1, <3>2, GoesOnLess
  <2> QED
    BY <2>3, <2>4
<1>5. CASE SwapOut \/ SwapIn
  <2>1. /\ head' = head /\ state' = state /\ run'.sha = run.sha /\ run'.failed = run.failed
        /\ \/ run.pc = "out" /\ run'.pc = "in"
           \/ run.pc = "in" /\ run'.pc = "manifest"
    BY <1>0, <1>5 DEF SwapOut, SwapIn, Goto, RunState, repo
  <2>2. RunLeft' < RunLeft /\ RunLeft' \in Nat
    BY <2>1 DEF RunLeft
  <2> QED
    BY <2>1, <2>2, GoesOnLess
<1>6. CASE WriteManifest
  <2>1. head' = head /\ state' = state /\ run.pc = "manifest"
    BY <1>6 DEF WriteManifest, repo
  <2>2. RunLeft = 2
    BY <2>1 DEF RunLeft
  <2>3. CASE run.failed
    <3>1. run'.pc = "idle"
      BY <1>0, <1>6, <2>3 DEF WriteManifest
    <3> QED
      BY <2>1, <2>2, <2>3, <3>1, EndsLess
  <2>4. CASE ~run.failed
    <3>1. run'.pc = "mark" /\ run'.sha = run.sha /\ run'.failed = run.failed
      BY <1>0, <1>6, <2>4 DEF WriteManifest, RunState
    <3>2. RunLeft' = 1
      BY <3>1 DEF RunLeft
    <3> QED
      BY <2>1, <2>2, <3>1, <3>2, GoesOnLess
  <2> QED
    BY <2>3, <2>4
<1>7. CASE Mark
  <2>1. head' = head /\ state' = run.sha /\ run.pc = "mark" /\ run'.pc = "idle"
    BY <1>0, <1>7 DEF Mark, repo
  <2>2. RunLeft = 1
    BY <2>1 DEF RunLeft
  <2>3. CASE run.sha # head
    BY <2>1, <2>2, <2>3, EndsLess
  <2>4. CASE run.sha = head
    <3>1. GeneratorLeft' = 0
      BY <2>1, <2>4 DEF GeneratorLeft
    <3>2. state # head
      BY <2>1 DEF CommitInv, TypeOK
    <3>3. GeneratorLeft = 1 + (IF Again THEN Whole ELSE 0) /\ Whole \in Nat
      BY <2>2, <3>2, LeftType DEF GeneratorLeft
    <3> QED
      BY <3>1, <3>3
  <2> QED
    BY <2>3, <2>4
<1> QED
  BY <1>1, <1>2, <1>3, <1>4, <1>5, <1>6, <1>7 DEF Generator, PageStep

LEMMA HeadStep ==
    ASSUME TypeOK, FilesKnown, CommitInv, CleanInv, IsFiniteSet(Slugs), [Next]_vars
    PROVE  /\ GeneratorLeft = 0 <=> state = head
           /\ Generator => GeneratorLeft' < GeneratorLeft
           /\ Reader => GeneratorLeft' = GeneratorLeft
           /\ GeneratorLeft' > GeneratorLeft => Commit \/ Fault
<1>0. TypeOK'
  BY TypeStep
<1>1. GeneratorLeft = 0 <=> state = head
  <2>1. CASE state = head
    BY <2>1 DEF GeneratorLeft
  <2>2. CASE state # head /\ run.pc = "idle"
    <3>1. GeneratorLeft = RunLeft + Whole /\ RunLeft \in Nat /\ Whole \in Nat /\ RunLeft < Whole
      BY <2>2, LeftType DEF GeneratorLeft, Again
    <3> QED
      BY <2>2, <3>1
  <2>3. CASE state # head /\ run.pc # "idle"
    <3> DEFINE m == Cardinality(run.todo)
               n == Cardinality(Slugs)
    <3>1. run.pc \in {"fetch", "pages", "out", "in", "manifest", "mark"} /\ m \in Nat /\ n \in Nat
      BY <2>3, LeftType DEF TypeOK, RunState
    <3>2. RunLeft \in {n + 6, m + 5, 1, 2, 3, 4}
      BY <3>1 DEF RunLeft
    <3>3. RunLeft \in Nat /\ RunLeft > 0
      <4> HIDE DEF m, n
      <4> QED
        BY <3>1, <3>2
    <3>4. GeneratorLeft = RunLeft + (IF Again THEN Whole ELSE 0) /\ Whole \in Nat
      BY <2>3, LeftType DEF GeneratorLeft
    <3> QED
      BY <2>3, <3>3, <3>4
  <2> QED
    BY <2>1, <2>2, <2>3
<1>2. Generator => GeneratorLeft' < GeneratorLeft
  BY <1>0, GeneratorLess
<1>3. Reader \/ UNCHANGED vars => GeneratorLeft' = GeneratorLeft
  <2>1. Reader \/ UNCHANGED vars => UNCHANGED <<head, state, run>>
    BY DEF Reader, ReadManifest, PageText, Reply, ReaderRestarts, repo, disk, vars
  <2>2. UNCHANGED <<head, state, run>> => GeneratorLeft' = GeneratorLeft
    BY DEF GeneratorLeft, Again, RunLeft, Whole
  <2> QED
    BY <2>1, <2>2
<1>4. GeneratorLeft \in Nat /\ GeneratorLeft' \in Nat
  <2>1. GeneratorLeft' \in Nat
    BY <1>0, LeftNext
  <2> QED
    BY <2>1, LeftType
<1>5. GeneratorLeft' > GeneratorLeft => Commit \/ Fault
  <2>1. Generator \/ Reader \/ UNCHANGED vars => ~(GeneratorLeft' > GeneratorLeft)
    BY <1>2, <1>3, <1>4
  <2> QED
    BY <2>1 DEF Next, Calm
<1> QED
  BY <1>1, <1>2, <1>3, <1>5

\* For any pages, commits and faults: every step of the generator takes it nearer to marking
\* HEAD done, which only a commit, a failed page or a death puts off, so that without those
\* it gets there within GeneratorLeft steps (configmap.yaml:253-341).
THEOREM HeadIsReached == ASSUME IsFiniteSet(Slugs) PROVE Spec => ComesToHead
<1> DEFINE Inv == TypeOK /\ FilesKnown /\ CommitInv /\ CleanInv
<1>1. Init => Inv
  <2>1. Init => CleanInv
    BY DEF Init, Idle, CleanInv
  <2> QED
    BY <2>1, TypeInit, CommitInit
<1>2. Inv /\ [Next]_vars => Inv'
  BY TypeStep, CommitStep, CleanStep
<1>3. Inv /\ [Next]_vars =>
        [/\ GeneratorLeft = 0 <=> state = head
         /\ Generator => GeneratorLeft' < GeneratorLeft
         /\ Reader => GeneratorLeft' = GeneratorLeft
         /\ GeneratorLeft' > GeneratorLeft => Commit \/ Fault]_vars
  BY HeadStep
<1> QED
  BY <1>1, <1>2, <1>3, PTL DEF Spec, ComesToHead

\* For any pages, commits and faults: once HEAD is marked done, no run starts, no page, entry
\* or mark changes, and no fault reaches them, until somebody pushes (configmap.yaml:325-327).
THEOREM DoneIsStill == Spec => StillWhenDone
<1> DEFINE Inv == TypeOK /\ FilesKnown /\ CommitInv
<1>1. Init => Inv
  BY TypeInit, CommitInit
<1>2. Inv /\ [Next]_vars => Inv'
  BY TypeStep, CommitStep
<1>3. Inv /\ [Next]_vars => [state = head => UNCHANGED <<disk, run>>]_vars
  <2> SUFFICES ASSUME Inv, [Next]_vars, state = head PROVE UNCHANGED <<disk, run>>
    OBVIOUS
  <2>1. run.pc = "idle"
    BY DEF CommitInv, TypeOK
  <2>2. ~Generator /\ ~Fault
    BY <2>1 DEF Generator, Fault, Start, Plan, PageStep, KeepPage, WritePage, FailPage,
       PagesDone, SwapOut, SwapIn, WriteManifest, Mark, Die
  <2>3. Commit \/ Reader \/ UNCHANGED vars
    BY <2>2 DEF Next, Calm
  <2> QED
    BY <2>3 DEF Commit, Reader, ReadManifest, PageText, Reply, ReaderRestarts, vars
<1> QED
  BY <1>1, <1>2, <1>3, PTL DEF Spec, StillWhenDone
=============================================================================
