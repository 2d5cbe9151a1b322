------------------------------- MODULE RepoWiki -------------------------------
(***************************************************************************)
(* The generator of the repository wiki (generate.py in repo-wiki's        *)
(* ConfigMap), the volume it shares with the web server, and wiki-mcp,     *)
(* which reads that volume over HTTP and caches pages.                     *)
(*                                                                         *)
(* One repository, as repos.txt lists one.  The generator is a CronJob     *)
(* with concurrencyPolicy Forbid, so one run at a time; a run that dies is *)
(* followed by another.  Its writes are renames, which a kill leaves done  *)
(* or not done, and write_text, which truncates first: killed, it leaves   *)
(* JSON that no later run can load.                                        *)
(*                                                                         *)
(* What a page is made from (its title, focus and source files) is one     *)
(* value of Contents, which stands for its source_hash as well; contents   *)
(* come back when a commit is reverted.  A sha is the number of its commit.*)
(* generated_at is the number of the regeneration that wrote the page, 0   *)
(* for a page that was there before the manifest was.                      *)
(***************************************************************************)
EXTENDS Naturals

CONSTANTS
    Slugs,       \* the pages a plan may have
    Contents,    \* what a page may be made from
    None,        \* no page, no entry, no text
    NoHash,      \* source_hash "": never equal to a digest
    MaxCommits,  \* bound on commits to the repository
    MaxFaults    \* bound on failed pages and on runs that die

Text == [content : Contents, gen : Nat]
Entry == [hash : Contents \union {NoHash}, gen : Nat]

ASSUME WikiAssumption ==
    /\ NoHash \notin Contents
    /\ None \notin Contents /\ None \notin Text /\ None \notin Entry
    /\ MaxCommits \in Nat /\ MaxFaults \in Nat

VARIABLES
    head,     \* the repository: the commit HEAD is at
    src,      \* src[s]: what page s would be made from at HEAD
    base,     \* base[s]: the file <repo>/<s>.md
    manifest, \* manifest[s]: the entry of s in manifest.json
    state,    \* .wiki-state.json: the commit marked done, 0 for none
    torn,     \* the JSON files a killed write left unreadable
    run,      \* the generator
    now,      \* how many regenerations there were
    faults,   \* how many faults there were
    exposed,  \* history: did a run die between the first rename and the manifest?
    owed,     \* history: planned pages whose last attempt failed
    snap,     \* wiki-mcp: the manifest of the call it is answering, or None
    cache     \* wiki-mcp: _pages

repo   == <<head, src>>
disk   == <<base, manifest, state, torn>>
reader == <<snap, cache>>
vars   == <<repo, disk, run, now, faults, exposed, owed, reader>>

Nothing == [s \in Slugs |-> None]
Listed(f) == {s \in Slugs : f[s] # None}

Idle == [pc |-> "idle", sha |-> 0, files |-> Nothing, pages |-> {}, todo |-> {},
         stage |-> Nothing, done |-> Nothing, failed |-> FALSE]

\* Nothing yet; or pages from before there was a manifest, made from what HEAD was at then.
Init ==
    /\ head = 1 /\ src \in [Slugs -> Contents]
    /\ base \in [Slugs -> [content : Contents, gen : {0}] \union {None}]
    /\ state \in IF base = Nothing THEN {0} ELSE {0, head}
    /\ manifest = Nothing /\ torn = {}
    /\ run = Idle /\ now = 0 /\ faults = 0
    /\ exposed = FALSE /\ owed = {}
    /\ snap = None /\ cache = Nothing

\* Somebody pushes: any pages may now be made from something else.
Commit ==
    /\ head <= MaxCommits
    /\ head' = head + 1
    /\ src' \in [Slugs -> Contents]
    /\ UNCHANGED <<disk, run, now, faults, exposed, owed, reader>>
-----------------------------------------------------------------------------
(* A run of the generator.                                                 *)

Goto(pc) == run' = [run EXCEPT !.pc = pc]

\* MUTANT: a repository that was marked done once is left alone.
StartIfNever ==
    /\ run.pc = "idle"
    /\ torn = {}
    /\ state = 0
    /\ run' = [Idle EXCEPT !.pc = "fetch", !.sha = head]
    /\ UNCHANGED <<repo, disk, now, faults, exposed, owed, reader>>

\* Both JSON files load, and HEAD is not the commit marked done.
Start ==
    /\ run.pc = "idle"
    /\ torn = {}
    /\ state # head
    /\ run' = [Idle EXCEPT !.pc = "fetch", !.sha = head]
    /\ UNCHANGED <<repo, disk, now, faults, exposed, owed, reader>>

\* MUTANT: the pages a new plan dropped are regenerated all the same.
PlanKeepsDropped ==
    /\ run.pc = "fetch"
    /\ now' = now + 1
    /\ \E pages \in (SUBSET Slugs) \ {{}} :
          /\ run' = [run EXCEPT !.pc = "pages", !.files = src, !.pages = pages,
                                !.todo = pages \union Listed(manifest)]
          /\ owed' = IF pages = Listed(manifest) THEN owed ELSE owed \intersect pages
    /\ UNCHANGED <<repo, disk, faults, exposed, reader>>

\* The pages of the manifest are kept, or planned anew: when there are none, when
\* the plan is old, when a page has no files left.  The tarball is HEAD's by now.
Plan ==
    /\ run.pc = "fetch"
    /\ now' = now + 1
    /\ \E pages \in (SUBSET Slugs) \ {{}} :
          /\ run' = [run EXCEPT !.pc = "pages", !.files = src, !.pages = pages, !.todo = pages]
          /\ owed' = IF pages = Listed(manifest) THEN owed ELSE owed \intersect pages
    /\ UNCHANGED <<repo, disk, faults, exposed, reader>>

Current(s) == manifest[s] # None /\ manifest[s].hash = run.files[s] /\ base[s] # None

\* The first run over a wiki without a manifest takes every page for current.
Adopts(s) == Listed(manifest) = {} /\ base[s] # None

Staged(s, text, entry) ==
    run' = [run EXCEPT !.todo = @ \ {s}, !.stage[s] = text, !.done[s] = entry]

KeepPage(s) ==
    /\ run.pc = "pages" /\ s \in run.todo
    /\ Adopts(s) \/ Current(s)
    /\ Staged(s, base[s], [hash |-> run.files[s],
                           gen |-> IF Adopts(s) THEN base[s].gen ELSE manifest[s].gen])
    /\ owed' = owed \ {s}
    /\ UNCHANGED <<repo, disk, now, faults, exposed, reader>>

\* MUTANT: a page that is rewritten keeps its generated_at.
WritePageOldStamp(s) ==
    /\ run.pc = "pages" /\ s \in run.todo
    /\ ~Adopts(s) /\ ~Current(s)
    /\ Staged(s, [content |-> run.files[s], gen |-> now],
                 [hash |-> run.files[s],
                  gen |-> IF manifest[s] = None THEN now ELSE manifest[s].gen])
    /\ owed' = owed \ {s}
    /\ UNCHANGED <<repo, disk, now, faults, exposed, reader>>

WritePage(s) ==
    /\ run.pc = "pages" /\ s \in run.todo
    /\ ~Adopts(s) /\ ~Current(s)
    /\ Staged(s, [content |-> run.files[s], gen |-> now], [hash |-> run.files[s], gen |-> now])
    /\ owed' = owed \ {s}
    /\ UNCHANGED <<repo, disk, now, faults, exposed, reader>>

\* MUTANT: a page that fails leaves nothing behind.
FailPageDrops(s) ==
    /\ run.pc = "pages" /\ s \in run.todo /\ faults < MaxFaults
    /\ ~Adopts(s) /\ ~Current(s)
    /\ run' = [run EXCEPT !.todo = @ \ {s}, !.failed = TRUE]
    /\ faults' = faults + 1
    /\ owed' = owed \union {s}
    /\ UNCHANGED <<repo, disk, now, exposed, reader>>

\* MUTANT: the old page is kept under the new hash.
FailPageNewHash(s) ==
    /\ run.pc = "pages" /\ s \in run.todo /\ faults < MaxFaults
    /\ ~Adopts(s) /\ ~Current(s)
    /\ run' = [run EXCEPT !.todo = @ \ {s}, !.failed = TRUE, !.stage[s] = base[s],
                          !.done[s] = IF base[s] = None THEN None
                                      ELSE [hash |-> run.files[s], gen |-> now]]
    /\ faults' = faults + 1
    /\ owed' = owed \union {s}
    /\ UNCHANGED <<repo, disk, now, exposed, reader>>

\* The completion fails, times out or is empty: the old page stays, if there is
\* one, under its old hash.
FailPage(s) ==
    /\ run.pc = "pages" /\ s \in run.todo /\ faults < MaxFaults
    /\ ~Adopts(s) /\ ~Current(s)
    /\ run' = [run EXCEPT !.todo = @ \ {s}, !.failed = TRUE, !.stage[s] = base[s],
                          !.done[s] = IF base[s] = None THEN None
                                      ELSE IF manifest[s] = None THEN [hash |-> NoHash, gen |-> 0]
                                      ELSE manifest[s]]
    /\ faults' = faults + 1
    /\ owed' = owed \union {s}
    /\ UNCHANGED <<repo, disk, now, exposed, reader>>

\* MUTANT: the manifest is written before the pages are swapped in.
PagesDoneManifestFirst ==
    /\ run.pc = "pages" /\ run.todo = {}
    /\ IF Listed(run.done) = {} THEN run' = Idle /\ manifest' = manifest
                               ELSE Goto("out") /\ manifest' = run.done
    /\ UNCHANGED <<repo, base, state, torn, now, faults, exposed, owed, reader>>

\* Without a single page the repository is skipped.
PagesDone ==
    /\ run.pc = "pages" /\ run.todo = {}
    /\ IF Listed(run.done) = {} THEN run' = Idle ELSE Goto("out")
    /\ UNCHANGED <<repo, disk, now, faults, exposed, owed, reader>>

\* base.rename(trash)
SwapOut ==
    /\ run.pc = "out"
    /\ base' = Nothing
    /\ Goto("in")
    /\ UNCHANGED <<repo, manifest, state, torn, now, faults, exposed, owed, reader>>

\* stage.rename(base)
SwapIn ==
    /\ run.pc = "in"
    /\ base' = run.stage
    /\ Goto("manifest")
    /\ UNCHANGED <<repo, manifest, state, torn, now, faults, exposed, owed, reader>>

WriteManifest ==
    /\ run.pc = "manifest"
    /\ manifest' = run.done
    /\ run' = IF run.failed THEN Idle ELSE [run EXCEPT !.pc = "mark"]
    /\ UNCHANGED <<repo, base, state, torn, now, faults, exposed, owed, reader>>

\* Only a clean run marks the sha done.
Mark ==
    /\ run.pc = "mark"
    /\ state' = run.sha
    /\ run' = Idle
    /\ UNCHANGED <<repo, base, manifest, torn, now, faults, exposed, owed, reader>>

\* The pod is killed; or an exception (GitHub, the plan, the disk) skips the
\* repository.  A file that was being written may be left unreadable.  What is in
\* the staging directory is lost to the next run.
Die ==
    /\ run.pc # "idle" /\ faults < MaxFaults
    /\ faults' = faults + 1
    /\ run' = Idle
    /\ exposed' = (exposed \/ run.pc \in {"in", "manifest"})
    /\ torn' \in {torn} \union
          CASE run.pc = "manifest" -> {torn \union {"manifest"}}
            [] run.pc = "mark"     -> {torn \union {"state"}}
            [] OTHER               -> {}
    /\ UNCHANGED <<repo, base, manifest, state, now, owed, reader>>
-----------------------------------------------------------------------------
(* wiki-mcp: one call at a time.                                           *)

\* A manifest that is torn ends the call with an error.
ReadManifest ==
    /\ snap = None
    /\ "manifest" \notin torn
    /\ snap' = manifest
    /\ UNCHANGED <<repo, disk, run, now, faults, exposed, owed, cache>>

\* _page_text of wiki_read or of wiki_search when the cache does not have the page
\* under this stamp; a page that is not there (404) changes nothing.
PageText(s) ==
    /\ snap # None /\ snap[s] # None
    /\ cache[s] # None => cache[s].stamp # snap[s].gen
    /\ base[s] # None
    /\ cache' = [cache EXCEPT ![s] = [stamp |-> snap[s].gen, text |-> base[s]]]
    /\ UNCHANGED <<repo, disk, run, now, faults, exposed, owed, snap>>

Reply ==
    /\ snap # None
    /\ snap' = None
    /\ UNCHANGED <<repo, disk, run, now, faults, exposed, owed, cache>>

ReaderRestarts ==
    /\ snap' = None /\ cache' = Nothing
    /\ UNCHANGED <<repo, disk, run, now, faults, exposed, owed>>

PageStep == \E s \in Slugs : KeepPage(s) \/ WritePage(s)
Generator == Start \/ Plan \/ PageStep \/ PagesDone \/ SwapOut \/ SwapIn \/ WriteManifest \/ Mark
Reader == ReadManifest \/ (\E s \in Slugs : PageText(s)) \/ Reply \/ ReaderRestarts
Calm == Generator \/ Reader
Fault == Die \/ \E s \in Slugs : FailPage(s)

Next == Calm \/ Fault \/ Commit

\* The CronJob starts a run every night, and a run goes on to its end.
Spec == Init /\ [][Next]_vars
FairSpec == Spec /\ WF_vars(Generator)
-----------------------------------------------------------------------------
(* Properties.                                                             *)

Pages == [Slugs -> Text \union {None}]
Manifest == [Slugs -> Entry \union {None}]

RunState ==
    [pc : {"idle", "fetch", "pages", "out", "in", "manifest", "mark"},
     sha : Nat, files : [Slugs -> Contents \union {None}], pages : SUBSET Slugs,
     todo : SUBSET Slugs, stage : Pages, done : Manifest, failed : BOOLEAN]
Cache == [Slugs -> [stamp : Nat, text : Text] \union {None}]

TypeOK ==
    /\ head \in Nat /\ src \in [Slugs -> Contents]
    /\ base \in Pages /\ manifest \in Manifest
    /\ state \in Nat /\ torn \subseteq {"manifest", "state"}
    /\ run \in RunState /\ run.todo \subseteq run.pages
    /\ now \in Nat /\ faults \in Nat /\ exposed \in BOOLEAN /\ owed \subseteq Slugs
    /\ snap \in Manifest \union {None}
    /\ cache \in Cache

\* However runs, commits, failed pages and calls interleave, and wherever a run
\* dies, wiki-mcp never gives out a page older than the generated_at it announces
\* with it: pages are swapped in before the manifest tells of them (configmap.yaml
\* 307-333, wiki_mcp.py:43-86).
NeverOlderThanAnnounced ==
    \A s \in Slugs : cache[s] # None => cache[s].text.gen >= cache[s].stamp

\* Between runs, a page that wiki-mcp would serve from its cache is the page on
\* disk, unless a run once died between the swap and the manifest (wiki_mcp.py:43-44).
CacheIsCoherent ==
    run.pc = "idle" /\ ~exposed =>
        \A s \in Slugs : cache[s] # None /\ manifest[s] # None
                         /\ cache[s].stamp = manifest[s].gen => cache[s].text = base[s]

\* When HEAD is marked done, every page of the manifest is on disk, and was made from
\* HEAD's files unless it is from before the manifest (gen 0) and was adopted then; or a
\* run once died between the swap and the manifest (configmap.yaml:278-299, 334-337).
DoneIsCurrent ==
    state = head /\ run.pc = "idle" /\ ~exposed =>
        \A s \in Listed(manifest) :
            base[s] # None /\ (base[s].gen = 0 \/ base[s].content = src[s])

\* A page that is on disk and still planned is never lost to a failed completion
\* (configmap.yaml:292-299).
FailureKeepsOldPage ==
    run.pc = "out" => \A s \in run.pages : base[s] # None => run.stage[s] # None

\* A failed page is retried: HEAD is not marked done while one is owed
\* (configmap.yaml:293, 335).
FailedPagesRetried == state = head => owed = {}

\* Once commits and failures stop, HEAD is marked done for good, unless one of the
\* JSON files was torn and has to be repaired by hand.
CatchesUp == <>[][Calm]_vars => <>[](state = head \/ torn # {})
=============================================================================
