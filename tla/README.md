# Models of the home-ops programs

The repository is the GitOps source of a Talos/Kubernetes cluster. Most of its
files are Helm values and custom resources for controllers whose code is
elsewhere. What it programs itself is a few thousand lines of Python and shell:
services it builds, CronJobs whose scripts it mounts, and tasks run by hand.
This directory models those, starting with the ones where processes share state,
where a kill leaves work half done, or where somebody relies on what a run
reported. Paths below are relative to the repository.

Each component `M` has a specification `M.tla` (constants with their assumptions,
state, one action per step of the code, properties), a module `MCM.tla` that fixes
an instance for TLC, one `.cfg` per question, and `M_proofs.tla` with theorems
checked by TLAPS for every value of the constants.

    tlc -config MCRepoWiki_nightly.cfg MCRepoWiki
    tlapm RepoWiki_proofs.tla

`PROJECT.json` maps definitions to lines, and lists runs, mutants (a definition
changed the way a plausible bug would change it, which its property must catch),
hazards and theorems. In the modules a mutant stands before the definition it
replaces, under `\* MUTANT:`.

## Inventory

| Component | Code | State | Operations | What is hard |
|---|---|---|---|---|
| Strapi project sync | `build/strapi-bootstrap/strapi-sync.sh`, `development/strapi*/app/cms/deployment.yaml` | project on a PVC: `package.json`, `node_modules`, stamp, marker; the database's version | seed, upgrade, refresh, resume, schema install, boot | a pod killed inside any command; images rolled forward and back; dependencies added by hand |
| Bandit reward path and refit | `build/bandit-serve/app/{main,store,db}.py`, `build/bandit-pipeline/bandit_pipeline/*.py` | Dragonfly counters, Postgres reward log | reward, seed, hourly refit | threads against overlapping refits; two stores and no transaction; failures on either side |
| Bandit arm cache | `build/bandit-serve/app/{main,strapi,bandit,store}.py` | arms in memory, which of them have counters | start, select, sync, seed | a cache never pruned, shared by threads without a lock; syncs that overtake each other; edits in Strapi |
| VolSync restore verifier | `backup-verify/volsync-verify/app/*` | PVC, ReplicationDestination and pod per target | clean, restore, start check pod, judge, clean | objects named alike by every run; leftovers of killed runs; manual runs; controllers that answer late |
| Repository wiki generator | `llm/repo-wiki/app/configmap.yaml` | pages, `manifest.json`, `.wiki-state.json`, staging | plan, keep, write, fail, swap, mark | failures of single pages; kills between renames; readers during the swap |
| wiki-mcp | `llm/toolhive/wiki-mcp/server/wiki_mcp.py` | page cache | read, search | two requests per call, against a swap |
| Subtitle dedupe | `downloads/lingarr/app/scripts/srt-dedupe.py` | subtitles, backups | scan, look at Lingarr, merge cues, copy, replace | Bazarr and Lingarr use the same files; it runs on its own output |
| Lingarr quota top-up | `downloads/lingarr/app/scripts/quota-topup.py` | Lingarr's queue, two quotas | tick, retry | old quota samples; runs that queue late; whole runs and floors; the dedupe's turn |
| VolSync restore tasks | `.taskfiles/VolSync/` | an application's PVC, replicas, Flux suspension | suspend, wipe, restore, resume | a step that fails after the wipe |
| Watchdogs | `kube-tools/nfs-stale-watchdog`, `llm/llmkube/app/cdi-stale-watchdog.yaml` | pods, events | list, judge, delete by name | the pod may be another by then |
| Trivy report pruner | `security/trivy-report-pruner` | reports, ReplicaSets | list, list, delete | a rollback between the lists and the delete |
| etcd maintenance | `kube-tools/etcd-defrag`, `kube-tools/etcd-backup` | members, snapshots | defragment, snapshot, prune | health looked at once for a loop |
| MCP request loop | `llm/toolhive/{platform,wiki}-mcp/server/*.py` | the pipe, the call in hand | JSON-RPC over stdio, twelve tools | a failure anywhere in a tool is still one answer; lines that are no requests; a pod killed with lines in the pipe |
| Talos upgrade | `.taskfiles/Talos/scripts/upgrade.sh` | node, Flux suspension | wait, suspend, upgrade, resume | waits that never end |

(`downloads/...`, `llm/...` and the like are under `kubernetes/apps/`.) The other
components, with the reason each is left out, are in `PROJECT.json`: hooks,
one-off scripts, notebooks, workflows, and the YAML itself.

How they interact. The Strapi CMS holds the arms that the bandit service reads; the
bandit service and the Dagster refit share Dragonfly and the reward log, and nothing
else. A sync copies Strapi's active arms into the service's memory and seeds their
counters. wiki-mcp reads over HTTP the volume the generator writes. The dedupe rewrites
files Bazarr owns and Lingarr translates, and quota-topup, which starts Lingarr's runs
and reads MiniMax's quota from an exporter's samples, pauses for it. The
verifier uses the same VolSync repositories as the restore tasks.

## The models

### StrapiSync

One pod owns the PVC. `pc` is the line of the script the pod is at, and each
command that writes is an action: `Seed`, `StampSeed`, `Decide` (the marker, when
`Reason` is not empty), `MergePackageJson`, `RemoveModules`, `CopyModules`,
`NpmInstall`, `WriteStamp`, `Unmark`, `CopyConfig`, `InstallSchema`, then `Boot` by
the second container. `nm[d]` says from which image a dependency's files came, which
is what a stamp or a version cannot tell. A command that completes is one step;
`Interrupt` and `Rollout` may strike inside it and leave any of `PartialEffect`:
some dependencies copied, `package.json` truncated, an empty stamp. `Abort` is a
command that fails every time.

Run `strapi_rollback`: three builds (5.9.2; 5.61.0 without a plugin; 5.61.0
rebuilt), any rollouts among them, one dependency added by hand, kills anywhere, from
an empty PVC or from one seeded before stamps existed. 170934 states.
`ServedTreeIsCurrent`, `HandAddedSurvive` and `NoDowngradeUnlessSwitched` relate what
runs to everything that happened to the PVC before. `Converges`: once nothing
disturbs the pod it serves, or `NeedsRepair` holds. That is a project in which a module is
missing that this image does not sync (it is older than the project), or one that is
`CutShort`: a file torn, or a part of the template missing, which no later start writes
again. `config/` is copied once (strapi-sync.sh:43), `package.json` is only edited, and
`schema.json` is installed if there is none (deployment.yaml:63-66). What Strapi makes of such
files is not in this repository: `Boot` asks for a readable `package.json` and for Strapi's
own module and may or may not happen otherwise, and only from a `ProjectWhole` is Strapi
taken to come up.

Departures. Four statements of the script's comments do not hold in every behaviour.
They stand in the module with their reasons, and TLC finds each violated when it is put
into `MCStrapiSync_rollback.cfg`; no run claims them:

- `NeverDowngrade`: a sync to the new image that was cut short is "resumed" by the older
  image after a rollback, below the version the database was migrated to.
- `InterruptedSyncStartsOver`: `package.json` is written in place; truncated, no start
  gets past `JSON.parse`.
- `ServedProjectIsWhole`: when the first `cp -a` is killed after `package.json`, no
  later start seeds again.
- `ServedTreeIsCurrent` with `LockOf <- MCSameLock`, two builds with one lock and
  different `node_modules`. `build/strapi-bootstrap/Dockerfile:56` removes packages
  after the lock was written, so such builds exist. `LockPinsTree` states the
  assumption.

### Bandit

`store[a][r]` is the counter in Dragonfly that a reward `r` increments (0 when the key
is missing), `log[a][r]` the rows in the lookback window. A handler goes through the
steps of `Then`: increment, then log, then idle; `HandlerFails` covers Dragonfly,
Postgres and the exhausted pool. A refit is `Fetch`, `Refit`, `Write` (one MULTI/EXEC),
and any number overlap. MCMC is an integer error: what is written is the logged count
plus a prior of 2, off by at most `Drift`, and by the opposite on the other counter
(`Shift`), at least 1. `Flush` is Dragonfly's restart (it persists nothing) and
stands for a failover to an empty replica too. With `Resends`, the client sends a
command again after a lost reply, as redis-py does from 6.0 on.

Runs: `bandit_safety`, two threads, two refits, two rewards of each kind:
`NeverOvercounts`, no interleaving counts a reward twice. A mutant that logs before it
counts breaks it. `bandit_live`: with resends, `CatchesUp`: rewards that a slow refit
overwrote are back once refits run undisturbed. Two
definitions are violated and no run claims them: `SchemaRetried` (without the table no
reward is logged until a restart, whatever `main.py:51` tells the log) and
`ConjugateUpdate` (a reward for a missing key, which `INCR` makes 1 while a select
already reads 1).

### BanditArms

The side of the service that selects. One experiment: `strapi[a]` is the version of an
arm that is active and published, `cache` is `_arm_cache` of the experiment and `cached`
whether it has one, `seeded` the arms with counters. Each thread is at a step of
`_sync_arms_from_strapi` or of `select`: `Request`, `Fetch` (one page), `Check` and
`AddExperiment` (the test for a missing experiment and the assignment after it, between
which another thread may be), then `Add` and `Seed` per arm, `Done`, `Look`, `Draw`. The
sync at the start is the same steps on thread `Boot`. `Edit` is Strapi's editors;
`Fetch(t, TRUE)` a Strapi that does not answer, which yields no arms and no error;
`DragonflyFails`, `Restart` and `Flush` the rest. `GET /arms` changes nothing and is left
out.

Run `bandit_arms`: two threads, two arms, two edits, two faults, 1.04 million states.
`SelectsWhatWasLive`: an arm that is selected was on at some time since the service
started. More does not hold, because arms are only ever added: one that is turned off is
selected until a restart. `CachedIsSeeded`: a cached arm has its counters, unless a
thread is about to seed it or a fault is to blame; without them `INCR` starts from 0.
`NotFoundMeansNone`: a 404 has a reason, in a step between two threads that both found
the experiment missing. `SyncTakes`: a sync that asked Strapi while no older one was under
way leaves the cache as Strapi is, whatever syncs and selects begin after it, until somebody
edits or something fails. `ahead` remembers that such a sync was made.

There is no liveness here, because nothing in the repository asks for a sync: the docstring
of `/sync` (main.py:161) says that Dagster does so periodically, but bandit-pipeline has a
refit job and its schedule only (definitions.py:12-25), and Dagster's helmrelease.yaml:54-58
has bandit-pipeline switched off. An experiment that is cached is not synced by a select. So
what a slow sync has written over a newer one, the case that `SyncTakes` leaves out, stays
until somebody calls `/sync` or the service restarts.

Seen while modelling: `/arms` iterates over the items of a dictionary that another thread may
add to, which Python answers with an error; and a page holds 100 arms,
of which Strapi returns the first page only (`PageSize`: with more active arms than that,
the others are never cached).

### VolsyncVerify

Objects of a target share one name whichever run makes them, so `pvc[t]`, `rd[t]` and
`pod[t]` are shared by the runs. `job[j]` is the step of a run: `Check`, three deletes,
`Create`, `RestoreDone` or `RestoreFails`, `StartPod`, `PodEnds` or `PodTimesOut`,
`Verdict`, deletes again; `Term` is the trap, `Kill` is `activeDeadlineSeconds` or the
node. VolSync's mover and the check pod act on their own (`MoverStarts`, `MoverDone`,
`MoverFails`, `CheckRuns`, `Vanish`), and the pod remembers what it had read and whose
restore that was. `check.py` is what it may answer for an empty, a half-restored or a
complete volume.

Runs: `volsync_forbid`, two scheduled runs one after the other, one or two targets,
killed anywhere, with deletes that work: `PassIsVerified` (a PASS is about what this
very run restored, completely), `SuccessMeansAllPassed`, `NothingLeftUnlessKilled`,
`RunsEnd`. `volsync_faults`, a run by hand beside a scheduled one, deletes that fail:
`PassNeedsRestore`. Deadlock is not checked in these: the runs are finite.

What does not hold, found with the same modules: `PassIsVerified` with a run made by
hand on the same target (its pod starts on the PVC the other has just begun to restore
into) or with `DeleteFails = TRUE` (`kubectl apply` adopts what was not deleted);
`NothingLeft` after a kill.

### RepoWiki

One repository (as `repos.txt` lists one). `Contents` stands for what a page is made
from: title, focus and files, and so for its `source_hash`. `Start` looks at HEAD,
`Plan` fetches the tarball (HEAD may have moved) and keeps or remakes the plan, then per
page `KeepPage`, `WritePage` or `FailPage`, then `PagesDone`, the two renames
`SwapOut` and `SwapIn`, `WriteManifest`, `Mark`. `Die` is a kill or an exception at
any step; inside `write_text` it leaves the file unreadable. wiki-mcp is
`ReadManifest`, `PageText`, `Reply`: two HTTP requests, the cache keyed by
`generated_at`. `generated_at` and mtimes are numbers of regenerations. Reverts make
contents come back, which is what tells hashes from commits. A behaviour begins with an
empty volume, or with pages from before there was a manifest.json, of any content, their
commit marked done or not. The next run adopts those as current (configmap.yaml:278-281).

Run `wiki_nightly`: two pages, two contents, two commits beyond the first (so that one may
revert the other), one fault, a reader in between. 4.2 million states; `MCRepoWiki` has one
of the starts that only a renaming of pages and contents tells apart. `NeverOlderThanAnnounced`: the order of the swap
and the manifest, and of the reader's two requests, never lets an old page pass under
a new stamp. `CacheIsCoherent`, `DoneIsCurrent` (HEAD marked done was really used, for
every page but an adopted one: generation 0), `FailureKeepsOldPage`, `CatchesUp`. That
adopted pages are marked done although they were made from some other commit is what the
comment in the code wants ("everything matches", 279-280): it lasts until their files change.
Two of the properties have the exception `~exposed`: a run that died between the swap and the
manifest. It leaves new pages under old hashes, so that a commit that reverts the one they
were made from passes for no change, and HEAD is marked done with pages that were not made
from it; after a first run it leaves pages under no hash, which the next run adopts. With the
exception, `DoneIsCurrent` says nothing of this hazard; without it, it is violated.
`wiki_retry` (violation): a page that fails the first time it is planned is left out
of the manifest, from which the next run takes its plan, so HEAD is marked done
without it.

### SubtitleDedupe

A subtitle is its text (a number) and its form. A run is `Plan` or `Unreadable` per
file, `AskLingarr`, then per file `BackUp` and `Replace`; `Die` may cut a copy short.
Bazarr is `Download` and `Delete`, at any moment. The clock has three phases: the
pause (the dedupe's hour until :45), the slot (:45 to :50, when the run is started),
and the rest, when Lingarr's schedule and quota-topup may ask for translations.
Assumed, and written down at the clock's actions: what was active when the pause began
is done by :45, and a run has looked at Lingarr by :50. Translations requested from
Lingarr's own pages are not modelled.

Run `dedupe_beside`: two files, three subtitles, two faults, 522384 states.
`TextsSurvive` (a rewrite keeps the text, unless somebody changed the file since it
was read), `OriginalKept` (what the first rewrite replaced stays in `--backup-dir`,
unless it is spoiled), `Collapses` (Lingarr's askers cannot starve the dedupe; without
the pause they do). `TypeOK` says that no subtitle is ever torn. The definition
`NothingWrittenWhileBusy` is violated, so no run claims it: Lingarr is looked at once,
and the pause ends while files are being rewritten. `OriginalKept` needs its exception: a copy cut short by a kill is there
under its name, so the next run takes it for the backup and rewrites the original; and
a backup left by a run that died, of a subtitle Bazarr has replaced since, is never
renewed.

### CueMerge

What `SubtitleDedupe` takes for granted of one file: `parse`, `dedupe`, `render` and
`plan`. A block has two times and a body, or is no cue (`Other`); times are hours,
minutes, seconds and milliseconds as written, so one moment can be written in several
ways. `Read` and `Skip` are the thresholds on cues and density, `Merge(i)` one turn of
the loop in `dedupe` (the cue that `sorted` puts next, into the open run of its text or
into a new one), `Decide` the sorted runs, the check of what was rendered, and the
rewrite. Runs of the tool follow one another on the same file.

Run `cuemerge`: every file of up to three blocks over four times and four bodies (two of
which are one text, one blank), 924 thousand states; cues may overlap, be nested, out of
order or end before they start. `KeepsEveryCue` and `AddsNoTime` are the promise that a
rewrite only merges: nothing leaves the screen and nothing comes onto it, up to the gap
of 120 ms. `LeftAlone`: a file that was rewritten is not rewritten again. That is not
plain: a rewritten file passes the density test or not, but merging it merges nothing.

### RpcService and McpServer

`RpcService` is what a client may count on: a request is answered once, in the order of
the requests, until the session breaks. `McpServer` is the loop of `platform_mcp.py` and
`wiki_mcp.py`, which is the same code: `Skip`, `Respond` (an answer without a tool),
`Begin` (the tool's function starts), `Get(o)` (a GET that came to outcome `o`: fine, JSON
of another shape, no JSON, an error status, no answer, a body that breaks off), `Finish`,
`Die` (a line that ends the process) and `Kill`. Each tool says which arguments it fails
for before it makes a GET, which GETs it makes, and what each outcome makes of the answer;
the tables behind the tools are data, so an argument names one thing in them ("known") or
not. How many wikis a manifest has is open at every reading of it: `_resolve` refuses a
`wiki_read` without a repository when there is not just one (wiki_mcp.py:67-70), and a bare
name that two repositories share is no "known" one (73-76).

Run `mcp`: either server, any three of 38 lines (`MCShapes`: everything the loop tells
apart and, per tool, calls that follow its schema and calls that do not), a kill at any
moment, 3.7 million states. `Implements` is the refinement, with its liveness: `owed` is
mapped to the requests in the pipe and in hand, `told` to the ids that went out.
`AdvertisedWorks`: a call that follows `tools/list` gets through, so the schema in `TOOLS`,
`HANDLERS` and the functions' own arguments agree, for all twelve tools. It gets the answer
if its arguments name one thing each, no GET goes wrong and, for `wiki_read`, a repository
is given or the manifest has just one: the schema does not require `repo`, but says that it
is "optional when there is only one wiki" (188-189), and so does the property. Deadlock is not
checked: when all lines are sent and answered there is nothing left to do.

Seen while modelling, and allowed for by the properties: a JSON-RPC batch ends the
process, though the servers offer protocol 2025-03-26, which has batches (`.get` raises
again inside the `except`); a `TypeError` inside a tool is reported as bad arguments; a
request without an id is answered, with id null; `wiki_search` skips pages it cannot get
without telling; `_get` of `platform_mcp.py` says "Never raises", but reading the body of
an `HTTPError` can (outcome `torn`).

### QuotaTopup

A tick is `Begin` (hour, age of the sample, week), `ReadWindow` (window, the burn horizon,
the brake after 429s), `Count` (Lingarr's active requests, and how many runs that makes),
`Start` per run; `Fault` ends it at any of its calls, one that starts a run perhaps after
Lingarr heard it, and the Job tries again at once. Around it: `Translate` spends the quota,
`Scan` is a run that has found its items some time after it was asked for, `OwnRun` is
Lingarr's own schedule, `Spend` any other caller of MiniMax (Lingarr's helmrelease.yaml:41-43
says that the window is shared with them), `Sample` the exporter, `WindowReset` and `Time`
the clock, `GiveUp` a request that hits the cap. Quotas and prices are whole points; how old
a sample is shows as the items done since (`unseen`) and what others spent since (`aside`).

Run `topup`: a window and a week of 5, runs of 2, a failed call, and one run of Lingarr's
own or one point spent by others per tick, 1.9 million states. `WorkFits`: what is queued,
or will be, can be paid for from what is left of the window and of the week. `QueueBound`:
and is no more than `QUEUE_TARGET`. `NoneLost`: so no request fails for want of quota. The
first two are bounds with an error term, and the third holds when there is none:

- `hidden`, of all three: runs that a tick could not count, because they had been asked for
  and had not queued anything yet. There are some after a failed call that was heard (the
  Job's retry comes at once) and when Lingarr's schedule fires at the same minute as the
  tick; otherwise the five minutes between ticks are enough.
- `taken`, of `WorkFits` and `NoneLost`: what others spent after the samples that the last
  tick to start runs used. The code has no answer to this: a tick that finds the quota
  spent starts nothing more, and what is queued already may fail. So neither property says
  that requests are safe beside other callers; they say that the work is overdrawn by no
  more than what those spent. What was spent before a sample is seen, and not excepted.

`Spends`: near its end the week is spent down to less than a
run above its floor; an empty queue gets a run to try, without which a last small
remainder would never start one.

Assumed (`QuotaAssumption`): an item is reckoned at no more than `WINDOW_PTS` and
`WEEKLY_PTS` (`WindowCost`, `WeekCost`), and the floors pay, at that reckoning, for what is
done between a sample and its use. For the window that is 75 items, of the 900 s after
which a sample is refused and of the tick itself, at five a minute: 9.75 of the floor's 10
at 0.13 points each. The 0.13 is the average that was measured (quota-topup.py:22-25) and
not a maximum: an item may cost more, and 75 of 0.25 points would be 18.75. What an item
costs beyond what it is reckoned at is therefore a `Spend` in the model, and part of
`taken`: the properties hold for expensive items as they do beside other callers, with the
same error term. What a tick has asked for is through by the next tick (`Begin`), unless the
Job failed.

## Bounds

Every bound is a constant of the module, or the instance:

- StrapiSync has no counters; the instance's three builds cover an upgrade, a
  downgrade and a rebuild of one version, and one dependency of each kind (Strapi's,
  dropped, by hand).
- Bandit: `MaxRewards` per arm and kind, and `IncrUnanswered` stops once the counter
  is above it. Arms are independent but for the one transaction; two threads and two
  refits give every overlap of two.
- VolsyncVerify: each run happens once, so two runs are the leftovers of one met by
  another, or two at once.
- RepoWiki: `MaxCommits` = 2 and two contents make a change and its revert; `MaxFaults` = 1
  is a page that fails or a run that dies.
- BanditArms: `MaxEdits`, `MaxFaults`. Two threads have every race of a check and an
  assignment; two arms, one that is cached and one that is not. `PageSize` stands for 100.
- CueMerge: `MaxBlocks` = 3, so that two cues are merged into a run that a third touches
  or not, or one of another text lies between. The four times are on both sides of a full
  minute, one of them in two ways (`00:00:60` and `00:01:00`), with a gap of 1 ms.
- McpServer: `MaxLines` = 3 lines, one in hand and two behind it; `MaxPages` = 2 pages of a
  search; `MaxKills` = 1.
- QuotaTopup: `MaxFaults`, `MaxOutside` (runs of Lingarr's schedule, and points that others
  spend, until a tick starts a run), `MaxUnseen` = 1 item with a floor of 1. Every quota up to its full one is a start.
- SubtitleDedupe: `MaxTexts` over all files, `MaxFaults`. Three texts are one file
  rewritten, replaced by Bazarr and rewritten again, beside a second file.

The theorems hold without the instances' bounds.

## Fairness

Only what the code or its scheduler drives is fair: the kubelet restarts the Strapi
pod, and Strapi comes up if the project is whole; Dagster's hourly schedule starts refits (definitions.py:20-25; at this
commit its helmrelease.yaml:54-58 has the code location commented out, so `CatchesUp` of Bandit
is about the program as it is built, with its schedule on); `verify.sh` polls against deadlines of its
own, whatever the cluster does (so its steps are fair and VolSync's and the pod's are
not); the wiki's CronJob comes every night; the dedupe's CronJob comes every six hours,
and Lingarr finishes what it has begun; the MCP loop never waits but for a line or for a GET, and every GET has
a timeout; the quota tick comes every five minutes, Lingarr's workers work on what is
queued, its runs end, the exporter samples and the window resets. Kills, failures, rollouts, commits, downloads
and rewards are never obliged to happen, and the liveness properties of components that
these can undo have the form "once they stop" (`<>[][Calm]_vars => ...`).

## Proofs

| Theorem | For every | Needs |
|---|---|---|
| StrapiSync `TypeCorrect`, `HandAdded`, `Downgrade`, `EndsUp` | images, locks, templates, dependencies, rollouts | |
| StrapiSync `CurrentTree` | the same | `LockPinsTree`: builds with one lock have one tree, which a build may break (see Departures) |
| Bandit `TypeCorrect`, `RefitHeals`, `CatchUp` | arms, threads, refits, drift, clients | |
| Bandit `NoDoubleCount` | the same | `~Resends` |
| BanditArms `TypeCorrect`, `OnlyLive`, `Counters`, `NoLostSelect`, `SyncLands`, `StaysCaughtUp` | arms, threads, page sizes, edits, faults | |
| VolsyncVerify `TypeCorrect`, `NeedsRestore`, `AllPassed`, `RunsShrink`, `RunsBounded` | runs, by hand or not, failing deletes | |
| VolsyncVerify `Verified`, `LeavesNothing` | runs and targets | `~DeleteFails`, no run by hand |
| RepoWiki `TypeCorrect`, `Announced`, `DoneCurrent`, `Coherent`, `OldPageKept`, `DoneIsStill` | pages, contents, commits, faults, pages to adopt | |
| RepoWiki `HeadIsReached` | the same | finitely many pages |
| CueMerge `CueTypeCorrect`, `EveryCueKept`, `NoTimeAdded`, `AloneForGood` | files of any length, times, texts, gap, thresholds | |
| McpServer `TypeCorrect`, `Advertised`, `ServesInOrder`, `OneAnswer`, `EveryLineEnds` | lines, clients, outcomes, kills | |
| QuotaTopup `TypeCorrect`, `AlwaysFits`, `AlwaysBounded`, `NeverLost`, `StartsAll` | quotas, floors, prices, sizes, faults, spending by others | `QuotaAssumption` |
| SubtitleDedupe `TypeCorrect`, `Originals`, `TextsKept` | files, texts, faults | |
| SubtitleDedupe `NotStarved` | the same | finitely many files |

Each rests on an invariant that is stronger than what it proves; one lemma per action
shows that the action keeps it. `CueMerge` and `SubtitleDedupe` share
`SubtitleDedupe_proofs`.

Liveness under fairness is outside what TLAPS proves. What is proved of it is the part
that is about steps: a number that the fair steps lower and nothing else raises, or a
state that only a disturbance ends. TLC checks on the instances that fairness then does
the rest.

| Liveness property | What is proved |
|---|---|
| StrapiSync `Converges` | `EndsUp`: `StepsLeft` falls with each step of the script or of Strapi unless the project is `Stuck`, which implies `NeedsRepair` and lasts until a kill or a rollout; what boots is whole |
| Bandit `CatchesUp` | `CatchUp`: while only refits happen no run becomes stale, a stale one is not after two steps, and what any other writes is what the log says, for good once no stale run is left |
| VolsyncVerify `RunsEnd` | `RunsShrink`, `RunsBounded`: at most twelve steps for a target and three more |
| RepoWiki `CatchesUp` | `HeadIsReached`: `GeneratorLeft` is 0 exactly when HEAD is marked done, and only pushes and faults raise it; `DoneIsStill` |
| SubtitleDedupe `Collapses` | `NotStarved`: a run that is left alone meets no translation, ends, and leaves no dense file |
| McpServer `Implements` | `EveryLineEnds`: `Work` falls with each step of the loop; only a new line raises it |
| QuotaTopup `Spends` | `StartsAll`, of a tick that gets to count; that ticks do, and that runs find items, stays with TLC |

- StrapiSync. `StageInv` says what each line of the script may count on; `StampInv`
  that without the marker a stamp vouches for `node_modules`; `HandInv` and `DbInv` the
  same for hand-added dependencies and the database, with the marker as the escape. That
  is what the script's comments claim of marker and stamp, made inductive. The order of
  versions is proved to be one. `Stuck` names the projects that no run of the script
  repairs: those that are `CutShort`, or have modules missing that no sync of this image
  would bring. What boots unstuck is a `ProjectWhole`.
- Bandit. `NeverOvercounts` is not inductive: a reward may be on its way. `Cell`
  charges, for each arm and kind, the threads that have yet to count or to log against
  the posted rewards, in the log, the store, and what each refit carries. The steps of
  a thread move it between two cardinalities, so the proof rests on
  `FiniteSetTheorems`. A client that resends breaks only the store's part of `Cell`: so
  what the next refit writes is right again (`RefitHeals`).
- BanditArms. `LiveOK` and `LiveShared`: whatever is in Strapi, in the cache or in a
  thread's hands was on at some time since the start. `NotFoundMeansNone` is about two
  threads: one that looks into an empty place of the cache either fetched nothing
  (`SyncOK`) or another is about to fill it (`FillInv`). `AheadInv` makes `SyncTakes`
  inductive: it is about the threads too, none of which carries a version other than
  Strapi's. `Settled` says the same of a cache that is all that Strapi has, and lasts until
  an edit or a fault.
- VolsyncVerify. `RestoreInv` follows a RUN_ID from the ReplicationDestination to the
  PASS. `Left` numbers the steps a run has yet to take, and `ThenOK` says which deletes
  lead where. `OwnInv` is about the one active run: what it has created is its own, and
  nothing of an earlier run is left beyond the deletes. `SoundInv` has the targets a run
  without a failure has passed so far, at each of its steps; `LeftInv`, with `OwnInv`,
  what each delete has already swept away.
- RepoWiki. `AgeInv` orders the ages of page, manifest, stage, snapshot and cache;
  `CommitInv` ties the mark to the contents of HEAD; `MatchInv` says that a manifest
  entry describes the page on disk except inside the swap, or vouches for an adopted one; `StampInv` and `CacheInv`
  that one stamp belongs to one text. `KeptInv` has the pages that were dealt with, staged
  whenever the volume has them. `CleanInv`: a run that failed no page has an entry for
  each, so it ends in a mark; `GeneratorLeft` charges any other with one run more.
- SubtitleDedupe. `PlanInv`: a plan is of the file as it is, unless it was raced.
  `CopyInv`: until the first rewrite a copy is of the file as it is, unless spoiled.
  `QuietInv`: in the slot Lingarr has nothing active, because in the pause nobody joins
  what drains. `Rids`: a run that began has planned, or will scan, every dense file.
- CueMerge. The runs cover the cues seen (`CoverInv`), show only when one of them did
  (`TimeInv`), and those of one text are further apart than the gap (`ApartInv`), because
  the cues come in order (`OrderInv`) and the open run of a text is its last (`OpenInv`).
  So a file that was written is clean (`CleanInv`): merging it makes as many runs as cues,
  and the reduction is never reached. That a time is parsed to what was formatted is a
  lemma. `CueTypeOK` is proved and not part of the run, which has no invariant that could
  fail before a property does.
- McpServer. `OrderInv` keeps the ids in the pipe ascending, behind the one in hand;
  `ServesInOrder` maps each step of the loop to one of `RpcService` or to none. `CallInv`
  says what a call that follows its schema may have come to; `ManifestFirst` bounds the
  GETs of a call, which a manifest may add to; that `TOOLS` and `HANDLERS`
  agree is one lemma (`Agree`) over both servers.
- QuotaTopup. `WorkFits` is not inductive: a tick has decided on runs it has yet to start.
  `Fits` and `Shallow` count those too, `SeenInv` bounds how far a sample is behind by
  what was done and what others spent since, and `TickInv` the same for what a tick has
  read. `HadWindow` and `HadWeek` put back what others spent unseen. `ItemsFit` is the
  arithmetic: what the floors leave is paid for, however late the sample. `StartsAll` is
  its converse, that a whole quotient is the last multiple that fits.

Model-checked only: the liveness properties, up to the steps in the table above. Every
invariant and every other action property of the passing runs is proved.

## Not modelled

Inside modelled components: the text of pages, prompts and the choice of files, git
history and the wiki's index; the sampler; the parsing of subtitles; the contents of
check pods' databases; the formatting of the MCP tools' answers and their curated tables;
the prices of single translations; Kubernetes beyond the objects named. The deletion of a PVC is
one step. A wiki plan that changes a page's focus counts as a commit.
The components that are left out are listed in `PROJECT.json` with the reason.

The Bandit notebook (`datasci/marimo/notebooks/bayesian_bandits.py`) is an interactive
prototype: statistics and plots, with no state that outlives a cell. The Trackinizer login
and the Tautulli hooks are one request or one file each.

## Plan

Next, each with its runs, mutants and theorems:

1. `Rotation`: the verifier's targets by day and month; every app within `count` days,
   every R2 app within as many months, month boundaries and 08/09 included, and what a
   missed first of the month costs.
2. `RestoreTask`: suspend, wipe, restore, resume, failing at any step, beside the
   hourly backup.
3. `Watchdog` (both), `ReportPruner`, `EtcdDefrag`, `TalosUpgrade`.
4. Abstract specifications that detailed modules refine: an atomic publication
   (`RepoWiki`: manifest and pages change in one step), an atomic project switch
   (`StrapiSync`) and a faultless merge (`SubtitleDedupe` over `CueMerge`), where the
   exceptions above allow it.
5. Composition: `QuotaTopup` in place of `Request` in `SubtitleDedupe`, `BanditArms` in
   place of `Seed` in `Bandit`.

A run answers one question; where a new one matters more, it takes the place of a
violation run, whose departure stays described here.
