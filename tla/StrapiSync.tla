----------------------------- MODULE StrapiSync -----------------------------
(***************************************************************************)
(* strapi-sync.sh: reconciling the Strapi project kept on a PVC with the   *)
(* template baked into the pod's image, from the pod's start until Strapi  *)
(* serves.                                                                 *)
(*                                                                         *)
(* One pod at a time owns the PVC (replicas: 1, strategy: Recreate).  Its  *)
(* init container runs the script under `set -euo pipefail`: a command     *)
(* that fails or is killed ends the run where it stands, and the restarted *)
(* pod runs the script again on whatever the PVC then holds.  The image    *)
(* may be another one by then (Renovate bumps it, a revert rolls it back). *)
(*                                                                         *)
(* A command that writes many files (cp -a, rm -rf, npm install) or        *)
(* truncates before it writes is atomic when it completes; killed, it      *)
(* leaves one of the outcomes of PartialEffect.                            *)
(***************************************************************************)
EXTENDS Naturals

CONSTANTS
    Images,         \* the image builds that are ever deployed
    VersionOf,      \* VersionOf[i]: the @strapi/strapi version of i's template
    LockOf,         \* LockOf[i]: sha256 of i's package-lock.json
    TreeOf,         \* TreeOf[i]: the content of i's node_modules
    TemplateDeps,   \* TemplateDeps[i]: what i's package.json depends on
    Deps,           \* every dependency, of a template or added by hand
    Strapi,         \* the dependency whose package.json holds the version
    Absent,         \* a dependency that is not in node_modules
    Registry,       \* a dependency npm fetched because the PVC lists it
    NoLock,         \* the value of a missing or an empty stamp
    Rollbacks       \* may a rollout bring an older version back?

Version == [1..3 -> Nat]

ASSUME ImagesAssumption ==
    /\ VersionOf \in [Images -> Version]
    /\ DOMAIN LockOf = Images
    /\ \A i \in Images : LockOf[i] # NoLock
    /\ DOMAIN TreeOf = Images
    /\ TemplateDeps \in [Images -> SUBSET Deps]
    /\ \A i \in Images : Strapi \in TemplateDeps[i]
    /\ Absent \notin Images /\ Registry \notin Images /\ Absent # Registry
    /\ Rollbacks \in BOOLEAN

VARIABLES
    image,   \* the image of the current pod
    pc,      \* where the pod is: "down", a line of the script, "boot", "serving"
    files,   \* files[p]: the project's entries, "absent", "torn" or "whole"
    deps,    \* the dependencies package.json lists (none when it is torn)
    nm,      \* nm[d]: the image d's files in node_modules came from
    stamp,   \* .template-lock.sha256
    marker,  \* does .upgrade-in-progress exist?
    extras,  \* $EXTRAS of the running script
    hand,    \* dependencies somebody added to the project by hand
    db,      \* the newest Strapi version whose migrations have run
    switched \* history: did an image change meet an unfinished sync?

pvc  == <<files, deps, nm, stamp, marker>>
vars == <<image, pc, files, deps, nm, stamp, marker, extras, hand, db, switched>>

TemplateParts == {"package.json", "config", "src"}
Parts == TemplateParts \union {"schema"}

NoVersion == [n \in 1..3 |-> 0]

\* strapi_version $APP_DIR: 0.0.0 when node_modules has no readable Strapi.
AppVersion ==
    IF nm[Strapi] \in Images THEN VersionOf[nm[Strapi]] ELSE NoVersion

\* The first of the three numbers that differs decides.
IsNewer(a, b) ==
    \E n \in 1..3 : a[n] > b[n] /\ \A m \in 1..(n - 1) : a[m] = b[m]

\* MUTANT: the copy replaces node_modules instead of overlaying it.
CopiedAlone(S) == [d \in S |-> image]

\* node_modules after d's files were copied, removed or fetched, d \in S.
Copied(S)  == [d \in Deps |-> IF d \in S THEN image ELSE nm[d]]
Removed(S) == [d \in Deps |-> IF d \in S THEN Absent ELSE nm[d]]
Fetched(S) == [d \in Deps |-> IF d \in S THEN Registry ELSE nm[d]]

ModulesComplete == \A d \in deps : nm[d] # Absent

\* Nothing that Strapi starts from is cut short or missing.
ProjectWhole == (\A p \in Parts : files[p] = "whole") /\ ModulesComplete

Init ==
    /\ image \in Images
    /\ pc = "down"
    /\ stamp = NoLock
    /\ marker = FALSE /\ switched = FALSE
    /\ extras = {} /\ hand = {}
    /\ \/ /\ files = [p \in Parts |-> "absent"]     \* an empty PVC
          /\ deps = {}
          /\ nm = [d \in Deps |-> Absent]
          /\ db = NoVersion
       \/ /\ files = [p \in Parts |-> "whole"]      \* seeded before the stamp
          /\ deps = TemplateDeps[image]             \* existed
          /\ nm = [d \in Deps |-> IF d \in deps THEN image ELSE Absent]
          /\ db = VersionOf[image]
-----------------------------------------------------------------------------
(* The script.                                                             *)

Start ==
    /\ pc = "down"
    /\ pc' = IF files["package.json"] = "absent" THEN "seed" ELSE "decide"
    /\ UNCHANGED <<image, pvc, extras, hand, db, switched>>

Seed ==
    /\ pc = "seed"
    /\ files' = [p \in Parts |-> IF p \in TemplateParts THEN "whole" ELSE files[p]]
    /\ deps' = TemplateDeps[image]
    /\ nm' = Copied(TemplateDeps[image])
    /\ pc' = "stampSeed"
    /\ UNCHANGED <<image, stamp, marker, extras, hand, db, switched>>

StampSeed ==
    /\ pc = "stampSeed"
    /\ stamp' = LockOf[image]
    /\ pc' = "decide"
    /\ UNCHANGED <<image, files, deps, nm, marker, extras, hand, db, switched>>

\* MUTANT: any other version is a reason, an older one too.
ReasonIsAnyChange == marker \/ VersionOf[image] # AppVersion \/ LockOf[image] # stamp

\* MUTANT: the stamp is not compared.
ReasonWithoutStamp == marker \/ IsNewer(VersionOf[image], AppVersion)

\* $REASON is not empty: resume, upgrade or refresh.
Reason ==
    \/ marker
    \/ IsNewer(VersionOf[image], AppVersion)
    \/ VersionOf[image] = AppVersion /\ LockOf[image] # stamp

\* MUTANT: the marker is not created.
DecideUnmarked ==
    /\ pc = "decide"
    /\ pc' = IF Reason THEN "merge" ELSE "config"
    /\ UNCHANGED <<image, files, deps, nm, stamp, marker, extras, hand, db, switched>>

Decide ==
    /\ pc = "decide"
    /\ IF Reason THEN marker' = TRUE /\ pc' = "merge"
                 ELSE marker' = marker /\ pc' = "config"
    /\ UNCHANGED <<image, files, deps, nm, stamp, extras, hand, db, switched>>

\* MUTANT: the template's package.json replaces the project's.
MergeReplaces ==
    /\ pc = "merge"
    /\ files["package.json"] = "whole"
    /\ extras' = deps \ TemplateDeps[image]
    /\ deps' = TemplateDeps[image]
    /\ pc' = "remove"
    /\ UNCHANGED <<image, files, nm, stamp, marker, hand, db, switched>>

MergePackageJson ==
    /\ pc = "merge"
    /\ files["package.json"] = "whole"
    /\ extras' = deps \ TemplateDeps[image]
    /\ deps' = deps \union TemplateDeps[image]
    /\ pc' = "remove"
    /\ UNCHANGED <<image, files, nm, stamp, marker, hand, db, switched>>

RemoveModules ==
    /\ pc = "remove"
    /\ nm' = Removed(Deps)
    /\ pc' = "copy"
    /\ UNCHANGED <<image, files, deps, stamp, marker, extras, hand, db, switched>>

CopyModules ==
    /\ pc = "copy"
    /\ nm' = Copied(TemplateDeps[image])
    /\ pc' = IF extras = {} THEN "stamp" ELSE "npm"
    /\ UNCHANGED <<image, files, deps, stamp, marker, extras, hand, db, switched>>

NpmInstall ==
    /\ pc = "npm"
    /\ nm' = Fetched(extras)
    /\ pc' = "stamp"
    /\ UNCHANGED <<image, files, deps, stamp, marker, extras, hand, db, switched>>

WriteStamp ==
    /\ pc = "stamp"
    /\ stamp' = LockOf[image]
    /\ pc' = "unmark"
    /\ UNCHANGED <<image, files, deps, nm, marker, extras, hand, db, switched>>

Unmark ==
    /\ pc = "unmark"
    /\ marker' = FALSE
    /\ pc' = "config"
    /\ UNCHANGED <<image, files, deps, nm, stamp, extras, hand, db, switched>>

\* cp into $APP_DIR/config: server.ts and plugins.ts are rewritten on every start, and
\* nothing else there is: files["config"] is about the others.
CopyConfig ==
    /\ pc = "config"
    /\ files["config"] # "absent"
    /\ pc' = IF files["schema"] = "absent" THEN "schema" ELSE "boot"
    /\ UNCHANGED <<image, pvc, extras, hand, db, switched>>

InstallSchema ==
    /\ pc = "schema"
    /\ files' = [files EXCEPT !["schema"] = "whole"]
    /\ pc' = "boot"
    /\ UNCHANGED <<image, deps, nm, stamp, marker, extras, hand, db, switched>>

\* A command that fails every time: JSON.parse of a torn package.json, cp into
\* a config directory that does not exist.
Abort ==
    /\ \/ pc = "merge" /\ files["package.json"] # "whole"
       \/ pc = "config" /\ files["config"] = "absent"
    /\ pc' = "down"
    /\ extras' = {}
    /\ UNCHANGED <<image, pvc, hand, db, switched>>
-----------------------------------------------------------------------------
(* The cms container and the people around it.                             *)

\* npm run build && npm run start.  With a module missing, or a file cut short or missing in
\* src/, config/ or the schema, it may come up or not: Fairness obliges only a whole project.
Boot ==
    /\ pc = "boot"
    /\ files["package.json"] = "whole"
    /\ nm[Strapi] # Absent
    /\ db' = IF IsNewer(AppVersion, db) THEN AppVersion ELSE db
    /\ pc' = "serving"
    /\ UNCHANGED <<image, pvc, extras, hand, switched>>

\* The container restarts in place: its init container does not run again.
Crash ==
    /\ pc = "serving"
    /\ pc' = "boot"
    /\ UNCHANGED <<image, pvc, extras, hand, db, switched>>

AddByHand(d) ==
    /\ pc = "serving"
    /\ d \notin deps
    /\ deps' = deps \union {d}
    /\ nm' = Fetched({d})
    /\ hand' = hand \union {d}
    /\ UNCHANGED <<image, pc, files, stamp, marker, extras, db, switched>>

\* What the PVC may hold when the command at pc did not complete.
PartialEffect ==
    \/ /\ pc = "seed"
       /\ \E S \in SUBSET TemplateDeps[image] : nm' = Copied(S)
       /\ \E P \in SUBSET TemplateParts, W \in SUBSET TemplateParts :
             files' = [p \in Parts |-> IF p \notin P THEN files[p]
                                       ELSE IF p \in W THEN "whole" ELSE "torn"]
       /\ deps' = IF files'["package.json"] = "whole" THEN TemplateDeps[image] ELSE {}
       /\ UNCHANGED <<stamp, marker>>
    \/ /\ pc = "merge" /\ files["package.json"] = "whole"
       /\ files' = [files EXCEPT !["package.json"] = "torn"]
       /\ deps' = {}
       /\ UNCHANGED <<nm, stamp, marker>>
    \/ /\ pc = "remove"
       /\ \E S \in SUBSET Deps : nm' = Removed(S)
       /\ UNCHANGED <<files, deps, stamp, marker>>
    \/ /\ pc = "copy"
       /\ \E S \in SUBSET TemplateDeps[image] : nm' = Copied(S)
       /\ UNCHANGED <<files, deps, stamp, marker>>
    \/ /\ pc = "npm"
       /\ \E S \in SUBSET extras : nm' = Fetched(S)
       /\ UNCHANGED <<files, deps, stamp, marker>>
    \/ /\ pc \in {"stampSeed", "stamp"}
       /\ stamp' = NoLock
       /\ UNCHANGED <<files, deps, nm, marker>>
    \/ /\ pc = "schema"
       /\ files' = [files EXCEPT !["schema"] = "torn"]
       /\ UNCHANGED <<deps, nm, stamp, marker>>
    \/ UNCHANGED pvc

\* The pod is killed, or a command fails (no space, no network): same image.
Interrupt ==
    /\ pc # "down"
    /\ PartialEffect
    /\ pc' = "down"
    /\ extras' = {}
    /\ UNCHANGED <<image, hand, db, switched>>

\* Flux applies another image: the old pod is gone before the new one starts.
Rollout(i) ==
    /\ i # image
    /\ Rollbacks \/ ~IsNewer(VersionOf[image], VersionOf[i])
    /\ PartialEffect
    /\ image' = i
    /\ pc' = "down"
    /\ extras' = {}
    /\ switched' = (switched \/ marker)
    /\ UNCHANGED <<hand, db>>

Script ==
    \/ Start \/ Seed \/ StampSeed \/ Decide \/ MergePackageJson \/ RemoveModules
    \/ CopyModules \/ NpmInstall \/ WriteStamp \/ Unmark \/ CopyConfig
    \/ InstallSchema \/ Abort

Disturbance == Interrupt \/ (\E i \in Images : Rollout(i))

\* What goes on when nothing disturbs the pod.
Calm == Script \/ Boot \/ (\E d \in Deps : AddByHand(d))

Next == Calm \/ Crash \/ Disturbance

\* The kubelet restarts what stopped, so the script goes on as long as nobody
\* interrupts it, and a cms container whose project is whole comes up.  Kills,
\* rollouts and hand edits are nobody's obligation.
Fairness == WF_vars(Script) /\ WF_vars(Boot /\ ProjectWhole)

Spec == Init /\ [][Next]_vars
FairSpec == Spec /\ Fairness
-----------------------------------------------------------------------------
(* Properties.                                                             *)

TypeOK ==
    /\ image \in Images
    /\ pc \in {"down", "seed", "stampSeed", "decide", "merge", "remove", "copy",
               "npm", "stamp", "unmark", "config", "schema", "boot", "serving"}
    /\ files \in [Parts -> {"absent", "torn", "whole"}]
    /\ deps \in SUBSET Deps
    /\ nm \in [Deps -> Images \union {Absent, Registry}]
    /\ stamp \in {LockOf[i] : i \in Images} \union {NoLock}
    /\ marker \in BOOLEAN
    /\ extras \in SUBSET Deps
    /\ hand \in SUBSET Deps
    /\ db \in Version
    /\ switched \in BOOLEAN

Up == pc \in {"boot", "serving"}

\* Two builds with the same package-lock.json have the same node_modules.
LockPinsTree ==
    \A i, j \in Images : LockOf[i] = LockOf[j] =>
        /\ TreeOf[i] = TreeOf[j]
        /\ TemplateDeps[i] = TemplateDeps[j]
        /\ VersionOf[i] = VersionOf[j]

\* However often seeding and syncing were cut short, once the script lets
\* Strapi start from an image that is not older than what the PVC holds, every
\* module of that image's template is the image's own and nothing that
\* package.json lists is missing (strapi-sync.sh:5-14, 51-61).
ServedTreeIsCurrent ==
    Up /\ ~IsNewer(AppVersion, VersionOf[image]) =>
        /\ \A d \in TemplateDeps[image] :
              nm[d] \in Images /\ TreeOf[nm[d]] = TreeOf[image]
        /\ ModulesComplete

\* A dependency added on the PVC by hand is still listed and still installed
\* whenever Strapi runs, across any syncs, kills and rollouts (lines 68-69, 93-96).
HandAddedSurvive ==
    Up => \A d \in hand : d \in deps /\ nm[d] # Absent

\* Strapi never runs at a version older than one whose one-way migrations the
\* database already went through (line 51, deployment.yaml:16).
NeverDowngrade == pc = "serving" => ~IsNewer(db, AppVersion)

\* It never does unless an image change met an unfinished sync, however often
\* the pod was killed and rolled back otherwise (lines 51-61).
NoDowngradeUnlessSwitched ==
    pc = "serving" /\ IsNewer(db, AppVersion) => switched

\* When Strapi runs, the project was seeded as a whole (line 3).  Not when the first cp
\* was killed after package.json, so no run checks it: see NeedsRepair.
ServedProjectIsWhole == pc = "serving" => \A p \in TemplateParts : files[p] = "whole"

\* A seed, a schema install or a merge was killed inside and no later start writes the file
\* again: cp -a runs only without package.json, the schema is installed only when missing.
CutShort ==
    /\ files["package.json"] # "absent"
    /\ \/ \E p \in Parts : files[p] = "torn"
       \/ \E p \in TemplateParts : files[p] = "absent"

\* Only hand repair helps: what was cut short stays so, or a module is missing that no
\* sync will bring, as the image is older than the project.
NeedsRepair == CutShort \/ (~ModulesComplete /\ IsNewer(AppVersion, VersionOf[image]))

\* Once nothing disturbs the pod any more, Strapi ends up serving for good, or the
\* project needs repair by hand (strapi-sync.sh:39-110, deployment.yaml:60-67).
Converges ==
    <>[][Calm]_vars => <>[](pc = "serving" \/ NeedsRepair)

\* An interrupted sync of a project that has run gets finished (lines 52-53).
InterruptedSyncStartsOver ==
    <>[][Calm]_vars => (marker /\ db # NoVersion ~> ~marker)
=============================================================================
