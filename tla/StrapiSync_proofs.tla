------------------------- MODULE StrapiSync_proofs -------------------------
(***************************************************************************)
(* Proofs about StrapiSync, for every set of images, templates and hand    *)
(* edits.  Only CurrentTree needs LockPinsTree, that a package-lock.json   *)
(* determines node_modules: the script knows a dependency tree by its lock.*)
(***************************************************************************)
EXTENDS StrapiSync, TLAPS

\* The image's own template is on the PVC: listed, and installed from this very image.
OwnModules == \A d \in TemplateDeps[image] : d \in deps /\ nm[d] = image

\* i's template is on the PVC: listed, and installed from an image of i's lock.
ModulesOf(i) ==
    \A d \in TemplateDeps[i] :
        d \in deps /\ nm[d] \in Images /\ LockOf[nm[d]] = LockOf[i]

Syncing == {"merge", "remove", "copy", "npm", "stamp", "unmark"}
Synced == {"config", "schema", "boot", "serving"}

\* What each stage of the script may count on.
StageInv ==
    /\ pc \in {"seed"} => files["package.json"] = "absent"
    /\ pc \notin {"down", "seed"} => files["package.json"] # "absent"
    /\ pc \in {"seed", "stampSeed"} =>
          db = NoVersion /\ stamp = NoLock /\ marker = FALSE /\ hand = {}
    /\ pc \in {"stampSeed", "stamp", "unmark"} => OwnModules /\ ModulesComplete
    /\ pc \in Syncing => marker
    /\ pc \in {"stampSeed", "remove", "copy", "npm", "stamp", "unmark", "serving"} =>
          files["package.json"] = "whole"
    /\ pc \in {"remove", "copy", "npm"} =>
          TemplateDeps[image] \subseteq deps /\ extras = deps \ TemplateDeps[image]
    /\ pc = "npm" => OwnModules
    /\ pc = "unmark" => stamp = LockOf[image]
    /\ pc \in Synced => ~marker
    /\ pc \in Synced /\ ~IsNewer(AppVersion, VersionOf[image]) => ModulesComplete
    /\ pc = "schema" => files["schema"] = "absent"
    /\ pc \in {"boot", "serving"} => files["schema"] # "absent"

\* What the files say about each other, at any stage.
FilesInv ==
    /\ files["package.json"] = "absent" =>
          db = NoVersion /\ stamp = NoLock /\ marker = FALSE /\ hand = {}
    /\ files["package.json"] = "torn" => marker \/ (hand = {} /\ stamp = NoLock)
    /\ files["package.json"] = "whole" => Strapi \in deps

\* Without the marker, a stamp vouches that node_modules has all that is listed.
StampInv == ~marker /\ stamp # NoLock => ModulesComplete

HandInv ==
    /\ files["package.json"] = "whole" => hand \subseteq deps
    /\ ~marker => \A d \in hand : nm[d] # Absent

\* The database is never ahead of what runs, or is about to be installed.
DbInv ==
    ~switched => IF marker THEN ~IsNewer(db, VersionOf[image])
                           ELSE ~IsNewer(db, AppVersion)

IInv == TypeOK /\ StageInv /\ FilesInv /\ StampInv /\ HandInv /\ DbInv

\* With LockPinsTree, a stamp vouches for the modules of every image of that lock too.
LockInv ==
    /\ ~marker /\ stamp # NoLock =>
          \A i \in Images : LockOf[i] = stamp => ModulesOf(i)
    /\ pc \in Synced /\ ~IsNewer(AppVersion, VersionOf[image]) => ModulesOf(image)
-----------------------------------------------------------------------------
(* The version order.                                                      *)

\* is_newer spelled out: the first of the three numbers that differs decides.
LEMMA IsNewerExpanded ==
    ASSUME NEW a \in Version, NEW b \in Version
    PROVE  IsNewer(a, b) <=> \/ a[1] > b[1]
                             \/ a[1] = b[1] /\ a[2] > b[2]
                             \/ a[1] = b[1] /\ a[2] = b[2] /\ a[3] > b[3]
  <1>1. /\ 1..3 = {1, 2, 3}
        /\ 1..(1 - 1) = {} /\ 1..(2 - 1) = {1} /\ 1..(3 - 1) = {1, 2}
    OBVIOUS
  <1>2. QED  BY <1>1 DEF IsNewer, Version

\* No version is newer than itself.
LEMMA IsNewerIrreflexive ==
    ASSUME NEW a \in Version
    PROVE  ~IsNewer(a, a)
  BY IsNewerExpanded DEF Version

\* Newer than a newer one is newer.
LEMMA IsNewerTransitive ==
    ASSUME NEW a \in Version, NEW b \in Version, NEW c \in Version,
           IsNewer(a, b), IsNewer(b, c)
    PROVE  IsNewer(a, c)
  <1>1. /\ a[1] \in Nat /\ a[2] \in Nat /\ a[3] \in Nat
        /\ b[1] \in Nat /\ b[2] \in Nat /\ b[3] \in Nat
        /\ c[1] \in Nat /\ c[2] \in Nat /\ c[3] \in Nat
    BY DEF Version
  <1>2. QED  BY <1>1, IsNewerExpanded

\* Two versions neither of which is newer are the same.
LEMMA IsNewerTotal ==
    ASSUME NEW a \in Version, NEW b \in Version,
           ~IsNewer(a, b), ~IsNewer(b, a)
    PROVE  a = b
  <1>1. \A n \in 1..3 : a[n] \in Nat /\ b[n] \in Nat
    BY DEF Version
  <1>2. a[1] = b[1] /\ a[2] = b[2] /\ a[3] = b[3]
    BY <1>1, IsNewerExpanded
  <1>3. \A n \in 1..3 : n = 1 \/ n = 2 \/ n = 3
    OBVIOUS
  <1>4. \A n \in 1..3 : a[n] = b[n]
    BY <1>2, <1>3
  <1>5. QED  BY <1>4 DEF Version

\* 0.0.0, what an unreadable Strapi counts as, is newer than nothing.
LEMMA NoVersionIsOldest ==
    /\ NoVersion \in Version
    /\ \A v \in Version : ~IsNewer(NoVersion, v)
  <1>1. NoVersion \in Version
    BY DEF NoVersion, Version
  <1>2. \A v \in Version : ~IsNewer(NoVersion, v)
    BY <1>1, IsNewerExpanded DEF NoVersion, Version
  <1>3. QED  BY <1>1, <1>2

LEMMA AppVersionType ==
    ASSUME TypeOK
    PROVE  AppVersion \in Version
  BY ImagesAssumption, NoVersionIsOldest DEF TypeOK, AppVersion
-----------------------------------------------------------------------------
(* Type correctness.                                                       *)

LEMMA PartialEffectType ==
    ASSUME TypeOK, PartialEffect
    PROVE  /\ files' \in [Parts -> {"absent", "torn", "whole"}]
           /\ deps' \in SUBSET Deps
           /\ nm' \in [Deps -> Images \union {Absent, Registry}]
           /\ stamp' \in {LockOf[i] : i \in Images} \union {NoLock}
           /\ marker' \in BOOLEAN
  BY ImagesAssumption
  DEF TypeOK, PartialEffect, pvc, Copied, Removed, Fetched, Parts, TemplateParts

LEMMA InitType ==
    ASSUME Init
    PROVE  TypeOK
  <1> USE ImagesAssumption, NoVersionIsOldest
  <1>1. nm \in [Deps -> Images \union {Absent, Registry}]
    BY DEF Init
  <1>2. deps \in SUBSET Deps /\ db \in Version
    BY DEF Init
  <1>3. files \in [Parts -> {"absent", "torn", "whole"}]
    BY DEF Init
  <1>4. QED  BY <1>1, <1>2, <1>3 DEF Init, TypeOK

LEMMA TypeStep ==
    ASSUME TypeOK, [Next]_vars
    PROVE  TypeOK'
  <1> USE ImagesAssumption DEF TypeOK, pvc
  <1>1. CASE Start             BY <1>1 DEF Start
  <1>2. CASE Seed              BY <1>2 DEF Seed, Copied, Parts, TemplateParts
  <1>3. CASE StampSeed         BY <1>3 DEF StampSeed
  <1>4. CASE Decide            BY <1>4 DEF Decide
  <1>5. CASE MergePackageJson  BY <1>5 DEF MergePackageJson
  <1>6. CASE RemoveModules     BY <1>6 DEF RemoveModules, Removed
  <1>7. CASE CopyModules       BY <1>7 DEF CopyModules, Copied
  <1>8. CASE NpmInstall        BY <1>8 DEF NpmInstall, Fetched
  <1>9. CASE WriteStamp        BY <1>9 DEF WriteStamp
  <1>10. CASE Unmark           BY <1>10 DEF Unmark
  <1>11. CASE CopyConfig       BY <1>11 DEF CopyConfig
  <1>12. CASE InstallSchema    BY <1>12 DEF InstallSchema
  <1>13. CASE Abort            BY <1>13 DEF Abort
  <1>14. CASE Boot             BY <1>14, AppVersionType DEF Boot
  <1>15. CASE Crash            BY <1>15 DEF Crash
  <1>16. ASSUME NEW d \in Deps, AddByHand(d) PROVE TypeOK'
    BY <1>16 DEF AddByHand, Fetched
  <1>17. CASE Interrupt        BY <1>17, PartialEffectType DEF Interrupt
  <1>18. ASSUME NEW i \in Images, Rollout(i) PROVE TypeOK'
    BY <1>18, PartialEffectType DEF Rollout
  <1>19. CASE UNCHANGED vars   BY <1>19 DEF vars
  <1>20. QED
    BY <1>1, <1>2, <1>3, <1>4, <1>5, <1>6, <1>7, <1>8, <1>9, <1>10, <1>11,
       <1>12, <1>13, <1>14, <1>15, <1>16, <1>17, <1>18, <1>19
    DEF Next, Calm, Script, Disturbance

\* Every variable keeps its type, whatever the script is interrupted in.
THEOREM TypeCorrect == Spec => []TypeOK
  <1>1. Init => TypeOK
    BY InitType
  <1>2. TypeOK /\ [Next]_vars => TypeOK'
    BY TypeStep
  <1>3. QED  BY <1>1, <1>2, PTL DEF Spec
-----------------------------------------------------------------------------
(* The inductive invariant.                                                *)

\* With its own modules installed, the script reads the image's version.
LEMMA OwnModulesVersion ==
    ASSUME TypeOK, OwnModules
    PROVE  AppVersion = VersionOf[image]
  BY ImagesAssumption DEF TypeOK, OwnModules, AppVersion

\* A dependency that package.json does not list yet is not Strapi itself.
LEMMA AddByHandKeeps ==
    ASSUME IInv, NEW d \in Deps, AddByHand(d)
    PROVE  /\ AppVersion' = AppVersion
           /\ \A i \in Images : ModulesOf(i) => ModulesOf(i)'
           /\ ModulesComplete => ModulesComplete'
  <1> USE ImagesAssumption DEF IInv, TypeOK, AddByHand, Fetched
  <1>1. Strapi \in deps /\ Strapi \in Deps
    BY DEF StageInv, FilesInv
  <1>2. nm'[Strapi] = nm[Strapi]
    BY <1>1
  <1>3. AppVersion' = AppVersion
    BY <1>2 DEF AppVersion
  <1>4. \A e \in deps : nm'[e] = nm[e]
    OBVIOUS
  <1>5. \A i \in Images : ModulesOf(i) => ModulesOf(i)'
    BY <1>4 DEF ModulesOf
  <1>6. ModulesComplete => ModulesComplete'
    <2>1. nm'[d] # Absent
      OBVIOUS
    <2>2. QED  BY <1>4, <2>1 DEF ModulesComplete
  <1>7. QED  BY <1>3, <1>5, <1>6

\* A start that finds no reason to sync finds the image's stamp.
LEMMA NoReasonMeansCurrent ==
    ASSUME IInv, pc = "decide", ~Reason, ~IsNewer(AppVersion, VersionOf[image])
    PROVE  LockOf[image] = stamp /\ stamp # NoLock /\ ~marker /\ ModulesComplete
  <1> USE ImagesAssumption DEF IInv
  <1>1. VersionOf[image] \in Version /\ AppVersion \in Version
    BY AppVersionType DEF TypeOK
  <1>2. VersionOf[image] = AppVersion
    BY <1>1, IsNewerTotal DEF Reason
  <1>3. LockOf[image] = stamp /\ stamp # NoLock /\ ~marker
    BY <1>2 DEF Reason, TypeOK
  <1>4. QED  BY <1>3 DEF StampInv, TypeOK

\* The copy of the template's node_modules installs exactly the image's modules.
LEMMA CopiedModules ==
    ASSUME TypeOK, nm' = Copied(TemplateDeps[image]), image' = image
    PROVE  \A d \in TemplateDeps[image] : nm'[d] = image
  BY ImagesAssumption DEF TypeOK, Copied

LEMMA StageStep ==
    ASSUME IInv, [Next]_vars
    PROVE  StageInv'
  <1> USE ImagesAssumption DEF IInv, StageInv, TypeOK, pvc, Syncing, Synced
  <1>1. CASE Start      BY <1>1 DEF Start, FilesInv
  <1>2. CASE Seed
    <2>1. OwnModules'
      BY <1>2, CopiedModules DEF Seed, OwnModules
    <2>2. ModulesComplete'
      <3>1. \A d \in TemplateDeps[image] : nm'[d] = image
        BY <1>2, CopiedModules DEF Seed
      <3>2. QED  BY <1>2, <3>1 DEF Seed, ModulesComplete
    <2>3. QED  BY <1>2, <2>1, <2>2 DEF Seed, Parts, TemplateParts
  <1>3. CASE StampSeed  BY <1>3 DEF StampSeed
  <1>4. CASE Decide
    <2>1. OwnModules' = OwnModules /\ ModulesComplete' = ModulesComplete
          /\ AppVersion' = AppVersion
      BY <1>4 DEF Decide, OwnModules, ModulesComplete, AppVersion
    <2>2. ~Reason /\ ~IsNewer(AppVersion, VersionOf[image]) => ModulesComplete
      BY <1>4, NoReasonMeansCurrent DEF Decide
    <2>3. CASE Reason       BY <1>4, <2>3 DEF Decide
    <2>4. CASE ~Reason
      <3>1. pc = "decide" /\ pc' = "config" /\ marker' = marker /\ image' = image /\ files' = files
        BY <1>4, <2>4 DEF Decide
      <3>2. ~marker
        BY <2>4 DEF Reason
      <3>3. QED  BY <1>4, <2>1, <2>2, <2>4, <3>1, <3>2
    <2>5. QED  BY <2>3, <2>4
  <1>5. CASE MergePackageJson  BY <1>5 DEF MergePackageJson
  <1>6. CASE RemoveModules     BY <1>6 DEF RemoveModules
  <1>7. CASE CopyModules
    <2>1. OwnModules'
      BY <1>7, CopiedModules DEF CopyModules, OwnModules
    <2>2. extras = {} => ModulesComplete'
      BY <1>7, CopiedModules DEF CopyModules, ModulesComplete
    <2>3. QED  BY <1>7, <2>1, <2>2 DEF CopyModules
  <1>8. CASE NpmInstall
    <2>1. \A d \in TemplateDeps[image] : nm'[d] = nm[d]
      BY <1>8 DEF NpmInstall, Fetched
    <2>2. OwnModules'
      BY <1>8, <2>1 DEF NpmInstall, OwnModules
    <2>3. \A d \in extras : nm'[d] # Absent
      BY <1>8 DEF NpmInstall, Fetched
    <2>4. ModulesComplete'
      BY <1>8, <2>1, <2>2, <2>3 DEF NpmInstall, ModulesComplete, OwnModules
    <2>5. QED  BY <1>8, <2>2, <2>4 DEF NpmInstall
  <1>9. CASE WriteStamp
    BY <1>9 DEF WriteStamp, OwnModules, ModulesComplete
  <1>10. CASE Unmark
    BY <1>10 DEF Unmark, OwnModules, ModulesComplete
  <1>11. CASE CopyConfig
    <2>1. OwnModules' = OwnModules /\ ModulesComplete' = ModulesComplete
          /\ AppVersion' = AppVersion
      BY <1>11 DEF CopyConfig, OwnModules, ModulesComplete, AppVersion
    <2>2. files["schema"] \in {"absent", "torn", "whole"}
      BY DEF Parts
    <2>3. QED  BY <1>11, <2>1, <2>2 DEF CopyConfig
  <1>12. CASE InstallSchema
    <2>1. OwnModules' = OwnModules /\ ModulesComplete' = ModulesComplete
          /\ AppVersion' = AppVersion
      BY <1>12 DEF InstallSchema, OwnModules, ModulesComplete, AppVersion
    <2>2. QED  BY <1>12, <2>1 DEF InstallSchema, Parts, TemplateParts
  <1>13. CASE Abort     BY <1>13 DEF Abort
  <1>14. CASE Boot
    <2>1. OwnModules' = OwnModules /\ ModulesComplete' = ModulesComplete
          /\ AppVersion' = AppVersion
      BY <1>14 DEF Boot, OwnModules, ModulesComplete, AppVersion
    <2>2. QED  BY <1>14, <2>1 DEF Boot
  <1>15. CASE Crash
    <2>1. OwnModules' = OwnModules /\ ModulesComplete' = ModulesComplete
          /\ AppVersion' = AppVersion
      BY <1>15 DEF Crash, OwnModules, ModulesComplete, AppVersion
    <2>2. QED  BY <1>15, <2>1 DEF Crash
  <1>16. ASSUME NEW d \in Deps, AddByHand(d) PROVE StageInv'
    <2>1. image' = image /\ pc' = pc /\ pc = "serving" /\ files' = files /\ marker' = marker
      BY <1>16 DEF AddByHand
    <2>2. QED  BY <1>16, <2>1, AddByHandKeeps
  <1>17. CASE Interrupt BY <1>17 DEF Interrupt
  <1>18. ASSUME NEW i \in Images, Rollout(i) PROVE StageInv'
    BY <1>18 DEF Rollout
  <1>19. CASE UNCHANGED vars
    <2>1. OwnModules' = OwnModules /\ ModulesComplete' = ModulesComplete
          /\ AppVersion' = AppVersion
      BY <1>19 DEF vars, OwnModules, ModulesComplete, AppVersion
    <2>2. QED  BY <1>19, <2>1 DEF vars
  <1>20. QED
    BY <1>1, <1>2, <1>3, <1>4, <1>5, <1>6, <1>7, <1>8, <1>9, <1>10, <1>11,
       <1>12, <1>13, <1>14, <1>15, <1>16, <1>17, <1>18, <1>19
    DEF Next, Calm, Script, Disturbance

LEMMA FilesStep ==
    ASSUME IInv, [Next]_vars
    PROVE  FilesInv'
  <1> USE ImagesAssumption DEF IInv, FilesInv, TypeOK, pvc
  <1>1. CASE Start \/ StampSeed \/ Decide \/ RemoveModules \/ CopyModules
             \/ NpmInstall \/ WriteStamp \/ CopyConfig \/ Abort \/ Crash
    BY <1>1 DEF Start, StampSeed, Decide, RemoveModules, CopyModules, NpmInstall,
                WriteStamp, CopyConfig, Abort, Crash, StageInv, Syncing
  <1>2. CASE Seed              BY <1>2 DEF Seed, Parts, TemplateParts
  <1>3. CASE MergePackageJson  BY <1>3 DEF MergePackageJson
  <1>4. CASE Unmark            BY <1>4 DEF Unmark, StageInv
  <1>5. CASE InstallSchema     BY <1>5 DEF InstallSchema, Parts, TemplateParts
  <1>6. CASE Boot              BY <1>6 DEF Boot
  <1>7. ASSUME NEW d \in Deps, AddByHand(d) PROVE FilesInv'
    BY <1>7 DEF AddByHand, StageInv
  <1>8. ASSUME PartialEffect, UNCHANGED <<hand, db>> PROVE FilesInv'
    <2>1. CASE pc = "seed"
      BY <1>8, <2>1 DEF PartialEffect, StageInv, Parts, TemplateParts
    <2>2. CASE pc = "merge"
      BY <1>8, <2>2 DEF PartialEffect, StageInv, Syncing, Parts, TemplateParts
    <2>3. CASE pc = "schema"
      BY <1>8, <2>3 DEF PartialEffect, StageInv, Parts, TemplateParts
    <2>4. CASE pc \notin {"seed", "merge", "schema"}
      BY <1>8, <2>4 DEF PartialEffect, StageInv, Syncing
    <2>5. QED  BY <2>1, <2>2, <2>3, <2>4
  <1>9. CASE Interrupt  BY <1>8, <1>9 DEF Interrupt
  <1>10. ASSUME NEW i \in Images, Rollout(i) PROVE FilesInv'
    BY <1>8, <1>10 DEF Rollout
  <1>11. CASE UNCHANGED vars  BY <1>11 DEF vars
  <1>12. QED
    BY <1>1, <1>2, <1>3, <1>4, <1>5, <1>6, <1>7, <1>9, <1>10, <1>11
    DEF Next, Calm, Script, Disturbance

\* A command cut short never leaves a stamp that vouches for what it broke:
\* the marker is there, or the stamp is gone, or node_modules is as it was.
LEMMA PartialEffectKeepsStamp ==
    ASSUME IInv, PartialEffect
    PROVE  /\ marker' = marker
           /\ ~marker /\ stamp' # NoLock =>
                 stamp' = stamp /\ deps' = deps /\ nm' = nm
  <1> USE DEF IInv, StageInv, Syncing, TypeOK, pvc
  <1>1. CASE pc = "seed"
    BY <1>1 DEF PartialEffect
  <1>2. CASE pc # "seed"
    BY <1>2 DEF PartialEffect
  <1>3. QED  BY <1>1, <1>2

LEMMA StampStep ==
    ASSUME IInv, [Next]_vars
    PROVE  StampInv'
  <1> USE ImagesAssumption DEF IInv, StampInv, TypeOK, pvc
  <1>1. ASSUME UNCHANGED <<deps, nm>>, stamp' = stamp, marker => marker'
        PROVE  StampInv'
    BY <1>1 DEF ModulesComplete
  <1>2. CASE Start \/ Decide \/ CopyConfig \/ InstallSchema \/ Abort \/ Boot \/ Crash
    BY <1>1, <1>2 DEF Start, Decide, CopyConfig, InstallSchema, Abort, Boot, Crash
  <1>3. CASE Seed
    BY <1>3 DEF Seed, StageInv
  <1>4. CASE MergePackageJson \/ RemoveModules \/ CopyModules \/ NpmInstall \/ WriteStamp
    BY <1>4 DEF MergePackageJson, RemoveModules, CopyModules, NpmInstall,
                WriteStamp, StageInv, Syncing
  <1>5. CASE StampSeed
    BY <1>5 DEF StampSeed, StageInv, ModulesComplete
  <1>6. CASE Unmark
    BY <1>6 DEF Unmark, StageInv, ModulesComplete
  <1>7. ASSUME NEW d \in Deps, AddByHand(d) PROVE StampInv'
    <2>1. stamp' = stamp /\ marker' = marker
      BY <1>7 DEF AddByHand
    <2>2. ModulesComplete => ModulesComplete'
      BY <1>7, AddByHandKeeps
    <2>3. QED  BY <2>1, <2>2
  <1>8. CASE Interrupt
    BY <1>8, PartialEffectKeepsStamp DEF Interrupt, ModulesComplete
  <1>9. ASSUME NEW i \in Images, Rollout(i) PROVE StampInv'
    BY <1>9, PartialEffectKeepsStamp DEF Rollout, ModulesComplete
  <1>10. CASE UNCHANGED vars  BY <1>1, <1>10 DEF vars
  <1>11. QED
    BY <1>2, <1>3, <1>4, <1>5, <1>6, <1>7, <1>8, <1>9, <1>10
    DEF Next, Calm, Script, Disturbance

LEMMA HandStep ==
    ASSUME IInv, [Next]_vars
    PROVE  HandInv'
  <1> USE ImagesAssumption DEF IInv, HandInv, TypeOK, pvc
  <1>1. CASE Start \/ StampSeed \/ Decide \/ WriteStamp \/ CopyConfig
             \/ Abort \/ Boot \/ Crash
    BY <1>1 DEF Start, StampSeed, Decide, WriteStamp, CopyConfig, Abort, Boot, Crash
  <1>2. CASE Seed
    BY <1>2 DEF Seed, StageInv
  <1>3. CASE MergePackageJson \/ RemoveModules \/ CopyModules \/ NpmInstall
    BY <1>3 DEF MergePackageJson, RemoveModules, CopyModules, NpmInstall,
                StageInv, Syncing
  <1>4. CASE Unmark
    BY <1>4 DEF Unmark, StageInv, ModulesComplete
  <1>5. CASE InstallSchema
    BY <1>5 DEF InstallSchema, Parts, TemplateParts
  <1>6. ASSUME NEW d \in Deps, AddByHand(d) PROVE HandInv'
    <2>1. ~marker /\ files["package.json"] = "whole"
      BY <1>6 DEF AddByHand, StageInv, Synced
    <2>2. \A e \in hand' : nm'[e] # Absent
      BY <1>6, <2>1 DEF AddByHand, Fetched
    <2>3. QED  BY <1>6, <2>1, <2>2 DEF AddByHand
  <1>7. ASSUME PartialEffect, hand' = hand PROVE HandInv'
    <2>1. CASE pc = "seed"
      BY <1>7, <2>1 DEF StageInv
    <2>2. CASE pc = "merge"
      BY <1>7, <2>2 DEF PartialEffect, StageInv, Syncing, Parts, TemplateParts
    <2>3. CASE pc = "schema"
      BY <1>7, <2>3 DEF PartialEffect, Parts, TemplateParts
    <2>4. CASE pc \notin {"seed", "merge", "schema"}
      BY <1>7, <2>4 DEF PartialEffect, StageInv, Syncing
    <2>5. QED  BY <2>1, <2>2, <2>3, <2>4
  <1>8. CASE Interrupt  BY <1>7, <1>8 DEF Interrupt
  <1>9. ASSUME NEW i \in Images, Rollout(i) PROVE HandInv'
    BY <1>7, <1>9 DEF Rollout
  <1>10. CASE UNCHANGED vars  BY <1>10 DEF vars
  <1>11. QED
    BY <1>1, <1>2, <1>3, <1>4, <1>5, <1>6, <1>8, <1>9, <1>10
    DEF Next, Calm, Script, Disturbance

\* A first start or a reason other than the marker never points to an image
\* older than the database.
LEMMA SyncTargetNotOlder ==
    ASSUME IInv, pc = "decide", Reason, ~marker, ~switched
    PROVE  ~IsNewer(db, VersionOf[image])
  <1> USE ImagesAssumption DEF IInv
  <1>1. /\ VersionOf[image] \in Version /\ AppVersion \in Version
        /\ db \in Version
    BY AppVersionType DEF TypeOK
  <1>2. ~IsNewer(db, AppVersion)
    BY DEF DbInv
  <1>3. CASE VersionOf[image] = AppVersion
    BY <1>2, <1>3
  <1>4. CASE IsNewer(VersionOf[image], AppVersion)
    BY <1>1, <1>2, <1>4, IsNewerTransitive
  <1>5. QED  BY <1>3, <1>4 DEF Reason

LEMMA DbStep ==
    ASSUME IInv, [Next]_vars
    PROVE  DbInv'
  <1> USE ImagesAssumption DEF IInv, DbInv, TypeOK, pvc
  <1>1. ASSUME UNCHANGED <<nm, marker, db, image>>, switched => switched'
        PROVE  DbInv'
    BY <1>1 DEF AppVersion
  <1>2. CASE Start \/ StampSeed \/ MergePackageJson \/ WriteStamp \/ CopyConfig
             \/ InstallSchema \/ Abort \/ Crash
    BY <1>1, <1>2 DEF Start, StampSeed, MergePackageJson, WriteStamp, CopyConfig,
                      InstallSchema, Abort, Crash
  <1>3. ASSUME db' = NoVersion, image' \in Images, TypeOK' PROVE DbInv'
    <2>1. AppVersion' \in Version
      <3>1. \A d \in Images : VersionOf[d] \in Version
        OBVIOUS
      <3>2. QED  BY <3>1, NoVersionIsOldest DEF AppVersion
    <2>2. QED  BY <1>3, <2>1, NoVersionIsOldest
  <1>4. TypeOK'
    BY TypeStep
  <1>5. CASE Seed
    BY <1>3, <1>4, <1>5 DEF Seed, StageInv
  <1>6. CASE Decide
    <2>1. /\ AppVersion' = AppVersion /\ image' = image /\ db' = db
          /\ switched' = switched /\ marker' = (marker \/ Reason) /\ pc = "decide"
      BY <1>6 DEF Decide, AppVersion, Reason
    <2>2. CASE marker        BY <2>1, <2>2
    <2>3. CASE ~marker /\ ~Reason  BY <2>1, <2>3
    <2>4. CASE ~marker /\ Reason   BY <2>1, <2>4, SyncTargetNotOlder
    <2>5. QED  BY <2>2, <2>3, <2>4
  <1>7. CASE RemoveModules \/ CopyModules \/ NpmInstall
    BY <1>7 DEF RemoveModules, CopyModules, NpmInstall, StageInv, Syncing
  <1>8. CASE Unmark
    <2>1. AppVersion = VersionOf[image]
      BY <1>8, OwnModulesVersion DEF Unmark, StageInv
    <2>2. AppVersion' = AppVersion
      BY <1>8 DEF Unmark, AppVersion
    <2>3. marker
      BY <1>8 DEF Unmark, StageInv, Syncing
    <2>4. QED  BY <1>8, <2>1, <2>2, <2>3 DEF Unmark
  <1>9. CASE Boot
    <2>1. AppVersion' = AppVersion /\ marker' = marker /\ ~marker /\ switched' = switched
      BY <1>9 DEF Boot, AppVersion, StageInv, Synced
    <2>2. ~IsNewer(AppVersion, AppVersion)
      BY AppVersionType, IsNewerIrreflexive
    <2>3. QED  BY <1>9, <2>1, <2>2 DEF Boot
  <1>10. ASSUME NEW d \in Deps, AddByHand(d) PROVE DbInv'
    <2>1. AppVersion' = AppVersion
      BY <1>10, AddByHandKeeps
    <2>2. QED  BY <1>10, <2>1 DEF AddByHand, StageInv, Synced
  <1>11. ASSUME PartialEffect, db' = db, image' \in Images,
                switched \/ (marker /\ image' # image) => switched'
         PROVE  DbInv'
    <2>1. CASE pc = "seed"
      BY <1>3, <1>4, <1>11, <2>1 DEF StageInv
    <2>2. CASE pc # "seed"
      <3>1. marker' = marker /\ (marker \/ nm' = nm)
        BY <1>11, <2>2 DEF PartialEffect, StageInv, Syncing
      <3>2. ~marker => AppVersion' = AppVersion
        BY <3>1 DEF AppVersion
      <3>3. QED  BY <1>11, <3>1, <3>2
    <2>3. QED  BY <2>1, <2>2
  <1>12. CASE Interrupt  BY <1>11, <1>12 DEF Interrupt
  <1>13. ASSUME NEW i \in Images, Rollout(i) PROVE DbInv'
    BY <1>11, <1>13 DEF Rollout
  <1>14. CASE UNCHANGED vars  BY <1>1, <1>14 DEF vars
  <1>15. QED
    BY <1>2, <1>5, <1>6, <1>7, <1>8, <1>9, <1>10, <1>12, <1>13, <1>14
    DEF Next, Calm, Script, Disturbance
-----------------------------------------------------------------------------
(* The theorems.                                                           *)

LEMMA InitIInv ==
    ASSUME Init
    PROVE  IInv
  <1> USE ImagesAssumption, NoVersionIsOldest
  <1>1. TypeOK
    BY InitType
  <1>2. StageInv
    BY DEF Init, StageInv, Syncing, Synced, Parts, TemplateParts
  <1>3. FilesInv
    BY DEF Init, FilesInv, Parts, TemplateParts
  <1>4. StampInv /\ HandInv
    BY DEF Init, StampInv, HandInv
  <1>5. ~IsNewer(db, AppVersion)
    <2>1. AppVersion \in Version
      BY <1>1, AppVersionType
    <2>2. CASE db = NoVersion  BY <2>1, <2>2
    <2>3. CASE db # NoVersion
      <3>1. nm[Strapi] = image /\ db = VersionOf[image] /\ image \in Images
        BY <2>3 DEF Init
      <3>2. AppVersion = db /\ db \in Version
        BY <3>1 DEF AppVersion
      <3>3. QED  BY <3>2, IsNewerIrreflexive
    <2>4. QED  BY <2>2, <2>3
  <1>6. DbInv
    BY <1>5 DEF Init, DbInv
  <1>7. QED  BY <1>1, <1>2, <1>3, <1>4, <1>6 DEF IInv

LEMMA InductiveStep ==
    ASSUME IInv, [Next]_vars
    PROVE  IInv'
  <1>1. TypeOK'
    BY TypeStep DEF IInv
  <1>2. QED
    BY <1>1, StageStep, FilesStep, StampStep, HandStep, DbStep DEF IInv

LEMMA InductiveInvariant == Spec => []IInv
  <1>1. Init => IInv
    BY InitIInv
  <1>2. IInv /\ [Next]_vars => IInv'
    BY InductiveStep
  <1>3. QED  BY <1>1, <1>2, PTL DEF Spec

LEMMA LockStep ==
    ASSUME IInv, LockInv, [Next]_vars, LockPinsTree
    PROVE  LockInv'
  <1> USE ImagesAssumption DEF IInv, LockInv, TypeOK, pvc, Synced, Syncing
  <1>1. ASSUME UNCHANGED <<image, deps, nm>>, stamp' = stamp, marker => marker',
               pc' \in Synced => pc \in Synced
        PROVE  LockInv'
    BY <1>1 DEF ModulesOf, AppVersion
  <1>2. CASE Start \/ CopyConfig \/ InstallSchema \/ Abort \/ Boot \/ Crash
    BY <1>1, <1>2 DEF Start, CopyConfig, InstallSchema, Abort, Boot, Crash
  <1>3. CASE Decide
    <2>1. AppVersion' = AppVersion /\ \A i \in Images : ModulesOf(i)' = ModulesOf(i)
      BY <1>3 DEF Decide, AppVersion, ModulesOf
    <2>2. CASE Reason
      BY <1>3, <2>1, <2>2 DEF Decide
    <2>3. CASE ~Reason
      <3>1. ~IsNewer(AppVersion, VersionOf[image]) => ModulesOf(image)
        BY <1>3, <2>3, NoReasonMeansCurrent DEF Decide
      <3>2. QED  BY <1>3, <2>1, <2>3, <3>1 DEF Decide
    <2>4. QED  BY <2>2, <2>3
  <1>4. CASE Seed
    BY <1>4 DEF Seed, StageInv
  <1>5. CASE MergePackageJson \/ RemoveModules \/ CopyModules \/ NpmInstall \/ WriteStamp
    BY <1>5 DEF MergePackageJson, RemoveModules, CopyModules, NpmInstall,
                WriteStamp, StageInv
  <1>6. ASSUME OwnModules, stamp' = LockOf[image], UNCHANGED <<image, deps, nm>>
        PROVE  LockInv'
    <2>1. \A i \in Images : LockOf[i] = LockOf[image] => ModulesOf(i)'
      BY <1>6 DEF LockPinsTree, OwnModules, ModulesOf
    <2>2. QED  BY <1>6, <2>1
  <1>7. CASE StampSeed
    BY <1>6, <1>7 DEF StampSeed, StageInv
  <1>8. CASE Unmark
    BY <1>6, <1>8 DEF Unmark, StageInv
  <1>9. ASSUME NEW d \in Deps, AddByHand(d) PROVE LockInv'
    <2>1. stamp' = stamp /\ marker' = marker /\ image' = image /\ pc' = pc
      BY <1>9 DEF AddByHand
    <2>2. AppVersion' = AppVersion /\ \A i \in Images : ModulesOf(i) => ModulesOf(i)'
      BY <1>9, AddByHandKeeps
    <2>3. QED  BY <2>1, <2>2 DEF ModulesOf
  <1>10. CASE Interrupt
    BY <1>10, PartialEffectKeepsStamp DEF Interrupt, ModulesOf
  <1>11. ASSUME NEW i \in Images, Rollout(i) PROVE LockInv'
    BY <1>11, PartialEffectKeepsStamp DEF Rollout, ModulesOf
  <1>12. CASE UNCHANGED vars  BY <1>1, <1>12 DEF vars
  <1>13. QED
    BY <1>2, <1>3, <1>4, <1>5, <1>7, <1>8, <1>9, <1>10, <1>11, <1>12
    DEF Next, Calm, Script, Disturbance

\* Whenever Strapi runs from an image that is not older than the PVC, all of its
\* modules are that image's, however often seeding and syncing were cut short.
THEOREM CurrentTree ==
    ASSUME LockPinsTree
    PROVE  Spec => []ServedTreeIsCurrent
  <1>1. Init => LockInv
    BY DEF Init, LockInv, Synced
  <1>2. IInv /\ LockInv /\ [Next]_vars => LockInv'
    BY LockStep
  <1>3. IInv /\ LockInv => ServedTreeIsCurrent
    BY ImagesAssumption
    DEF IInv, LockInv, TypeOK, StageInv, Synced, ServedTreeIsCurrent, Up, ModulesOf, LockPinsTree
  <1>4. QED  BY <1>1, <1>2, <1>3, InductiveInvariant, PTL DEF Spec

\* No sync, kill or rollout loses a dependency that was added by hand.
THEOREM HandAdded == Spec => []HandAddedSurvive
  <1>1. IInv => HandAddedSurvive
    BY DEF IInv, TypeOK, StageInv, Synced, FilesInv, HandInv, HandAddedSurvive,
           Up, Parts, TemplateParts
  <1>2. QED  BY <1>1, InductiveInvariant, PTL

\* Strapi runs older than its database only after an image change met an
\* unfinished sync.
THEOREM Downgrade == Spec => []NoDowngradeUnlessSwitched
  <1>1. IInv => NoDowngradeUnlessSwitched
    BY DEF IInv, StageInv, Synced, DbInv, NoDowngradeUnlessSwitched
  <1>2. QED  BY <1>1, InductiveInvariant, PTL
-----------------------------------------------------------------------------
(* The script comes to its end: the safety half of Converges.               *)

\* What Strapi has left to do until it serves, in steps at most.
StepsLeft ==
    CASE pc = "down"   -> 13  [] pc = "seed"    -> 12  [] pc = "stampSeed" -> 11
      [] pc = "decide" -> 10  [] pc = "merge"   -> 9   [] pc = "remove"    -> 8
      [] pc = "copy"   -> 7   [] pc = "npm"     -> 6   [] pc = "stamp"     -> 5
      [] pc = "unmark" -> 4   [] pc = "config"  -> 3   [] pc = "schema"    -> 2
      [] pc = "boot"   -> 1   [] pc = "serving" -> 0

\* No run of the script will bring what is missing.
NoSyncHelps ==
    /\ pc \in {"down", "decide"} \union Synced /\ ~marker
    /\ ~ModulesComplete /\ IsNewer(AppVersion, VersionOf[image])

\* NeedsRepair, when it is for good.
Stuck == CutShort \/ (files["package.json"] # "absent" /\ NoSyncHelps)

\* The script goes on to its end and Strapi comes up, unless the project is stuck, and it is
\* then for good, but for kills and rollouts.
EndsServing ==
    [][/\ Script \/ Boot => StepsLeft' < StepsLeft \/ Stuck
       /\ StepsLeft' > StepsLeft => Stuck \/ Crash \/ Disturbance
       /\ pc = "boot" /\ ~Stuck => ProjectWhole
       /\ Stuck => NeedsRepair
       /\ Stuck => Stuck' \/ Disturbance]_vars

LEMMA StepsLeftType ==
    ASSUME TypeOK
    PROVE  StepsLeft \in 0..13
  BY DEF TypeOK, StepsLeft

\* What a step of the script, or a boot, can do but end where it began.
LEMMA ScriptLess ==
    ASSUME IInv, Script \/ Boot, ~Stuck
    PROVE  StepsLeft' < StepsLeft
  <1>1. CASE Start             BY <1>1 DEF Start, StepsLeft
  <1>2. CASE Seed              BY <1>2 DEF Seed, StepsLeft
  <1>3. CASE StampSeed         BY <1>3 DEF StampSeed, StepsLeft
  <1>4. CASE Decide            BY <1>4 DEF Decide, StepsLeft
  <1>5. CASE MergePackageJson  BY <1>5 DEF MergePackageJson, StepsLeft
  <1>6. CASE RemoveModules     BY <1>6 DEF RemoveModules, StepsLeft
  <1>7. CASE CopyModules       BY <1>7 DEF CopyModules, StepsLeft
  <1>8. CASE NpmInstall        BY <1>8 DEF NpmInstall, StepsLeft
  <1>9. CASE WriteStamp        BY <1>9 DEF WriteStamp, StepsLeft
  <1>10. CASE Unmark           BY <1>10 DEF Unmark, StepsLeft
  <1>11. CASE CopyConfig       BY <1>11 DEF CopyConfig, StepsLeft
  <1>12. CASE InstallSchema    BY <1>12 DEF InstallSchema, StepsLeft
  <1>13. ~Abort
    <2>1. pc \in {"merge", "config"} => files["package.json"] # "absent"
      BY DEF IInv, StageInv
    <2>2. files["package.json"] \in {"absent", "torn", "whole"}
      BY DEF IInv, TypeOK, Parts, TemplateParts
    <2>3. QED  BY <2>1, <2>2 DEF Abort, Stuck, CutShort, Parts, TemplateParts
  <1>14. CASE Boot             BY <1>14 DEF Boot, StepsLeft
  <1>15. QED
    BY <1>1, <1>2, <1>3, <1>4, <1>5, <1>6, <1>7, <1>8, <1>9, <1>10, <1>11, <1>12, <1>13, <1>14
    DEF Script

\* What would make Strapi come up is there.
LEMMA BootGoes ==
    ASSUME IInv, pc = "boot", ~Stuck
    PROVE  ProjectWhole
  <1>1. /\ files["package.json"] # "absent" /\ files["schema"] # "absent" /\ ~marker
        /\ ~IsNewer(AppVersion, VersionOf[image]) => ModulesComplete
    BY DEF IInv, StageInv, Synced
  <1>2. \A p \in Parts : files[p] \in {"absent", "torn", "whole"}
    BY DEF IInv, TypeOK
  <1>3. \A p \in Parts : files[p] = "whole"
    BY <1>1, <1>2 DEF Stuck, CutShort, Parts
  <1>4. QED  BY <1>1, <1>3 DEF Stuck, NoSyncHelps, Synced, ProjectWhole

\* A sync finds no reason in an image that is older than the project.
LEMMA NoReasonOlder ==
    ASSUME TypeOK, IsNewer(AppVersion, VersionOf[image]), Reason
    PROVE  marker
  <1>1. AppVersion \in Version /\ VersionOf[image] \in Version
    BY AppVersionType, ImagesAssumption DEF TypeOK
  <1>2. AppVersion # VersionOf[image]
    BY <1>1, IsNewerIrreflexive
  <1>3. ~IsNewer(VersionOf[image], AppVersion)
    BY <1>1, IsNewerTransitive, IsNewerIrreflexive
  <1>4. QED  BY <1>2, <1>3 DEF Reason

LEMMA StuckStays ==
    ASSUME IInv, Stuck, Calm \/ Crash \/ UNCHANGED vars
    PROVE  Stuck'
  <1>0. files["package.json"] # "absent" /\ pc # "seed"
    BY DEF Stuck, CutShort, IInv, StageInv
  <1>1. /\ \A p \in TemplateParts : files'[p] = files[p]
        /\ \A p \in Parts : files[p] = "torn" => files'[p] = "torn"
    <2>1. files' = files \/ (files["schema"] = "absent" /\ files' = [files EXCEPT !["schema"] = "whole"])
      BY <1>0 DEF Calm, Script, Start, Seed, StampSeed, Decide, MergePackageJson, RemoveModules,
         CopyModules, NpmInstall, WriteStamp, Unmark, CopyConfig, InstallSchema, Abort, Boot,
         AddByHand, Crash, pvc, vars, IInv, StageInv
    <2>2. files \in [Parts -> {"absent", "torn", "whole"}]
      BY DEF IInv, TypeOK
    <2>3. QED  BY <2>1, <2>2 DEF Parts, TemplateParts
  <1>2. CASE CutShort
    BY <1>1, <1>2 DEF Stuck, CutShort, TemplateParts
  <1>3. CASE NoSyncHelps
    <2> SUFFICES NoSyncHelps'
      BY <1>0, <1>1 DEF Stuck, TemplateParts
    <2>1. /\ pc \in {"down", "decide", "config", "schema", "boot", "serving"} /\ ~marker
          /\ ~ModulesComplete /\ IsNewer(AppVersion, VersionOf[image]) /\ TypeOK
      BY <1>3 DEF NoSyncHelps, Synced, IInv
    <2>2. ASSUME NEW d \in Deps, AddByHand(d) PROVE NoSyncHelps'
      <3>1. PICK e \in deps : nm[e] = Absent
        BY <2>1 DEF ModulesComplete
      <3>2. e # d /\ e \in Deps /\ e \in deps'
        BY <2>1, <2>2, <3>1 DEF AddByHand, TypeOK
      <3>3. nm'[e] = Absent
        BY <2>2, <3>1, <3>2 DEF AddByHand, Fetched
      <3>4. ~ModulesComplete'
        BY <3>2, <3>3 DEF ModulesComplete
      <3>5. AppVersion' = AppVersion
        BY <2>2, AddByHandKeeps
      <3>6. image' = image /\ pc' = pc /\ marker' = marker
        BY <2>2 DEF AddByHand
      <3>7. QED  BY <2>1, <3>4, <3>5, <3>6 DEF NoSyncHelps, Synced
    <2>3. ASSUME image' = image, deps' = deps, nm' = nm, marker' = marker,
                 pc' \in {"down", "decide", "config", "schema", "boot", "serving"}
          PROVE  NoSyncHelps'
      <3>1. AppVersion' = AppVersion /\ ModulesComplete' = ModulesComplete
        BY <2>3 DEF AppVersion, ModulesComplete
      <3>2. QED  BY <2>1, <2>3, <3>1 DEF NoSyncHelps, Synced
    <2>4. CASE Decide
      <3>1. ~Reason
        BY <2>1, NoReasonOlder
      <3>2. pc' = "config" /\ marker' = marker /\ image' = image /\ deps' = deps /\ nm' = nm
        BY <2>4, <3>1 DEF Decide
      <3>3. QED  BY <2>3, <3>2
    <2>5. CASE Start \/ CopyConfig \/ InstallSchema \/ Abort \/ Boot \/ Crash \/ UNCHANGED vars
      <3>1. image' = image /\ deps' = deps /\ nm' = nm /\ marker' = marker
            /\ pc' \in {"down", "decide", "config", "schema", "boot", "serving"}
        BY <1>0, <2>1, <2>5
        DEF Start, CopyConfig, InstallSchema, Abort, Boot, Crash, vars, pvc
      <3>2. QED  BY <2>3, <3>1
    <2>6. ~(Seed \/ StampSeed \/ MergePackageJson \/ RemoveModules \/ CopyModules \/ NpmInstall
            \/ WriteStamp \/ Unmark)
      BY <2>1 DEF Seed, StampSeed, MergePackageJson, RemoveModules, CopyModules, NpmInstall,
         WriteStamp, Unmark
    <2>7. QED  BY <2>2, <2>4, <2>5, <2>6 DEF Calm, Script
  <1>4. QED  BY <1>2, <1>3 DEF Stuck

\* Whatever the pod is interrupted in, as often as it is: the script and the boot that follow
\* lead to a Strapi that serves, in StepsLeft steps, unless the project is one that needs
\* repair by hand, and nothing that the script does repairs it (strapi-sync.sh:39-110).
THEOREM EndsUp == Spec => EndsServing
  <1>1. ASSUME IInv, [Next]_vars
        PROVE  /\ Script \/ Boot => StepsLeft' < StepsLeft \/ Stuck
               /\ StepsLeft' > StepsLeft => Stuck \/ Crash \/ Disturbance
               /\ pc = "boot" /\ ~Stuck => ProjectWhole
               /\ Stuck => NeedsRepair
               /\ Stuck => Stuck' \/ Disturbance
    <2>1. Script \/ Boot => StepsLeft' < StepsLeft \/ Stuck
      BY <1>1, ScriptLess
    <2>2. (\E d \in Deps : AddByHand(d)) \/ UNCHANGED vars => StepsLeft' = StepsLeft
      BY DEF AddByHand, vars, StepsLeft
    <2>3. StepsLeft \in Nat /\ (StepsLeft' < StepsLeft => ~(StepsLeft' > StepsLeft))
      <3>1. TypeOK /\ TypeOK'
        BY <1>1, TypeStep DEF IInv
      <3>2. StepsLeft \in 0..13
        BY <3>1, StepsLeftType
      <3>3. StepsLeft' \in 0..13
        BY <3>1 DEF TypeOK, StepsLeft
      <3>4. QED  BY <3>2, <3>3
    <2>4. StepsLeft' > StepsLeft => Stuck \/ Crash \/ Disturbance
      BY <1>1, <2>1, <2>2, <2>3 DEF Next, Calm
    <2>5. Stuck => NeedsRepair
      BY DEF Stuck, NoSyncHelps, NeedsRepair
    <2>6. Stuck => Stuck' \/ Disturbance
      BY <1>1, StuckStays DEF Next
    <2>7. QED  BY <1>1, <2>1, <2>4, <2>5, <2>6, BootGoes
  <1>2. IInv /\ [Next]_vars =>
          [/\ Script \/ Boot => StepsLeft' < StepsLeft \/ Stuck
           /\ StepsLeft' > StepsLeft => Stuck \/ Crash \/ Disturbance
           /\ pc = "boot" /\ ~Stuck => ProjectWhole
           /\ Stuck => NeedsRepair
           /\ Stuck => Stuck' \/ Disturbance]_vars
    BY <1>1
  <1>3. QED  BY <1>2, InductiveInvariant, PTL DEF Spec, EndsServing
=============================================================================
