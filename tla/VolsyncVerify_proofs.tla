------------------------ MODULE VolsyncVerify_proofs ------------------------
(***************************************************************************)
(* Proofs about verify.sh: a PASS always needs a restore of its own, and a *)
(* run that succeeds has one for every target; with no run made by hand    *)
(* and deletes that work a PASS means what it says and nothing is left.    *)
(***************************************************************************)
EXTENDS VolsyncVerify, TLAPS

\* The part of TypeOK about the runs.
At(r) == r.pc \in Ended \/ r.at \in 1..Len(r.list)
JobsOK == job \in [Jobs -> JobState] /\ \A j \in Jobs : At(job[j])

LEMMA TargetType ==
    ASSUME JobsOK, NEW j \in Jobs, Active(j)
    PROVE  T(j) \in Targets /\ job[j].at \in 1..Len(job[j].list) /\ job[j] \in JobState
  <1>1. job[j].list \in Seq(Targets) /\ job[j] \in JobState
    BY DEF JobsOK, JobState
  <1>2. job[j].at \in 1..Len(job[j].list)
    BY DEF JobsOK, At, Active
  <1>3. QED  BY <1>1, <1>2 DEF T

\* Replacing the record of one run by one of its type.
LEMMA JobUpdate ==
    ASSUME JobsOK, NEW j \in Jobs, NEW r \in JobState, At(r), job' = [job EXCEPT ![j] = r]
    PROVE  JobsOK'
  BY DEF JobsOK, At

LEMMA GotoType ==
    ASSUME JobsOK, NEW j \in Jobs, Active(j), NEW pc \in Steps, Goto(j, pc)
    PROVE  JobsOK'
  <1> DEFINE r == [job[j] EXCEPT !.pc = pc]
  <1>1. job[j] \in JobState /\ job[j].at \in 1..Len(job[j].list)
    BY TargetType
  <1>2. r \in JobState /\ r.at = job[j].at /\ r.list = job[j].list
    BY <1>1 DEF JobState
  <1>3. job' = [job EXCEPT ![j] = r]
    BY DEF Goto
  <1> HIDE DEF r
  <1>4. QED  BY <1>1, <1>2, <1>3, JobUpdate DEF At

LEMMA FinishType ==
    ASSUME JobsOK, NEW j \in Jobs, Active(j), NEW failed \in BOOLEAN, Finish(j, failed)
    PROVE  JobsOK'
  <1> DEFINE r == [job[j] EXCEPT !.pc = "delpod", !.then = "next", !.failed = @ \/ failed]
  <1>1. job[j] \in JobState /\ job[j].at \in 1..Len(job[j].list)
    BY TargetType
  <1>2. r \in JobState /\ r.at = job[j].at /\ r.list = job[j].list
    BY <1>1 DEF JobState, Steps
  <1>3. job' = [job EXCEPT ![j] = r]
    BY DEF Finish
  <1> HIDE DEF r
  <1>4. QED  BY <1>1, <1>2, <1>3, JobUpdate DEF At

LEMMA NextTargetType ==
    ASSUME JobsOK, NEW j \in Jobs, Active(j), NEW failed \in BOOLEAN, NextTarget(j, failed)
    PROVE  JobsOK'
  <1> DEFINE last == job[j].at = Len(job[j].list)
             r == [job[j] EXCEPT !.pc = IF last THEN "done" ELSE "check",
                                 !.at = IF last THEN @ ELSE @ + 1,
                                 !.failed = @ \/ failed]
  <1>1. job[j] \in JobState /\ job[j].at \in 1..Len(job[j].list)
    BY TargetType
  <1>2. Len(job[j].list) \in Nat /\ job[j].at \in Nat
    <2>1. job[j].list \in Seq(Targets) /\ job[j].at \in Nat
      BY <1>1 DEF JobState
    <2>2. QED  BY <2>1
  <1>3. /\ r \in JobState /\ r.list = job[j].list
        /\ r.at = IF last THEN job[j].at ELSE job[j].at + 1
    <2>1. job[j].at + 1 \in Nat
      BY <1>2
    <2> HIDE DEF last
    <2>2. QED  BY <1>1, <2>1 DEF JobState, Steps, Ended
  <1>4. job' = [job EXCEPT ![j] = r]
    BY DEF NextTarget
  <1>5. r.at \in 1..Len(r.list)
    <2> HIDE DEF r
    <2>1. CASE last
      BY <1>1, <1>3, <2>1
    <2>2. CASE ~last
      BY <1>1, <1>2, <1>3, <2>2
    <2>3. QED  BY <2>1, <2>2
  <1> HIDE DEF r
  <1>6. QED  BY <1>3, <1>4, <1>5, JobUpdate DEF At

\* The part of TypeOK about the API objects and the history.
ObjectsOK ==
    /\ pvc \in [Targets -> PvcState \union {None}]
    /\ rd \in [Targets -> RdState \union {None}]
    /\ pod \in [Targets -> PodState \union {None}]
    /\ \A t \in Targets : pod[t] # None /\ pod[t].ok => pod[t].seen \in Seen
    /\ doomed \subseteq {"pod", "rd", "pvc"} \X Targets
    /\ passes \subseteq [job : Jobs, target : Targets, seen : Seen]
    /\ restored \subseteq Jobs \X Targets

LEMMA ScriptActive ==
    ASSUME NEW j \in Jobs, Script(j)
    PROVE  Active(j)
  BY DEF Script, Check, DeletePod, DeleteRd, DeletePvc, Create, RestoreDone,
         RestoreFails, StartPod, PodEnds, PodTimesOut, Verdict, Active, Ended

LEMMA ScriptType ==
    ASSUME JobsOK, ObjectsOK, NEW j \in Jobs, Script(j)
    PROVE  JobsOK' /\ ObjectsOK'
  <1>1. Active(j) /\ T(j) \in Targets /\ job[j] \in JobState /\ job[j].at \in 1..Len(job[j].list)
    BY ScriptActive, TargetType
  <1>2. CASE Check(j)
    <2>1. CASE NextTarget(j, TRUE)
      BY <1>1, <1>2, <2>1, NextTargetType DEF Check, ObjectsOK
    <2>2. CASE job' = [job EXCEPT ![j].pc = "delpod", ![j].then = "create"]
      <3> DEFINE r == [job[j] EXCEPT !.pc = "delpod", !.then = "create"]
      <3>1. r \in JobState /\ r.at = job[j].at /\ r.list = job[j].list
        BY <1>1 DEF JobState, Steps
      <3>2. job' = [job EXCEPT ![j] = r]
        BY <2>2
      <3> HIDE DEF r
      <3>3. JobsOK'
        BY <1>1, <3>1, <3>2, JobUpdate DEF At
      <3>4. QED  BY <1>2, <3>3 DEF Check, ObjectsOK
    <2>3. QED  BY <1>2, <2>1, <2>2 DEF Check
  <1>3. CASE DeletePod(j)
    <2>1. JobsOK'
      BY <1>1, <1>3, GotoType DEF DeletePod, Steps
    <2>2. QED  BY <1>1, <1>3, <2>1 DEF DeletePod, Doom, ObjectsOK
  <1>4. CASE DeleteRd(j)
    <2>1. JobsOK'
      BY <1>1, <1>4, GotoType DEF DeleteRd, Steps
    <2>2. QED  BY <1>1, <1>4, <2>1 DEF DeleteRd, Doom, ObjectsOK
  <1>5. CASE DeletePvc(j)
    <2>1. Goto(j, "create") \/ NextTarget(j, FALSE) \/ Goto(j, "done")
      BY <1>5 DEF DeletePvc
    <2>2. JobsOK'
      BY <1>1, <2>1, GotoType, NextTargetType DEF Steps, Ended
    <2>3. QED  BY <1>1, <1>5, <2>2 DEF DeletePvc, Doom, ObjectsOK
  <1>6. CASE Create(j)
    <2>1. JobsOK'
      BY <1>1, <1>6, GotoType, FinishType DEF Create, Steps
    <2>2. NewPvc \in PvcState /\ [id |-> j, last |-> None, result |-> ""] \in RdState
      BY DEF NewPvc, PvcState, RdState
    <2>3. pvc' \in [Targets -> PvcState \union {None}]
      BY <1>6, <2>2 DEF Create, ObjectsOK
    <2>4. rd' \in [Targets -> RdState \union {None}]
      <3>1. rd[T(j)] # None => [rd[T(j)] EXCEPT !.id = j] \in RdState
        BY <1>1 DEF ObjectsOK, RdState
      <3>2. QED  BY <1>6, <2>2, <3>1 DEF Create, ObjectsOK
    <2>5. QED  BY <1>6, <2>1, <2>3, <2>4 DEF Create, ObjectsOK
  <1>7. CASE RestoreDone(j) \/ RestoreFails(j) \/ PodTimesOut(j)
    <2>1. JobsOK'
      BY <1>1, <1>7, GotoType, FinishType DEF RestoreDone, RestoreFails, PodTimesOut, Steps
    <2>2. QED  BY <1>7, <2>1 DEF RestoreDone, RestoreFails, PodTimesOut, ObjectsOK
  <1>8. CASE StartPod(j)
    <2>1. JobsOK'
      BY <1>1, <1>8, GotoType, FinishType DEF StartPod, Steps
    <2>2. NewPod \in PodState /\ ~NewPod.ok
      BY DEF NewPod, PodState
    <2>3. QED  BY <1>1, <1>8, <2>1, <2>2 DEF StartPod, ObjectsOK
  <1>9. CASE PodEnds(j)
    <2> DEFINE r == [job[j] EXCEPT !.pc = "logs", !.phase = pod[T(j)].phase]
    <2>1. pod[T(j)].phase \in {"Succeeded", "Failed"}
      BY <1>1, <1>9 DEF PodEnds, ObjectsOK, PodState
    <2>2. r \in JobState /\ r.at = job[j].at /\ r.list = job[j].list
      BY <1>1, <2>1 DEF JobState, Steps
    <2>3. job' = [job EXCEPT ![j] = r]
      BY <1>9 DEF PodEnds
    <2> HIDE DEF r
    <2>4. JobsOK'
      BY <1>1, <2>2, <2>3, JobUpdate DEF At
    <2>5. QED  BY <1>9, <2>4 DEF PodEnds, ObjectsOK
  <1>10. CASE Verdict(j)
    <2>1. JobsOK'
      BY <1>1, <1>10, FinishType DEF Verdict
    <2>2. passes' \subseteq [job : Jobs, target : Targets, seen : Seen]
      <3> DEFINE p == [job |-> j, target |-> T(j), seen |-> pod[T(j)].seen]
      <3>1. pod[T(j)] # None /\ pod[T(j)].ok => p \in [job : Jobs, target : Targets, seen : Seen]
        BY <1>1 DEF ObjectsOK
      <3>2. passes' = passes \/ (pod[T(j)] # None /\ pod[T(j)].ok /\ passes' = passes \union {p})
        BY <1>10 DEF Verdict
      <3> HIDE DEF p
      <3>3. QED  BY <3>1, <3>2 DEF ObjectsOK
    <2>3. QED  BY <1>10, <2>1, <2>2 DEF Verdict, ObjectsOK
  <1>11. QED
    BY <1>2, <1>3, <1>4, <1>5, <1>6, <1>7, <1>8, <1>9, <1>10 DEF Script

LEMMA ClusterType ==
    ASSUME JobsOK, ObjectsOK, NEW t \in Targets, Cluster(t)
    PROVE  JobsOK' /\ ObjectsOK'
  <1>1. JobsOK'
    BY DEF Cluster, MoverStarts, MoverDone, MoverFails, CheckRuns, Vanish, JobsOK, At
  <1>2. CASE MoverStarts(t)
    <2>1. [by |-> rd[t].id, state |-> "partial", mover |-> rd[t].id] \in PvcState
      BY <1>2 DEF MoverStarts, ObjectsOK, RdState, PvcState
    <2>2. QED  BY <1>1, <1>2, <2>1 DEF MoverStarts, ObjectsOK
  <1>3. CASE MoverDone(t)
    <2>1. [pvc[t] EXCEPT !.state = "full", !.mover = None] \in PvcState
      BY <1>3 DEF MoverDone, ObjectsOK, PvcState
    <2>2. rd[t] # None => /\ rd[t].id \in Jobs
                          /\ [id |-> rd[t].id, last |-> rd[t].id, result |-> "Successful"] \in RdState
      BY DEF ObjectsOK, RdState
    <2>3. pvc' \in [Targets -> PvcState \union {None}]
      BY <1>3, <2>1 DEF MoverDone, ObjectsOK
    <2>4. rd' \in [Targets -> RdState \union {None}] /\ restored' \subseteq Jobs \X Targets
      BY <1>3, <2>2 DEF MoverDone, ObjectsOK
    <2>5. QED  BY <1>1, <1>3, <2>3, <2>4 DEF MoverDone, ObjectsOK
  <1>4. CASE MoverFails(t)
    <2>1. [pvc[t] EXCEPT !.mover = None] \in PvcState
      BY <1>4 DEF MoverFails, ObjectsOK, PvcState
    <2>2. rd[t] # None => [rd[t] EXCEPT !.result = "Failed"] \in RdState
      BY DEF ObjectsOK, RdState
    <2>3. QED  BY <1>1, <1>4, <2>1, <2>2 DEF MoverFails, ObjectsOK
  <1>5. CASE CheckRuns(t)
    <2>1. PICK ok \in BOOLEAN, phase \in {"Succeeded", "Failed"} :
             pod' = [pod EXCEPT ![t] =
                [phase |-> phase, ok |-> ok,
                 seen |-> [by |-> pvc[t].by, state |-> pvc[t].state]]]
      BY <1>5 DEF CheckRuns
    <2>2. [by |-> pvc[t].by, state |-> pvc[t].state] \in Seen
      BY <1>5 DEF CheckRuns, ObjectsOK, PvcState, Seen
    <2>3. pod'[t] \in PodState /\ pod'[t].seen \in Seen
      BY <2>1, <2>2 DEF ObjectsOK, PodState
    <2>4. QED  BY <1>1, <1>5, <2>1, <2>3 DEF CheckRuns, ObjectsOK
  <1>6. CASE Vanish(t)
    BY <1>1, <1>6 DEF Vanish, ObjectsOK
  <1>7. QED  BY <1>2, <1>3, <1>4, <1>5, <1>6 DEF Cluster

LEMMA TypeStep == ASSUME JobsOK, ObjectsOK, [Next]_vars PROVE JobsOK' /\ ObjectsOK'
  <1>1. ASSUME NEW j \in Jobs, Start(j) PROVE JobsOK' /\ ObjectsOK'
    <2>1. PICK list \in Lists :
             job' = [job EXCEPT ![j] = [Off EXCEPT !.pc = "check", !.list = list, !.at = 1]]
      BY <1>1 DEF Start
    <2> DEFINE r == [Off EXCEPT !.pc = "check", !.list = list, !.at = 1]
    <2>2. list \in Seq(Targets) /\ list # <<>>
      BY VerifyAssumption
    <2>3. 1 \in 1..Len(list)
      BY <2>2
    <2>4. r \in JobState /\ r.at = 1 /\ r.list = list
      BY <2>2 DEF Off, JobState, Steps
    <2> HIDE DEF r
    <2>5. JobsOK'
      BY <2>1, <2>3, <2>4, JobUpdate DEF At, r
    <2>6. QED  BY <1>1, <2>5 DEF Start, ObjectsOK
  <1>2. ASSUME NEW j \in Jobs, Script(j) PROVE JobsOK' /\ ObjectsOK'
    BY <1>2, ScriptType
  <1>3. ASSUME NEW j \in Jobs, Term(j) PROVE JobsOK' /\ ObjectsOK'
    <2> DEFINE r == [job[j] EXCEPT !.pc = IF @ = "check" THEN "done" ELSE "delpod",
                                   !.then = "exit", !.failed = TRUE]
    <2>1. job[j] \in JobState /\ job[j].at \in 1..Len(job[j].list)
      BY <1>3, TargetType DEF Term
    <2>2. r \in JobState /\ r.at = job[j].at /\ r.list = job[j].list
      BY <2>1 DEF JobState, Steps, Ended
    <2>3. job' = [job EXCEPT ![j] = r]
      BY <1>3 DEF Term
    <2> HIDE DEF r
    <2>4. JobsOK'
      BY <2>1, <2>2, <2>3, JobUpdate DEF At
    <2>5. QED  BY <1>3, <2>4 DEF Term, ObjectsOK
  <1>4. ASSUME NEW j \in Jobs, Kill(j) PROVE JobsOK' /\ ObjectsOK'
    BY <1>4, GotoType DEF Kill, Steps, Ended, ObjectsOK
  <1>5. ASSUME NEW t \in Targets, Cluster(t) PROVE JobsOK' /\ ObjectsOK'
    BY <1>5, ClusterType
  <1>6. CASE UNCHANGED vars  BY <1>6 DEF vars, JobsOK, At, ObjectsOK
  <1>7. QED  BY <1>1, <1>2, <1>3, <1>4, <1>5, <1>6 DEF Next

\* The steps, the targets and the API objects keep their types.
THEOREM TypeCorrect == Spec => []TypeOK
  <1>1. Init => TypeOK
    <2> SUFFICES ASSUME Init PROVE TypeOK
      OBVIOUS
    <2>1. Off \in JobState /\ Off.pc \in Ended
      BY DEF Off, JobState, Steps, Ended
    <2>2. QED  BY <2>1 DEF Init, TypeOK
  <1>2. TypeOK /\ [Next]_vars => TypeOK'
    BY TypeStep DEF TypeOK, JobsOK, ObjectsOK, At
  <1>3. QED  BY <1>1, <1>2, PTL DEF Spec
-----------------------------------------------------------------------------
(* A pass needs a restore of its own.                                      *)

\* A step of one run leaves the others alone.
LEMMA JobFrame ==
    ASSUME JobsOK, NEW j \in Jobs, Start(j) \/ Script(j) \/ Term(j) \/ Kill(j),
           NEW i \in Jobs, i # j
    PROVE  job'[i] = job[i]
  BY DEF JobsOK, Start, Script, Term, Kill, Check, DeletePod, DeleteRd, DeletePvc, Create,
         RestoreDone, RestoreFails, StartPod, PodEnds, PodTimesOut, Verdict,
         Goto, Finish, NextTarget

\* A step that keeps a run on its target says at which step it is.
LEMMA GotoStep ==
    ASSUME JobsOK, NEW j \in Jobs, NEW pc, Goto(j, pc)
    PROVE  job'[j].pc = pc /\ job'[j].then = job[j].then /\ T(j)' = T(j)
  BY DEF Goto, JobsOK, JobState, T

LEMMA FinishStep ==
    ASSUME JobsOK, NEW j \in Jobs, NEW failed, Finish(j, failed)
    PROVE  job'[j].pc = "delpod" /\ job'[j].then = "next" /\ T(j)' = T(j)
  BY DEF Finish, JobsOK, JobState, T

LEMMA NextTargetStep ==
    ASSUME JobsOK, NEW j \in Jobs, NEW failed, NextTarget(j, failed)
    PROVE  job'[j].pc \in {"done", "check"}
  BY DEF NextTarget, JobsOK, JobState

Restored(j) == job[j].pc \in {"start", "wait", "logs"} => <<j, T(j)>> \in restored
Synced(t) == rd[t] # None /\ rd[t].last # None => <<rd[t].last, t>> \in restored

RestoreInv ==
    /\ \A t \in Targets : Synced(t)
    /\ \A j \in Jobs : Restored(j)
    /\ PassNeedsRestore

LEMMA ScriptRestores ==
    ASSUME JobsOK, ObjectsOK, RestoreInv, NEW j \in Jobs, Script(j)
    PROVE  RestoreInv'
  <1>1. Active(j) /\ T(j) \in Targets
    BY ScriptActive, TargetType
  <1>2. restored' = restored
    BY DEF Script, Check, DeletePod, DeleteRd, DeletePvc, Create, RestoreDone, RestoreFails,
           StartPod, PodEnds, PodTimesOut, Verdict
  <1>3. \A t \in Targets : Synced(t)'
    <2>1. CASE rd' = rd
      BY <1>2, <2>1 DEF RestoreInv, Synced
    <2>2. CASE DeleteRd(j)
      BY <1>1, <1>2, <2>2 DEF DeleteRd, RestoreInv, Synced, ObjectsOK
    <2>3. CASE Create(j)
      <3>1. \/ rd' = rd
            \/ rd' = [rd EXCEPT ![T(j)] =
                            IF @ = None THEN [id |-> j, last |-> None, result |-> ""]
                            ELSE [@ EXCEPT !.id = j]]
        BY <2>3 DEF Create
      <3>2. rd[T(j)] # None => [rd[T(j)] EXCEPT !.id = j].last = rd[T(j)].last
        BY <1>1 DEF ObjectsOK, RdState
      <3>3. \/ rd'[T(j)] = rd[T(j)]
            \/ rd'[T(j)].last = None
            \/ rd[T(j)] # None /\ rd'[T(j)].last = rd[T(j)].last
        <4>1. CASE rd' = rd
          BY <4>1
        <4>2. CASE rd' # rd
          <5>1. rd'[T(j)] = IF rd[T(j)] = None THEN [id |-> j, last |-> None, result |-> ""]
                            ELSE [rd[T(j)] EXCEPT !.id = j]
            BY <1>1, <3>1, <4>2 DEF ObjectsOK
          <5>2. CASE rd[T(j)] = None
            <6>1. rd'[T(j)] = [id |-> j, last |-> None, result |-> ""]
              BY <5>1, <5>2
            <6>2. [id |-> j, last |-> None, result |-> ""].last = None
              OBVIOUS
            <6>3. QED  BY <6>1, <6>2
          <5>3. CASE rd[T(j)] # None
            <6>1. rd'[T(j)] = [rd[T(j)] EXCEPT !.id = j]
              BY <5>1, <5>3
            <6>2. QED  BY <3>2, <5>3, <6>1
          <5>4. QED  BY <5>2, <5>3
        <4>3. QED  BY <4>1, <4>2
      <3>4. \A t \in Targets : t # T(j) => rd'[t] = rd[t]
        BY <1>1, <3>1 DEF ObjectsOK
      <3>5. QED  BY <1>2, <3>3, <3>4 DEF RestoreInv, Synced
    <2>4. QED
      BY <2>1, <2>2, <2>3 DEF Script, Check, DeletePod, DeletePvc, RestoreDone, RestoreFails,
                              StartPod, PodEnds, PodTimesOut, Verdict
  <1>4. Restored(j)'
    <2>1. CASE RestoreDone(j)
      <3>1. <<j, T(j)>> \in restored
        BY <1>1, <2>1, VerifyAssumption DEF RestoreDone, RestoreInv, Synced
      <3>2. QED  BY <1>2, <2>1, <3>1, GotoStep DEF RestoreDone, Restored
    <2>2. CASE StartPod(j)
      BY <1>2, <2>2, GotoStep, FinishStep DEF StartPod, Restored, RestoreInv
    <2>3. CASE PodEnds(j)
      <3>1. T(j)' = T(j)
        BY <2>3 DEF PodEnds, JobsOK, JobState, T
      <3>2. QED  BY <1>2, <2>3, <3>1 DEF PodEnds, Restored, RestoreInv
    <2>4. CASE Verdict(j) \/ PodTimesOut(j) \/ RestoreFails(j)
      BY <2>4, FinishStep DEF Verdict, PodTimesOut, RestoreFails, Restored
    <2>5. CASE Check(j)
      <3>1. CASE NextTarget(j, TRUE)
        BY <3>1, NextTargetStep DEF Restored
      <3>2. CASE job' = [job EXCEPT ![j].pc = "delpod", ![j].then = "create"]
        BY <3>2 DEF Restored, JobsOK, JobState
      <3>3. QED  BY <2>5, <3>1, <3>2 DEF Check
    <2>6. CASE DeletePod(j) \/ DeleteRd(j) \/ DeletePvc(j)
      <3>1. \/ Goto(j, "delrd") \/ Goto(j, "delpvc") \/ Goto(j, "create") \/ Goto(j, "done")
            \/ NextTarget(j, FALSE)
        BY <2>6 DEF DeletePod, DeleteRd, DeletePvc
      <3>2. job'[j].pc \in {"delrd", "delpvc", "create", "done", "check"}
        BY <3>1, GotoStep, NextTargetStep
      <3>3. QED  BY <3>2 DEF Restored
    <2>7. CASE Create(j)
      <3>1. Goto(j, "restore") \/ Finish(j, TRUE)
        BY <2>7 DEF Create
      <3>2. job'[j].pc \in {"restore", "delpod"}
        BY <3>1, GotoStep, FinishStep
      <3>3. QED  BY <3>2 DEF Restored
    <2>8. QED  BY <2>1, <2>2, <2>3, <2>4, <2>5, <2>6, <2>7 DEF Script
  <1>5. \A i \in Jobs : i # j => Restored(i)'
    BY <1>2, JobFrame DEF Restored, RestoreInv, T
  <1>6. PassNeedsRestore'
    <2>1. CASE Verdict(j)
      <3>1. <<j, T(j)>> \in restored
        BY <2>1 DEF Verdict, RestoreInv, Restored
      <3>2. \A p \in passes' : p \in passes \/ (p.job = j /\ p.target = T(j))
        <4>1. passes' = passes \/ passes' = passes \union
                  {[job |-> j, target |-> T(j), seen |-> pod[T(j)].seen]}
          BY <2>1 DEF Verdict
        <4>2. QED  BY <4>1
      <3>3. QED  BY <1>2, <3>1, <3>2 DEF PassNeedsRestore, RestoreInv
    <2>2. CASE passes' = passes
      BY <1>2, <2>2 DEF PassNeedsRestore, RestoreInv
    <2>3. QED
      BY <2>1, <2>2 DEF Script, Check, DeletePod, DeleteRd, DeletePvc, Create, RestoreDone,
                        RestoreFails, StartPod, PodEnds, PodTimesOut
  <1>7. QED  BY <1>3, <1>4, <1>5, <1>6 DEF RestoreInv

LEMMA ClusterRestores ==
    ASSUME JobsOK, ObjectsOK, RestoreInv, NEW t \in Targets, Cluster(t)
    PROVE  RestoreInv'
  <1>1. UNCHANGED <<job, passes>> /\ restored \subseteq restored'
    BY DEF Cluster, MoverStarts, MoverDone, MoverFails, CheckRuns, Vanish
  <1>2. \A s \in Targets : Synced(s)'
    <2>1. CASE MoverDone(t)
      BY <2>1 DEF MoverDone, ObjectsOK, RestoreInv, Synced
    <2>2. CASE MoverFails(t)
      <3>1. rd[t] # None => [rd[t] EXCEPT !.result = "Failed"].last = rd[t].last
        BY DEF ObjectsOK, RdState
      <3>2. rd' = rd \/ (rd[t] # None /\ rd' = [rd EXCEPT ![t] = [rd[t] EXCEPT !.result = "Failed"]])
        BY <2>2 DEF MoverFails
      <3>3. QED  BY <1>1, <2>2, <3>1, <3>2 DEF MoverFails, ObjectsOK, RestoreInv, Synced
    <2>3. CASE Vanish(t)
      BY <1>1, <2>3 DEF Vanish, ObjectsOK, RestoreInv, Synced
    <2>4. CASE MoverStarts(t) \/ CheckRuns(t)
      BY <1>1, <2>4 DEF MoverStarts, CheckRuns, RestoreInv, Synced
    <2>5. QED  BY <2>1, <2>2, <2>3, <2>4 DEF Cluster
  <1>3. QED  BY <1>1, <1>2 DEF RestoreInv, Restored, PassNeedsRestore, T

\* However runs interleave, are killed or fail to delete: none passes a target
\* that VolSync did not restore for that run.
THEOREM NeedsRestore == Spec => []PassNeedsRestore
  <1>1. Init => RestoreInv
    <2> SUFFICES ASSUME Init PROVE RestoreInv
      OBVIOUS
    <2>1. \A j \in Jobs : job[j].pc = "off"
      BY DEF Init, Off
    <2>2. \A t \in Targets : rd[t] = None
      BY DEF Init
    <2>3. QED  BY <2>1, <2>2 DEF Init, RestoreInv, Synced, Restored, PassNeedsRestore
  <1>2. TypeOK /\ RestoreInv /\ [Next]_vars => RestoreInv'
    <2> SUFFICES ASSUME JobsOK, ObjectsOK, RestoreInv, [Next]_vars PROVE RestoreInv'
      BY DEF TypeOK, JobsOK, ObjectsOK, At
    <2>1. ASSUME NEW j \in Jobs, Start(j) \/ Term(j) \/ Kill(j) PROVE RestoreInv'
      <3>1. UNCHANGED <<rd, passes, restored>>
        BY <2>1 DEF Start, Term, Kill
      <3>2. job'[j].pc \notin {"start", "wait", "logs"}
        <4>1. CASE Start(j)  BY <4>1 DEF Start, JobsOK, Off
        <4>2. CASE Term(j)  BY <4>2 DEF Term, JobsOK, JobState
        <4>3. CASE Kill(j)  BY <4>3 DEF Kill, Goto, JobsOK, JobState
        <4>4. QED  BY <2>1, <4>1, <4>2, <4>3
      <3>3. \A i \in Jobs : Restored(i)'
        BY <2>1, <3>1, <3>2, JobFrame DEF Restored, RestoreInv, T
      <3>4. QED  BY <3>1, <3>3 DEF RestoreInv, Synced, PassNeedsRestore
    <2>2. ASSUME NEW j \in Jobs, Script(j) PROVE RestoreInv'
      BY <2>2, ScriptRestores
    <2>3. ASSUME NEW t \in Targets, Cluster(t) PROVE RestoreInv'
      BY <2>3, ClusterRestores
    <2>4. CASE UNCHANGED vars
      BY <2>4 DEF vars, RestoreInv, Synced, Restored, PassNeedsRestore, T
    <2>5. QED  BY <2>1, <2>2, <2>3, <2>4 DEF Next
  <1>3. QED  BY <1>1, <1>2, TypeCorrect, PTL DEF Spec, RestoreInv
-----------------------------------------------------------------------------
(* What a PASS means while runs do not overlap and deletes work.           *)

Alone == \A i, j \in Jobs : Active(i) /\ Active(j) => i = j

\* The objects of target t belong to run j, which restores into the PVC.
Restoring(j, t) ==
    /\ rd[t] # None => rd[t].id = j /\ rd[t].last \in {None, j}
    /\ pvc[t] # None => pvc[t].mover \in {None, j} /\ (pvc[t].mover = j => pvc[t].by = j)
    /\ rd[t] # None /\ rd[t].last = j /\ pvc[t] # None =>
          pvc[t].by = j /\ pvc[t].state = "full" /\ pvc[t].mover = None

\* It has restored, and nothing will write to the PVC again.
Whole(j, t) ==
    /\ rd[t] # None => rd[t].id = j /\ rd[t].last = j
    /\ pvc[t] # None => pvc[t].by = j /\ pvc[t].state = "full" /\ pvc[t].mover = None

Checked(j, t) == pod[t] # None /\ pod[t].ok => pod[t].seen = [by |-> j, state |-> "full"]

\* What a run can rely on at each of its steps.
Own(j) ==
    LET t == T(j) IN
    /\ job[j].then = "create" /\ job[j].pc \in {"delrd", "delpvc"} => pod[t] = None
    /\ job[j].then = "create" /\ job[j].pc = "delpvc" => rd[t] = None
    /\ job[j].pc = "create" => pod[t] = None /\ rd[t] = None /\ pvc[t] = None
    /\ job[j].pc = "restore" => pod[t] = None /\ Restoring(j, t)
    /\ job[j].pc = "start" => pod[t] = None /\ Whole(j, t)
    /\ job[j].pc \in {"wait", "logs"} => Whole(j, t) /\ Checked(j, t)

OwnInv == Alone /\ (\A j \in Jobs : Own(j)) /\ PassIsVerified

\* At these steps a run relies on nothing.
LEMMA OwnNothing ==
    ASSUME NEW j \in Jobs, job[j].pc \in {"off", "done", "killed", "check", "delpod"}
    PROVE  Own(j)
  BY DEF Own

LEMMA OwnNothingPrime ==
    ASSUME NEW j \in Jobs, job'[j].pc \in {"off", "done", "killed", "check", "delpod"}
    PROVE  Own(j)'
  BY DEF Own

\* While one run acts the others are not active and rely on nothing.
LEMMA OthersOwn ==
    ASSUME JobsOK, OwnInv, NEW j \in Jobs, Active(j), Script(j) \/ Term(j) \/ Kill(j)
    PROVE  /\ \A i \in Jobs : i # j => Own(i)'
           /\ Alone'
  <1>1. \A i \in Jobs : i # j => ~Active(i) /\ job'[i] = job[i]
    BY JobFrame DEF OwnInv, Alone
  <1>2. \A i \in Jobs : i # j => Own(i)'
    BY <1>1, OwnNothingPrime DEF Active, Ended
  <1>3. QED  BY <1>1, <1>2 DEF Alone, Active

LEMMA ScriptOwns ==
    ASSUME ~DeleteFails, JobsOK, ObjectsOK, OwnInv, NEW j \in Jobs, Script(j)
    PROVE  OwnInv'
  <1> DEFINE t == T(j)
  <1>1. Active(j) /\ t \in Targets
    BY ScriptActive, TargetType
  <1>2. Own(j)
    BY DEF OwnInv
  <1>3. Own(j)'
    <2>1. CASE Check(j)
      <3>1. CASE NextTarget(j, TRUE)
        BY <3>1, NextTargetStep, OwnNothingPrime
      <3>2. CASE job' = [job EXCEPT ![j].pc = "delpod", ![j].then = "create"]
        <4>1. job'[j].pc = "delpod"
          BY <3>2 DEF JobsOK, JobState
        <4>2. QED  BY <4>1, OwnNothingPrime
      <3>3. QED  BY <2>1, <3>1, <3>2 DEF Check
    <2>2. CASE DeletePod(j)
      <3>1. job'[j].pc = "delrd" /\ T(j)' = t
        BY <2>2, GotoStep DEF DeletePod
      <3>2. pod'[t] = None
        BY <1>1, <2>2 DEF DeletePod, Doom, ObjectsOK
      <3> HIDE DEF t
      <3>3. QED  BY <3>1, <3>2 DEF Own
    <2>3. CASE DeleteRd(j)
      <3>1. job'[j].pc = "delpvc" /\ job'[j].then = job[j].then /\ T(j)' = t
        BY <2>3, GotoStep DEF DeleteRd
      <3>2. rd'[t] = None /\ pod' = pod
        BY <1>1, <2>3 DEF DeleteRd, Doom, ObjectsOK
      <3>3. job[j].then = "create" => pod[t] = None
        BY <1>2, <2>3 DEF DeleteRd, Own
      <3> HIDE DEF t
      <3>4. QED  BY <3>1, <3>2, <3>3 DEF Own
    <2>4. CASE DeletePvc(j)
      <3>1. CASE job[j].then = "create" /\ Goto(j, "create")
        <4>1. job'[j].pc = "create" /\ T(j)' = t
          BY <3>1, GotoStep
        <4>2. pvc'[t] = None /\ UNCHANGED <<rd, pod>>
          BY <1>1, <2>4 DEF DeletePvc, Doom, ObjectsOK
        <4>3. pod[t] = None /\ rd[t] = None
          BY <1>2, <2>4, <3>1 DEF DeletePvc, Own
        <4> HIDE DEF t
        <4>4. QED  BY <4>1, <4>2, <4>3 DEF Own
      <3>2. CASE NextTarget(j, FALSE) \/ Goto(j, "done")
        BY <3>2, NextTargetStep, GotoStep, OwnNothingPrime
      <3>3. QED  BY <2>4, <3>1, <3>2 DEF DeletePvc
    <2>5. CASE Create(j)
      <3>1. CASE Finish(j, TRUE)
        BY <3>1, FinishStep, OwnNothingPrime
      <3>2. CASE Goto(j, "restore") /\ ~Finish(j, TRUE)
        <4>1. job'[j].pc = "restore" /\ T(j)' = t
          BY <3>2, GotoStep
        <4>2. pod[t] = None /\ rd[t] = None /\ pvc[t] = None
          BY <1>2, <2>5 DEF Create, Own
        <4>3. /\ pvc'[t] = NewPvc
              /\ rd'[t] = [id |-> j, last |-> None, result |-> ""]
              /\ pod' = pod
          BY <1>1, <2>5, <3>2, <4>2 DEF Create, ObjectsOK
        <4>4. rd'[t].id = j /\ rd'[t].last = None /\ pvc'[t].mover = None
          <5> HIDE DEF t
          <5>1. /\ [id |-> j, last |-> None, result |-> ""].id = j
                /\ [id |-> j, last |-> None, result |-> ""].last = None
            OBVIOUS
          <5>2. NewPvc.mover = None
            BY DEF NewPvc
          <5>3. QED  BY <4>3, <5>1, <5>2
        <4>6. j # None
          BY VerifyAssumption
        <4> HIDE DEF t
        <4>7. QED  BY <4>1, <4>2, <4>3, <4>4, <4>6 DEF Own, Restoring
      <3>3. QED  BY <2>5, <3>1, <3>2 DEF Create
    <2>6. CASE RestoreDone(j)
      <3>1. job'[j].pc = "start" /\ T(j)' = t /\ UNCHANGED <<pvc, rd, pod>>
        BY <2>6, GotoStep DEF RestoreDone
      <3>2. pod[t] = None /\ Restoring(j, t) /\ rd[t] # None /\ rd[t].last = j
        BY <1>2, <2>6 DEF RestoreDone, Own
      <3>3. Whole(j, t)
        BY <3>2 DEF Restoring, Whole
      <3> HIDE DEF t
      <3>4. QED  BY <3>1, <3>2, <3>3 DEF Own, Whole
    <2>7. CASE RestoreFails(j) \/ PodTimesOut(j) \/ Verdict(j)
      BY <2>7, FinishStep, OwnNothingPrime DEF RestoreFails, PodTimesOut, Verdict
    <2>8. CASE StartPod(j)
      <3>1. CASE Finish(j, TRUE)
        BY <3>1, FinishStep, OwnNothingPrime
      <3>2. CASE Goto(j, "wait") /\ ~Finish(j, TRUE)
        <4>1. job'[j].pc = "wait" /\ T(j)' = t /\ UNCHANGED <<pvc, rd>>
          BY <2>8, <3>2, GotoStep DEF StartPod
        <4>2. pod[t] = None /\ Whole(j, t)
          BY <1>2, <2>8 DEF StartPod, Own
        <4>3. pod'[t] = NewPod
          BY <1>1, <2>8, <3>2, <4>2 DEF StartPod, ObjectsOK
        <4>4. ~pod'[t].ok
          BY <4>3 DEF NewPod
        <4> HIDE DEF t
        <4>5. QED  BY <4>1, <4>2, <4>4 DEF Own, Whole, Checked
      <3>3. QED  BY <2>8, <3>1, <3>2 DEF StartPod
    <2>9. CASE PodEnds(j)
      <3>1. job'[j].pc = "logs" /\ T(j)' = t /\ UNCHANGED <<pvc, rd, pod>>
        BY <2>9 DEF PodEnds, JobsOK, JobState, T
      <3>2. Whole(j, t) /\ Checked(j, t)
        BY <1>2, <2>9 DEF PodEnds, Own
      <3> HIDE DEF t
      <3>3. QED  BY <3>1, <3>2 DEF Own, Whole, Checked
    <2>10. QED
      BY <2>1, <2>2, <2>3, <2>4, <2>5, <2>6, <2>7, <2>8, <2>9 DEF Script
  <1>4. PassIsVerified'
    <2>1. CASE Verdict(j)
      <3>1. Checked(j, t)
        BY <1>2, <2>1 DEF Verdict, Own
      <3>2. passes' = passes \/ (pod[t] # None /\ pod[t].ok /\
                passes' = passes \union {[job |-> j, target |-> t, seen |-> pod[t].seen]})
        BY <2>1 DEF Verdict
      <3> HIDE DEF t
      <3>3. pod[t] # None /\ pod[t].ok => pod[t].seen = [by |-> j, state |-> "full"]
        BY <3>1 DEF Checked
      <3>4. \A p \in passes' : p \in passes \/ p.seen = [by |-> p.job, state |-> "full"]
        BY <3>2, <3>3
      <3>5. QED  BY <3>4 DEF PassIsVerified, OwnInv
    <2>2. CASE passes' = passes
      BY <2>2 DEF PassIsVerified, OwnInv
    <2>3. QED
      BY <2>1, <2>2 DEF Script, Check, DeletePod, DeleteRd, DeletePvc, Create, RestoreDone,
                        RestoreFails, StartPod, PodEnds, PodTimesOut
  <1>5. QED  BY <1>1, <1>3, <1>4, OthersOwn DEF OwnInv

\* The cluster keeps what a run relies on.
LEMMA ClusterOwns ==
    ASSUME JobsOK, ObjectsOK, NEW t \in Targets, Cluster(t), NEW j \in Jobs, Own(j), j # None
    PROVE  Own(j)'
  <1>1. job' = job /\ T(j)' = T(j)
    BY DEF Cluster, MoverStarts, MoverDone, MoverFails, CheckRuns, Vanish, T
  <1>2. CASE T(j) # t
    <2>1. T(j)' # t /\ \A u \in Targets : u # t => pvc'[u] = pvc[u] /\ rd'[u] = rd[u] /\ pod'[u] = pod[u]
      BY <1>1, <1>2 DEF Cluster, MoverStarts, MoverDone, MoverFails, CheckRuns, Vanish, ObjectsOK
    <2>2. CASE ~Active(j)
      BY <1>1, <2>2, OwnNothingPrime DEF Active, Ended
    <2>3. CASE Active(j)
      <3>1. T(j) \in Targets
        BY <2>3, TargetType
      <3> DEFINE u == T(j)
      <3>2. pvc'[u] = pvc[u] /\ rd'[u] = rd[u] /\ pod'[u] = pod[u] /\ T(j)' = u
        BY <1>1, <1>2, <2>1, <3>1
      <3> HIDE DEF u
      <3>3. QED  BY <1>1, <3>2 DEF Own, Restoring, Whole, Checked, u
    <2>4. QED  BY <2>2, <2>3
  <1>3. CASE T(j) = t
    <2> DEFINE pc == job[j].pc
    <2>1. pod[t] = None => pod'[t] = None
      BY DEF Cluster, MoverStarts, MoverDone, MoverFails, CheckRuns, Vanish, ObjectsOK
    <2>2. rd[t] = None => rd'[t] = None
      BY DEF Cluster, MoverStarts, MoverDone, MoverFails, CheckRuns, Vanish, ObjectsOK
    <2>3. pvc[t] = None => pvc'[t] = None
      BY DEF Cluster, MoverStarts, MoverDone, MoverFails, CheckRuns, Vanish, ObjectsOK
    <2>4. Restoring(j, t) => Restoring(j, t)'
      <3> SUFFICES ASSUME Restoring(j, t) PROVE Restoring(j, t)'
        OBVIOUS
      <3>1. CASE MoverStarts(t)
        <4>1. pvc'[t] = [by |-> rd[t].id, state |-> "partial", mover |-> rd[t].id] /\ rd' = rd
          BY <3>1 DEF MoverStarts, ObjectsOK
        <4>2. rd[t].id = j /\ rd[t].last # j
          BY <3>1 DEF MoverStarts, Restoring
        <4>3. QED  BY <4>1, <4>2 DEF Restoring
      <3>2. CASE MoverDone(t)
        <4>1. pvc[t].mover = j /\ pvc[t].by = j
          BY <3>2 DEF MoverDone, Restoring
        <4>2. pvc'[t] = [pvc[t] EXCEPT !.state = "full", !.mover = None] /\ pvc[t] \in PvcState
          BY <3>2 DEF MoverDone, ObjectsOK
        <4>3. pvc'[t].by = j /\ pvc'[t].state = "full" /\ pvc'[t].mover = None
          BY <4>1, <4>2 DEF PvcState
        <4>4. rd'[t] = rd[t] \/ (rd'[t].id = rd[t].id /\ rd'[t].last = rd[t].id /\ rd[t] # None)
          BY <3>2 DEF MoverDone, ObjectsOK
        <4>5. QED  BY <4>3, <4>4 DEF Restoring
      <3>3. CASE MoverFails(t)
        <4>1. pvc[t].mover = j /\ pvc[t].by = j
          BY <3>3 DEF MoverFails, Restoring
        <4>2. pvc'[t] = [pvc[t] EXCEPT !.mover = None] /\ pvc[t] \in PvcState
          BY <3>3 DEF MoverFails, ObjectsOK
        <4>3. pvc'[t].by = j /\ pvc'[t].mover = None
          BY <4>1, <4>2 DEF PvcState
        <4>4. rd'[t] = rd[t] \/ (rd[t] # None /\ rd'[t] = [rd[t] EXCEPT !.result = "Failed"])
          BY <3>3 DEF MoverFails, ObjectsOK
        <4>5. rd[t] # None => rd[t] \in RdState
          BY DEF ObjectsOK
        <4>6. rd'[t] = rd[t] \/ (rd'[t].id = rd[t].id /\ rd'[t].last = rd[t].last /\ rd[t] # None)
          BY <4>4, <4>5 DEF RdState
        <4>7. rd[t] # None => rd[t].last # j
          BY <3>3, <4>1 DEF MoverFails, Restoring
        <4>8. QED  BY <4>3, <4>6, <4>7 DEF Restoring
      <3>4. CASE CheckRuns(t)
        BY <3>4 DEF CheckRuns, Restoring
      <3>5. CASE Vanish(t)
        <4>1. (pvc'[t] = pvc[t] \/ pvc'[t] = None) /\ (rd'[t] = rd[t] \/ rd'[t] = None)
          BY <3>5 DEF Vanish, ObjectsOK
        <4>2. QED  BY <4>1 DEF Restoring
      <3>6. QED  BY <3>1, <3>2, <3>3, <3>4, <3>5 DEF Cluster
    <2>5. Whole(j, t) => Whole(j, t)'
      <3> SUFFICES ASSUME Whole(j, t) PROVE Whole(j, t)'
        OBVIOUS
      <3>1. ~MoverStarts(t) /\ ~MoverDone(t) /\ ~MoverFails(t)
        BY DEF Whole, MoverStarts, MoverDone, MoverFails
      <3>2. (pvc'[t] = pvc[t] \/ pvc'[t] = None) /\ (rd'[t] = rd[t] \/ rd'[t] = None)
        BY <3>1 DEF Cluster, CheckRuns, Vanish, ObjectsOK
      <3>3. QED  BY <3>2 DEF Whole
    <2>6. Whole(j, t) /\ Checked(j, t) => Checked(j, t)'
      <3> SUFFICES ASSUME Whole(j, t), Checked(j, t) PROVE Checked(j, t)'
        OBVIOUS
      <3>1. CASE CheckRuns(t)
        <4>1. pvc[t].by = j
          BY <3>1 DEF CheckRuns, Whole
        <4>2. pvc[t].state = "full"
          BY <3>1 DEF CheckRuns, Whole
        <4>3. \E ok \in BOOLEAN, phase \in {"Succeeded", "Failed"} :
                 pod'[t] = [phase |-> phase, ok |-> ok, seen |-> [by |-> j, state |-> "full"]]
          BY <3>1, <4>1, <4>2 DEF CheckRuns, ObjectsOK
        <4>4. pod'[t].seen = [by |-> j, state |-> "full"]
          BY <4>3
        <4>5. QED  BY <4>4 DEF Checked
      <3>2. CASE ~CheckRuns(t)
        <4>1. pod'[t] = pod[t] \/ pod'[t] = None
          BY <3>2 DEF Cluster, MoverStarts, MoverDone, MoverFails, Vanish, ObjectsOK
        <4>2. QED  BY <4>1 DEF Checked
      <3>3. QED  BY <3>1, <3>2
    <2>7. T(j)' = t
      BY <1>1, <1>3
    <2>8. QED  BY <1>1, <1>3, <2>1, <2>2, <2>3, <2>4, <2>5, <2>6, <2>7 DEF Own
  <1>4. QED  BY <1>2, <1>3

LEMMA OwnAlways == ASSUME ~DeleteFails, Manual = {} PROVE Spec => []OwnInv
  <1>1. Init => OwnInv
    <2> SUFFICES ASSUME Init PROVE OwnInv
      OBVIOUS
    <2>1. \A j \in Jobs : job[j].pc = "off"
      BY DEF Init, Off
    <2>2. \A j \in Jobs : Own(j)
      BY <2>1, OwnNothing
    <2>3. QED  BY <2>1, <2>2 DEF Init, OwnInv, Alone, Active, Ended, PassIsVerified
  <1>2. TypeOK /\ OwnInv /\ [Next]_vars => OwnInv'
    <2> SUFFICES ASSUME JobsOK, ObjectsOK, OwnInv, [Next]_vars PROVE OwnInv'
      BY DEF TypeOK, JobsOK, ObjectsOK, At
    <2>1. ASSUME NEW j \in Jobs, Start(j) PROVE OwnInv'
      <3>1. \A i \in Jobs : ~Active(i)
        BY <2>1 DEF Start
      <3>2. \A i \in Jobs : i # j => job'[i] = job[i]
        BY <2>1, JobFrame
      <3>3. job'[j].pc = "check"
        BY <2>1 DEF Start, JobsOK, Off
      <3>4. \A i \in Jobs : Own(i)'
        BY <3>1, <3>2, <3>3, OwnNothingPrime DEF Active, Ended
      <3>5. Alone'
        BY <3>1, <3>2 DEF Alone, Active
      <3>6. QED  BY <2>1, <3>4, <3>5 DEF Start, OwnInv, PassIsVerified
    <2>2. ASSUME NEW j \in Jobs, Script(j) PROVE OwnInv'
      BY <2>2, ScriptOwns
    <2>3. ASSUME NEW j \in Jobs, Term(j) \/ Kill(j) PROVE OwnInv'
      <3>1. Active(j) /\ UNCHANGED passes
        BY <2>3 DEF Term, Kill
      <3>2. job'[j].pc \in {"done", "delpod", "killed"}
        <4>1. CASE Term(j)  BY <4>1 DEF Term, JobsOK, JobState
        <4>2. CASE Kill(j)  BY <4>2, GotoStep DEF Kill
        <4>3. QED  BY <2>3, <4>1, <4>2
      <3>3. Own(j)'
        BY <3>2, OwnNothingPrime
      <3>4. QED  BY <2>3, <3>1, <3>3, OthersOwn DEF OwnInv, PassIsVerified
    <2>4. ASSUME NEW t \in Targets, Cluster(t) PROVE OwnInv'
      <3>1. UNCHANGED <<job, passes>>
        BY <2>4 DEF Cluster, MoverStarts, MoverDone, MoverFails, CheckRuns, Vanish
      <3>2. \A j \in Jobs : Own(j)'
        BY <2>4, ClusterOwns, VerifyAssumption DEF OwnInv
      <3>3. QED  BY <3>1, <3>2 DEF OwnInv, Alone, Active, PassIsVerified
    <2>5. CASE UNCHANGED vars
      BY <2>5 DEF vars, OwnInv, Alone, Active, Own, Restoring, Whole, Checked, PassIsVerified, T
    <2>6. QED  BY <2>1, <2>2, <2>3, <2>4, <2>5 DEF Next
  <1>3. QED  BY <1>1, <1>2, TypeCorrect, PTL DEF Spec

\* While runs do not overlap and deletes work, a PASS means that a pod found sound
\* what that run had restored completely, whatever earlier runs left behind.
THEOREM Verified == ASSUME ~DeleteFails, Manual = {} PROVE Spec => []PassIsVerified
  <1>1. OwnInv => PassIsVerified
    BY DEF OwnInv
  <1>2. QED  BY <1>1, OwnAlways, PTL
-----------------------------------------------------------------------------
(* A run that succeeds has passed all its targets.                         *)

Has(j, i) == \E p \in passes : p.job = j /\ p.target = job[j].list[i]
Before(j) == \A i \in 1..(job[j].at - 1) : Has(j, i)
Here(j) == Has(j, job[j].at)

\* What a run that has not failed has passed at each of its steps.
Sound(j) ==
    ~job[j].failed =>
        /\ job[j].pc = "done" => \A i \in 1..Len(job[j].list) : Has(j, i)
        /\ Active(j) => job[j].then # "exit" /\ Before(j)
        /\ job[j].pc \in {"delpod", "delrd", "delpvc"} /\ job[j].then = "next" => Here(j)

SoundInv == \A j \in Jobs : Sound(j)

\* A pass is never taken back.
LEMMA PassesKept ==
    ASSUME [Next]_vars
    PROVE  passes \subseteq passes'
  BY DEF Next, Start, Script, Term, Kill, Check, DeletePod, DeleteRd, DeletePvc, Create,
         RestoreDone, RestoreFails, StartPod, PodEnds, PodTimesOut, Verdict,
         Cluster, MoverStarts, MoverDone, MoverFails, CheckRuns, Vanish, vars

LEMMA PassedKept ==
    ASSUME passes \subseteq passes', NEW j \in Jobs, job'[j].list = job[j].list
    PROVE  /\ \A i : Has(j, i) => Has(j, i)'
           /\ job'[j].at = job[j].at => (Before(j) => Before(j)') /\ (Here(j) => Here(j)')
  BY DEF Has, Before, Here

\* The fields that the steps of a run leave alone.
LEMMA GotoKeeps ==
    ASSUME JobsOK, NEW j \in Jobs, NEW pc, Goto(j, pc)
    PROVE  /\ job'[j].pc = pc /\ job'[j].then = job[j].then /\ job'[j].at = job[j].at
           /\ job'[j].list = job[j].list /\ job'[j].failed = job[j].failed
  BY DEF Goto, JobsOK, JobState

LEMMA FinishKeeps ==
    ASSUME JobsOK, NEW j \in Jobs, NEW failed \in BOOLEAN, Finish(j, failed)
    PROVE  /\ job'[j].pc = "delpod" /\ job'[j].then = "next" /\ job'[j].at = job[j].at
           /\ job'[j].list = job[j].list
           /\ failed => job'[j].failed
           /\ job[j].failed => job'[j].failed
  <1>1. job[j] \in JobState
    BY DEF JobsOK
  <1>2. job'[j] = [job[j] EXCEPT !.pc = "delpod", !.then = "next", !.failed = @ \/ failed]
    BY DEF Finish, JobsOK
  <1>3. QED  BY <1>1, <1>2 DEF JobState

LEMMA NextTargetKeeps ==
    ASSUME JobsOK, NEW j \in Jobs, NEW failed \in BOOLEAN, NextTarget(j, failed)
    PROVE  /\ IF job[j].at = Len(job[j].list)
              THEN job'[j].pc = "done" /\ job'[j].at = job[j].at
              ELSE job'[j].pc = "check" /\ job'[j].at = job[j].at + 1
           /\ job'[j].list = job[j].list /\ job'[j].then = job[j].then
           /\ failed => job'[j].failed
           /\ job[j].failed => job'[j].failed
  <1>1. job[j] \in JobState
    BY DEF JobsOK
  <1>2. job'[j] = [job[j] EXCEPT !.pc = IF job[j].at = Len(job[j].list) THEN "done" ELSE "check",
                                 !.at = IF job[j].at = Len(job[j].list) THEN @ ELSE @ + 1,
                                 !.failed = @ \/ failed]
    BY DEF NextTarget, JobsOK
  <1>3. CASE job[j].at = Len(job[j].list)
    BY <1>1, <1>2, <1>3 DEF JobState
  <1>4. CASE job[j].at # Len(job[j].list)
    BY <1>1, <1>2, <1>4 DEF JobState
  <1>5. QED  BY <1>3, <1>4

\* A run that has failed is sound whatever it does.
LEMMA FailedSound ==
    ASSUME NEW j \in Jobs, job'[j].failed
    PROVE  Sound(j)'
  BY DEF Sound

LEMMA ScriptSound ==
    ASSUME JobsOK, ObjectsOK, SoundInv, NEW j \in Jobs, Script(j)
    PROVE  Sound(j)'
  <1>1. Active(j) /\ Sound(j) /\ job[j] \in JobState /\ job[j].at \in 1..Len(job[j].list)
    BY ScriptActive, TargetType DEF SoundInv
  <1>2. passes \subseteq passes'
    BY PassesKept DEF Next
  <1>3. job[j].at \in Nat /\ Len(job[j].list) \in Nat
    <2>1. job[j].list \in Seq(Targets) /\ job[j].at \in Nat
      BY <1>1 DEF JobState
    <2>2. QED  BY <2>1
  <1>4. CASE job[j].failed
    <2>1. job'[j].failed
      <3>1. CASE Check(j)
        <4>1. CASE NextTarget(j, TRUE)
          BY <4>1, NextTargetKeeps
        <4>2. CASE job' = [job EXCEPT ![j].pc = "delpod", ![j].then = "create"]
          BY <1>1, <1>4, <4>2 DEF JobsOK, JobState
        <4>3. QED  BY <3>1, <4>1, <4>2 DEF Check
      <3>2. CASE PodEnds(j)
        BY <1>1, <1>4, <3>2 DEF PodEnds, JobsOK, JobState
      <3>3. CASE ~Check(j) /\ ~PodEnds(j)
        <4>1. \/ \E pc \in Steps : Goto(j, pc)
              \/ \E f \in BOOLEAN : Finish(j, f) \/ NextTarget(j, f)
          BY <3>3 DEF Script, DeletePod, DeleteRd, DeletePvc, Create, RestoreDone, RestoreFails,
                      StartPod, PodTimesOut, Verdict, Steps, Ended
        <4>2. QED  BY <1>4, <4>1, GotoKeeps, FinishKeeps, NextTargetKeeps
      <3>4. QED  BY <3>1, <3>2, <3>3
    <2>2. QED  BY <2>1, FailedSound
  <1>5. CASE ~job[j].failed
    <2>1. job[j].then # "exit" /\ Before(j)
      BY <1>1, <1>5 DEF Sound
    <2>2. ASSUME NEW pc \in Steps \ Ended, Goto(j, pc),
                 pc \in {"delpod", "delrd", "delpvc"} => job[j].pc \in {"delpod", "delrd", "delpvc"}
          PROVE  Sound(j)'
      <3>1. /\ job'[j].pc = pc /\ job'[j].then = job[j].then /\ job'[j].at = job[j].at
            /\ job'[j].list = job[j].list
        BY <2>2, GotoKeeps
      <3>2. Before(j)'
        BY <1>2, <2>1, <3>1, PassedKept
      <3>3. pc \in {"delpod", "delrd", "delpvc"} /\ job[j].then = "next" => Here(j)'
        <4>1. pc \in {"delpod", "delrd", "delpvc"} /\ job[j].then = "next" => Here(j)
          BY <1>1, <1>5, <2>2 DEF Sound
        <4>2. QED  BY <1>2, <3>1, <4>1, PassedKept
      <3>4. pc # "done"
        BY DEF Ended
      <3>5. QED  BY <2>1, <3>1, <3>2, <3>3, <3>4 DEF Sound
    <2>3. CASE Check(j)
      <3>1. CASE NextTarget(j, TRUE)
        BY <3>1, NextTargetKeeps, FailedSound
      <3>2. CASE job' = [job EXCEPT ![j].pc = "delpod", ![j].then = "create"]
        <4>1. /\ job'[j].pc = "delpod" /\ job'[j].then = "create" /\ job'[j].at = job[j].at
              /\ job'[j].list = job[j].list
          BY <1>1, <3>2 DEF JobsOK, JobState
        <4>2. Before(j)'
          BY <1>2, <2>1, <4>1, PassedKept
        <4>3. QED  BY <4>1, <4>2 DEF Sound
      <3>3. QED  BY <2>3, <3>1, <3>2 DEF Check
    <2>4. CASE DeletePod(j) \/ DeleteRd(j) \/ RestoreDone(j)
      BY <2>2, <2>4 DEF DeletePod, DeleteRd, RestoreDone, Steps, Ended
    <2>5. CASE DeletePvc(j)
      <3>1. CASE Goto(j, "create")
        BY <2>2, <3>1 DEF Steps, Ended
      <3>2. CASE NextTarget(j, FALSE) /\ job[j].then = "next"
        <4>1. Here(j)
          BY <1>1, <1>5, <2>5, <3>2 DEF DeletePvc, Sound
        <4>2. job'[j].list = job[j].list /\ job'[j].then = "next"
          BY <3>2, NextTargetKeeps
        <4>3. \A i \in 1..job[j].at : Has(j, i)'
          <5> SUFFICES ASSUME NEW i \in 1..job[j].at PROVE Has(j, i)'
            OBVIOUS
          <5>1. Has(j, i)
            BY <1>3, <2>1, <4>1 DEF Before, Here
          <5>2. QED  BY <1>2, <4>2, <5>1, PassedKept
        <4>4. CASE job[j].at = Len(job[j].list)
          <5>1. job'[j].pc = "done" /\ job'[j].at = job[j].at
            BY <3>2, <4>4, NextTargetKeeps
          <5>2. QED  BY <4>2, <4>3, <4>4, <5>1 DEF Sound, Active, Ended
        <4>5. CASE job[j].at # Len(job[j].list)
          <5>1. job'[j].pc = "check" /\ job'[j].at = job[j].at + 1
            BY <3>2, <4>5, NextTargetKeeps
          <5>2. job'[j].at - 1 = job[j].at
            BY <1>3, <5>1
          <5>3. Before(j)'
            BY <4>3, <5>2 DEF Before
          <5>4. QED  BY <4>2, <5>1, <5>3 DEF Sound
        <4>6. QED  BY <4>4, <4>5
      <3>3. QED  BY <2>1, <2>5, <3>1, <3>2 DEF DeletePvc
    <2>6. CASE Create(j) \/ StartPod(j)
      <3>1. CASE Finish(j, TRUE)
        BY <3>1, FinishKeeps, FailedSound
      <3>2. CASE Goto(j, "restore") \/ Goto(j, "wait")
        BY <2>2, <3>2 DEF Steps, Ended
      <3>3. QED  BY <2>6, <3>1, <3>2 DEF Create, StartPod
    <2>7. CASE RestoreFails(j) \/ PodTimesOut(j)
      BY <2>7, FinishKeeps, FailedSound DEF RestoreFails, PodTimesOut
    <2>8. CASE PodEnds(j)
      <3>1. /\ job'[j].pc = "logs" /\ job'[j].then = job[j].then /\ job'[j].at = job[j].at
            /\ job'[j].list = job[j].list
        BY <1>1, <2>8 DEF PodEnds, JobsOK, JobState
      <3>2. Before(j)'
        BY <1>2, <2>1, <3>1, PassedKept
      <3>3. QED  BY <2>1, <3>1, <3>2 DEF Sound
    <2>9. CASE Verdict(j)
      <3>1. CASE Finish(j, TRUE)
        BY <3>1, FinishKeeps, FailedSound
      <3>2. CASE Finish(j, FALSE) /\ ~Finish(j, TRUE)
        <4> DEFINE q == [job |-> j, target |-> T(j), seen |-> pod[T(j)].seen]
        <4>1. q \in passes'
          BY <2>9, <3>2 DEF Verdict
        <4>2. /\ job'[j].pc = "delpod" /\ job'[j].then = "next" /\ job'[j].at = job[j].at
              /\ job'[j].list = job[j].list
          BY <3>2, FinishKeeps
        <4>3. Before(j)'
          BY <1>2, <2>1, <4>2, PassedKept
        <4>4. q.job = j /\ q.target = job[j].list[job[j].at]
          BY DEF T
        <4> HIDE DEF q
        <4>5. Here(j)'
          BY <4>1, <4>2, <4>4 DEF Here, Has
        <4>6. QED  BY <4>2, <4>3, <4>5 DEF Sound
      <3>3. QED  BY <2>9, <3>1, <3>2 DEF Verdict
    <2>10. QED
      BY <2>3, <2>4, <2>5, <2>6, <2>7, <2>8, <2>9 DEF Script
  <1>6. QED  BY <1>4, <1>5

\* For any runs, kills and failures: a run that ends without a failure has passed every
\* target of its list.
THEOREM AllPassed == Spec => []SuccessMeansAllPassed
  <1>1. Init => SoundInv
    <2> SUFFICES ASSUME Init, NEW j \in Jobs PROVE Sound(j)
      BY DEF SoundInv
    <2>1. job[j].pc = "off"
      BY DEF Init, Off
    <2>2. QED  BY <2>1 DEF Sound, Active, Ended
  <1>2. TypeOK /\ SoundInv /\ [Next]_vars => SoundInv'
    <2> SUFFICES ASSUME JobsOK, ObjectsOK, SoundInv, [Next]_vars PROVE SoundInv'
      BY DEF TypeOK, JobsOK, ObjectsOK, At
    <2> USE PassesKept
    <2>1. ASSUME NEW i \in Jobs, job'[i] = job[i] PROVE Sound(i)'
      BY <2>1, PassedKept DEF SoundInv, Sound, Active
    <2>2. ASSUME NEW j \in Jobs, Start(j) PROVE SoundInv'
      <3>1. job'[j].pc = "check" /\ job'[j].at = 1 /\ job'[j].then = ""
        BY <2>2 DEF Start, JobsOK, Off
      <3>2. Sound(j)'
        <4>1. 1..(1 - 1) = {}
          OBVIOUS
        <4>2. Before(j)'
          BY <3>1, <4>1, Zenon DEF Before
        <4>3. QED  BY <3>1, <4>2 DEF Sound
      <3>3. QED  BY <2>1, <2>2, <3>2, JobFrame DEF SoundInv
    <2>3. ASSUME NEW j \in Jobs, Script(j) PROVE SoundInv'
      BY <2>1, <2>3, ScriptSound, JobFrame DEF SoundInv
    <2>4. ASSUME NEW j \in Jobs, Term(j) PROVE SoundInv'
      <3>1. job'[j].failed
        BY <2>4 DEF Term, JobsOK, JobState
      <3>2. QED  BY <2>1, <2>4, <3>1, FailedSound, JobFrame DEF SoundInv
    <2>5. ASSUME NEW j \in Jobs, Kill(j) PROVE SoundInv'
      <3>1. job'[j].pc = "killed"
        BY <2>5, GotoStep DEF Kill
      <3>2. Sound(j)'
        BY <3>1 DEF Sound, Active, Ended
      <3>3. QED  BY <2>1, <2>5, <3>2, JobFrame DEF SoundInv
    <2>6. ASSUME NEW t \in Targets, Cluster(t) PROVE SoundInv'
      <3>1. job' = job
        BY <2>6 DEF Cluster, MoverStarts, MoverDone, MoverFails, CheckRuns, Vanish
      <3>2. QED  BY <2>1, <3>1 DEF SoundInv
    <2>7. CASE UNCHANGED vars
      BY <2>1, <2>7 DEF vars, SoundInv
    <2>8. QED  BY <2>2, <2>3, <2>4, <2>5, <2>6, <2>7 DEF Next
  <1>3. SoundInv => SuccessMeansAllPassed
    BY DEF SoundInv, Sound, Has, SuccessMeansAllPassed
  <1>4. QED  BY <1>1, <1>2, <1>3, TypeCorrect, PTL DEF Spec
-----------------------------------------------------------------------------
(* Nothing is left behind.                                                 *)

Clean(t) == pvc[t] = None /\ rd[t] = None /\ pod[t] = None

\* What is gone at each step of a run.
Swept(j) ==
    LET t == T(j) IN
    /\ job[j].pc = "check" => Clean(t)
    /\ job[j].pc \in {"delrd", "delpvc"} => pod[t] = None
    /\ job[j].pc = "delpvc" => rd[t] = None

NoneKilled == \A j \in Jobs : job[j].pc # "killed"

LeftInv ==
    NoneKilled =>
        /\ \A j \in Jobs : Active(j) => Swept(j)
        /\ \A t \in Targets : Clean(t) \/ \E j \in Jobs : Active(j) /\ T(j) = t

\* The steps of one run touch the objects of its target only.
LEMMA OwnTarget ==
    ASSUME ObjectsOK, NEW j \in Jobs, Script(j) \/ Term(j) \/ Kill(j), T(j) \in Targets,
           NEW t \in Targets, t # T(j), Clean(t)
    PROVE  Clean(t)'
  BY DEF ObjectsOK, Clean, Script, Term, Kill, Check, DeletePod, DeleteRd, DeletePvc, Create,
         RestoreDone, RestoreFails, StartPod, PodEnds, PodTimesOut, Verdict

LEMMA TargetTypePrime ==
    ASSUME JobsOK', NEW j \in Jobs, Active(j)'
    PROVE  T(j)' \in Targets
  <1>1. job'[j].list \in Seq(Targets)
    BY DEF JobsOK, JobState
  <1>2. job'[j].at \in 1..Len(job'[j].list)
    BY DEF JobsOK, At, Active
  <1>3. QED  BY <1>1, <1>2 DEF T

\* When the active run has gone on to be active on the same target, the others are clean.
LEMMA StaysOnTarget ==
    ASSUME JobsOK, ObjectsOK, Alone, LeftInv, NoneKilled, NEW j \in Jobs, Active(j),
           Script(j) \/ Term(j), Active(j)', T(j)' = T(j), Swept(j)'
    PROVE  LeftInv'
  <1>1. T(j) \in Targets
    BY TargetType
  <1>2. \A i \in Jobs : i # j => ~Active(i) /\ ~Active(i)'
    BY JobFrame DEF Alone, Active
  <1>3. ASSUME NEW t \in Targets PROVE Clean(t)' \/ \E i \in Jobs : Active(i)' /\ T(i)' = t
    <2>1. CASE t = T(j)
      BY <2>1
    <2>2. CASE t # T(j)
      <3>1. Clean(t)
        BY <1>2, <2>2 DEF LeftInv
      <3>2. QED  BY <1>1, <2>2, <3>1, OwnTarget
    <2>3. QED  BY <2>1, <2>2
  <1>4. QED  BY <1>2, <1>3 DEF LeftInv

\* When it has left its target clean, all are.
LEMMA LeavesTarget ==
    ASSUME JobsOK, ObjectsOK, Alone, LeftInv, NoneKilled, NEW j \in Jobs, Active(j),
           Script(j) \/ Term(j), JobsOK', NEW u \in Targets, T(j) = u, Clean(u)',
           job'[j].pc \in {"done", "check"}
    PROVE  LeftInv'
  <1>2. \A i \in Jobs : i # j => ~Active(i) /\ ~Active(i)'
    BY JobFrame DEF Alone, Active
  <1>3. \A t \in Targets : Clean(t)'
    <2> SUFFICES ASSUME NEW t \in Targets PROVE Clean(t)'
      OBVIOUS
    <2>1. CASE t = u
      BY <2>1
    <2>2. CASE t # u
      <3>1. Clean(t)
        BY <1>2, <2>2 DEF LeftInv
      <3>2. QED  BY <2>2, <3>1, OwnTarget
    <2>3. QED  BY <2>1, <2>2
  <1>4. Active(j)' => Swept(j)'
    <2>1. Active(j)' => T(j)' \in Targets
      BY TargetTypePrime
    <2>2. QED  BY <1>3, <2>1 DEF Swept, Active, Ended
  <1>5. QED  BY <1>2, <1>3, <1>4 DEF LeftInv

LEMMA ScriptLeaves ==
    ASSUME ~DeleteFails, JobsOK, ObjectsOK, JobsOK', OwnInv, LeftInv, NoneKilled,
           NEW j \in Jobs, Script(j)
    PROVE  LeftInv'
  <1>0. PICK u \in Targets : T(j) = u
    BY ScriptActive, TargetType
  <1>1. Active(j) /\ Swept(j) /\ Alone /\ job[j] \in JobState
    BY ScriptActive, TargetType DEF LeftInv, OwnInv
  <1>2. ASSUME (\E pc \in {"create", "restore", "start", "wait"} : Goto(j, pc))
                 \/ Finish(j, TRUE) \/ Finish(j, FALSE)
        PROVE  LeftInv'
    <2>1. job'[j].pc \in {"create", "restore", "start", "wait", "delpod"} /\ T(j)' = T(j)
      BY <1>2, GotoStep, FinishStep
    <2>2. Active(j)' /\ Swept(j)'
      BY <2>1 DEF Active, Swept, Ended
    <2>3. QED  BY <1>1, <2>1, <2>2, StaysOnTarget
  <1>3. CASE Check(j)
    <2>1. Clean(u) /\ UNCHANGED <<pvc, rd, pod>>
      BY <1>0, <1>1, <1>3 DEF Check, Swept
    <2>2. Clean(u)'
      BY <2>1 DEF Clean
    <2>3. CASE NextTarget(j, TRUE)
      BY <1>0, <1>1, <2>2, <2>3, NextTargetStep, LeavesTarget
    <2>4. CASE job' = [job EXCEPT ![j].pc = "delpod", ![j].then = "create"]
      <3>1. job'[j].pc = "delpod" /\ job'[j].at = job[j].at /\ job'[j].list = job[j].list
        BY <1>1, <2>4 DEF JobsOK, JobState
      <3>2. Active(j)' /\ Swept(j)' /\ T(j)' = T(j)
        BY <3>1 DEF Active, Swept, Ended, T
      <3>3. QED  BY <1>1, <3>2, StaysOnTarget
    <2>5. QED  BY <1>3, <2>3, <2>4 DEF Check
  <1>4. CASE DeletePod(j)
    <2>1. job'[j].pc = "delrd" /\ T(j)' = T(j)
      BY <1>4, GotoStep DEF DeletePod
    <2>2. pod'[u] = None
      BY <1>0, <1>1, <1>4 DEF DeletePod, Doom, ObjectsOK
    <2>3. Active(j)' /\ Swept(j)'
      BY <1>0, <2>1, <2>2 DEF Active, Swept, Ended
    <2>4. QED  BY <1>1, <2>1, <2>3, StaysOnTarget
  <1>5. CASE DeleteRd(j)
    <2>1. job'[j].pc = "delpvc" /\ T(j)' = T(j)
      BY <1>5, GotoStep DEF DeleteRd
    <2>2. rd'[u] = None /\ pod'[u] = None
      BY <1>0, <1>1, <1>5 DEF DeleteRd, Doom, ObjectsOK, Swept
    <2>3. Active(j)' /\ Swept(j)'
      BY <1>0, <2>1, <2>2 DEF Active, Swept, Ended
    <2>4. QED  BY <1>1, <2>1, <2>3, StaysOnTarget
  <1>6. CASE DeletePvc(j)
    <2>1. pvc'[u] = None /\ rd'[u] = None /\ pod'[u] = None
      BY <1>0, <1>1, <1>6 DEF DeletePvc, Doom, ObjectsOK, Swept
    <2>2. Clean(u)'
      BY <2>1 DEF Clean
    <2>3. CASE Goto(j, "create")
      BY <1>2, <2>3
    <2>4. CASE NextTarget(j, FALSE) \/ Goto(j, "done")
      <3>1. job'[j].pc \in {"done", "check"}
        BY <2>4, NextTargetStep, GotoStep
      <3>2. QED  BY <1>0, <1>1, <2>2, <3>1, LeavesTarget
    <2>5. QED  BY <1>6, <2>3, <2>4 DEF DeletePvc
  <1>7. CASE Create(j) \/ RestoreDone(j) \/ RestoreFails(j) \/ StartPod(j) \/ PodTimesOut(j)
             \/ Verdict(j)
    <2>1. \/ \E pc \in {"restore", "start", "wait"} : Goto(j, pc)
          \/ Finish(j, TRUE) \/ Finish(j, FALSE)
      BY <1>7 DEF Create, RestoreDone, RestoreFails, StartPod, PodTimesOut, Verdict
    <2>2. QED  BY <1>2, <2>1
  <1>8. CASE PodEnds(j)
    <2>1. job'[j].pc = "logs" /\ job'[j].at = job[j].at /\ job'[j].list = job[j].list
      BY <1>1, <1>8 DEF PodEnds, JobsOK, JobState
    <2>2. Active(j)' /\ Swept(j)' /\ T(j)' = T(j)
      BY <2>1 DEF Active, Swept, Ended, T
    <2>3. QED  BY <1>1, <2>2, StaysOnTarget
  <1>9. QED
    BY <1>3, <1>4, <1>5, <1>6, <1>7, <1>8 DEF Script

\* What is gone stays gone, whatever the cluster does.
LEMMA ClusterKeepsClean ==
    ASSUME ObjectsOK, NEW t \in Targets, Cluster(t), NEW u \in Targets
    PROVE  /\ pvc[u] = None => pvc'[u] = None
           /\ rd[u] = None => rd'[u] = None
           /\ pod[u] = None => pod'[u] = None
  BY DEF Cluster, MoverStarts, MoverDone, MoverFails, CheckRuns, Vanish, ObjectsOK

\* While runs do not overlap and deletes work, a namespace in which no run is active and
\* none was killed is empty.
THEOREM LeavesNothing == ASSUME ~DeleteFails, Manual = {} PROVE Spec => []NothingLeftUnlessKilled
  <1>1. Init => LeftInv
    <2> SUFFICES ASSUME Init PROVE LeftInv
      OBVIOUS
    <2>1. \A j \in Jobs : ~Active(j)
      BY DEF Init, Off, Active, Ended
    <2>2. \A t \in Targets : Clean(t)
      BY DEF Init, Clean
    <2>3. QED  BY <2>1, <2>2 DEF LeftInv
  <1>2. TypeOK /\ OwnInv /\ LeftInv /\ [Next]_vars /\ TypeOK' => LeftInv'
    <2> SUFFICES ASSUME JobsOK, ObjectsOK, JobsOK', OwnInv, LeftInv, [Next]_vars, NoneKilled'
                 PROVE  LeftInv'
      BY DEF TypeOK, JobsOK, ObjectsOK, At, LeftInv
    <2>1. NoneKilled
      <3> SUFFICES ASSUME NEW j \in Jobs, job[j].pc = "killed" PROVE job'[j].pc = "killed"
        BY DEF NoneKilled
      <3>1. ASSUME NEW i \in Jobs, Start(i) \/ Script(i) \/ Term(i) \/ Kill(i) PROVE i # j
        BY <3>1, ScriptActive DEF Start, Term, Kill, Active, Ended
      <3>2. ASSUME NEW i \in Jobs, Start(i) \/ Script(i) \/ Term(i) \/ Kill(i) PROVE job'[j] = job[j]
        BY <3>1, <3>2, JobFrame
      <3>3. ASSUME NEW t \in Targets, Cluster(t) PROVE job' = job
        BY <3>3 DEF Cluster, MoverStarts, MoverDone, MoverFails, CheckRuns, Vanish
      <3>4. QED  BY <3>2, <3>3 DEF Next, vars
    <2>2. ASSUME NEW j \in Jobs, Start(j) PROVE LeftInv'
      <3>1. \A i \in Jobs : ~Active(i)
        BY <2>2 DEF Start
      <3>2. \A t \in Targets : Clean(t)'
        BY <2>1, <2>2, <3>1 DEF LeftInv, Start, Clean
      <3>3. \A i \in Jobs : i # j => ~Active(i)'
        BY <2>2, <3>1, JobFrame DEF Active
      <3>4. job'[j].pc = "check"
        BY <2>2 DEF Start, JobsOK, Off
      <3>5. T(j)' \in Targets
        BY <3>4, TargetTypePrime DEF Active, Ended
      <3>6. Swept(j)'
        BY <3>2, <3>4, <3>5 DEF Swept
      <3>7. QED  BY <3>2, <3>3, <3>6 DEF LeftInv
    <2>3. ASSUME NEW j \in Jobs, Script(j) PROVE LeftInv'
      BY <2>1, <2>3, ScriptLeaves
    <2>4. ASSUME NEW j \in Jobs, Term(j) PROVE LeftInv'
      <3>1. Active(j) /\ Alone /\ T(j) \in Targets /\ UNCHANGED <<pvc, rd, pod>>
        BY <2>4, TargetType DEF Term, OwnInv
      <3>2. CASE job[j].pc = "check"
        <4>1. job'[j].pc = "done"
          BY <2>4, <3>2 DEF Term, JobsOK, JobState
        <4>2. PICK u \in Targets : T(j) = u
          BY <3>1
        <4>3. Clean(u)
          BY <2>1, <3>1, <3>2, <4>2 DEF LeftInv, Swept
        <4>4. Clean(u)'
          BY <3>1, <4>3 DEF Clean
        <4>5. QED  BY <2>1, <2>4, <3>1, <4>1, <4>2, <4>4, LeavesTarget
      <3>3. CASE job[j].pc # "check"
        <4>1. job'[j].pc = "delpod" /\ T(j)' = T(j)
          BY <2>4, <3>3 DEF Term, JobsOK, JobState, T
        <4>2. Active(j)' /\ Swept(j)'
          BY <4>1 DEF Active, Swept, Ended
        <4>3. QED  BY <2>1, <2>4, <3>1, <4>1, <4>2, StaysOnTarget
      <3>4. QED  BY <3>2, <3>3
    <2>5. ASSUME NEW j \in Jobs, Kill(j) PROVE LeftInv'
      <3>1. job'[j].pc = "killed"
        BY <2>5, GotoStep DEF Kill
      <3>2. QED  BY <3>1 DEF NoneKilled
    <2>6. ASSUME NEW t \in Targets, Cluster(t) PROVE LeftInv'
      <3>1. job' = job
        BY <2>6 DEF Cluster, MoverStarts, MoverDone, MoverFails, CheckRuns, Vanish
      <3>2. \A u \in Targets : Clean(u) => Clean(u)'
        BY <2>6, ClusterKeepsClean DEF Clean
      <3>3. ASSUME NEW j \in Jobs, Active(j), Swept(j) PROVE Swept(j)'
        <4> DEFINE u == T(j)
        <4>1. u \in Targets /\ T(j)' = u
          BY <3>1, <3>3, TargetType DEF T
        <4> HIDE DEF u
        <4>2. /\ pvc[u] = None => pvc'[u] = None
              /\ rd[u] = None => rd'[u] = None
              /\ pod[u] = None => pod'[u] = None
          BY <2>6, <4>1, ClusterKeepsClean
        <4>3. QED  BY <3>1, <3>3, <4>1, <4>2 DEF Swept, Clean, u
      <3>4. QED  BY <2>1, <3>1, <3>2, <3>3 DEF LeftInv, Active, T
    <2>7. CASE UNCHANGED vars
      BY <2>1, <2>7 DEF vars, LeftInv, Active, Swept, Clean, T
    <2>8. QED  BY <2>2, <2>3, <2>4, <2>5, <2>6, <2>7 DEF Next
  <1>3. LeftInv => NothingLeftUnlessKilled
    BY DEF LeftInv, NoneKilled, Active, Ended, Clean, NothingLeftUnlessKilled
  <1>4. QED  BY <1>1, <1>2, <1>3, TypeCorrect, OwnAlways, PTL DEF Spec
-----------------------------------------------------------------------------
(* A run ends.                                                             *)

\* The steps of a cleanup, and of a target, that a run has yet to take at most.
Sweep(pc) == CASE pc = "delpod" -> 3 [] pc = "delrd" -> 2 [] OTHER -> 1

Stage(r) ==
    CASE r.pc = "check"   -> 12
      [] r.pc = "create"  -> 8
      [] r.pc = "restore" -> 7
      [] r.pc = "start"   -> 6
      [] r.pc = "wait"    -> 5
      [] r.pc = "logs"    -> 4
      [] OTHER            -> Sweep(r.pc) + (IF r.then = "create" THEN 8 ELSE 0)

\* And of a run: the targets it has yet to come to, and the cleanup of a SIGTERM.
Left(r) ==
    IF r.pc \in Ended THEN 0
    ELSE IF r.then = "exit" THEN Sweep(r.pc)
    ELSE 12 * (Len(r.list) - r.at) + Stage(r) + 3

\* Only a cleanup may be the last thing that a run does.
ThenOK(r) ==
    /\ r.pc \in {"create", "restore", "start", "wait", "logs"} => r.then = "create"
    /\ r.pc = "check" => r.then \in {"", "next"}
    /\ r.pc \in {"delpod", "delrd", "delpvc"} => r.then \in {"create", "next", "exit"}

\* Every step of a run is one of the at most 12 that it takes for a target, or of the
\* three of its last cleanup, whatever the cluster and other runs do; and an ended run
\* stays so.
RunShrinks ==
    [][\A j \in Jobs : /\ Script(j) => Left(job'[j]) < Left(job[j])
                       /\ Active(j) => Left(job'[j]) <= Left(job[j])
                       /\ job[j].pc \in {"done", "killed"} => job'[j] = job[j]]_vars

LEMMA StageIs ==
    ASSUME NEW r
    PROVE  /\ Sweep("delpod") = 3 /\ Sweep("delrd") = 2 /\ Sweep("delpvc") = 1
           /\ r.pc = "check" => Stage(r) = 12
           /\ r.pc = "create" => Stage(r) = 8
           /\ r.pc = "restore" => Stage(r) = 7
           /\ r.pc = "start" => Stage(r) = 6
           /\ r.pc = "wait" => Stage(r) = 5
           /\ r.pc = "logs" => Stage(r) = 4
           /\ r.pc \in {"delpod", "delrd", "delpvc"} =>
                 Stage(r) = IF r.then = "create" THEN Sweep(r.pc) + 8 ELSE Sweep(r.pc)
  <1>1. Sweep("delpod") = 3 /\ Sweep("delrd") = 2 /\ Sweep("delpvc") = 1
    BY DEF Sweep
  <1>2. r.pc = "check" => Stage(r) = 12
    BY DEF Stage
  <1>3. r.pc = "create" => Stage(r) = 8
    BY DEF Stage
  <1>4. r.pc = "restore" => Stage(r) = 7
    BY DEF Stage
  <1>5. r.pc = "start" => Stage(r) = 6
    BY DEF Stage
  <1>6. r.pc = "wait" => Stage(r) = 5
    BY DEF Stage
  <1>7. r.pc = "logs" => Stage(r) = 4
    BY DEF Stage
  <1>8. r.pc \in {"delpod", "delrd", "delpvc"} =>
            Stage(r) = IF r.then = "create" THEN Sweep(r.pc) + 8 ELSE Sweep(r.pc)
    BY <1>1 DEF Stage
  <1>9. QED  BY <1>1, <1>2, <1>3, <1>4, <1>5, <1>6, <1>7, <1>8

LEMMA LeftType ==
    ASSUME NEW r \in JobState, At(r)
    PROVE  /\ Left(r) \in 0..(12 * Len(r.list) + 3) /\ Stage(r) \in 1..12 /\ Sweep(r.pc) \in 1..3
           /\ r.pc \in Ended <=> Left(r) = 0
           /\ r.pc \notin Ended => 12 * (Len(r.list) - r.at) \in Nat
  <1>1. Sweep(r.pc) \in 1..3
    BY DEF Sweep
  <1>2. Stage(r) \in 1..12
    BY <1>1 DEF Stage
  <1>3. Len(r.list) \in Nat /\ r.at \in Nat
    <2>1. r.list \in Seq(Targets) /\ r.at \in Nat
      BY DEF JobState
    <2>2. QED  BY <2>1
  <1>4. CASE r.pc \in Ended
    BY <1>1, <1>2, <1>3, <1>4 DEF Left
  <1>5. CASE r.pc \notin Ended
    <2>1. r.at \in 1..Len(r.list)
      BY <1>5 DEF At
    <2>2. 12 * (Len(r.list) - r.at) \in 0..(12 * Len(r.list) - 12)
      BY <1>3, <2>1
    <2>3. Left(r) = Sweep(r.pc) \/ Left(r) = 12 * (Len(r.list) - r.at) + Stage(r) + 3
      BY <1>5 DEF Left
    <2> DEFINE n == 12 * (Len(r.list) - r.at)
               m == 12 * Len(r.list)
    <2>4. n \in Nat /\ m \in Nat /\ n + 12 <= m
      BY <1>3, <2>1
    <2> HIDE DEF n, m
    <2>5. Left(r) \in 1..(m + 3)
      BY <1>1, <1>2, <2>3, <2>4 DEF n
    <2>6. QED  BY <1>1, <1>2, <1>5, <2>4, <2>5 DEF n, m
  <1>6. QED  BY <1>4, <1>5

\* On its target, a run goes down its steps.
LEMMA StaysShrinks ==
    ASSUME JobsOK, NEW j \in Jobs, Active(j), ThenOK(job[j]), ThenOK(job'[j]),
           job'[j] \in JobState, job'[j].list = job[j].list, job'[j].at = job[j].at,
           job'[j].then = "exit" <=> job[j].then = "exit",
           \/ job[j].then = "exit" /\ Sweep(job'[j].pc) < Sweep(job[j].pc)
           \/ job[j].then # "exit" /\ Stage(job'[j]) < Stage(job[j])
           \/ job'[j].pc \in Ended
    PROVE  Left(job'[j]) < Left(job[j])
  <1>1. job[j] \in JobState /\ At(job[j]) /\ job[j].pc \notin Ended /\ job[j].at \in 1..Len(job[j].list)
    BY TargetType DEF JobsOK, Active
  <1>2. At(job'[j])
    BY <1>1 DEF At
  <1> DEFINE n == 12 * (Len(job[j].list) - job[j].at)
  <1>3. /\ n \in Nat /\ Stage(job[j]) \in 1..12 /\ Stage(job'[j]) \in 1..12
        /\ Sweep(job[j].pc) \in 1..3 /\ Sweep(job'[j].pc) \in 1..3
    BY <1>1, <1>2, LeftType
  <1>4. /\ Left(job[j]) = IF job[j].then = "exit" THEN Sweep(job[j].pc) ELSE n + Stage(job[j]) + 3
        /\ Left(job'[j]) = IF job'[j].pc \in Ended THEN 0
                           ELSE IF job[j].then = "exit" THEN Sweep(job'[j].pc)
                           ELSE n + Stage(job'[j]) + 3
    BY <1>1 DEF Left
  <1> HIDE DEF n
  <1>5. QED  BY <1>3, <1>4

\* Or it goes on to the next one, if there is one.
LEMMA LeavesShrinks ==
    ASSUME JobsOK, NEW j \in Jobs, Active(j), ThenOK(job[j]), job[j].then # "exit",
           NEW failed \in BOOLEAN, NextTarget(j, failed),
           job[j].pc = "check" \/ job[j].then = "next"
    PROVE  ThenOK(job'[j]) /\ Left(job'[j]) < Left(job[j])
  <1>1. job[j] \in JobState /\ At(job[j]) /\ job[j].pc \notin Ended /\ job[j].at \in 1..Len(job[j].list)
    BY TargetType DEF JobsOK, Active
  <1>2. JobsOK'
    BY NextTargetType
  <1>3. /\ job'[j].list = job[j].list /\ job'[j].then = job[j].then
        /\ job[j].at = Len(job[j].list) => job'[j].pc = "done"
        /\ job[j].at # Len(job[j].list) => job'[j].pc = "check" /\ job'[j].at = job[j].at + 1
    BY <1>1 DEF NextTarget, JobsOK, JobState
  <1>4. job'[j] \in JobState /\ At(job'[j])
    BY <1>2 DEF JobsOK
  <1>5. ThenOK(job'[j])
    BY <1>3 DEF ThenOK
  <1>6. CASE job[j].at = Len(job[j].list)
    <2>1. Left(job'[j]) = 0
      BY <1>3, <1>6 DEF Left, Ended
    <2>2. Left(job[j]) > 0
      BY <1>1, LeftType
    <2>3. QED  BY <1>5, <2>1, <2>2
  <1>7. CASE job[j].at # Len(job[j].list)
    <2> DEFINE n == 12 * (Len(job[j].list) - job[j].at)
               m == 12 * (Len(job[j].list) - (job[j].at + 1))
    <2>1. m = n - 12
      <3>1. job[j].list \in Seq(Targets) /\ job[j].at \in Nat
        BY <1>1 DEF JobState
      <3>2. Len(job[j].list) \in Nat
        BY <3>1
      <3>3. QED  BY <3>1, <3>2
    <2>2. Left(job'[j]) = m + 12 + 3
      BY <1>3, <1>5, <1>7 DEF Left, Stage, Ended, ThenOK
    <2>3. Left(job[j]) = n + Stage(job[j]) + 3
      BY <1>1 DEF Left
    <2>4. Stage(job[j]) \in 1..12 /\ n \in Nat
      BY <1>1, LeftType
    <2> HIDE DEF n, m
    <2>5. QED  BY <1>5, <2>1, <2>2, <2>3, <2>4
  <1>8. QED  BY <1>5, <1>6, <1>7

LEMMA ScriptShrinks ==
    ASSUME JobsOK, ObjectsOK, NEW j \in Jobs, Script(j), ThenOK(job[j])
    PROVE  ThenOK(job'[j]) /\ Left(job'[j]) < Left(job[j])
  <1>1. Active(j) /\ job[j] \in JobState
    BY ScriptActive, TargetType
  <1>2. JobsOK'
    BY ScriptType
  <1>3. job'[j] \in JobState
    BY <1>2 DEF JobsOK
  <1>4. ASSUME NEW pc, Goto(j, pc),
               \/ job[j].pc = "delpod" /\ pc = "delrd"
               \/ job[j].pc = "delrd" /\ pc = "delpvc"
               \/ job[j].pc = "delpvc" /\ job[j].then = "create" /\ pc = "create"
               \/ job[j].pc = "delpvc" /\ job[j].then = "exit" /\ pc = "done"
               \/ job[j].pc = "create" /\ pc = "restore"
               \/ job[j].pc = "restore" /\ pc = "start"
               \/ job[j].pc = "start" /\ pc = "wait"
        PROVE  ThenOK(job'[j]) /\ Left(job'[j]) < Left(job[j])
    <2>1. job'[j].pc = pc /\ job'[j].then = job[j].then /\ job'[j].list = job[j].list
          /\ job'[j].at = job[j].at
      BY <1>1, <1>4 DEF Goto, JobsOK, JobState
    <2>2. ThenOK(job'[j])
      BY <1>4, <2>1 DEF ThenOK
    <2>3. \/ job[j].then = "exit" /\ Sweep(job'[j].pc) < Sweep(job[j].pc)
          \/ job[j].then # "exit" /\ Stage(job'[j]) < Stage(job[j])
          \/ job'[j].pc \in Ended
      <3>1. CASE job[j].pc \in {"delpod", "delrd", "delpvc"} /\ pc \in {"delrd", "delpvc"}
        BY <1>4, <2>1, <3>1, StageIs
      <3>2. CASE job[j].then = "create" /\ pc = "create"
        BY <1>4, <2>1, <3>2, StageIs
      <3>3. CASE pc = "done"
        BY <2>1, <3>3 DEF Ended
      <3>4. CASE pc \in {"restore", "start", "wait"}
        <4>1. job[j].then # "exit"
          BY <1>4, <3>4 DEF ThenOK
        <4>2. Stage(job'[j]) < Stage(job[j])
          BY <1>4, <2>1, <3>4, StageIs
        <4>3. QED  BY <4>1, <4>2
      <3>5. QED  BY <1>4, <3>1, <3>2, <3>3, <3>4
    <2>4. QED  BY <1>1, <1>3, <2>1, <2>2, <2>3, StaysShrinks
  <1>5. ASSUME NEW failed \in BOOLEAN, Finish(j, failed),
               job[j].pc \in {"create", "restore", "start", "wait", "logs"}
        PROVE  ThenOK(job'[j]) /\ Left(job'[j]) < Left(job[j])
    <2>1. job'[j].pc = "delpod" /\ job'[j].then = "next" /\ job'[j].list = job[j].list
          /\ job'[j].at = job[j].at
      BY <1>1, <1>5 DEF Finish, JobsOK, JobState
    <2>2. ThenOK(job'[j]) /\ job[j].then # "exit" /\ Stage(job'[j]) < Stage(job[j])
      <3>1. Stage(job[j]) \in 4..8
        BY <1>5, StageIs
      <3>2. Stage(job'[j]) = 3
        BY <2>1, StageIs
      <3>3. Stage(job'[j]) < Stage(job[j])
        BY <3>1, <3>2
      <3>4. ThenOK(job'[j]) /\ job[j].then # "exit"
        BY <1>5, <2>1 DEF ThenOK
      <3>5. QED  BY <3>3, <3>4
    <2>3. QED  BY <1>1, <1>3, <2>1, <2>2, StaysShrinks
  <1>6. CASE Check(j)
    <2>1. job[j].pc = "check" /\ job[j].then # "exit"
      BY <1>6 DEF Check, ThenOK
    <2>2. CASE NextTarget(j, TRUE)
      BY <1>1, <2>1, <2>2, LeavesShrinks
    <2>3. CASE job' = [job EXCEPT ![j].pc = "delpod", ![j].then = "create"]
      <3>1. job'[j].pc = "delpod" /\ job'[j].then = "create" /\ job'[j].list = job[j].list
            /\ job'[j].at = job[j].at
        BY <1>1, <2>3 DEF JobsOK, JobState
      <3>2. Stage(job[j]) = 12
        BY <2>1, StageIs
      <3>3. Stage(job'[j]) = 11
        BY <3>1, StageIs
      <3>4. Stage(job'[j]) < Stage(job[j])
        BY <3>2, <3>3
      <3>5. ThenOK(job'[j])
        BY <3>1 DEF ThenOK
      <3>6. QED  BY <1>1, <1>3, <2>1, <3>1, <3>4, <3>5, StaysShrinks
    <2>4. QED  BY <1>6, <2>2, <2>3 DEF Check
  <1>7. CASE PodEnds(j)
    <2>1. job[j].pc = "wait" /\ job'[j].pc = "logs" /\ job'[j].then = job[j].then
          /\ job'[j].list = job[j].list /\ job'[j].at = job[j].at
      BY <1>1, <1>7 DEF PodEnds, JobsOK, JobState
    <2>2. ThenOK(job'[j]) /\ job[j].then # "exit" /\ Stage(job'[j]) < Stage(job[j])
      BY <2>1, StageIs DEF ThenOK
    <2>3. QED  BY <1>1, <1>3, <2>1, <2>2, StaysShrinks
  <1>8. CASE DeletePvc(j)
    <2>1. CASE job[j].then = "next" /\ NextTarget(j, FALSE)
      BY <1>1, <2>1, LeavesShrinks
    <2>2. QED  BY <1>4, <1>8, <2>1 DEF DeletePvc
  <1>9. CASE DeletePod(j) \/ DeleteRd(j)
    BY <1>4, <1>9 DEF DeletePod, DeleteRd
  <1>10. CASE Create(j) \/ RestoreDone(j) \/ StartPod(j)
    BY <1>4, <1>5, <1>10 DEF Create, RestoreDone, StartPod
  <1>11. CASE RestoreFails(j) \/ PodTimesOut(j) \/ Verdict(j)
    BY <1>5, <1>11 DEF RestoreFails, PodTimesOut, Verdict
  <1>12. QED  BY <1>6, <1>7, <1>8, <1>9, <1>10, <1>11 DEF Script

\* A SIGTERM leaves a run the three steps of a cleanup, a kill none.
LEMMA SignalShrinks ==
    ASSUME JobsOK, NEW j \in Jobs, Term(j) \/ Kill(j), ThenOK(job[j])
    PROVE  ThenOK(job'[j]) /\ Left(job'[j]) <= Left(job[j])
  <1>1. Active(j)
    BY DEF Term, Kill
  <1>2. job[j] \in JobState /\ At(job[j]) /\ job[j].pc \notin Ended
    BY <1>1, TargetType DEF JobsOK, Active
  <1>3. Left(job[j]) \in Nat /\ Stage(job[j]) \in 1..12 /\ 12 * (Len(job[j].list) - job[j].at) \in Nat
    BY <1>2, LeftType
  <1>4. CASE Kill(j)
    <2>1. job'[j].pc = "killed"
      BY <1>4, GotoStep DEF Kill
    <2>2. Left(job'[j]) = 0
      BY <2>1 DEF Left, Ended
    <2>3. ThenOK(job'[j])
      BY <2>1 DEF ThenOK
    <2>4. QED  BY <1>3, <2>2, <2>3
  <1>5. CASE Term(j)
    <2>1. /\ job'[j].pc \in {"done", "delpod"} /\ job'[j].then = "exit" /\ job[j].then # "exit"
      BY <1>2, <1>5 DEF Term, JobsOK, JobState
    <2>2. Left(job'[j]) \in {0, 3}
      BY <2>1 DEF Left, Sweep, Ended
    <2>3. Left(job[j]) = 12 * (Len(job[j].list) - job[j].at) + Stage(job[j]) + 3
      BY <1>2, <2>1 DEF Left
    <2>4. ThenOK(job'[j])
      BY <2>1 DEF ThenOK
    <2>5. QED  BY <1>3, <2>2, <2>3, <2>4
  <1>6. QED  BY <1>4, <1>5

ThenInv == \A j \in Jobs : ThenOK(job[j])

LEMMA StepShrinks ==
    ASSUME JobsOK, ObjectsOK, ThenInv, [Next]_vars, NEW j \in Jobs
    PROVE  /\ ThenOK(job'[j])
           /\ Script(j) => Left(job'[j]) < Left(job[j])
           /\ Active(j) => Left(job'[j]) <= Left(job[j])
           /\ job[j].pc \in {"done", "killed"} => job'[j] = job[j]
  <1>1. /\ job[j] \in JobState /\ At(job[j]) /\ ThenOK(job[j]) /\ Left(job[j]) \in Nat
    BY LeftType DEF JobsOK, ThenInv
  <1>2. JobsOK'
    BY TypeStep
  <1>3. Left(job'[j]) \in Nat
    BY <1>2, LeftType DEF JobsOK
  <1>4. Script(j) => ThenOK(job'[j]) /\ Left(job'[j]) < Left(job[j]) /\ Active(j)
    BY <1>1, ScriptShrinks, ScriptActive
  <1>5. Term(j) \/ Kill(j) => ThenOK(job'[j]) /\ Left(job'[j]) <= Left(job[j]) /\ Active(j)
    BY <1>1, SignalShrinks DEF Term, Kill
  <1>6. CASE job'[j] = job[j]
    BY <1>1, <1>4, <1>6
  <1>7. CASE Script(j) \/ Term(j) \/ Kill(j)
    BY <1>1, <1>3, <1>4, <1>5, <1>7 DEF Active, Ended
  <1>8. CASE Start(j)
    <2>1. job[j].pc = "off" /\ job'[j].pc = "check" /\ job'[j].then = ""
      BY <1>8 DEF Start, JobsOK, Off
    <2>2. ThenOK(job'[j]) /\ ~Active(j)
      BY <2>1 DEF ThenOK, Active, Ended
    <2>3. ~Script(j)
      BY <2>2, ScriptActive
    <2>4. QED  BY <2>1, <2>2, <2>3
  <1>9. CASE \E t \in Targets : Cluster(t)
    BY <1>6, <1>9 DEF Cluster, MoverStarts, MoverDone, MoverFails, CheckRuns, Vanish
  <1>10. CASE \E i \in Jobs \ {j} : Start(i) \/ Script(i) \/ Term(i) \/ Kill(i)
    BY <1>6, <1>10, JobFrame
  <1>11. CASE UNCHANGED vars
    BY <1>6, <1>11 DEF vars
  <1>12. QED  BY <1>7, <1>8, <1>9, <1>10, <1>11 DEF Next

\* Every step of a run is one of at most twelve for a target, or of the three of a
\* cleanup after SIGTERM, whatever the cluster and other runs do: the safety half of
\* RunsEnd (verify.sh:76-160).
THEOREM RunsShrink == Spec => RunShrinks
  <1>1. Init => ThenInv
    <2>1. ThenOK(Off)
      BY DEF Off, ThenOK
    <2>2. QED  BY <2>1 DEF Init, ThenInv
  <1>2. TypeOK /\ ThenInv /\ [Next]_vars => ThenInv'
    BY StepShrinks DEF ThenInv, TypeOK, JobsOK, ObjectsOK, At
  <1>3. TypeOK /\ ThenInv /\ [Next]_vars =>
            [\A j \in Jobs : /\ Script(j) => Left(job'[j]) < Left(job[j])
                             /\ Active(j) => Left(job'[j]) <= Left(job[j])
                             /\ job[j].pc \in {"done", "killed"} => job'[j] = job[j]]_vars
    BY StepShrinks DEF TypeOK, JobsOK, ObjectsOK, At
  <1>4. QED  BY <1>1, <1>2, <1>3, TypeCorrect, PTL DEF Spec, RunShrinks

\* A run is never more than its bound away from its end.
THEOREM RunsBounded ==
    Spec => [](\A j \in Jobs : Left(job[j]) \in 0..(12 * Len(job[j].list) + 3))
  <1>1. TypeOK => \A j \in Jobs : Left(job[j]) \in 0..(12 * Len(job[j].list) + 3)
    BY LeftType DEF TypeOK, At
  <1>2. QED  BY <1>1, TypeCorrect, PTL
=============================================================================
