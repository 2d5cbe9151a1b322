--------------------------- MODULE VolsyncVerify ---------------------------
(***************************************************************************)
(* verify.sh: restores VolSync backups into namespace backup-verify, reads *)
(* them back in a check pod and deletes everything.                        *)
(*                                                                         *)
(* A target is an app and a backend; its PVC, ReplicationDestination and   *)
(* pod all have the name verify-<app>-<backend>, whichever run makes them. *)
(* The script only sees the API objects: VolSync's mover and the kubelet   *)
(* change them on their own, kubectl may fail, the script may be killed,   *)
(* and a Job created by hand runs beside the scheduled one.                *)
(***************************************************************************)
EXTENDS Naturals, Sequences

CONSTANTS
    Jobs,         \* the runs, each with a RUN_ID of its own
    Manual,       \* those created by hand, which concurrencyPolicy does not see
    Targets,      \* <app>:<backend>
    Lists,        \* the target lists a run may have
    DeleteFails,  \* may kubectl delete fail or time out?
    None

ASSUME VerifyAssumption ==
    /\ Manual \subseteq Jobs
    /\ Lists \subseteq Seq(Targets) \ {<<>>}
    /\ DeleteFails \in BOOLEAN
    /\ None \notin Jobs

VARIABLES
    job,      \* job[j]: the step of the run, its targets, the one it is at, failed
    pvc,      \* pvc[t]: who restored into it, how far, and whose mover is at work
    rd,       \* rd[t]: spec.trigger.manual, status.lastManualSync and the result
    pod,      \* pod[t]: phase, did it print VERIFY OK, and what it had read
    doomed,   \* the objects whose deletion is under way
    passes,   \* history: every PASS, with what the pod had read
    restored  \* history: the <<run, target>> VolSync restored

vars == <<job, pvc, rd, pod, doomed, passes, restored>>

Off == [pc |-> "off", list |-> <<>>, at |-> 0, then |-> "", phase |-> "", failed |-> FALSE]
NewPvc == [by |-> None, state |-> "empty", mover |-> None]
NewPod == [phase |-> "Pending", ok |-> FALSE, seen |-> None]

Init ==
    /\ job = [j \in Jobs |-> Off]
    /\ pvc = [t \in Targets |-> None] /\ rd = pvc /\ pod = pvc
    /\ doomed = {} /\ passes = {} /\ restored = {}

Ended == {"off", "done", "killed"}
Active(j) == job[j].pc \notin Ended

T(j) == job[j].list[job[j].at]
Goto(j, pc) == job' = [job EXCEPT ![j].pc = pc]

\* MUTANT: a later target overwrites the failure of an earlier one.
FinishForgets(j, failed) ==
    job' = [job EXCEPT ![j].pc = "delpod", ![j].then = "next", ![j].failed = failed]

\* verify_one returned: cleanup, then the next target.
Finish(j, failed) ==
    job' = [job EXCEPT ![j].pc = "delpod", ![j].then = "next",
                       ![j].failed = @ \/ failed]

\* MUTANT: the end of the list is noticed one target late.
NextTargetLate(j, failed) ==
    job' = [job EXCEPT ![j].pc = IF job[j].at > Len(job[j].list) THEN "done" ELSE "check",
                       ![j].at = @ + 1,
                       ![j].failed = @ \/ failed]

\* The loop goes on, or the script exits.
NextTarget(j, failed) ==
    job' = [job EXCEPT ![j].pc = IF job[j].at = Len(job[j].list) THEN "done" ELSE "check",
                       ![j].at = IF @ = Len(job[j].list) THEN @ ELSE @ + 1,
                       ![j].failed = @ \/ failed]
-----------------------------------------------------------------------------
(* The script.                                                             *)

\* concurrencyPolicy: Forbid holds a scheduled run back while another is active.
Start(j) ==
    /\ job[j].pc = "off"
    /\ j \in Manual \/ \A i \in Jobs \ Manual : ~Active(i)
    /\ \E list \in Lists :
          job' = [job EXCEPT ![j] = [Off EXCEPT !.pc = "check", !.list = list, !.at = 1]]
    /\ UNCHANGED <<pvc, rd, pod, doomed, passes, restored>>

\* MUTANT: nothing is deleted first.
CheckOnly(j) ==
    /\ job[j].pc = "check"
    /\ \/ NextTarget(j, TRUE)
       \/ Goto(j, "create")
    /\ UNCHANGED <<pvc, rd, pod, doomed, passes, restored>>

\* An app missing from apps.txt or an ExternalSecret that is not Ready fails the
\* target before anything is made; otherwise what an earlier run left is deleted.
Check(j) ==
    /\ job[j].pc = "check"
    /\ \/ NextTarget(j, TRUE)
       \/ job' = [job EXCEPT ![j].pc = "delpod", ![j].then = "create"]
    /\ UNCHANGED <<pvc, rd, pod, doomed, passes, restored>>

\* A kubectl delete that fails leaves the object, doomed or not; || true goes on.
Doom(object) == DeleteFails /\ doomed' \in {doomed, doomed \union {object}}

DeletePod(j) ==
    /\ job[j].pc = "delpod"
    /\ \/ pod' = [pod EXCEPT ![T(j)] = None] /\ doomed' = doomed \ {<<"pod", T(j)>>}
       \/ pod[T(j)] # None /\ Doom(<<"pod", T(j)>>) /\ UNCHANGED pod
    /\ Goto(j, "delrd")
    /\ UNCHANGED <<pvc, rd, passes, restored>>

DeleteRd(j) ==
    /\ job[j].pc = "delrd"
    /\ \/ rd' = [rd EXCEPT ![T(j)] = None] /\ doomed' = doomed \ {<<"rd", T(j)>>}
       \/ rd[T(j)] # None /\ Doom(<<"rd", T(j)>>) /\ UNCHANGED rd
    /\ Goto(j, "delpvc")
    /\ UNCHANGED <<pvc, pod, passes, restored>>

\* kubectl waits for the mover and the pod that use the PVC.
DeletePvc(j) ==
    /\ job[j].pc = "delpvc"
    /\ \/ pvc' = [pvc EXCEPT ![T(j)] = None] /\ doomed' = doomed \ {<<"pvc", T(j)>>}
       \/ pvc[T(j)] # None /\ Doom(<<"pvc", T(j)>>) /\ UNCHANGED pvc
    /\ \/ job[j].then = "create" /\ Goto(j, "create")
       \/ job[j].then = "next" /\ NextTarget(j, FALSE)
       \/ job[j].then = "exit" /\ Goto(j, "done")
    /\ UNCHANGED <<rd, pod, passes, restored>>

\* MUTANT: the first PVC is left when the ReplicationDestination is refused.
CreateLeaves(j) ==
    /\ job[j].pc = "create"
    /\ pvc' = [pvc EXCEPT ![T(j)] = IF @ = None THEN NewPvc ELSE @]
    /\ \/ /\ rd' = [rd EXCEPT ![T(j)] =
                         IF @ = None THEN [id |-> j, last |-> None, result |-> ""]
                         ELSE [@ EXCEPT !.id = j]]
          /\ Goto(j, "restore")
       \/ UNCHANGED rd /\ NextTarget(j, TRUE)
    /\ UNCHANGED <<pod, doomed, passes, restored>>

\* kubectl apply makes what is missing, and patches the trigger of an old
\* ReplicationDestination, whose status stays; it may fail after the PVC.
Create(j) ==
    /\ job[j].pc = "create"
    /\ \/ /\ pvc' = [pvc EXCEPT ![T(j)] = IF @ = None THEN NewPvc ELSE @]
          /\ \/ /\ rd' = [rd EXCEPT ![T(j)] =
                            IF @ = None THEN [id |-> j, last |-> None, result |-> ""]
                            ELSE [@ EXCEPT !.id = j]]
                /\ Goto(j, "restore")
             \/ UNCHANGED rd /\ Finish(j, TRUE)
       \/ UNCHANGED <<pvc, rd>> /\ Finish(j, TRUE)
    /\ UNCHANGED <<pod, doomed, passes, restored>>

\* MUTANT: any successful restore will do.
RestoreDoneAnyId(j) ==
    /\ job[j].pc = "restore"
    /\ rd[T(j)] # None /\ rd[T(j)].result = "Successful"
    /\ Goto(j, "start")
    /\ UNCHANGED <<pvc, rd, pod, doomed, passes, restored>>

RestoreDone(j) ==
    /\ job[j].pc = "restore"
    /\ rd[T(j)] # None /\ rd[T(j)].last = j /\ rd[T(j)].result = "Successful"
    /\ Goto(j, "start")
    /\ UNCHANGED <<pvc, rd, pod, doomed, passes, restored>>

\* MUTANT: no deadline.
RestoreFailsOnly(j) ==
    /\ job[j].pc = "restore"
    /\ rd[T(j)] # None /\ rd[T(j)].result = "Failed"
    /\ Finish(j, TRUE)
    /\ UNCHANGED <<pvc, rd, pod, doomed, passes, restored>>

\* The restore failed, or it is not done at the deadline.
RestoreFails(j) ==
    /\ job[j].pc = "restore"
    /\ Finish(j, TRUE)
    /\ UNCHANGED <<pvc, rd, pod, doomed, passes, restored>>

\* kubectl apply of check-pod.yaml leaves a pod of that name as it is.
StartPod(j) ==
    /\ job[j].pc = "start"
    /\ \/ pod' = [pod EXCEPT ![T(j)] = IF @ = None THEN NewPod ELSE @] /\ Goto(j, "wait")
       \/ UNCHANGED pod /\ Finish(j, TRUE)
    /\ UNCHANGED <<pvc, rd, doomed, passes, restored>>

PodEnds(j) ==
    /\ job[j].pc = "wait"
    /\ pod[T(j)] # None /\ pod[T(j)].phase # "Pending"
    /\ job' = [job EXCEPT ![j].pc = "logs", ![j].phase = pod[T(j)].phase]
    /\ UNCHANGED <<pvc, rd, pod, doomed, passes, restored>>

PodTimesOut(j) ==
    /\ job[j].pc = "wait"
    /\ Finish(j, TRUE)
    /\ UNCHANGED <<pvc, rd, pod, doomed, passes, restored>>

\* The log is fetched after the phase; without a pod there is none.
Verdict(j) ==
    /\ job[j].pc = "logs"
    /\ IF job[j].phase = "Succeeded" /\ pod[T(j)] # None /\ pod[T(j)].ok
       THEN /\ passes' = passes \union
                  {[job |-> j, target |-> T(j), seen |-> pod[T(j)].seen]}
            /\ Finish(j, FALSE)
       ELSE UNCHANGED passes /\ Finish(j, TRUE)
    /\ UNCHANGED <<pvc, rd, pod, doomed, restored>>

\* SIGTERM, at activeDeadlineSeconds or a drain: the trap cleans up and exits.
Term(j) ==
    /\ Active(j) /\ job[j].then # "exit"
    /\ job' = [job EXCEPT ![j].pc = IF @ = "check" THEN "done" ELSE "delpod",
                          ![j].then = "exit",
                          ![j].failed = TRUE]
    /\ UNCHANGED <<pvc, rd, pod, doomed, passes, restored>>

\* SIGKILL, 30 s after that or with the node: no trap runs.
Kill(j) ==
    /\ Active(j)
    /\ Goto(j, "killed")
    /\ UNCHANGED <<pvc, rd, pod, doomed, passes, restored>>
-----------------------------------------------------------------------------
(* VolSync, the kubelet and the API server.                                *)

\* A mover starts for a manual trigger that was not synced yet.
MoverStarts(t) ==
    /\ rd[t] # None /\ rd[t].id # rd[t].last
    /\ pvc[t] # None /\ pvc[t].mover = None
    /\ pvc' = [pvc EXCEPT ![t] = [by |-> rd[t].id, state |-> "partial", mover |-> rd[t].id]]
    /\ UNCHANGED <<job, rd, pod, doomed, passes, restored>>

\* It restores everything; the ReplicationDestination may be gone by then.
MoverDone(t) ==
    /\ pvc[t] # None /\ pvc[t].mover # None
    /\ pvc' = [pvc EXCEPT ![t] = [@ EXCEPT !.state = "full", !.mover = None]]
    /\ IF rd[t] # None /\ rd[t].id = pvc[t].mover
       THEN /\ rd' = [rd EXCEPT ![t] = [id |-> @.id, last |-> @.id, result |-> "Successful"]]
            /\ restored' = restored \union {<<rd[t].id, t>>}
       ELSE UNCHANGED <<rd, restored>>
    /\ UNCHANGED <<job, pod, doomed, passes>>

\* It fails, or is killed with its ReplicationDestination.
MoverFails(t) ==
    /\ pvc[t] # None /\ pvc[t].mover # None
    /\ pvc' = [pvc EXCEPT ![t] = [@ EXCEPT !.mover = None]]
    /\ IF rd[t] # None /\ rd[t].id = pvc[t].mover
       THEN rd' = [rd EXCEPT ![t] = [@ EXCEPT !.result = "Failed"]]
       ELSE UNCHANGED rd
    /\ UNCHANGED <<job, pod, doomed, passes, restored>>

\* check.py finds an empty volume empty; the files it looks at may be sound in a
\* half-restored one, and broken in a complete one.  It prints VERIFY OK and exits
\* 0, or neither; the pod may still fail after the line.
CheckRuns(t) ==
    /\ pod[t] # None /\ pod[t].phase = "Pending"
    /\ pvc[t] # None
    /\ \E ok \in BOOLEAN, phase \in {"Succeeded", "Failed"} :
          /\ ok => pvc[t].state # "empty"
          /\ phase = "Succeeded" => ok
          /\ pod' = [pod EXCEPT ![t] =
                [phase |-> phase, ok |-> ok,
                 seen |-> [by |-> pvc[t].by, state |-> pvc[t].state]]]
    /\ UNCHANGED <<job, pvc, rd, doomed, passes, restored>>

\* The deletion of an object goes through after kubectl stopped waiting for it.
Vanish(t) ==
    /\ \/ /\ <<"pod", t>> \in doomed
          /\ pod' = [pod EXCEPT ![t] = None] /\ doomed' = doomed \ {<<"pod", t>>}
          /\ UNCHANGED <<pvc, rd>>
       \/ /\ <<"rd", t>> \in doomed
          /\ rd' = [rd EXCEPT ![t] = None] /\ doomed' = doomed \ {<<"rd", t>>}
          /\ UNCHANGED <<pvc, pod>>
       \/ /\ <<"pvc", t>> \in doomed /\ pvc[t] # None /\ pvc[t].mover = None
          /\ pod[t] # None => pod[t].phase # "Pending"
          /\ pvc' = [pvc EXCEPT ![t] = None] /\ doomed' = doomed \ {<<"pvc", t>>}
          /\ UNCHANGED <<rd, pod>>
    /\ UNCHANGED <<job, passes, restored>>

Script(j) ==
    \/ Check(j) \/ DeletePod(j) \/ DeleteRd(j) \/ DeletePvc(j) \/ Create(j)
    \/ RestoreDone(j) \/ RestoreFails(j) \/ StartPod(j)
    \/ PodEnds(j) \/ PodTimesOut(j) \/ Verdict(j)

Cluster(t) == MoverStarts(t) \/ MoverDone(t) \/ MoverFails(t) \/ CheckRuns(t) \/ Vanish(t)

Next ==
    \/ \E j \in Jobs : Start(j) \/ Script(j) \/ Term(j) \/ Kill(j)
    \/ \E t \in Targets : Cluster(t)

\* The script polls until its deadlines whatever the cluster does.
Spec == Init /\ [][Next]_vars
FairSpec == Spec /\ \A j \in Jobs : WF_vars(Script(j))
-----------------------------------------------------------------------------
(* Properties.                                                             *)

PvcState == [by : Jobs \union {None}, state : {"empty", "partial", "full"}, mover : Jobs \union {None}]
RdState == [id : Jobs, last : Jobs \union {None}, result : {"", "Successful", "Failed"}]
Seen == [by : Jobs \union {None}, state : {"empty", "partial", "full"}]
PodState == [phase : {"Pending", "Succeeded", "Failed"}, ok : BOOLEAN, seen : Seen \union {None}]
Steps == Ended \union {"check", "delpod", "delrd", "delpvc", "create", "restore",
                       "start", "wait", "logs"}
JobState == [pc : Steps, list : Seq(Targets), at : Nat, then : {"", "create", "next", "exit"},
             phase : {"", "Succeeded", "Failed"}, failed : BOOLEAN]

TypeOK ==
    /\ job \in [Jobs -> JobState]
    /\ \A j \in Jobs : job[j].pc \in Ended \/ job[j].at \in 1..Len(job[j].list)
    /\ pvc \in [Targets -> PvcState \union {None}]
    /\ rd \in [Targets -> RdState \union {None}]
    /\ pod \in [Targets -> PodState \union {None}]
    /\ \A t \in Targets : pod[t] # None /\ pod[t].ok => pod[t].seen \in Seen
    /\ doomed \subseteq {"pod", "rd", "pvc"} \X Targets
    /\ passes \subseteq [job : Jobs, target : Targets, seen : Seen]
    /\ restored \subseteq Jobs \X Targets

\* A PASS means that a pod read what this very run had restored completely, and
\* found it sound (verify.sh:8-12).
PassIsVerified ==
    \A p \in passes : p.seen = [by |-> p.job, state |-> "full"]

\* Whatever else goes wrong, leftovers, failed deletes and runs that share the
\* names included, no run passes a target VolSync did not restore for it.
PassNeedsRestore == \A p \in passes : <<p.job, p.target>> \in restored

\* A run that succeeds has passed every target of its list; VolSyncVerifyFailed and
\* VolSyncVerifyStale rest on it.
SuccessMeansAllPassed ==
    \A j \in Jobs : job[j].pc = "done" /\ ~job[j].failed =>
        \A i \in 1..Len(job[j].list) :
            \E p \in passes : p.job = j /\ p.target = job[j].list[i]

\* Once no run is active and none was killed, nothing is left in the namespace.
NothingLeftUnlessKilled ==
    (\A j \in Jobs : job[j].pc \in {"off", "done"}) =>
        \A t \in Targets : pvc[t] = None /\ rd[t] = None /\ pod[t] = None

\* Everything is deleted afterwards, pass or fail (verify.sh:11).  Not after a kill, so
\* no run checks it: the next run deletes what this one left.
NothingLeft ==
    (\A j \in Jobs : ~Active(j)) =>
        \A t \in Targets : pvc[t] = None /\ rd[t] = None /\ pod[t] = None

\* A run that started ends, though VolSync or the pod never answer.
RunsEnd == \A j \in Jobs : Active(j) ~> ~Active(j)
=============================================================================
