------------------------------ MODULE StepSync ------------------------------
(***************************************************************************)
(* The Step synchronization engine, sync_job_step (spec 4.2 and 4.3).     *)
(* Its code is not part of the repository's src/: every action is         *)
(* modelled from the spec.  One invocation is one atomic step: it runs    *)
(* under the Step's lock and commits before it decides whether to        *)
(* continue (spec 5).  The work queue holds at most one pending          *)
(* reconciliation per Step and delivers it at least once (spec 6): a     *)
(* message a worker has taken may be delivered again.  A transient       *)
(* exception, retried later, leaves the state of a delivery not taken.   *)
(*                                                                         *)
(* The Steps are created by someone else (the Command expansion): steps  *)
(* is the set of committed Steps, tasks the pending sync_job_step         *)
(* messages, and this module only reads the former and consumes and     *)
(* re-enqueues the latter.                                               *)
(***************************************************************************)
EXTENDS Naturals

CONSTANTS
  Steps,         \* the Step identifiers
  MissingTests,  \* the Steps that is_missing_tests finds without tests
  CanTimeOut     \* whether the plan's build.timeout may expire

VARIABLES
  tasks,    \* the pending sync_job_step messages, by Step
  steps,    \* the committed Steps
  sstatus,  \* each Step's status
  sresult,  \* each Step's result
  stask     \* the status of the Task row mirroring each Step

Status == {"unknown", "queued", "in_progress", "finished"}
Rank == [unknown |-> 0, queued |-> 1, in_progress |-> 2, finished |-> 3]
Verdicts == {"passed", "failed", "aborted", "infra_failed"}

Init ==
  /\ tasks = {}
  /\ steps = {}
  /\ sstatus = [s \in Steps |-> "queued"]
  /\ sresult = [s \in Steps |-> "unknown"]
  /\ stask = [s \in Steps |-> "queued"]

(* Spec 6: the message is acknowledged, or delivered again later. *)
Taken(s) == tasks' = tasks \ {s} \/ UNCHANGED tasks

(* Spec 4.1, whose discipline 4.2 shares: a reconciliation of a Step     *)
(* that does not exist is a no-op: nothing re-enqueues it.             *)
SyncMissing(s) ==
  /\ s \in tasks
  /\ s \notin steps
  /\ Taken(s)
  /\ UNCHANGED <<steps, sstatus, sresult, stask>>

(* ... and so is a reconciliation of a Step already finished. *)
SyncFinished(s) ==
  /\ s \in tasks
  /\ s \in steps
  /\ sstatus[s] = "finished"
  /\ Taken(s)
  /\ UNCHANGED <<steps, sstatus, sresult, stask>>

(* Spec 4.3: the post-processing of a finishing Step forces failed on a *)
(* Step missing its tests, whatever the Backend reported.               *)
PostProcessed(s, res) == IF s \in MissingTests THEN "failed" ELSE res

(* Spec 4.2 step 1: an in_progress Step past its timeout is cancelled,  *)
(* failed, and its Task finished; it is not re-enqueued.                *)
TimeOut(s) ==
  /\ CanTimeOut
  /\ s \in tasks
  /\ s \in steps
  /\ sstatus[s] = "in_progress"
  /\ sstatus' = [sstatus EXCEPT ![s] = "finished"]
  /\ sresult' = [sresult EXCEPT ![s] = "failed"]
  /\ stask' = [stask EXCEPT ![s] = "finished"]
  /\ Taken(s)
  /\ UNCHANGED steps

(* A slip: the unfinished Step's reconciliation is not re-enqueued. *)
UpdateNoRequeue(s) ==
  /\ s \in tasks
  /\ s \in steps
  /\ sstatus[s] # "finished"
  /\ \E st \in Status :
       /\ Rank[st] >= Rank[sstatus[s]]
       /\ sstatus' = [sstatus EXCEPT ![s] = st]
       /\ IF st = "finished"
          THEN \E v \in Verdicts :
                 sresult' = [sresult EXCEPT ![s] = PostProcessed(s, v)]
          ELSE UNCHANGED sresult
       /\ stask' = [stask EXCEPT ![s] = st]
  /\ tasks' = tasks \ {s}
  /\ UNCHANGED steps

(* Spec 4.2 steps 2-4: the Backend's update_step moves the Step forward *)
(* and, when it finishes it, gives it a verdict that the post-processing *)
(* may override; the Task mirrors the Step's status; an unfinished Step *)
(* is re-enqueued (its message stays pending), a finished one is not.   *)
Update(s) ==
  /\ s \in tasks
  /\ s \in steps
  /\ sstatus[s] # "finished"
  /\ \E st \in Status :
       /\ Rank[st] >= Rank[sstatus[s]]
       /\ sstatus' = [sstatus EXCEPT ![s] = st]
       /\ IF st = "finished"
          THEN /\ \E v \in Verdicts :
                    sresult' = [sresult EXCEPT ![s] = PostProcessed(s, v)]
               /\ Taken(s)
          ELSE /\ UNCHANGED sresult
               /\ UNCHANGED tasks
       /\ stask' = [stask EXCEPT ![s] = st]
  /\ UNCHANGED steps

Sync(s) == SyncMissing(s) \/ SyncFinished(s) \/ TimeOut(s) \/ Update(s)

Next == \E s \in Steps : Sync(s)

TypeOK ==
  /\ tasks \subseteq Steps
  /\ steps \subseteq Steps
  /\ sstatus \in [Steps -> Status]
  /\ sresult \in [Steps -> {"unknown"} \cup Verdicts]
  /\ stask \in [Steps -> Status]

=============================================================================
