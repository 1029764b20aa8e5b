---------------------------- MODULE ExpansionSync ----------------------------
(***************************************************************************)
(* The Command expansion and the Step synchronization engine together: an *)
(* expansion creates JobSteps and enqueues a sync_job_step for each       *)
(* (command_details.py lines 141-160), the work queue delivers those      *)
(* messages to workers that reconcile the Steps (spec 4.2).  The two      *)
(* share the queue of sync_job_step messages and the set of committed     *)
(* JobSteps; each of them leaves the other's own state alone.            *)
(***************************************************************************)
EXTENDS CommandExpansion

CONSTANTS MissingTests, CanTimeOut

VARIABLES sstatus, sresult, stask

sysVars == <<vars, sstatus, sresult, stask>>

SS == INSTANCE StepSync WITH Steps <- StepIds

SysInit == Init /\ SS!Init

(* A report request moves, the JobStep of the Command fails, or the lock *)
(* expires; no expanded Step's own columns change.                      *)
Report == Next /\ UNCHANGED <<sstatus, sresult, stask>>

(* A worker reconciles expanded Step s; the Command, its requests and    *)
(* the committed JobSteps stay as they are.                              *)
Reconcile(s) ==
  /\ SS!Sync(s)
  /\ UNCHANGED <<cmd, stepResult, phases, lock, rstage, rargs, rread, rnew,
                 rexp>>

SysNext == Report \/ \E s \in StepIds : Reconcile(s)

SysSpec == SysInit /\ [][SysNext]_sysVars

(* The work queue delivers every pending message (spec 6), and a worker *)
(* runs its invocation to completion (spec 5); the Backend finishes a   *)
(* Step that is polled often enough (the assumption behind spec 4.2's    *)
(* poll-until-done).                                                     *)
SysFairness == \A s \in StepIds :
  /\ WF_sysVars(Reconcile(s))
  /\ SF_sysVars(Reconcile(s) /\ sstatus'[s] = "finished")

LiveSpec == SysSpec /\ SysFairness

-----------------------------------------------------------------------------
(* Every committed JobStep that is not finished still has a pending      *)
(* sync_job_step: spec 4.5's "each newly created Step is then scheduled  *)
(* for reconciliation", with 4.2's poll-until-done keeping it scheduled.  *)
(* It is about the enqueue of lines 155-160 coming before the commit of  *)
(* line 114.                                                             *)
NoStepDropped ==
  \A s \in steps : sstatus[s] # "finished" => s \in tasks

(* A JobStep that exists while its reconciliation is pending is          *)
(* reconciled until it finishes, through the re-enqueue of 4.2 step 4   *)
(* and the timeout of step 1.                                            *)
ScheduledStepsFinish ==
  \A s \in StepIds :
    (s \in tasks /\ s \in steps) ~> (sstatus[s] = "finished")

=============================================================================
