------------------------------ MODULE JobSync ------------------------------
(***************************************************************************)
(* The Job synchronization engine: the sync_job task of                   *)
(* src/changes/jobs/sync_job.py, run for every Job of one Build.           *)
(*                                                                         *)
(* The persisted store is the state: each Job's status and result, the     *)
(* Build's status, and the work queue of pending tasks.  One invocation    *)
(* of sync_job for a Job runs under the per-Job advisory lock taken by the *)
(* @lock decorator, so an invocation is a small per-Job program counter:   *)
(*   "idle"      no invocation holds the Job's lock;                       *)
(*   "started"   the lock is held and the Job has been read;               *)
(*   "committed" the Job's new state has been committed (line 52) and the  *)
(*               Build update and the continuation are still to come.      *)
(* Invocations for different Jobs interleave at these points; they meet on *)
(* the Build row, which only the conditional UPDATE at lines 57-66 writes. *)
(***************************************************************************)
EXTENDS Naturals, Sequences

CONSTANTS
  Jobs,     \* the Jobs of the Build
  Faults    \* where a transient exception may be raised:
            \*   "execute"       before the commit at line 52,
            \*   "after_commit"  between line 52 and the end of _sync_job

ASSUME JobsAssumption == Jobs # {}
ASSUME FaultsAssumption == Faults \subseteq {"execute", "after_commit"}

(* changes.constants.Status, ranked by progress, and Result. *)
Status == {"unknown", "queued", "in_progress", "finished"}
Rank == [unknown |-> 0, queued |-> 1, in_progress |-> 2, finished |-> 3]
Result == {"unknown", "passed", "failed", "aborted", "infra_failed"}

(* What the JobPlan query of lines 25-29 and plan.steps[0] find: no       *)
(* JobPlan, a Plan without steps, or a Plan whose first step is usable.   *)
PlanKinds == {"none", "no_steps", "ok"}

(* A task on the work queue: its name and the Job it is about. *)
Msg(t, j) == [task |-> t, job |-> j]
SyncMsg(j) == Msg("sync_job", j)

VARIABLES
  jobStatus,    \* Job.status, per Job
  jobResult,    \* Job.result, per Job
  jobPlan,      \* the Job's JobPlan, fixed at Job creation
  buildStatus,  \* Build.status of the Build owning the Jobs
  queue,        \* the set of tasks enqueued and not yet delivered
  pc,           \* the stage of the invocation holding the Job's lock
  prevStatus    \* the local prev_status of that invocation (line 22)

vars == <<jobStatus, jobResult, jobPlan, buildStatus, queue, pc, prevStatus>>

(* The tasks fanned out when a Job is found finished (lines 78-97), in    *)
(* the order they are enqueued; update_project_plan_stats only when a     *)
(* JobPlan exists.                                                        *)
FanOutSeq(j) ==
  IF jobPlan[j] = "none"
  THEN << Msg("update_build_result", j), Msg("update_project_stats", j),
          Msg("notify_listeners", j) >>
  ELSE << Msg("update_build_result", j), Msg("update_project_stats", j),
          Msg("notify_listeners", j), Msg("update_project_plan_stats", j) >>

(* The first k tasks of the fan-out: those enqueued before an exception. *)
FanOutPrefix(j, k) == {FanOutSeq(j)[i] : i \in 1..k}

FanOut(j) == FanOutPrefix(j, Len(FanOutSeq(j)))

(* A delivered task leaves the queue, or stays there to be delivered     *)
(* again: the queue delivers at least once.                               *)
Deliver(m) == queue' \in {queue \ {m}, queue}

(* Backend.execute(job): the Job's status advances, or stays, and a       *)
(* finished Job carries a verdict.                                        *)
BackendExecute(j) ==
  \E s \in Status :
    /\ Rank[s] >= Rank[jobStatus[j]]
    /\ jobStatus' = [jobStatus EXCEPT ![j] = s]
    /\ IF s = "finished"
       THEN \E r \in Result \ {"unknown"} : jobResult' = [jobResult EXCEPT ![j] = r]
       ELSE UNCHANGED jobResult

(* Slips in the Build update: a plain UPDATE without the status filter, *)
(* and writing the status the Job had before this invocation.            *)
NewBuildStatusUnguarded(j) ==
  IF jobStatus[j] # prevStatus[j] THEN jobStatus[j] ELSE buildStatus

NewBuildStatusPrev(j) ==
  IF jobStatus[j] # prevStatus[j] /\ buildStatus \in {"queued", "unknown"}
  THEN prevStatus[j]
  ELSE buildStatus

(* The conditional UPDATE of lines 56-64: the Build takes the Job's       *)
(* status only when the Job's status changed in this invocation and the   *)
(* Build is still queued or unknown.                                      *)
NewBuildStatus(j) ==
  IF jobStatus[j] # prevStatus[j] /\ buildStatus \in {"queued", "unknown"}
  THEN jobStatus[j]
  ELSE buildStatus

(* Slips in the continuation: no re-enqueue of an unfinished Job, and    *)
(* the whole fan-out kept under "if job_plan".                           *)
ContinuationNoRequeue(j) ==
  IF jobStatus[j] # "finished" THEN {} ELSE FanOut(j)

ContinuationFanOutUnderPlan(j) ==
  IF jobStatus[j] # "finished" THEN {SyncMsg(j)}
  ELSE IF jobPlan[j] = "none" THEN {} ELSE FanOut(j)

(* Lines 72-97: an unfinished Job is synced again, a finished one fans out. *)
Continuation(j) ==
  IF jobStatus[j] # "finished"
  THEN {SyncMsg(j)}
  ELSE FanOut(j)

Init ==
  /\ jobStatus = [j \in Jobs |-> "queued"]
  /\ jobResult = [j \in Jobs |-> "unknown"]
  /\ jobPlan \in [Jobs -> PlanKinds]
  /\ buildStatus = "queued"
  /\ queue = {SyncMsg(j) : j \in Jobs}
  /\ pc = [j \in Jobs |-> "idle"]
  /\ prevStatus = [j \in Jobs |-> "queued"]

(* sync_job is delivered and takes the Job's lock, then reads the Job. *)
Acquire(j) ==
  /\ SyncMsg(j) \in queue
  /\ pc[j] = "idle"
  /\ Deliver(SyncMsg(j))
  /\ pc' = [pc EXCEPT ![j] = "started"]
  /\ UNCHANGED <<jobStatus, jobResult, jobPlan, buildStatus, prevStatus>>

(* The lock is held by another invocation: this one abandons. *)
Abandon(j) ==
  /\ SyncMsg(j) \in queue
  /\ pc[j] # "idle"
  /\ Deliver(SyncMsg(j))
  /\ UNCHANGED <<jobStatus, jobResult, jobPlan, buildStatus, pc, prevStatus>>

(* Lines 19-20: a finished Job is left alone. *)
SkipFinished(j) ==
  /\ pc[j] = "started"
  /\ jobStatus[j] = "finished"
  /\ pc' = [pc EXCEPT ![j] = "idle"]
  /\ UNCHANGED <<jobStatus, jobResult, jobPlan, buildStatus, queue, prevStatus>>

(* Lines 22-40 and 47-52: the Plan's first step executes the Job, whose   *)
(* new state is committed.                                                *)
Execute(j) ==
  /\ pc[j] = "started"
  /\ jobStatus[j] # "finished"
  /\ jobPlan[j] = "ok"
  /\ BackendExecute(j)
  /\ prevStatus' = [prevStatus EXCEPT ![j] = jobStatus[j]]
  /\ pc' = [pc EXCEPT ![j] = "committed"]
  /\ UNCHANGED <<jobPlan, buildStatus, queue>>

(* A slip in the abort path: Result.aborted assigned to the status. *)
AbortStatusAsResult(j) ==
  /\ pc[j] = "started"
  /\ jobStatus[j] # "finished"
  /\ jobStatus' = [jobStatus EXCEPT ![j] = "aborted"]
  /\ jobResult' = [jobResult EXCEPT ![j] = "aborted"]
  /\ prevStatus' = [prevStatus EXCEPT ![j] = jobStatus[j]]
  /\ pc' = [pc EXCEPT ![j] = "committed"]
  /\ UNCHANGED <<jobPlan, buildStatus, queue>>

(* A slip in the abort path: the status set, "job.result =" forgotten. *)
AbortNoResult(j) ==
  /\ pc[j] = "started"
  /\ jobStatus[j] # "finished"
  /\ jobStatus' = [jobStatus EXCEPT ![j] = "finished"]
  /\ prevStatus' = [prevStatus EXCEPT ![j] = jobStatus[j]]
  /\ pc' = [pc EXCEPT ![j] = "committed"]
  /\ UNCHANGED <<jobResult, jobPlan, buildStatus, queue>>

(* Lines 30-52: a missing JobPlan, a Plan without steps, or an            *)
(* UnrecoverableException from the backend finishes the Job as aborted,   *)
(* which is committed.                                                    *)
Abort(j) ==
  /\ pc[j] = "started"
  /\ jobStatus[j] # "finished"
  /\ jobStatus' = [jobStatus EXCEPT ![j] = "finished"]
  /\ jobResult' = [jobResult EXCEPT ![j] = "aborted"]
  /\ prevStatus' = [prevStatus EXCEPT ![j] = jobStatus[j]]
  /\ pc' = [pc EXCEPT ![j] = "committed"]
  /\ UNCHANGED <<jobPlan, buildStatus, queue>>

(* Lines 104-113: a transient exception before the commit; nothing of the *)
(* Job is saved and the task is retried.                                  *)
FailExecute(j) ==
  /\ "execute" \in Faults
  /\ pc[j] = "started"
  /\ jobStatus[j] # "finished"
  /\ jobPlan[j] = "ok"
  /\ queue' = queue \cup {SyncMsg(j)}
  /\ pc' = [pc EXCEPT ![j] = "idle"]
  /\ UNCHANGED <<jobStatus, jobResult, jobPlan, buildStatus, prevStatus>>

(* Lines 54-99: the Build update, then the continuation; the lock is      *)
(* released.                                                              *)
Publish(j) ==
  /\ pc[j] = "committed"
  /\ buildStatus' = NewBuildStatus(j)
  /\ queue' = queue \cup Continuation(j)
  /\ pc' = [pc EXCEPT ![j] = "idle"]
  /\ UNCHANGED <<jobStatus, jobResult, jobPlan, prevStatus>>

(* A slip in the retry wrapper: an exception after the commit is logged *)
(* and swallowed, with no retry enqueued.                                *)
FailAfterCommitSwallowed(j) ==
  /\ "after_commit" \in Faults
  /\ pc[j] = "committed"
  /\ UNCHANGED <<buildStatus, queue>>
  /\ pc' = [pc EXCEPT ![j] = "idle"]
  /\ UNCHANGED <<jobStatus, jobResult, jobPlan, prevStatus>>

(* Lines 104-113: a transient exception after the commit, raised by the   *)
(* Build update or before it, or by one of the queue.delay calls after    *)
(* k of the fan-out tasks were enqueued; the task is retried.             *)
FailAfterCommit(j) ==
  /\ "after_commit" \in Faults
  /\ pc[j] = "committed"
  /\ \/ /\ UNCHANGED buildStatus
        /\ queue' = queue \cup {SyncMsg(j)}
     \/ /\ buildStatus' = NewBuildStatus(j)
        /\ \E k \in 0..Len(FanOutSeq(j)) :
             queue' = queue \cup {SyncMsg(j)} \cup
                        (IF jobStatus[j] = "finished" THEN FanOutPrefix(j, k) ELSE {})
  /\ pc' = [pc EXCEPT ![j] = "idle"]
  /\ UNCHANGED <<jobStatus, jobResult, jobPlan, prevStatus>>

Next ==
  \E j \in Jobs :
    \/ Acquire(j)
    \/ Abandon(j)
    \/ SkipFinished(j)
    \/ Execute(j)
    \/ Abort(j)
    \/ FailExecute(j)
    \/ Publish(j)
    \/ FailAfterCommit(j)

Spec == Init /\ [][Next]_vars

(* The fairness the deployment gives: the work queue keeps delivering a  *)
(* pending sync_job to a worker, and an invocation that holds the lock   *)
(* runs on to its end (spec 5: a unit of work runs to completion).  The   *)
(* backend is assumed to finish a Job eventually, even when transient    *)
(* exceptions interrupt some of the invocations that execute it: strong  *)
(* fairness, since such an execution is only possible while an          *)
(* invocation holds the lock.                                            *)
Fairness ==
  \A j \in Jobs :
    /\ WF_vars(Acquire(j))
    /\ WF_vars(SkipFinished(j) \/ Execute(j) \/ Abort(j) \/ FailExecute(j))
    /\ WF_vars(Publish(j) \/ FailAfterCommit(j))
    /\ SF_vars(Execute(j) /\ jobStatus'[j] = "finished")

LiveSpec == Spec /\ Fairness

-----------------------------------------------------------------------------
(***************************************************************************)
(* Properties.                                                            *)
(***************************************************************************)

Tasks == {"sync_job", "update_build_result", "update_project_stats",
          "notify_listeners", "update_project_plan_stats"}

TypeOK ==
  /\ jobStatus \in [Jobs -> Status]
  /\ jobResult \in [Jobs -> Result]
  /\ jobPlan \in [Jobs -> PlanKinds]
  /\ buildStatus \in Status
  /\ queue \subseteq [task : Tasks, job : Jobs]
  /\ pc \in [Jobs -> {"idle", "started", "committed"}]
  /\ prevStatus \in [Jobs -> Status]

(* No Job is silently dropped (spec 4.1): every unfinished Job has a      *)
(* sync_job task on the queue or an invocation holding its lock.  This    *)
(* rests on the continuation of line 74 and on the retry of line 111, and *)
(* on a lock-holder always re-enqueueing, since a competing delivery      *)
(* abandons without effect.                                               *)
NeverDropped ==
  \A j \in Jobs :
    jobStatus[j] # "finished" => SyncMsg(j) \in queue \/ pc[j] # "idle"

(* Every Job found finished has had its whole fan-out enqueued            *)
(* (update_build_result, update_project_stats, notify_listeners and,      *)
(* with a JobPlan, update_project_plan_stats) once no invocation holds    *)
(* its lock: a finished Job is never synced again (lines 19-20), so the   *)
(* fan-out of lines 78-97 is its only chance.                             *)
FinishedFannedOut ==
  \A j \in Jobs :
    jobStatus[j] = "finished" /\ pc[j] = "idle" => FanOut(j) \subseteq queue

(* A Build is never left queued behind a Job that has started: once an   *)
(* invocation has released a Job that left "queued", the conditional     *)
(* Build update of lines 56-64 has moved the Build on.                    *)
BuildStartedWithJobs ==
  (\E j \in Jobs : jobStatus[j] # "queued" /\ pc[j] = "idle")
     => buildStatus \notin {"queued", "unknown"}

(* The Build's status never moves backwards (spec 3 and 8): a late Job    *)
(* transition never overwrites a Build another Job already advanced.      *)
BuildNeverRegresses ==
  [][Rank[buildStatus'] >= Rank[buildStatus]]_buildStatus

(* Every Job eventually finishes and has its whole fan-out enqueued (spec *)
(* 4.1, poll-until-done): the 5 s continuation of line 74 and the retry  *)
(* of line 111 keep an unfinished Job polled until the backend finishes  *)
(* it, and the invocation that sees it finished fans it out.              *)
JobsFinishAndFanOut ==
  \A j \in Jobs : <>[](jobStatus[j] = "finished" /\ FanOut(j) \subseteq queue)

-----------------------------------------------------------------------------
(***************************************************************************)
(* Refinement: with the queue, the locks and the invocations hidden, the  *)
(* engine is a JobLifecycle.  A Job counts as fanned out once its whole   *)
(* fan-out is on the queue.                                               *)
(***************************************************************************)
FannedOut == {j \in Jobs : FanOut(j) \subseteq queue}

JL == INSTANCE JobLifecycle
        WITH status <- jobStatus, result <- jobResult,
             build <- buildStatus, fanned <- FannedOut

(* The engine implements its abstract lifecycle: Job statuses only move  *)
(* forward and get a verdict exactly when they finish, the Build only    *)
(* follows a started Job while it is queued or unknown, and only a       *)
(* finished Job is ever fanned out.                                      *)
JobLifecycleSpec == JL!Spec

=============================================================================
