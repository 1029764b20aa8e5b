--------------------------- MODULE JobSync_proofs ---------------------------
(***************************************************************************)
(* Proofs about the Job synchronization engine, for every set of Jobs and *)
(* every set of Faults.                                                   *)
(***************************************************************************)
EXTENDS JobSync, TLAPS

(* Every message the engine enqueues is a task record. *)
LEMMA MsgType ==
  ASSUME NEW t \in Tasks, NEW j \in Jobs
  PROVE  Msg(t, j) \in [task : Tasks, job : Jobs]
BY DEF Msg

(* The fan-out of a Job, and every prefix of it, are task records. *)
LEMMA FanOutType ==
  ASSUME NEW j \in Jobs, NEW k \in 0..Len(FanOutSeq(j))
  PROVE  FanOutPrefix(j, k) \subseteq [task : Tasks, job : Jobs]
<1> DEFINE R == [task : Tasks, job : Jobs]
<1>1. /\ Msg("update_build_result", j) \in R
      /\ Msg("update_project_stats", j) \in R
      /\ Msg("notify_listeners", j) \in R
      /\ Msg("update_project_plan_stats", j) \in R
  BY MsgType DEF Tasks
<1>2. \A i \in 1..Len(FanOutSeq(j)) : FanOutSeq(j)[i] \in R
  <2>1. CASE jobPlan[j] = "none"
    BY <1>1, <2>1 DEF FanOutSeq
  <2>2. CASE jobPlan[j] # "none"
    BY <1>1, <2>2 DEF FanOutSeq
  <2>. QED
    BY <2>1, <2>2
<1>. QED
  BY <1>2 DEF FanOutPrefix

(* The type invariant is inductive: every step keeps it. *)
LEMMA TypeInductive == TypeOK /\ [Next]_vars => TypeOK'
<1> SUFFICES ASSUME TypeOK, [Next]_vars PROVE TypeOK'
  OBVIOUS
<1> USE DEF TypeOK
<1>0. \A j \in Jobs : SyncMsg(j) \in [task : Tasks, job : Jobs]
  BY DEF SyncMsg, Msg, Tasks
<1>1. ASSUME NEW j \in Jobs, Acquire(j) PROVE TypeOK'
  BY <1>1 DEF Acquire, Deliver
<1>2. ASSUME NEW j \in Jobs, Abandon(j) PROVE TypeOK'
  BY <1>2 DEF Abandon, Deliver
<1>3. ASSUME NEW j \in Jobs, SkipFinished(j) PROVE TypeOK'
  BY <1>3 DEF SkipFinished
<1>4. ASSUME NEW j \in Jobs, Execute(j) PROVE TypeOK'
  BY <1>4 DEF Execute, BackendExecute
<1>5. ASSUME NEW j \in Jobs, Abort(j) PROVE TypeOK'
  BY <1>5 DEF Abort, Status, Result
<1>6. ASSUME NEW j \in Jobs, FailExecute(j) PROVE TypeOK'
  BY <1>0, <1>6 DEF FailExecute
<1>7. ASSUME NEW j \in Jobs, Publish(j) PROVE TypeOK'
  <2>1. Continuation(j) \subseteq [task : Tasks, job : Jobs]
    <3>1. Len(FanOutSeq(j)) \in 0..Len(FanOutSeq(j))
      BY DEF FanOutSeq
    <3>. QED
      BY <1>0, <3>1, FanOutType DEF Continuation, FanOut
  <2>2. NewBuildStatus(j) \in Status
    BY DEF NewBuildStatus
  <2>. QED
    BY <1>7, <2>1, <2>2 DEF Publish
<1>8. ASSUME NEW j \in Jobs, FailAfterCommit(j) PROVE TypeOK'
  <2>1. \A k \in 0..Len(FanOutSeq(j)) :
          FanOutPrefix(j, k) \subseteq [task : Tasks, job : Jobs]
    BY FanOutType
  <2>2. NewBuildStatus(j) \in Status
    BY DEF NewBuildStatus
  <2>. QED
    BY <1>0, <1>8, <2>1, <2>2 DEF FailAfterCommit
<1>9. CASE UNCHANGED vars
  BY <1>9 DEF vars
<1>. QED
  BY <1>1, <1>2, <1>3, <1>4, <1>5, <1>6, <1>7, <1>8, <1>9 DEF Next

(* The initial states have the types TypeOK gives them. *)
LEMMA TypeInit == Init => TypeOK
BY DEF Init, TypeOK, SyncMsg, Msg, Tasks, Status, Result

(* Every state of the engine has the types TypeOK gives it. *)
THEOREM TypeCorrect == Spec => []TypeOK
BY TypeInit, TypeInductive, PTL DEF Spec

-----------------------------------------------------------------------------
(***************************************************************************)
(* The inductive invariant.  NeverDropped alone is not inductive: a Build *)
(* update copies a Job's status into the Build, and BuildNeverRegresses   *)
(* needs that status to be past "unknown", which holds because Jobs start *)
(* queued and the backend never moves a Job backwards.                    *)
(***************************************************************************)

(* No Job is ever back in the "unknown" status. *)
NoUnknownJob == \A j \in Jobs : jobStatus[j] # "unknown"

IInv == TypeOK /\ NeverDropped /\ NoUnknownJob

(* IInv holds initially. *)
LEMMA IInvInit == Init => IInv
<1>1. Init => TypeOK
  BY TypeInit
<1>2. Init => NeverDropped /\ NoUnknownJob
  BY DEF Init, NeverDropped, NoUnknownJob
<1>. QED
  BY <1>1, <1>2 DEF IInv

(* Every step keeps IInv. *)
LEMMA IInvInductive == IInv /\ [Next]_vars => IInv'
<1> SUFFICES ASSUME IInv, [Next]_vars PROVE IInv'
  OBVIOUS
<1>0. TypeOK'
  BY TypeInductive DEF IInv
<1> USE DEF IInv, TypeOK
<1>1. ASSUME NEW j \in Jobs, Acquire(j) PROVE NeverDropped' /\ NoUnknownJob'
  BY <1>1 DEF Acquire, Deliver, NeverDropped, NoUnknownJob, SyncMsg, Msg
<1>2. ASSUME NEW j \in Jobs, Abandon(j) PROVE NeverDropped' /\ NoUnknownJob'
  BY <1>2 DEF Abandon, Deliver, NeverDropped, NoUnknownJob, SyncMsg, Msg
<1>3. ASSUME NEW j \in Jobs, SkipFinished(j) PROVE NeverDropped' /\ NoUnknownJob'
  BY <1>3 DEF SkipFinished, NeverDropped, NoUnknownJob
<1>4. ASSUME NEW j \in Jobs, Execute(j) PROVE NeverDropped' /\ NoUnknownJob'
  <2>1. NoUnknownJob'
    BY <1>4 DEF Execute, BackendExecute, NoUnknownJob, Rank, Status
  <2>2. NeverDropped'
    BY <1>4 DEF Execute, BackendExecute, NeverDropped
  <2>. QED
    BY <2>1, <2>2
<1>5. ASSUME NEW j \in Jobs, Abort(j) PROVE NeverDropped' /\ NoUnknownJob'
  BY <1>5 DEF Abort, NeverDropped, NoUnknownJob
<1>6. ASSUME NEW j \in Jobs, FailExecute(j) PROVE NeverDropped' /\ NoUnknownJob'
  BY <1>6 DEF FailExecute, NeverDropped, NoUnknownJob
<1>7. ASSUME NEW j \in Jobs, Publish(j) PROVE NeverDropped' /\ NoUnknownJob'
  BY <1>7 DEF Publish, Continuation, NeverDropped, NoUnknownJob
<1>8. ASSUME NEW j \in Jobs, FailAfterCommit(j) PROVE NeverDropped' /\ NoUnknownJob'
  BY <1>8 DEF FailAfterCommit, NeverDropped, NoUnknownJob
<1>9. CASE UNCHANGED vars
  BY <1>9 DEF vars, NeverDropped, NoUnknownJob
<1>. QED
  BY <1>0, <1>1, <1>2, <1>3, <1>4, <1>5, <1>6, <1>7, <1>8, <1>9 DEF Next

(* No unfinished Job is ever without a sync_job task or an invocation    *)
(* holding its lock, whatever the Jobs and the Faults.                    *)
THEOREM NeverDroppedTheorem == Spec => []NeverDropped
<1>1. IInv => NeverDropped
  BY DEF IInv
<1>. QED
  BY <1>1, IInvInit, IInvInductive, PTL DEF Spec

(* A step never moves the Build's status backwards: the conditional      *)
(* update only writes a Build still queued or unknown, and writes the     *)
(* status of a Job, which is never "unknown".                             *)
LEMMA BuildStep ==
  IInv /\ [Next]_vars => [Rank[buildStatus'] >= Rank[buildStatus]]_buildStatus
<1> SUFFICES ASSUME IInv, [Next]_vars
             PROVE  [Rank[buildStatus'] >= Rank[buildStatus]]_buildStatus
  OBVIOUS
<1> USE DEF IInv, TypeOK
<1>1. ASSUME NEW j \in Jobs
      PROVE  Rank[NewBuildStatus(j)] >= Rank[buildStatus]
  <2>1. CASE jobStatus[j] # prevStatus[j] /\ buildStatus \in {"queued", "unknown"}
    <3>1. jobStatus[j] \in Status \ {"unknown"}
      BY DEF NoUnknownJob
    <3>. QED
      BY <2>1, <3>1 DEF NewBuildStatus, Rank, Status
  <2>2. CASE ~(jobStatus[j] # prevStatus[j] /\ buildStatus \in {"queued", "unknown"})
    BY <2>2 DEF NewBuildStatus, Rank, Status
  <2>. QED
    BY <2>1, <2>2
<1>2. ASSUME NEW j \in Jobs, Publish(j) \/ FailAfterCommit(j)
      PROVE  Rank[buildStatus'] >= Rank[buildStatus]
  BY <1>1, <1>2 DEF Publish, FailAfterCommit, Rank, Status
<1>3. ASSUME NEW j \in Jobs,
             \/ Acquire(j) \/ Abandon(j) \/ SkipFinished(j)
             \/ Execute(j) \/ Abort(j) \/ FailExecute(j)
      PROVE  UNCHANGED buildStatus
  BY <1>3 DEF Acquire, Abandon, SkipFinished, Execute, Abort, FailExecute
<1>. QED
  BY <1>2, <1>3 DEF Next, vars

(* The Build's status never moves backwards, whatever the Jobs and the   *)
(* Faults.                                                                *)
THEOREM BuildNeverRegressesTheorem == Spec => BuildNeverRegresses
<1>. QED
  BY IInvInit, IInvInductive, BuildStep, PTL DEF Spec, BuildNeverRegresses

(* A sync_job task is never one of the tasks a fan-out enqueues, so the  *)
(* delivery of a sync_job never takes a fan-out task off the queue.       *)
LEMMA SyncNotFanOut ==
  ASSUME NEW i \in Jobs, NEW j \in Jobs
  PROVE  SyncMsg(i) \notin FanOut(j)
<1>1. \A k \in 1..Len(FanOutSeq(j)) : FanOutSeq(j)[k].task # "sync_job"
  <2>1. CASE jobPlan[j] = "none"
    BY <2>1 DEF FanOutSeq, Msg
  <2>2. CASE jobPlan[j] # "none"
    BY <2>2 DEF FanOutSeq, Msg
  <2>. QED
    BY <2>1, <2>2
<1>. QED
  BY <1>1 DEF FanOut, FanOutPrefix, SyncMsg, Msg

=============================================================================
