------------------------- MODULE JobSync_refinement -------------------------
(***************************************************************************)
(* The Job synchronization engine implements its abstract lifecycle,     *)
(* JobLifecycle, under the mapping of JobSync (the Job and Build columns  *)
(* as they are, and a Job counted as fanned out once its whole fan-out    *)
(* is on the queue), for every set of Jobs and every set of Faults.       *)
(***************************************************************************)
EXTENDS JobSync_proofs

(* The state the abstract lifecycle sees. *)
avars == <<jobStatus, jobResult, buildStatus, FannedOut>>

(* An invocation that has committed its Job has not moved it backwards   *)
(* from the status it read, and that status was past "unknown": the      *)
(* Build update it is about to make copies a status past "queued".        *)
CommitInv ==
  \A j \in Jobs :
    pc[j] = "committed" =>
      /\ Rank[jobStatus[j]] >= Rank[prevStatus[j]]
      /\ prevStatus[j] # "unknown"

RInv == IInv /\ CommitInv
-----------------------------------------------------------------------------
(* Every task of a Job's fan-out is about that Job. *)
LEMMA FanOutJob ==
  ASSUME NEW j \in Jobs
  PROVE  \A m \in FanOut(j) : m.job = j
<1>1. CASE jobPlan[j] = "none"
  BY <1>1 DEF FanOut, FanOutPrefix, FanOutSeq, Msg
<1>2. CASE jobPlan[j] # "none"
  BY <1>2 DEF FanOut, FanOutPrefix, FanOutSeq, Msg
<1>. QED
  BY <1>1, <1>2

(* A prefix of a Job's fan-out is part of it. *)
LEMMA PrefixInFanOut ==
  ASSUME NEW j \in Jobs, NEW k \in 0..Len(FanOutSeq(j))
  PROVE  FanOutPrefix(j, k) \subseteq FanOut(j)
BY DEF FanOutPrefix, FanOut

(* Adding tasks that belong to no fan-out leaves the fanned-out Jobs as *)
(* they are.                                                            *)
LEMMA FannedOutFrame ==
  ASSUME NEW X, queue' = queue \cup X,
         \A i \in Jobs : FanOut(i)' = FanOut(i) /\ X \cap FanOut(i) = {}
  PROVE  FannedOut' = FannedOut
<1>1. \A i \in Jobs : FanOut(i)' \subseteq queue' <=> FanOut(i) \subseteq queue
  OBVIOUS
<1>. QED
  BY <1>1 DEF FannedOut

(* Adding a Job's sync_job and part of its fan-out fans out that Job, or *)
(* nothing.                                                               *)
LEMMA FannedOutGrow ==
  ASSUME NEW j \in Jobs, NEW X, X \subseteq {SyncMsg(j)} \cup FanOut(j),
         queue' = queue \cup X,
         \A i \in Jobs : FanOut(i)' = FanOut(i)
  PROVE  FannedOut' \in {FannedOut, FannedOut \cup {j}}
<1>1. ASSUME NEW i \in Jobs, i # j PROVE X \cap FanOut(i) = {}
  <2>1. SyncMsg(j) \notin FanOut(i)
    BY SyncNotFanOut
  <2>2. \A m \in FanOut(j) : m \notin FanOut(i)
    BY <1>1, FanOutJob
  <2>. QED
    BY <2>1, <2>2
<1>2. \A i \in Jobs \ {j} : i \in FannedOut' <=> i \in FannedOut
  BY <1>1 DEF FannedOut
<1>3. FannedOut \subseteq FannedOut'
  BY DEF FannedOut
<1>4. FannedOut' \subseteq Jobs
  BY DEF FannedOut
<1>. QED
  BY <1>2, <1>3, <1>4
-----------------------------------------------------------------------------
(* RInv holds initially: no invocation has committed. *)
LEMMA RInvInit == Init => RInv
<1>1. Init => CommitInv
  BY DEF Init, CommitInv
<1>. QED
  BY <1>1, IInvInit DEF RInv

(* Every step keeps CommitInv: the commit records the status read, which *)
(* is past "unknown", and the backend only moves a Job forward.           *)
LEMMA CommitInvInductive == RInv /\ [Next]_vars => CommitInv'
<1> SUFFICES ASSUME RInv, [Next]_vars PROVE CommitInv'
  OBVIOUS
<1> USE DEF RInv, IInv, TypeOK
<1>1. ASSUME NEW j \in Jobs, Execute(j) PROVE CommitInv'
  BY <1>1 DEF Execute, BackendExecute, CommitInv, NoUnknownJob, Rank, Status
<1>2. ASSUME NEW j \in Jobs, Abort(j) PROVE CommitInv'
  BY <1>2 DEF Abort, CommitInv, NoUnknownJob, Rank, Status
<1>3. ASSUME NEW j \in Jobs,
             \/ Acquire(j) \/ Abandon(j) \/ SkipFinished(j) \/ FailExecute(j)
             \/ Publish(j) \/ FailAfterCommit(j)
      PROVE  CommitInv'
  BY <1>3 DEF Acquire, Abandon, SkipFinished, FailExecute, Publish,
              FailAfterCommit, CommitInv
<1>4. CASE vars' = vars
  BY <1>4 DEF vars, CommitInv
<1>. QED
  BY <1>4, <1>3, <1>2, <1>1 DEF Next

(* RInv is an invariant of the engine. *)
LEMMA RInvInductive == RInv /\ [Next]_vars => RInv'
BY IInvInductive, CommitInvInductive DEF RInv

-----------------------------------------------------------------------------
(* A step of a committed invocation moves the Build only as the abstract *)
(* Report allows: to the status of a started Job, while still queued or  *)
(* unknown.                                                               *)
LEMMA NewBuildStatusReport ==
  ASSUME RInv, NEW j \in Jobs, pc[j] = "committed"
  PROVE  \/ NewBuildStatus(j) = buildStatus
         \/ /\ buildStatus \in {"queued", "unknown"}
            /\ Rank[jobStatus[j]] > Rank["queued"]
            /\ NewBuildStatus(j) = jobStatus[j]
<1> USE DEF RInv, IInv, TypeOK
<1>1. CASE jobStatus[j] # prevStatus[j] /\ buildStatus \in {"queued", "unknown"}
  <2>1. Rank[jobStatus[j]] >= Rank[prevStatus[j]] /\ prevStatus[j] # "unknown"
    BY DEF CommitInv
  <2>2. Rank[jobStatus[j]] > Rank["queued"]
    BY <1>1, <2>1 DEF Rank, Status
  <2>. QED
    BY <1>1, <2>2 DEF NewBuildStatus
<1>2. CASE ~(jobStatus[j] # prevStatus[j] /\ buildStatus \in {"queued", "unknown"})
  BY <1>2 DEF NewBuildStatus
<1>. QED
  BY <1>1, <1>2

(* Every step of the engine is a step of the abstract lifecycle, or      *)
(* leaves what the lifecycle sees as it is.                               *)
LEMMA RefinementStep == RInv /\ [Next]_vars => [JL!Next]_avars
<1> SUFFICES ASSUME RInv, [Next]_vars PROVE [JL!Next]_avars
  OBVIOUS
<1> USE DEF RInv, IInv, TypeOK
<1>a. UNCHANGED jobPlan
  BY DEF Next, vars, Acquire, Abandon, SkipFinished, Execute, Abort, FailExecute,
         Publish, FailAfterCommit
<1>b. \A i \in Jobs : FanOut(i)' = FanOut(i)
  BY <1>a DEF FanOut, FanOutPrefix, FanOutSeq
<1>c. \A i \in Jobs : SyncMsg(i) \notin UNION {FanOut(k) : k \in Jobs}
  BY SyncNotFanOut
<1>1. ASSUME NEW j \in Jobs, Acquire(j) \/ Abandon(j) PROVE UNCHANGED avars
  <2>1. \A i \in Jobs : FanOut(i) \subseteq queue' <=> FanOut(i) \subseteq queue
    BY <1>1, <1>c DEF Acquire, Abandon, Deliver
  <2>2. FannedOut' = FannedOut
    BY <2>1, <1>b DEF FannedOut
  <2>. QED
    BY <1>1, <2>2 DEF Acquire, Abandon, avars
<1>2. ASSUME NEW j \in Jobs, SkipFinished(j) \/ FailExecute(j)
      PROVE  UNCHANGED avars
  <2>1. FannedOut' = FannedOut
    <3>1. \E X : /\ queue' = queue \cup X
                 /\ \A i \in Jobs : X \cap FanOut(i) = {}
      <4>1. CASE SkipFinished(j)
        <5>. WITNESS {}
        <5>. QED  BY <4>1 DEF SkipFinished
      <4>2. CASE FailExecute(j)
        <5>. WITNESS {SyncMsg(j)}
        <5>. QED  BY <4>2, SyncNotFanOut DEF FailExecute
      <4>. QED
        BY <1>2, <4>1, <4>2
    <3>. QED
      BY <3>1, <1>b, FannedOutFrame
  <2>. QED
    BY <1>2, <2>1 DEF SkipFinished, FailExecute, avars
<1>3. ASSUME NEW j \in Jobs, Execute(j) \/ Abort(j) PROVE JL!Advance(j)
  <2>1. FannedOut' = FannedOut
    <3>1. queue' = queue
      BY <1>3 DEF Execute, Abort
    <3>. QED
      BY <3>1, <1>b DEF FannedOut
  <2>2. CASE Execute(j)
    <3>1. PICK s \in Status :
            /\ Rank[s] >= Rank[jobStatus[j]]
            /\ jobStatus' = [jobStatus EXCEPT ![j] = s]
            /\ IF s = "finished"
               THEN \E r \in Result \ {"unknown"} :
                      jobResult' = [jobResult EXCEPT ![j] = r]
               ELSE UNCHANGED jobResult
      BY <2>2 DEF Execute, BackendExecute
    <3>. QED
      BY <2>1, <2>2, <3>1 DEF Execute, JL!Advance, JL!Status, JL!Rank,
                              JL!Verdicts, Result, Status, Rank
  <2>3. CASE Abort(j)
    BY <2>1, <2>3 DEF Abort, JL!Advance, JL!Status, JL!Rank, JL!Verdicts,
                      Status, Rank
  <2>. QED
    BY <1>3, <2>2, <2>3
<1>4. ASSUME NEW j \in Jobs, Publish(j) \/ FailAfterCommit(j)
      PROVE  JL!Report(j)
  <2>1. \/ UNCHANGED buildStatus
        \/ /\ buildStatus \in {"queued", "unknown"}
           /\ Rank[jobStatus[j]] > Rank["queued"]
           /\ buildStatus' = jobStatus[j]
    <3>1. buildStatus' \in {buildStatus, NewBuildStatus(j)}
      BY <1>4 DEF Publish, FailAfterCommit
    <3>2. pc[j] = "committed"
      BY <1>4 DEF Publish, FailAfterCommit
    <3>. QED
      BY <3>1, <3>2, NewBuildStatusReport
  <2>2. \/ FannedOut' = FannedOut
        \/ jobStatus[j] = "finished" /\ FannedOut' = FannedOut \cup {j}
    <3>1. CASE jobStatus[j] = "finished"
      <4>1. \E X : /\ X \subseteq {SyncMsg(j)} \cup FanOut(j)
                   /\ queue' = queue \cup X
        <5>1. CASE Publish(j)
          <6>. WITNESS Continuation(j)
          <6>. QED  BY <5>1, <3>1 DEF Publish, Continuation
        <5>2. CASE FailAfterCommit(j)
          <6>1. CASE queue' = queue \cup {SyncMsg(j)}
            <7>. WITNESS {SyncMsg(j)}
            <7>. QED  BY <6>1
          <6>2. CASE \E k \in 0..Len(FanOutSeq(j)) :
                       queue' = queue \cup {SyncMsg(j)} \cup FanOutPrefix(j, k)
            <7>1. PICK k \in 0..Len(FanOutSeq(j)) :
                         queue' = queue \cup {SyncMsg(j)} \cup FanOutPrefix(j, k)
              BY <6>2
            <7>2. FanOutPrefix(j, k) \subseteq FanOut(j)
              BY PrefixInFanOut
            <7>. WITNESS {SyncMsg(j)} \cup FanOutPrefix(j, k)
            <7>. QED  BY <7>1, <7>2
          <6>. QED  BY <5>2, <3>1, <6>1, <6>2 DEF FailAfterCommit
        <5>. QED
          BY <1>4, <5>1, <5>2
      <4>. QED
        BY <3>1, <4>1, <1>b, FannedOutGrow
    <3>2. CASE jobStatus[j] # "finished"
      <4>1. \E X : /\ queue' = queue \cup X
                   /\ \A i \in Jobs : X \cap FanOut(i) = {}
        <5>1. queue' = queue \cup {SyncMsg(j)}
          BY <1>4, <3>2 DEF Publish, Continuation, FailAfterCommit
        <5>. WITNESS {SyncMsg(j)}
        <5>. QED  BY <5>1, SyncNotFanOut
      <4>. QED
        BY <4>1, <1>b, FannedOutFrame
    <3>. QED
      BY <3>1, <3>2
  <2>3. UNCHANGED <<jobStatus, jobResult>>
    BY <1>4 DEF Publish, FailAfterCommit
  <2>. QED
    BY <2>1, <2>2, <2>3 DEF JL!Report, JL!Rank, Rank
<1>5. CASE vars' = vars
  <2>1. FannedOut' = FannedOut
    BY <1>5, <1>b DEF vars, FannedOut
  <2>. QED
    BY <1>5, <2>1 DEF vars, avars
<1>. QED
  BY <1>5, <1>4, <1>3, <1>2, <1>1 DEF Next, JL!Next, avars

(* The engine implements the abstract Job lifecycle: every behaviour of  *)
(* sync_job, with the queue, the locks and the invocations hidden, is a  *)
(* behaviour of JobLifecycle, whatever the Jobs and the Faults.          *)
THEOREM RefinementTheorem == Spec => JobLifecycleSpec
<1>1. Init => JL!Init
  <2>1. ASSUME Init PROVE FannedOut = {}
    <3>1. ASSUME NEW j \in Jobs PROVE Msg("update_build_result", j) \in FanOut(j)
      BY DEF FanOut, FanOutPrefix, FanOutSeq
    <3>2. ASSUME NEW j \in Jobs PROVE Msg("update_build_result", j) \notin queue
      BY <2>1 DEF Init, SyncMsg, Msg
    <3>. QED
      BY <3>1, <3>2 DEF FannedOut
  <2>. QED
    BY <2>1 DEF Init, JL!Init
<1>. QED
  BY <1>1, RInvInit, RInvInductive, RefinementStep, PTL
     DEF Spec, JobLifecycleSpec, JL!Spec, avars

=============================================================================
