----------------------- MODULE CommandExpansion_proofs -----------------------
(***************************************************************************)
(* Proofs about CommandExpansion, for every set of reports.               *)
(***************************************************************************)
EXTENDS CommandExpansion, TLAPS

(* A report changes a well-formed Command into a well-formed Command. *)
LEMMA UpdatedType ==
  ASSUME ReportsAssumption, NEW c \in CmdType, NEW a \in ReportArgs
  PROVE  Updated(c, a) \in CmdType
BY DEF Updated, CmdType, ArgsType, ReportStatus, CmdStatus

(* The columns a commit writes form a well-formed Command. *)
LEMMA FlushedType ==
  ASSUME TypeOK, NEW r \in Reports
  PROVE  Flushed(r) \in CmdType
BY DEF Flushed, TypeOK, CmdType

(* An expansion's phase is a well-formed phase. *)
LEMMA NewPhaseType ==
  ASSUME NEW n \in 0..MaxSteps
  PROVE  NewPhase(n) \in PhaseType
BY DEF NewPhase, PhaseType

(* An expansion's JobSteps are step identifiers. *)
LEMMA NewStepsType ==
  ASSUME NEW r \in Reports, NEW n \in 0..MaxSteps
  PROVE  NewSteps(r, n) \subseteq StepIds
<1>1. \A i \in 1..n : i \in 1..MaxSteps
  BY ExpanderAssumption
<1>. QED
  BY <1>1 DEF NewSteps, StepIds

(* The type invariant is inductive: every step keeps it. *)
LEMMA TypeInductive == TypeOK /\ [Next]_vars => TypeOK'
<1> SUFFICES ASSUME TypeOK, [Next]_vars PROVE TypeOK'
  OBVIOUS
<1> USE DEF TypeOK
<1>1. ASSUME NEW r \in Reports, LockBusy(r) PROVE TypeOK'
  BY <1>1 DEF LockBusy, Stages
<1>2. ASSUME NEW r \in Reports, Begin(r) PROVE TypeOK'
  <2>1. Updated(cmd, rargs[r]) \in CmdType
    BY UpdatedType, ReportsAssumption
  <2>2. NoExpansion \notin 0..MaxSteps
    BY DEF NoExpansion
  <2>3. \A n \in 0..MaxSteps : NewSteps(r, n) \subseteq StepIds
    BY NewStepsType
  <2>. QED
    BY <1>2, <2>1, <2>3 DEF Begin, EnqueueSyncs, Stages
<1>3. ASSUME NEW r \in Reports, Commit(r) PROVE TypeOK'
  <2>1. Flushed(r) \in CmdType
    BY FlushedType
  <2>2. rexp[r] # NoExpansion => NewPhase(rexp[r]) \in PhaseType
    BY NewPhaseType
  <2>3. rexp[r] # NoExpansion => NewSteps(r, rexp[r]) \subseteq StepIds
    BY NewStepsType
  <2>. QED
    BY <1>3, <2>1, <2>2, <2>3 DEF Commit, Release, Stages
<1>4. ASSUME NEW r \in Reports, Teardown(r) PROVE TypeOK'
  BY <1>4, FlushedType DEF Teardown, Stages
<1>5. CASE StepFails
  BY <1>5 DEF StepFails, StepResults
<1>6. CASE LockExpires
  BY <1>6 DEF LockExpires
<1>7. CASE vars' = vars
  BY <1>7 DEF vars
<1>. QED
  BY <1>7, <1>6, <1>5, <1>4, <1>3, <1>2, <1>1 DEF Next

(* The initial states have the types TypeOK gives them. *)
LEMMA TypeInit == Init => TypeOK
BY DEF Init, TypeOK, CmdType, CmdStatus, StepResults, Stages

(* Every state of the report handler has the types TypeOK gives it: the *)
(* Command row, the phases and each request's loaded and changed copies. *)
THEOREM TypeCorrect == Spec => []TypeOK
BY TypeInit, TypeInductive, PTL DEF Spec
=============================================================================
