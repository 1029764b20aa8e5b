------------------------- MODULE GreenBuild_proofs -------------------------
(***************************************************************************)
(* Proofs about the green-build tracker, for every history of revisions, *)
(* every assignment of revisions to branches and every set of Builds.     *)
(***************************************************************************)
EXTENDS GreenBuild, TLAPS

(* A handler in its branch loop is at one of its revision's branches, and *)
(* one not yet started is at the first.                                   *)
LoopInv ==
  \A b \in Builds :
    /\ stage[b] \in {"branches", "check"} => idx[b] \in 1..Len(BranchesOf(b))
    /\ stage[b] = "pending" => idx[b] = 1

TInv == TypeOK /\ LoopInv
-----------------------------------------------------------------------------
(* The branch at which a handler's loop is is a branch. *)
LEMMA BranchAtIdx ==
  ASSUME TInv, NEW b \in Builds, stage[b] \in {"branches", "check"}
  PROVE  BranchesOf(b)[idx[b]] \in Branches
<1>1. BranchesOf(b) \in Seq(Branches)
  BY BuildsAssumption, RevsAssumption DEF BranchesOf
<1>. QED
  BY <1>1 DEF TInv, LoopInv

(* The loop's next stage and index keep LoopInv. *)
LEMMA LoopAtNext ==
  ASSUME NEW b \in Builds, NEW i \in Nat \ {0}
  PROVE  /\ LoopAt(i, b) \in {"branches", "notify"}
         /\ LoopAt(i, b) = "branches" => i \in 1..Len(BranchesOf(b))
<1>1. BranchesOf(b) \in Seq(Branches)
  BY BuildsAssumption, RevsAssumption DEF BranchesOf
<1>. QED
  BY <1>1 DEF LoopAt

(* TInv holds initially. *)
LEMMA TInvInit == Init => TInv
BY DEF Init, TInv, TypeOK, LoopInv, Stages, EventStatus

(* Every step keeps TInv. *)
LEMMA TInvInductive == TInv /\ [Next]_vars => TInv'
<1> SUFFICES ASSUME TInv, [Next]_vars PROVE TInv'
  OBVIOUS
<1> USE DEF TInv, TypeOK, LoopInv
<1>1. ASSUME NEW b \in Builds, Ignore(b) \/ FailUpdate(b) PROVE TInv'
  BY <1>1 DEF Ignore, FailUpdate, Stages
<1>2. ASSUME NEW b \in Builds, Start(b) PROVE TInv'
  BY <1>2, LoopAtNext DEF Start, Stages
<1>3. ASSUME NEW b \in Builds, ReadGreen(b) PROVE TInv'
  BY <1>3, BranchAtIdx DEF ReadGreen, Stages
<1>4. ASSUME NEW b \in Builds, SetGreen(b) PROVE TInv'
  <2>1. BranchesOf(b)[idx[b]] \in Branches
    BY <1>4, BranchAtIdx DEF SetGreen
  <2>2. idx[b] + 1 \in Nat \ {0}
    BY <1>4 DEF SetGreen
  <2>. QED
    BY <1>4, <2>1, <2>2, LoopAtNext DEF SetGreen, Stages
<1>5. ASSUME NEW b \in Builds, KeepGreen(b) PROVE TInv'
  BY <1>5 DEF KeepGreen, Stages
<1>6. ASSUME NEW b \in Builds, Notify(b) PROVE TInv'
  BY <1>6 DEF Notify, Stages
<1>7. CASE vars' = vars
  BY <1>7 DEF vars
<1>. QED
  BY <1>7, <1>6, <1>5, <1>4, <1>3, <1>2, <1>1 DEF Next

(* Every state of the tracker has the types TypeOK gives it: each branch *)
(* points at a Build or at no row, and each handler's loop index, read    *)
(* row and Event are well formed.                                         *)
THEOREM TypeCorrect == Spec => []TypeOK
<1>1. TInv => TypeOK
  BY DEF TInv
<1>. QED
  BY <1>1, TInvInit, TInvInductive, PTL DEF Spec

-----------------------------------------------------------------------------
(***************************************************************************)
(* Green Builds, for any number of workers.  Only a handler past Start     *)
(* writes a row, Start has the filter of lines 70-77, and the row written  *)
(* is the one of the branch the handler's loop is at.                      *)
(***************************************************************************)

(* A handler past its start belongs to a passed commit Build. *)
RunningPassed ==
  \A b \in Builds :
    stage[b] \in {"branches", "check", "notify"} => b \in Passed \cap CommitBuilds

PInv == TInv /\ RunningPassed /\ GreenIsPassed

(* PInv holds initially: every handler is pending and no branch has a row. *)
LEMMA PInvInit == Init => PInv
<1>1. Init => RunningPassed /\ GreenIsPassed
  BY DEF Init, RunningPassed, GreenIsPassed
<1>. QED
  BY <1>1, TInvInit DEF PInv

(* Every step keeps RunningPassed. *)
LEMMA RunningPassedStep == TInv /\ RunningPassed /\ [Next]_vars => RunningPassed'
<1> SUFFICES ASSUME TInv, RunningPassed, [Next]_vars PROVE RunningPassed'
  OBVIOUS
<1> USE DEF TInv, TypeOK, RunningPassed
<1>1. ASSUME NEW b \in Builds, Start(b) PROVE RunningPassed'
  BY <1>1 DEF Start
<1>2. ASSUME NEW b \in Builds, Ignore(b) \/ FailUpdate(b) PROVE RunningPassed'
  BY <1>2 DEF Ignore, FailUpdate
<1>3. ASSUME NEW b \in Builds, ReadGreen(b) \/ KeepGreen(b) \/ Notify(b)
      PROVE  RunningPassed'
  BY <1>3 DEF ReadGreen, KeepGreen, Notify
<1>4. ASSUME NEW b \in Builds, SetGreen(b) PROVE RunningPassed'
  BY <1>4 DEF SetGreen
<1>5. CASE vars' = vars
  BY <1>5 DEF vars
<1>. QED
  BY <1>5, <1>4, <1>3, <1>2, <1>1 DEF Next

(* A write of a row names the writing handler's Build, which is passed, *)
(* on the branch its loop is at; every other step leaves the rows alone. *)
LEMMA GreenIsPassedStep ==
  TInv /\ RunningPassed /\ GreenIsPassed /\ [Next]_vars => GreenIsPassed'
<1> SUFFICES ASSUME TInv, RunningPassed, GreenIsPassed, [Next]_vars
             PROVE  GreenIsPassed'
  OBVIOUS
<1>1. CASE UNCHANGED green
  BY <1>1 DEF GreenIsPassed
<1>2. CASE green' # green
  <2>1. PICK b \in Builds : SetGreen(b)
    BY <1>2 DEF Next, vars, Ignore, Start, FailUpdate, ReadGreen, KeepGreen,
                Notify
  <2> DEFINE br == BranchesOf(b)[idx[b]]
  <2>2. br \in Branches
    BY <2>1, BranchAtIdx DEF SetGreen
  <2>3. b \in Passed \cap CommitBuilds
    BY <2>1 DEF SetGreen, RunningPassed
  <2>4. \E i \in 1..Len(BranchesOf(b)) : BranchesOf(b)[i] = br
    BY <2>1 DEF SetGreen, TInv, LoopInv
  <2>5. green' = [green EXCEPT ![br] = b]
    BY <2>1 DEF SetGreen
  <2>. QED
    BY <2>2, <2>3, <2>4, <2>5 DEF GreenIsPassed, TInv, TypeOK
<1>. QED
  BY <1>1, <1>2

(* For every number of workers, every history, branch assignment and set *)
(* of Builds, a branch only ever names a passed commit Build of one of    *)
(* its revisions: the race that lets a branch move back (GreenBuild_race)  *)
(* never makes a failed or foreign Build green.                           *)
THEOREM GreenIsPassedTheorem == Spec => []GreenIsPassed
<1>1. PInv /\ [Next]_vars => PInv'
  BY TInvInductive, RunningPassedStep, GreenIsPassedStep DEF PInv
<1>2. PInv => GreenIsPassed
  BY DEF PInv
<1>. QED
  BY <1>2, <1>1, PInvInit, PTL DEF Spec

=============================================================================
