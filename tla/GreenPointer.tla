---------------------------- MODULE GreenPointer ----------------------------
(***************************************************************************)
(* What the green-build tracker promises (spec 4.6), without handlers,    *)
(* branch loops or VCS calls: each branch has at most one latest green    *)
(* Build, and a single step moves one branch to a passed commit Build of  *)
(* a revision on that branch.  The new Build's revision descends from the *)
(* one the branch names, unless the branch names nothing yet or the VCS   *)
(* has forgotten that revision.                                           *)
(***************************************************************************)
EXTENDS Naturals, Sequences

CONSTANTS Builds, Branches, BuildRev, RevBranches, Ancestry, Gone, Passed,
          CommitBuilds, NoBuild

VARIABLE green  \* the latest green Build of each branch, or NoBuild

Init == green = [br \in Branches |-> NoBuild]

(* Build b may follow g as a branch's latest green Build. *)
MayFollow(b, g) ==
  \/ g = NoBuild
  \/ BuildRev[g] \in Gone
  \/ <<BuildRev[b], BuildRev[g]>> \in Ancestry

(* Branch br moves to Build b. *)
Move(br, b) ==
  /\ b \in Passed \cap CommitBuilds
  /\ \E i \in 1..Len(RevBranches[BuildRev[b]]) : RevBranches[BuildRev[b]][i] = br
  /\ MayFollow(b, green[br])
  /\ green' = [green EXCEPT ![br] = b]

Next == \E br \in Branches, b \in Builds : Move(br, b)

Spec == Init /\ [][Next]_green

=============================================================================
