----------------------------- MODULE GreenBuild -----------------------------
(***************************************************************************)
(* The green-build ancestry tracker: build_finished_handler and           *)
(* _set_latest_green_build_for_each_branch of                              *)
(* src/changes/listeners/green_build.py, for the finished Builds of one    *)
(* Project.                                                                *)
(*                                                                         *)
(* The state is the LatestGreenBuild row of every branch and the progress  *)
(* of each Build's handler.  The @lock decorator is keyed by build_id, so  *)
(* handlers of different Builds run concurrently, on at most Workers       *)
(* workers; a handler reads a branch's row (line 173) and writes it        *)
(* (line 212) in two steps, with the VCS ancestry query in between.        *)
(***************************************************************************)
EXTENDS Naturals, Sequences, FiniteSets

CONSTANTS
  Builds,       \* the Builds of the Project
  Revs,         \* VCS revisions
  Branches,     \* branch names
  BuildRev,     \* Build -> its source.revision_sha
  RevBranches,  \* Rev -> source.revision.branches, in the order iterated
  Ancestry,     \* pairs <<c, p>>: revision c descends from (or is) p
  Gone,         \* revisions the VCS no longer knows (history rewritten)
  Passed,       \* Builds whose result is passed
  CommitBuilds, \* Builds that is_any_commit_build accepts
  Workers,      \* how many handlers may run at once
  NoBuild       \* no LatestGreenBuild row

ASSUME BuildsAssumption ==
  /\ IsFiniteSet(Builds)
  /\ BuildRev \in [Builds -> Revs]
  /\ Passed \subseteq Builds
  /\ CommitBuilds \subseteq Builds
  /\ NoBuild \notin Builds
ASSUME RevsAssumption ==
  /\ RevBranches \in [Revs -> Seq(Branches)]
  /\ Gone \subseteq Revs
ASSUME AncestryAssumption ==
  /\ Ancestry \subseteq Revs \X Revs
  /\ \A r \in Revs : <<r, r>> \in Ancestry
  /\ \A a, b, c \in Revs : <<a, b>> \in Ancestry /\ <<b, c>> \in Ancestry
                             => <<a, c>> \in Ancestry
ASSUME WorkersAssumption == Workers \in Nat \ {0}

(* Handler stages: not yet signalled, walking the branches, about to run *)
(* the ancestry check for the branch read, notifying, returned.          *)
Stages == {"pending", "branches", "check", "notify", "done"}
EventStatus == {"none", "success", "fail"}

VARIABLES
  green,  \* LatestGreenBuild.build per branch
  stage,  \* where each Build's handler is
  idx,    \* the index of the branch its loop is at
  seen,   \* current_latest_green_build as the handler read it
  event   \* the green_build Event recorded for the Build

vars == <<green, stage, idx, seen, event>>

BranchesOf(b) == RevBranches[BuildRev[b]]

(* vcs.is_child_parent(child, parent), without its exceptions. *)
IsChildParent(c, p) == <<c, p>> \in Ancestry

Running == {b \in Builds : stage[b] \notin {"pending", "done"}}

(* Where the loop goes after the branch at index i. *)
LoopAt(i, b) == IF i > Len(BranchesOf(b)) THEN "notify" ELSE "branches"

Init ==
  /\ green = [br \in Branches |-> NoBuild]
  /\ stage = [b \in Builds |-> "pending"]
  /\ idx = [b \in Builds |-> 1]
  /\ seen = [b \in Builds |-> NoBuild]
  /\ event = [b \in Builds |-> "none"]

(* Lines 70-77: the handler ignores a Build that did not pass or is not  *)
(* a commit build.                                                       *)
Ignore(b) ==
  /\ stage[b] = "pending"
  /\ b \notin Passed \cap CommitBuilds
  /\ stage' = [stage EXCEPT ![b] = "done"]
  /\ UNCHANGED <<green, idx, seen, event>>

(* A slip: the result and commit-build filter of lines 70-77 skipped. *)
StartAnyResult(b) ==
  /\ stage[b] = "pending"
  /\ Cardinality(Running) < Workers
  /\ stage' = [stage EXCEPT ![b] = LoopAt(1, b)]
  /\ UNCHANGED <<green, idx, seen, event>>

(* Lines 79-95: the VCS is cloned or updated, and the branch loop starts. *)
Start(b) ==
  /\ stage[b] = "pending"
  /\ b \in Passed \cap CommitBuilds
  /\ Cardinality(Running) < Workers
  /\ stage' = [stage EXCEPT ![b] = LoopAt(1, b)]
  /\ UNCHANGED <<green, idx, seen, event>>

(* Lines 85-92: vcs.update() raises ConcurrentUpdateError twice, or      *)
(* clone/update fails: the exception ends the handler with nothing done. *)
FailUpdate(b) ==
  /\ stage[b] = "pending"
  /\ b \in Passed \cap CommitBuilds
  /\ Cardinality(Running) < Workers
  /\ stage' = [stage EXCEPT ![b] = "done"]
  /\ UNCHANGED <<green, idx, seen, event>>

(* Lines 172-177: read the branch's LatestGreenBuild. *)
ReadGreen(b) ==
  /\ stage[b] = "branches"
  /\ seen' = [seen EXCEPT ![b] = green[BranchesOf(b)[idx[b]]]]
  /\ stage' = [stage EXCEPT ![b] = "check"]
  /\ UNCHANGED <<green, idx, event>>

(* Lines 179-194: what vcs.is_child_parent reports for this Build's      *)
(* revision against the one the handler read; an unknown child is         *)
(* reported before an unknown parent.                                     *)
ChildParentOutcome(b) ==
  CASE BuildRev[b] \in Gone -> "unknown_child"
    [] BuildRev[seen[b]] \in Gone -> "unknown_parent"
    [] IsChildParent(BuildRev[b], BuildRev[seen[b]]) -> "child"
    [] OTHER -> "not_child"

(* A slip: the "return" of line 186 dropped, so a Build that does not   *)
(* descend from the recorded one is written anyway.                      *)
SetGreenNoReturn(b) ==
  /\ stage[b] = "check"
  /\ seen[b] # NoBuild => ChildParentOutcome(b) # "unknown_child"
  /\ green' = [green EXCEPT ![BranchesOf(b)[idx[b]]] = b]
  /\ idx' = [idx EXCEPT ![b] = idx[b] + 1]
  /\ stage' = [stage EXCEPT ![b] = LoopAt(idx[b] + 1, b)]
  /\ UNCHANGED <<seen, event>>

(* Lines 179-217, the branch is switched to this Build: there was no     *)
(* row, the recorded revision is gone (UnknownParentRevision), or this   *)
(* Build's revision descends from it.                                    *)
SetGreen(b) ==
  /\ stage[b] = "check"
  /\ seen[b] # NoBuild => ChildParentOutcome(b) \in {"unknown_parent", "child"}
  /\ green' = [green EXCEPT ![BranchesOf(b)[idx[b]]] = b]
  /\ idx' = [idx EXCEPT ![b] = idx[b] + 1]
  /\ stage' = [stage EXCEPT ![b] = LoopAt(idx[b] + 1, b)]
  /\ UNCHANGED <<seen, event>>

(* Lines 183-193: this Build's revision is unknown to the VCS             *)
(* (UnknownChildRevision), or does not descend from the recorded one:     *)
(* the function returns, and the remaining branches are not visited.      *)
KeepGreen(b) ==
  /\ stage[b] = "check"
  /\ seen[b] # NoBuild
  /\ ChildParentOutcome(b) \in {"unknown_child", "not_child"}
  /\ stage' = [stage EXCEPT ![b] = "notify"]
  /\ UNCHANGED <<green, idx, seen, event>>

(* A slip: a 409 recorded as an Event status of its own. *)
NotifyConflictStatus(b) ==
  /\ stage[b] = "notify"
  /\ \E s \in EventStatus \cup {"conflict"} : event' = [event EXCEPT ![b] = s]
  /\ stage' = [stage EXCEPT ![b] = "done"]
  /\ UNCHANGED <<green, idx, seen>>

(* Lines 97-167: unless GREEN_BUILD_URL or GREEN_BUILD_AUTH is unset,    *)
(* green-build.notify is off or the branch filter rejects the revision,   *)
(* the green build is POSTed and the Event records success, or fail for   *)
(* a 409 and for any other error alike.                                   *)
Notify(b) ==
  /\ stage[b] = "notify"
  /\ \E s \in EventStatus : event' = [event EXCEPT ![b] = s]
  /\ stage' = [stage EXCEPT ![b] = "done"]
  /\ UNCHANGED <<green, idx, seen>>

Next ==
  \E b \in Builds :
    \/ Ignore(b)
    \/ Start(b)
    \/ FailUpdate(b)
    \/ ReadGreen(b)
    \/ SetGreen(b)
    \/ KeepGreen(b)
    \/ Notify(b)

Spec == Init /\ [][Next]_vars

-----------------------------------------------------------------------------
(***************************************************************************)
(* Properties.                                                            *)
(***************************************************************************)

TypeOK ==
  /\ green \in [Branches -> Builds \cup {NoBuild}]
  /\ stage \in [Builds -> Stages]
  /\ idx \in [Builds -> Nat \ {0}]
  /\ seen \in [Builds -> Builds \cup {NoBuild}]
  /\ event \in [Builds -> EventStatus]

(* A branch's latest green build only moves to a descendant of the       *)
(* revision it names, or away from a revision the VCS has forgotten       *)
(* (spec 4.6): an older commit's Build, finishing late, never clobbers a  *)
(* newer green marker.                                                    *)
GreenNeverMovesBack ==
  [][\A br \in Branches :
       green'[br] # green[br] /\ green[br] # NoBuild
         => \/ IsChildParent(BuildRev[green'[br]], BuildRev[green[br]])
            \/ BuildRev[green[br]] \in Gone]_green

(* When a handler returns, no branch of its revision is left pointing at  *)
(* a strict ancestor of its Build's revision (spec 4.6: "for each branch  *)
(* the revision belongs to"): every branch is checked and switched.       *)
GreenOnEveryBranch ==
  [][\A b \in Builds :
       stage[b] = "notify" /\ stage'[b] = "done" /\ BuildRev[b] \notin Gone
         => \A i \in 1..Len(BranchesOf(b)) :
              LET g == green[BranchesOf(b)[i]] IN
                g # NoBuild /\ BuildRev[g] \notin Gone
                  => ~(/\ IsChildParent(BuildRev[b], BuildRev[g])
                       /\ BuildRev[b] # BuildRev[g])]_vars

(* Whatever the number of handlers running at once, a branch's           *)
(* LatestGreenBuild names no row, or a passed commit Build of a revision  *)
(* on that branch (spec 4.6): concurrent handlers race over which Build a *)
(* branch names (lines 173-212), never over whether it is green.          *)
GreenIsPassed ==
  \A br \in Branches :
    green[br] # NoBuild =>
      /\ green[br] \in Passed \cap CommitBuilds
      /\ \E i \in 1..Len(BranchesOf(green[br])) : BranchesOf(green[br])[i] = br

GP == INSTANCE GreenPointer

(* The tracker implements the abstract green pointer of GreenPointer     *)
(* (spec 4.6): every write of LatestGreenBuild at line 212 moves one      *)
(* branch of the Build's revision to that passed commit Build, and only   *)
(* to a descendant of the revision the branch named, or away from a      *)
(* forgotten one; every other step of a handler leaves the rows alone.    *)
GreenPointerSpec == GP!Spec

=============================================================================
