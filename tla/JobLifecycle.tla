----------------------------- MODULE JobLifecycle -----------------------------
(***************************************************************************)
(* What the Job synchronization engine promises (spec 3 and 4.1), with     *)
(* the queue, the locks and the invocations hidden: the Jobs of a Build    *)
(* move forward through unknown < queued < in_progress < finished, a Job   *)
(* carries a verdict exactly when it is finished, the Build takes the      *)
(* status of a started Job only while it is itself queued or unknown       *)
(* (first-arriving Job wins), and only finished Jobs are fanned out        *)
(* (build-result aggregation, statistics, job.finished).                  *)
(***************************************************************************)
EXTENDS Naturals

CONSTANT Jobs

VARIABLES
  status,  \* each Job's status
  result,  \* each Job's result
  build,   \* the Build's status
  fanned   \* the Jobs whose completion has been signalled

Status == {"unknown", "queued", "in_progress", "finished"}
Rank == [unknown |-> 0, queued |-> 1, in_progress |-> 2, finished |-> 3]
Verdicts == {"passed", "failed", "aborted", "infra_failed"}

Init ==
  /\ status = [j \in Jobs |-> "queued"]
  /\ result = [j \in Jobs |-> "unknown"]
  /\ build = "queued"
  /\ fanned = {}

(* An unfinished Job moves forward, or is looked at and stays; it gets a *)
(* verdict when, and only when, it finishes.                            *)
Advance(j) ==
  /\ status[j] # "finished"
  /\ \E s \in Status :
       /\ Rank[s] >= Rank[status[j]]
       /\ status' = [status EXCEPT ![j] = s]
       /\ IF s = "finished"
          THEN \E v \in Verdicts : result' = [result EXCEPT ![j] = v]
          ELSE UNCHANGED result
  /\ UNCHANGED <<build, fanned>>

(* The Build follows a started Job while it is still queued or unknown,  *)
(* and a finished Job is fanned out.                                     *)
Report(j) ==
  /\ \/ UNCHANGED build
     \/ /\ build \in {"queued", "unknown"}
        /\ Rank[status[j]] > Rank["queued"]
        /\ build' = status[j]
  /\ \/ UNCHANGED fanned
     \/ /\ status[j] = "finished"
        /\ fanned' = fanned \cup {j}
  /\ UNCHANGED <<status, result>>

Next == \E j \in Jobs : Advance(j) \/ Report(j)

Spec == Init /\ [][Next]_<<status, result, build, fanned>>

=============================================================================
