------------------------- MODULE MC_CommandExpansion -------------------------
(* Model-checking instances of CommandExpansion. *)
EXTENDS CommandExpansion, TLC

CONSTANTS r1, r2, r3

MCReports == {r1, r2, r3}

(* The final report of a run, resent: finished, with output that the      *)
(* expander accepts or rejects, or without output; and a report that only *)
(* carries a return code.                                                 *)
FinalReports ==
  {[status |-> "finished", output |-> o, valid |-> v] : o, v \in BOOLEAN}
  \cup {[status |-> "none", output |-> FALSE, valid |-> TRUE]}

(* Every report a worker sends: also the in_progress report at the start *)
(* of the command.                                                         *)
AllReports ==
  FinalReports \cup {[status |-> "in_progress", output |-> FALSE, valid |-> TRUE]}

ReportSymmetry == Permutations(MCReports)
=============================================================================
