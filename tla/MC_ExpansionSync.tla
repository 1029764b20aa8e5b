------------------------- MODULE MC_ExpansionSync -------------------------
(* Model-checking instances of ExpansionSync. *)
EXTENDS ExpansionSync, TLC

CONSTANTS r1, r2

MCReports == {r1, r2}

(* The finished report with accepted output, and a report that only     *)
(* carries a return code.                                                *)
MCReportArgs ==
  {[status |-> "finished", output |-> TRUE, valid |-> TRUE],
   [status |-> "none", output |-> FALSE, valid |-> TRUE]}

(* The first step of r1's expansion finds no tests. *)
MCMissingTests == {<<r1, 1>>}
=============================================================================
