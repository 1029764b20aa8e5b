---------------------------- MODULE MC_JobSync ----------------------------
(* Model-checking instance of JobSync: Jobs are model values, and the     *)
(* engine treats them alike, so runs may use their permutations.          *)
EXTENDS JobSync, TLC

JobSymmetry == Permutations(Jobs)
=============================================================================
