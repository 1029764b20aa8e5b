--------------------------- MODULE MC_StepEntity ---------------------------
(* Model-checking instances of StepEntity. *)
EXTENDS StepEntity, TLC

CONSTANTS g1, g2, d1

MCIds == {g1, g2}
MCDates == {d1}
=============================================================================
