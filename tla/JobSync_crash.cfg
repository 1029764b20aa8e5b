\* Two Jobs of one Build, transient exceptions after the Job commit.
CONSTANTS
  Jobs = {j1, j2}
  Faults = {"after_commit"}
SPECIFICATION Spec
SYMMETRY JobSymmetry
CHECK_DEADLOCK FALSE
INVARIANTS
  FinishedFannedOut
