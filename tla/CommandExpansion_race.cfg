CONSTANTS
  r1 = r1
  r2 = r2
  r3 = r3
  NoReport = NoReport
  Reports <- MCReports
  ReportArgs <- AllReports
  HasExpander = TRUE
  MaxSteps = 1
  LockCanExpire = FALSE
SPECIFICATION Spec
SYMMETRY ReportSymmetry
CHECK_DEADLOCK FALSE
INVARIANTS
  AtMostOneExpansion
