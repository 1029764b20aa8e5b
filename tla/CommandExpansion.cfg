\* Three reports of one Command, of every kind, 0 or 1 JobSteps, a JobStep
\* that may fail, and a lock that may expire while held.
CONSTANTS
  r1 = r1
  r2 = r2
  r3 = r3
  NoReport = NoReport
  Reports <- MCReports
  ReportArgs <- AllReports
  HasExpander = TRUE
  MaxSteps = 1
  LockCanExpire = TRUE
SPECIFICATION Spec
SYMMETRY ReportSymmetry
\* Every report has been handled: nothing is left to do.
CHECK_DEADLOCK FALSE
INVARIANTS
  TypeOK
