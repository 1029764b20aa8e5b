\* The same instance: is every committed, unfinished JobStep still scheduled?
CONSTANTS
  r1 = r1
  r2 = r2
  Reports <- MCReports
  ReportArgs <- MCReportArgs
  HasExpander = TRUE
  MaxSteps = 2
  LockCanExpire = FALSE
  NoReport = NoReport
  MissingTests <- MCMissingTests
  CanTimeOut = TRUE
SPECIFICATION SysSpec
CHECK_DEADLOCK FALSE
INVARIANTS
  NoStepDropped
