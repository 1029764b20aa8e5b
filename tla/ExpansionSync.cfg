\* Two final reports of one Command, a lock that holds, expansions into up
\* to two JobSteps, and their reconciliations under the fairness of the
\* work queue and the Backend.
CONSTANTS
  r1 = r1
  r2 = r2
  Reports <- MCReports
  ReportArgs <- MCReportArgs
  HasExpander = TRUE
  MaxSteps = 2
  LockCanExpire = FALSE
  NoReport = NoReport
  MissingTests <- MCMissingTests
  CanTimeOut = TRUE
SPECIFICATION LiveSpec
\* Every request returned and every JobStep finished: nothing is left to do.
CHECK_DEADLOCK FALSE
INVARIANTS
  AtMostOneExpansion
PROPERTIES
  ScheduledStepsFinish
