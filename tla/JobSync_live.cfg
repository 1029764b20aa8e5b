\* Two Jobs, transient exceptions only before the Job commit, and the
\* fairness of LiveSpec.  No symmetry: it is unsound for liveness checking.
CONSTANTS
  Jobs = {j1, j2}
  Faults = {"execute"}
SPECIFICATION LiveSpec
\* All Jobs finished and no sync_job left: the engine has nothing to do.
CHECK_DEADLOCK FALSE
INVARIANTS
  FinishedFannedOut
  BuildStartedWithJobs
PROPERTIES
  JobsFinishAndFanOut
