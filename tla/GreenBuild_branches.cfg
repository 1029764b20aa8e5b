\* Handlers one at a time, every revision known, every Build a passing commit build.
CONSTANTS
  b1 = b1  b2 = b2  b3 = b3  b4 = b4
  r1 = r1  r2 = r2  r3 = r3  r4 = r4
  A = A  B = B
  NoBuild = NoBuild
  Builds <- MCBuilds
  Revs <- MCRevs
  Branches <- MCBranches
  BuildRev <- MCBuildRev
  RevBranches <- MCRevBranches
  Ancestry <- MCAncestry
  Gone = {}
  Passed <- MCBuilds
  CommitBuilds <- MCBuilds
  Workers = 1
SPECIFICATION Spec
\* Every handler has returned: nothing is left to do.
CHECK_DEADLOCK FALSE
PROPERTIES
  GreenOnEveryBranch
