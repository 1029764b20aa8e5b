\* Two handlers at once; r1 rewritten away; b4 did not pass.
CONSTANTS
  b1 = b1  b2 = b2  b3 = b3  b4 = b4
  r1 = r1  r2 = r2  r3 = r3  r4 = r4
  A = A  B = B
  NoBuild = NoBuild
  Builds <- MCBuilds
  Revs <- MCRevs
  Branches <- MCBranches
  BuildRev <- MCBuildRev
  RevBranches <- MCRevBranches
  Ancestry <- MCAncestry
  Gone = {r1}
  Passed = {b1, b2, b3}
  CommitBuilds <- MCBuilds
  Workers = 2
SPECIFICATION Spec
\* Every handler has returned: nothing is left to do.
CHECK_DEADLOCK FALSE
INVARIANTS
  GreenIsPassed
