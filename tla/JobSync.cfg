\* Two Jobs of one Build, transient exceptions anywhere in sync_job, before
\* or after the Job commit.
CONSTANTS
  Jobs = {j1, j2}
  Faults = {"execute", "after_commit"}
SPECIFICATION Spec
SYMMETRY JobSymmetry
\* All Jobs finished and no sync_job left: the engine has nothing to do.
CHECK_DEADLOCK FALSE
INVARIANTS
  TypeOK
  NeverDropped
PROPERTIES
  BuildNeverRegresses
  JobLifecycleSpec
