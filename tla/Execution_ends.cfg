SPECIFICATION FairSpec
CONSTANTS
  e1 = e1
  e2 = e2
  p = p
  NoPath = NoPath
  Nobody = Nobody
  NoHelper = NoHelper
  Execs = {e1, e2}
  Paths = {p}
CHECK_DEADLOCK FALSE
INVARIANTS
  TypeOK
  WorktreeKept
  CleanedUp
  TreeKilled
  OutcomeTruthful
PROPERTIES
  ExecutionEnds
