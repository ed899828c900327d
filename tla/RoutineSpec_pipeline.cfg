SPECIFICATION Spec
CONSTANTS
  Raws <- Files
  MaxInt = 127
  MaxHours = 100
CHECK_DEADLOCK FALSE
INVARIANTS
  AcceptedRuns
  AcceptedScheduled
  ScheduleMeant
  Precedence
