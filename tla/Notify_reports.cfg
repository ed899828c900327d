SPECIFICATION FairSpec
CONSTANTS
  Notifiers <- Known
  Fallback <- Stdout
  Wanted = {"slack", "webhook"}
CHECK_DEADLOCK FALSE
INVARIANTS
  TypeOK
  ResultTruthful
  FanOutComplete
  FailureReported
PROPERTIES
  NoRepeat
  NotifyReturns
