SPECIFICATION Spec
CONSTANTS
  daemon = daemon
  cli = cli
  Procs = {daemon, cli}
  KeepLastN = 1
  MaxTime = 2
  MaxExecs = 3
  MaxSkips = 1
  MaxLost = 1
CHECK_DEADLOCK FALSE
SYMMETRY Symmetry
INVARIANTS
  TypeOK
  HistoryTruthful
  RunningIsLive
  LogOfSecond
  Retention
