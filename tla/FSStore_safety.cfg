SPECIFICATION Spec
CONSTANTS
  a = a
  b = b
  Broken = Broken
  NoFile = NoFile
  NoRoutine = NoRoutine
  NoName = NoName
  Paths = {1, 2}
  Names = {a, b}
  Specs <- AllSpecs
  Writes <- AnyName
  Moves <- OneMove
  EarlyEdits = TRUE
  Prompt = FALSE
  ChanCap = 2
  MaxEdits = 2
CHECK_DEADLOCK FALSE
INVARIANTS
  TypeOK
  NoOrphan
  TimersOwned
  ViewFollowsStore
