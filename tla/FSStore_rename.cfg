SPECIFICATION Spec
CONSTANTS
  a = a
  b = b
  Broken = Broken
  NoFile = NoFile
  NoRoutine = NoRoutine
  NoName = NoName
  Paths = {1, 2}
  Names = {a, b}
  Specs <- AllSpecs
  Writes <- OneFile
  Moves <- OneMove
  EarlyEdits = FALSE
  Prompt = TRUE
  ChanCap = 6
  MaxEdits = 2
CHECK_DEADLOCK FALSE
INVARIANTS
  EditsTakeEffect
