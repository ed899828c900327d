SPECIFICATION FairSpec
CONSTANTS
  a = a
  b = b
  Broken = Broken
  NoFile = NoFile
  NoRoutine = NoRoutine
  NoName = NoName
  Paths = {1, 2}
  Names = {a, b}
  Specs <- AllSpecs
  Writes <- OwnNames
  Moves <- NoMoves
  EarlyEdits = FALSE
  Prompt = TRUE
  ChanCap = 6
  MaxEdits = 3
CHECK_DEADLOCK FALSE
INVARIANTS
  EditsTakeEffect
PROPERTIES
  Settles
