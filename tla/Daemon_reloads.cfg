SPECIFICATION FairSpec
CONSTANTS
  a = a
  Broken = Broken
  NoFile = NoFile
  NoRoutine = NoRoutine
  NoName = NoName
  NoSpec = NoSpec
  f1 = f1
  f2 = f2
  Paths = {1}
  Names = {a}
  Contents <- AllContents
  Writes <- OneFile
  Moves <- NoMoves
  EarlyEdits = FALSE
  Prompt = TRUE
  ChanCap = 6
  MaxEdits = 4
  MaxUserEdits = 1
  Fires = {f1, f2}
  MaxEntries = 2
CHECK_DEADLOCK FALSE
INVARIANTS
  ViewScheduled
  DirectoryScheduled
PROPERTIES
  OneShotRefires
  OneShotRetired
