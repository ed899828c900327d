SPECIFICATION FairSpec
CONSTANTS
  a = a
  b = b
  f1 = f1
  f2 = f2
  NoSpec = NoSpec
  Names = {a, b}
  Fires = {f1, f2}
  Specs <- Edits
  MaxEntries = 3
INVARIANTS
  TypeOK
  MutualExclusion
  OneEntryPerRoutine
  RetryBudget
PROPERTIES
  FiresRegistered
  SkipOnlyIfRunning
  ImplementsSkipIfRunning
  FireEndsOne
  StopReturns
