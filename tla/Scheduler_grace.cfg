SPECIFICATION Spec
CONSTANTS
  a = a
  b = b
  f1 = f1
  f2 = f2
  NoSpec = NoSpec
  Names = {a, b}
  Fires = {f1, f2}
  Specs <- TwoNames
  MaxEntries = 2
PROPERTIES
  GraceHonoured
