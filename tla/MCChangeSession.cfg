SPECIFICATION Spec
CONSTANTS
  a = a
  b = b
  Chars = {a, b}
  Texts <- MCTexts
  Strings <- MCStrings
  MaxText = 2
  MaxDepth = 2
INVARIANTS
  TypeOK
  ReportsTrue
  RegionCovers
  AssertionsHold
  SessionsClose
CHECK_DEADLOCK FALSE
