SPECIFICATION Spec
CONSTANTS
  a = a
  b = b
  Chars = {a, b}
  Strings <- MCStrings
  MinSize = 4
  MaxSize = 6
  MayFail = TRUE
  MayIntrude = TRUE
  MaxText = 2
  MaxList = 4
  MaxTime = 1
  MaxCuts = 1
  MaxOdd = 1
INVARIANTS
  TypeOK
  ListLeadsBack
  PendingLeadsBack
  UnmodifiedMeansSaved
PROPERTIES
  TruncationFits
CHECK_DEADLOCK FALSE
