SPECIFICATION Spec
CONSTANTS
  x = x
  Newline = nl
  Chars = {x, nl}
  Strings <- MCStrings
  Starts = {1, 2, 3}
  SwapsNewlines = FALSE
  RingSize = 2
  Far = 1
  LargeString = 1
  NoCache = NoCache
  NoLine = NoLine
  MaxLen = 5
INVARIANTS
  LineNumberCorrect
