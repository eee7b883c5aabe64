SPECIFICATION Spec
CONSTANTS
  a = a
  b = b
  Chars = {a, b}
  Nul = Nul
  Junk = Junk
  Strings <- MCTwoStrings
  Bufs = {base, indirect}
  Narrowed = {indirect}
  Markers = {m}
  SentinelSize = 0
  InitialGap = 1
  GapSlack = 2
  Chunk = 2
  MaxInt = 4
INVARIANTS
  NarrowingValid
