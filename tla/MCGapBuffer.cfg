SPECIFICATION Spec
CONSTANTS
  a = a
  b = b
  Chars = {a, b}
  Nul = Nul
  Junk = Junk
  Strings <- MCStrings
  Bufs = {base}
  Narrowed = {base}
  Markers = {m}
  SentinelSize = 1
  InitialGap = 1
  GapSlack = 2
  Chunk = 2
  MaxInt = 4
INVARIANTS
  TypeOK
  MarkersValid
  NarrowingValid
  PointInSync
  GapSentinel
PROPERTIES
  PointStaysVisible
  Implements
