SPECIFICATION Spec
CONSTANTS
  Bufs = {b1, b2, b3}
  Nil = nil
  Values = {nil, v}
  Unbound = unbound
  None = none
  MaxDepth = 2
  Careful = TRUE
INVARIANTS
  TypeOK
  CVariableCurrent
  CacheCoherent
  AnswersRight
PROPERTIES
  Implements
  LocalStartsSame
SYMMETRY Symmetry
