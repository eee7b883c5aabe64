SPECIFICATION Spec
CONSTANTS
  Bufs = {b1, b2, b3}
  Nil = nil
  Values = {nil, v}
  Unbound = unbound
  None = none
  MaxDepth = 0
  Careful = FALSE
PROPERTIES
  LocalStartsSame
SYMMETRY Symmetry
