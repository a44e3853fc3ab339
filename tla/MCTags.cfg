SPECIFICATION Spec
CONSTANTS
  o1 = o1
  hl = hl
  v1 = v1
  v2 = v2
  Outputs = {o1, hl}
  Headless = hl
  Views = {v1, v2}
  MaxLimit = 4
  NONE = NONE
  Features = {"reload"}
SYMMETRY Symmetric
INVARIANTS
  SelectionSound
  StepsOnRing
