SPECIFICATION Spec
CONSTANTS
  o1 = o1
  hl = hl
  v1 = v1
  Outputs = {o1, hl}
  Headless = hl
  Views = {v1}
  MaxLimit = 2
  NONE = NONE
  Features = {"power"}
SYMMETRY Symmetric
INVARIANTS
  DarkSessionSurvives
