SPECIFICATION Spec
CONSTANTS
  o1 = o1
  o2 = o2
  hl = hl
  v1 = v1
  v2 = v2
  Outputs = {o1, o2, hl}
  Headless = hl
  Views = {v1, v2}
  MaxLimit = 2
  NONE = NONE
  Features = {"power", "lock"}
SYMMETRY Symmetric
INVARIANTS
  FocusOnCurrentTag
  FocusWhenPossible
  ScreenSound
  FocusedOutputEnabled
