SPECIFICATION Spec
CONSTANTS
  NONE = NONE
  v1 = v1
  v2 = v2
  v3 = v3
  o1 = o1
  o2 = o2
  fb = fb
  Views = {v1, v2, v3}
  Outputs = {o1, o2, fb}
  Fallback = fb
  Tags = {1, 2}
  Faults = {"unmap", "outputs"}
  Surprises = {}
  MaxPlugs = 2
  MaxGroups = 2
  MaxPanels = 1
SYMMETRY Symmetric
INVARIANTS
  StickySound
  OutputsSound
  FocusReachable
PROPERTIES
  NothingStray
CHECK_DEADLOCK FALSE
