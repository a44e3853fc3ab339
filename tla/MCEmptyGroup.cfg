SPECIFICATION Spec
CONSTANTS
  NONE = NONE
  v1 = v1
  v2 = v2
  v3 = v3
  o1 = o1
  o2 = o2
  fb = fb
  Views = {v1, v2}
  Outputs = {o1, fb}
  Fallback = fb
  Tags = {1, 2}
  Faults = {}
  Surprises = {}
  MaxPlugs = 1
  MaxGroups = 1
  MaxPanels = 1
INVARIANT
  WakeSucceeds
CHECK_DEADLOCK FALSE
