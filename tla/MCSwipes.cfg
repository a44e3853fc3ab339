SPECIFICATION Spec
CONSTANTS
  v1 = v1
  v2 = v2
  Views = {v1, v2}
  Fullscreens = {v1}
  Pointers = {"touchpad"}
  Flat = {"touchpad"}
  Scenarios = {"single", "scrub", "free", "wide", "long"}
  Flicks = {0, 6}
  Threshold = 2
  MaxReloads = 1
  Surprises = {}
INVARIANTS
  TransitionSound
  WindowsSound
  AccelRestored
PROPERTIES
  SwitchesLand
CHECK_DEADLOCK FALSE
