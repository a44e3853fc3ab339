CONSTANTS
  o1 = o1
  o2 = o2
  Outputs <- MCOutputs
  Fallback = fallback
  NONE = NONE
  IntMax = 15
  Modes <- MCModes
  NativeSize <- MCNativeSize
  Tolerance = 1
  Scenarios <- MCScenarios
  MaxFaults = 2

SPECIFICATION Spec

INVARIANTS
  NoOverlap
  ScreensSound
PROPERTIES
  FallbackReady
  PolicyRestored
  FailuresHarmless
CHECK_DEADLOCK FALSE
