SPECIFICATION FairSpec
CONSTANTS
  NONE = NONE
  o1 = o1
  o2 = o2
  v1 = v1
  l1 = l1
  l2 = l2
  k1 = k1
  esc = esc
  Outputs = {o1, o2}
  Views = {v1}
  Layers = {l1, l2}
  Keys = {k1, esc}
  Tracked = {k1, esc}
  Escape = esc
  Bindings <- KeyBindings
  EscapeExits = {"resize"}
  Scenarios <- SmallScenarios
INVARIANTS
  LockSound
  FocusSound
  ReleasesMatchPresses
PROPERTIES
  ExclusiveLayersKeepKeyboard
  LockClientGetsKeyboard
CHECK_DEADLOCK FALSE
