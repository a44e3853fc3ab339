SPECIFICATION Spec
CONSTANTS
  NONE = NONE
  v1 = v1
  v2 = v2
  v3 = v3
  left = left
  right = right
  Views = {v1, v2, v3}
  Outputs <- MCOutputs
  Tags = {1, 2, 3}
  TagsOf <- MCTagsOf
  Area <- MCArea
  Points <- MCPoints
  Gap = 1
  DropMode = "edges"
  Delta = 4
  IntMax = 12
  NMaster = 1
  CollapseMin = 4
  CollapseMax = 24
  Pixels = 16
  Configured <- MCConfigured
  LayoutKinds = {"dwindle", "master_stack", "accordion"}
  Surprises = {}
  Scenarios = {{"floats", "fullscreens"}, {"floats", "crossings"}, {"relayouts", "fullscreens"},
               {"relayouts", "crossings"}, {"splits"}, {"relayouts", "columns"}, {"panels", "crossings"}}
SYMMETRY Symmetric
INVARIANTS
  ForestSound
  GrabsSound
  BoxesSound
PROPERTIES
  ImplementsTiling
CHECK_DEADLOCK FALSE
