SPECIFICATION Spec
CONSTANTS
  NONE = NONE
  o1 = o1
  o2 = o2
  v1 = v1
  v2 = v2
  v3 = v3
  n1 = n1
  n2 = n2
  i1 = i1
  i2 = i2
  Outputs = {o1, o2}
  Views = {v1, v2, v3}
  TagIds = {1, 2}
  PinnedIds = {1}
  Names = {n1, n2}
  Identities = {i1, i2}
  Sessions <- MCSessions
SYMMETRY Symmetric
INVARIANTS
  MembersSound
  NamesSound
  FocusEligible
PROPERTIES
  LockKeepsShown
