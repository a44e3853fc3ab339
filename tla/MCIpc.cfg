SPECIFICATION Spec
CONSTANTS
  NONE = NONE
  c1 = c1
  c2 = c2
  c3 = c3
  Clients = {c1, c2, c3}
  Scalars = {"mode"}
  Spaces = {"DP-1:1"}
  Values = {"common", "game"}
  MaxClients = 2
  MaxLine = 2
  MaxOutput = 3
  Room = 2
  Scenarios <- MCScenarios
INVARIANTS
  StreamsSound
  RepliesSound
  EventsSound
PROPERTIES
  LockedQuiet
CHECK_DEADLOCK FALSE
