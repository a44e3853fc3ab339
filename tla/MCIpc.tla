-------------------------------- MODULE MCIpc -------------------------------
EXTENDS IpcProperties

CONSTANTS c1, c2, c3

Blank == [verb |-> "blank", length |-> 0]
GetSpace == [verb |-> "get", path |-> <<"workspaces", "DP-1:1">>, length |-> 1]
SubscribeAll == [verb |-> "subscribe", names |-> {}, length |-> 1]
SubscribeMode == [verb |-> "subscribe", names |-> {"mode"}, length |-> 1]
SetMode == [verb |-> "set", field |-> "mode", value |-> "game", length |-> 1]
Spawn == [verb |-> "refused", length |-> 2]
TooLong == [verb |-> "invalid", length |-> 3]

MCScenarios ==
  {\* one client with every kind of line
   [clients |-> {c1}, requests |-> {Blank, GetSpace, SubscribeAll, SetMode, Spawn, TooLong},
    sent |-> 3, changes |-> 0, locks |-> 1, panel |-> FALSE],
   \* a subscriber, changes, the lock and a panel
   [clients |-> {c1}, requests |-> {SubscribeAll, GetSpace}, sent |-> 2, changes |-> 3,
    locks |-> 1, panel |-> TRUE],
   \* two subscribers that may be dropped
   [clients |-> {c1, c2}, requests |-> {SubscribeAll, SubscribeMode}, sent |-> 1,
    changes |-> 2, locks |-> 0, panel |-> FALSE],
   \* more clients than there are places
   [clients |-> {c1, c2, c3}, requests |-> {Spawn}, sent |-> 1, changes |-> 0, locks |-> 0,
    panel |-> FALSE]}

=============================================================================
