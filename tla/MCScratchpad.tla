---------------------------- MODULE MCScratchpad ----------------------------
(***************************************************************************)
(* Scratchpad for TLC.  Views, outputs, names and identities are           *)
(* interchangeable: no definition tells them apart.                        *)
(***************************************************************************)
EXTENDS ScratchpadProperties, TLC

CONSTANTS o1, o2, v1, v2, v3, n1, n2

\* Many windows on one output, and few on two that come and go.
MCSessions ==
  {[environment |-> {"reload", "rename", "fullscreen"},
    outputs |-> {o1}, views |-> {v1, v2, v3}, names |-> {n1, n2}],
   [environment |-> {"hotplug", "power", "lock", "reload"},
    outputs |-> {o1, o2}, views |-> {v1, v2}, names |-> {n1}]}

Symmetric ==
  Permutations(Views) \cup Permutations(Outputs) \cup Permutations(Names)
    \cup Permutations(Identities)
=============================================================================
