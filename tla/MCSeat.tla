------------------------------- MODULE MCSeat -------------------------------
(***************************************************************************)
(* Seat for TLC.                                                           *)
(***************************************************************************)
EXTENDS SeatProperties

CONSTANTS l1, l2

\* One mode besides common, one key that enters it and is reserved in it.
KeyBindings ==
  [m \in {"common", "resize"} |->
     [k \in Keys |-> IF k = Escape THEN NONE
                     ELSE IF m = "common" THEN "resize" ELSE Reserved]]

\* What happens in a session; a session has some of it, so that the state space
\* is the sum of the combinations and not their product.
Session(l, e) == [layers |-> l, events |-> e]
SmallScenarios ==
  {Session({l1}, {"lock", "power", "hotplug", "constrain"}),
   Session({l1, l2}, {"lock"}),
   Session({l1, l2}, {"inhibit"}),
   Session({}, {"lock", "power", "inhibit", "keys"})}

=============================================================================
