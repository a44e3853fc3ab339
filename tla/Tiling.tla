------------------------------- MODULE Tiling -------------------------------
(***************************************************************************)
(* What the tiled layouts promise, without trees and lists: a tag has a    *)
(* set of tiles, a window is a tile of at most one tag, and a step moves   *)
(* one window, or lets go of the one that is being dragged, or both.       *)
(***************************************************************************)
CONSTANTS Tags, Views, NONE

VARIABLES
  tiles,  \* the tiled windows of every tag
  held    \* the window being dragged and the tag it left; NONE for none

vars == <<tiles, held>>

NoHeld == [view |-> NONE, from |-> NONE]
Where(t, v) == {g \in Tags : v \in t[g]}
Once(t, h) == \A v \in Views :
  \/ Where(t, v) = {}
  \/ v # h.view /\ \E g \in Tags : Where(t, v) = {g}

Init == tiles = [g \in Tags |-> {}] /\ held = NoHeld

\* A window enters a tag, leaves one or changes from one to another.  The one
\* that was held, if another window moves, is let go: it is a tile of the tag
\* it left.
Move(v) ==
  /\ held' \in {held, NoHeld}
  /\ \A w \in Views \ {v, held.view} : Where(tiles', w) = Where(tiles, w)
  /\ held.view \notin {NONE, v} =>
       Where(tiles', held.view) = IF held' = NoHeld THEN {held.from} ELSE {}

\* A tile is dragged out of its tag.
Lift(v) ==
  /\ held = NoHeld
  /\ \E g \in Tags : v \in tiles[g] /\ held' = [view |-> v, from |-> g]
  /\ tiles' = [g \in Tags |-> tiles[g] \ {v}]

Next == /\ \E v \in Views : Move(v) \/ Lift(v)
        /\ Once(tiles', held')

Spec == Init /\ [][Next]_vars
=============================================================================
