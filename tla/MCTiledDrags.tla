---------------------------- MODULE MCTiledDrags ----------------------------
EXTENDS TiledDragsProperties

CONSTANTS v1, v2, v3, left, right

MCOutputs == {left, right}
MCTagsOf == left :> {1, 2} @@ right :> {3}
MCArea == left :> Box(0, 0, 50, 40) @@ right :> Box(50, 0, 40, 50)
MCPoints == {<<2, 20>>, <<48, 20>>, <<52, 2>>, <<88, 48>>}
MCConfigured == [mfact |-> 5, collapse |-> 8]
Symmetric == Permutations(Views)

=============================================================================
