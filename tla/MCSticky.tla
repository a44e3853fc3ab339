------------------------------ MODULE MCSticky ------------------------------
EXTENDS StickyProperties

CONSTANTS v1, v2, v3, o1, o2, fb

Symmetric == Permutations(Views) \cup Permutations(Outputs \ {Fallback})

=============================================================================
