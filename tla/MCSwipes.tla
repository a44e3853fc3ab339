------------------------------ MODULE MCSwipes ------------------------------
EXTENDS SwipesProperties

CONSTANTS v1, v2

=============================================================================
