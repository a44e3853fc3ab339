---------------------------- MODULE MCWorkspace ----------------------------
(***************************************************************************)
(* Workspace for TLC.  The views are interchangeable, and so are the       *)
(* physical outputs: no definition tells them apart.                       *)
(***************************************************************************)
EXTENDS WorkspaceProperties, TLC

Symmetric == Permutations(Views) \cup Permutations(Outputs \ {Headless})
=============================================================================
