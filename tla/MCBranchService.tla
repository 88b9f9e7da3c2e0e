---------------------------- MODULE MCBranchService ----------------------------
(***************************************************************************)
(* BranchService for TLC, with any ids given, for what its tests say of it *)
(* and the code does not do.                                               *)
(***************************************************************************)
EXTENDS BranchService

CONSTANT other

MCGivenIds == {1, 2, other}

Bounds == size <= 2

==============================================================================
