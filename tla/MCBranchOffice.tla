----------------------------- MODULE MCBranchOffice -----------------------------
(***************************************************************************)
(* BranchOffice for TLC: three names, ids given that are numbers within    *)
(* and beyond what is generated, and one that is no number.                *)
(***************************************************************************)
EXTENDS BranchOffice, TLC

CONSTANTS MaxBranches, other

MCGivenIds == {1, 2, 3, other}

Symmetry == Permutations(Names)

Bounds == size <= MaxBranches

==============================================================================
