------------------------------ MODULE MCSeedDemo ------------------------------
(***************************************************************************)
(* Instances of SeedDemo for TLC.                                          *)
(***************************************************************************)
EXTENDS SeedDemo, TLC

Symmetry == Permutations(Runs)
=============================================================================
