-------------------------- MODULE MCSpaceAccounting --------------------------
(* Instances of SpaceAccounting for TLC.                                   *)
EXTENDS SpaceAccounting, TLC

SpaceSymmetry ==
  Permutations(Threads) \cup Permutations(Atoms) \cup Permutations(Blocks)
=============================================================================
