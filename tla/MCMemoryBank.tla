---------------------------- MODULE MCMemoryBank ----------------------------
(* A small instance of ServerBoot, and of MemoryBank in it.                *)
EXTENDS ServerBoot, TLC

Symmetry == Permutations(Instances) \cup Permutations(Users) \cup Permutations(Engines)
=============================================================================
