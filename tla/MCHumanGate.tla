---------------------------- MODULE MCHumanGate -----------------------------
(* A small instance of HumanGate.                                          *)
EXTENDS HumanGate, TLC

Symmetry ==
  Permutations(Drafts) \cup Permutations(People) \cup Permutations(Requests)
=============================================================================
