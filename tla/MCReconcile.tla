---------------------------- MODULE MCReconcile -----------------------------
(* A small instance of Reconcile.                                          *)
EXTENDS Reconcile, TLC

Symmetry == Permutations(Orders)
=============================================================================
