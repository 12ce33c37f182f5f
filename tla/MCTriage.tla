------------------------------ MODULE MCTriage ------------------------------
(* A small instance of Triage: labels that differ in one or both columns.  *)
EXTENDS Triage, TLC

low   == [category |-> "quality", severity |-> "low"]
high  == [category |-> "quality", severity |-> "high"]
bill  == [category |-> "billing", severity |-> "high"]

MCLabels == {low, high, bill}
MCOne    == {low}

Symmetry == Permutations(Staff) \cup Permutations(Tickets) \cup Permutations(Calls)
=============================================================================
