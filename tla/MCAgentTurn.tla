---------------------------- MODULE MCAgentTurn -----------------------------
(* A small instance of AgentTurn. Model Armor also finds a subtle message. *)
EXTENDS AgentTurn, TLC

CONSTANTS inject, subtle, contact, removed, refusal, withheld, reply

MCFlags == [heuristic |-> {inject}, model_armor |-> {inject, subtle}]
MCLeaks == [heuristic |-> {contact}, model_armor |-> {contact}]

MCNotice == [removed |-> removed, refusal |-> refusal, withheld |-> withheld,
             reply |-> reply]

Symmetry == Permutations(Sessions) \cup Permutations(Runs)
=============================================================================
