---------------------------- MODULE GateContract ----------------------------
(***************************************************************************)
(* The promise of the human gate, without requests, rows or transactions:  *)
(* a draft may be signed off by people, again and again, and a message     *)
(* leaves only in the name of a person who has signed that very draft off  *)
(* before. Nothing is ever taken back.                                     *)
(***************************************************************************)
CONSTANTS
  Drafts,   \* the drafts agents may queue
  People    \* the employees who may sign off

VARIABLES
  queued,   \* the drafts queued so far
  signers,  \* who signed each draft off
  senders   \* in whose names each draft was sent

vars == <<queued, signers, senders>>

Init ==
  /\ queued  = {}
  /\ signers = [a \in Drafts |-> {}]
  /\ senders = [a \in Drafts |-> {}]

Queue(a) ==
  /\ a \notin queued
  /\ queued' = queued \cup {a}
  /\ UNCHANGED <<signers, senders>>

SignOff(a, p) ==
  /\ a \in queued
  /\ signers' = [signers EXCEPT ![a] = @ \cup {p}]
  /\ UNCHANGED <<queued, senders>>

Deliver(a, p) ==
  /\ p \in signers[a]
  /\ senders' = [senders EXCEPT ![a] = @ \cup {p}]
  /\ UNCHANGED <<queued, signers>>

Next ==
  \E a \in Drafts :
    \/ Queue(a)
    \/ \E p \in People : SignOff(a, p) \/ Deliver(a, p)

Spec == Init /\ [][Next]_vars
=============================================================================
