---------------------------- MODULE MCToolAccess ----------------------------
(* Two sales reps, an accountant and a support engineer; Jin owns Acme, as *)
(* app/store.py seeds it, and sales does not see Bolt; a ticket of each; a *)
(* memo for accounting and management only. The memo is about the ledger,  *)
(* so the configurations give Ledger the value memo.                       *)
EXTENDS ToolAccess, TLC

CONSTANTS jin, kim, soo, min, acme, bolt, chair, lamp, memo

MCRoleOf == [e \in Employees |-> CASE e \in {jin, kim} -> "sales"
                                   [] e = soo -> "accounting"
                                   [] e = min -> "support"]

MCOwnerOf == [c \in Customers |-> IF c = acme THEN jin ELSE min]

MCCustomerOf == [t \in Tickets |-> IF t = chair THEN acme ELSE bolt]

MCAuthored == {[about |-> memo, allowed_roles |-> {"accounting", "manager"}]}

Symmetry == Permutations(Sessions)
=============================================================================
