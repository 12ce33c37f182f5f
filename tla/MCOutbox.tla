------------------------------ MODULE MCOutbox ------------------------------
(* Small instances of Outbox. Each event stands for a class of rows.       *)
EXTENDS Outbox

CONSTANTS d1, d2

opened  == [kind |-> "as.opened",          payload |-> "object"]
posted  == [kind |-> "transaction.posted", payload |-> "object"]
triaged == [kind |-> "as.triaged",         payload |-> "object"]
broken  == [kind |-> "as.opened",          payload |-> "null"]

MCAll    == {opened, triaged, posted, broken}
MCPoison == {posted}
MCFlaky  == {opened}
=============================================================================
