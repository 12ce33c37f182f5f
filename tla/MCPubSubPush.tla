---------------------------- MODULE MCPubSubPush ----------------------------
(* Small instances of PubSubPush. Each message stands for a class.         *)
EXTENDS PubSubPush, TLC

CONSTANTS d1, d2, p1, p2, mOpened, mSolved, mStray, mGarbled, mNoKind, mNull

opened == [kind |-> "as.opened",  payload |-> "object"]
stray  == [kind |-> "as.triaged", payload |-> "object"]
solved == [kind |-> "as.resolved", payload |-> "object"]
broken == [kind |-> "as.opened",  payload |-> "null"]

MCEvents == {opened, solved, stray, broken}
MCNone   == {}
MCFlaky  == {solved}

MCCarries == [m \in Msgs |-> CASE m = mStray -> stray
                               [] m = mSolved -> solved
                               [] m = mNull  -> broken
                               [] OTHER      -> opened]

MCUnparseable == Msgs \cap {mGarbled}
MCUnstorable  == Msgs \cap {mNoKind}

Symmetry == Permutations(Pushers)
=============================================================================
