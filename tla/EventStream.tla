---------------------------- MODULE EventStream ----------------------------
(***************************************************************************)
(* What the Activity stream promises to those who write to it, with no     *)
(* database, no drain and no crash in sight: at-least-once handling.       *)
(*                                                                         *)
(*   - an event that was never published has no effect;                    *)
(*   - an event some agent owns is settled only after a handler completed  *)
(*     for it at least once, and what is settled stays settled;            *)
(*   - an event nobody owns is settled without any effect.                 *)
(*                                                                         *)
(* How often an owned event takes effect is deliberately left open.        *)
(***************************************************************************)
EXTENDS Naturals

CONSTANTS
  Ids,        \* positions of the stream
  Events,     \* what can be published
  NoEvent,    \* the content of a position nothing was published at
  Owned       \* the events some agent owns

VARIABLES
  status,     \* "unborn", "pending" or "settled", for each position
  content,    \* the event published there, or NoEvent
  effects     \* how many times a handler completed for it

vars == <<status, content, effects>>

Init ==
  /\ status  = [i \in Ids |-> "unborn"]
  /\ content = [i \in Ids |-> NoEvent]
  /\ effects = [i \in Ids |-> 0]

Publish(i, e) ==
  /\ status[i] = "unborn"
  /\ status'  = [status EXCEPT ![i] = "pending"]
  /\ content' = [content EXCEPT ![i] = e]
  /\ UNCHANGED effects

\* Allowed on a settled event too: the contract is at-least-once.
TakeEffect(i) ==
  /\ status[i] # "unborn"
  /\ content[i] \in Owned
  /\ effects' = [effects EXCEPT ![i] = @ + 1]
  /\ UNCHANGED <<status, content>>

Settle(i) ==
  /\ status[i] = "pending"
  /\ content[i] \in Owned => effects[i] > 0
  /\ status' = [status EXCEPT ![i] = "settled"]
  /\ UNCHANGED <<content, effects>>

Next ==
  \E i \in Ids :
    \/ \E e \in Events : Publish(i, e)
    \/ TakeEffect(i)
    \/ Settle(i)

Spec == Init /\ [][Next]_vars
=============================================================================
