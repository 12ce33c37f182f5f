----------------------------- MODULE PubSubPush -----------------------------
(***************************************************************************)
(* The asynchronous entry of the fleet: the Pub/Sub push endpoint          *)
(* (app/routes.py, pubsub_push) in front of the outbox. Each request       *)
(* decodes its message, appends a row in a transaction of its own, runs    *)
(* drain_once and answers. Any answer but a success makes Pub/Sub deliver  *)
(* the message again, and so does an answer that is late or lost.          *)
(*                                                                         *)
(* Members of Pushers are the event loops that serve pushes: the endpoint  *)
(* never awaits, so an instance serves one push at a time. The other       *)
(* members of Drains are the thread pool's manual drains (/events/drain).  *)
(***************************************************************************)
EXTENDS Outbox

CONSTANTS
  Pushers,        \* server instances that receive pushes
  Msgs,           \* the published messages
  Carries,        \* the event each message carries
  Unparseable,    \* messages without data, or not decodable to a kind
  Unstorable,     \* messages the insert refuses (null or oversized kind)
  MaxDeliveries,  \* bound: deliveries of a message within its retention
  NoMsg           \* no message

ASSUME PubSubAssumption ==
  /\ Pushers \subseteq Drains
  /\ Carries \in [Msgs -> Events]
  /\ Unparseable \subseteq Msgs /\ Unstorable \subseteq Msgs
  /\ MaxDeliveries \in Nat
  /\ NoMsg \notin Msgs

VARIABLES
  sub,         \* the subscription's view: "outstanding", "acked", "expired"
  deliveries,  \* how often each message was delivered
  serving,     \* the message each instance is serving, or NoMsg
  rowOf,       \* the id its append took, 0 before
  source       \* history: the message a row came from, or NoMsg

pushVars == <<sub, deliveries, serving, rowOf, source>>
pvars == <<vars, pushVars>>

PInit ==
  /\ Init
  /\ sub = [m \in Msgs |-> "outstanding"]
  /\ deliveries = [m \in Msgs |-> 0]
  /\ serving = [w \in Pushers |-> NoMsg]
  /\ rowOf = [w \in Pushers |-> 0]
  /\ source = [i \in Ids |-> NoMsg]

Serves(w, m) == m \in Msgs /\ serving[w] = m

Appended(w) == rowOf[w] # 0 /\ state[rowOf[w]] \in {"pending", "dispatched"}

\* A delivery, the first or a later one: the deadline may pass while an
\* instance still serves the message.
Deliver(w, m) ==
  /\ serving[w] = NoMsg
  /\ sub[m] = "outstanding"
  /\ deliveries[m] < MaxDeliveries
  /\ deliveries' = [deliveries EXCEPT ![m] = @ + 1]
  /\ serving' = [serving EXCEPT ![w] = m]
  /\ rowOf' = [rowOf EXCEPT ![w] = 0]
  /\ Goto(w, "idle")
  /\ UNCHANGED <<rowVars, batch, faults, history, sub, source>>

\* Retention ends for a message every delivery of which failed.
Expire(m) ==
  /\ sub[m] = "outstanding"
  /\ deliveries[m] = MaxDeliveries
  /\ \A w \in Pushers : ~Serves(w, m)
  /\ sub' = [sub EXCEPT ![m] = "expired"]
  /\ UNCHANGED <<vars, deliveries, serving, rowOf, source>>

\* Each delivery appends: nothing remembers that the message was seen before.
Append(w, i) ==
  /\ serving[w] \in Msgs \ (Unparseable \cup Unstorable)
  /\ rowOf[w] = 0
  /\ Insert(i, Carries[serving[w]])
  /\ rowOf' = [rowOf EXCEPT ![w] = i]
  /\ source' = [source EXCEPT ![i] = serving[w]]
  /\ UNCHANGED <<sub, deliveries, serving>>

CommitAppend(w) ==
  /\ serving[w] # NoMsg /\ rowOf[w] # 0
  /\ Commit(rowOf[w])
  /\ UNCHANGED pushVars

\* The drain runs on the request's own thread, once its append is committed.
PushDrain(w) ==
  /\ serving[w] # NoMsg /\ Appended(w)
  /\ \/ pc[w] = "idle" /\ Start(w)
     \/ Step(w)
  /\ UNCHANGED pushVars

ManualDrain(w) ==
  /\ Start(w) \/ Step(w) \/ Crash(w)
  /\ UNCHANGED pushVars

\* The request ends; its answer reaches the subscription, unless it is lost.
Answer(w, ack) ==
  /\ \/ /\ sub' = [sub EXCEPT ![serving[w]] = IF ack THEN "acked" ELSE @]
        /\ UNCHANGED faults
     \/ Fault /\ UNCHANGED sub
  /\ serving' = [serving EXCEPT ![w] = NoMsg]
  /\ UNCHANGED <<rowVars, pc, batch, history, deliveries, rowOf, source>>

\* No data, or undecodable: a success without a row, so that it never returns.
Ignore(w) ==
  /\ serving[w] \in Unparseable
  /\ Answer(w, TRUE)

\* Mutation: a refused insert counts as an undecodable message.
AppendRaisesAcked(w) ==
  /\ serving[w] \in Unstorable \ Unparseable
  /\ Answer(w, TRUE)

\* The insert is refused: the exception leaves the endpoint, a 500.
AppendRaises(w) ==
  /\ serving[w] \in Unstorable \ Unparseable
  /\ Answer(w, FALSE)

Accept(w) ==
  /\ serving[w] # NoMsg /\ pc[w] = "done"
  /\ Answer(w, TRUE)

\* Mutation: an error of the drain is logged and the push succeeds.
DrainRaisedAcked(w) ==
  /\ serving[w] # NoMsg /\ pc[w] = "raised"
  /\ Answer(w, TRUE)

\* drain_once raised: a 500, although the row is committed.
DrainRaised(w) ==
  /\ serving[w] # NoMsg /\ pc[w] = "raised"
  /\ Answer(w, FALSE)

\* The instance dies anywhere in a request; an open append rolls back.
CrashPush(w) ==
  /\ serving[w] # NoMsg
  /\ Fault
  /\ Forget(w)
  /\ state' = [i \in Ids |-> IF i = rowOf[w] /\ state[i] = "inflight"
                               THEN "rolledback" ELSE state[i]]
  /\ Goto(w, "idle")
  /\ batch' = [batch EXCEPT ![w] = {}]
  /\ serving' = [serving EXCEPT ![w] = NoMsg]
  /\ UNCHANGED <<event, returns, overlap, sub, deliveries, rowOf, source>>

Request(w) ==
  \/ \E i \in Ids : Append(w, i)
  \/ CommitAppend(w) \/ PushDrain(w)
  \/ Ignore(w) \/ AppendRaises(w) \/ Accept(w) \/ DrainRaised(w)

PNext ==
  \/ \E w \in Pushers : (\E m \in Msgs : Deliver(w, m)) \/ Request(w) \/ CrashPush(w)
  \/ \E w \in Drains \ Pushers : ManualDrain(w)
  \/ \E m \in Msgs : Expire(m)

PSpec == PInit /\ [][PNext]_pvars

\* Pub/Sub keeps delivering what is not acknowledged, a request under way runs
\* on. Nobody is assumed to call /events/drain.
PLiveSpec ==
  /\ PSpec
  /\ \A m \in Msgs : SF_pvars(\E w \in Pushers : Deliver(w, m))
  /\ \A w \in Pushers : WF_pvars(Request(w))

----------------------------------------------------------------------------
(* Properties.                                                             *)

PTypeOK ==
  /\ TypeOK
  /\ sub \in [Msgs -> {"outstanding", "acked", "expired"}]
  /\ deliveries \in [Msgs -> 0..MaxDeliveries]
  /\ serving \in [Pushers -> Msgs \cup {NoMsg}]
  /\ rowOf \in [Pushers -> Ids \cup {0}]
  /\ source \in [Ids -> Msgs \cup {NoMsg}]

RowsOf(m) == {i \in Ids : source[i] = m}

\* What is acknowledged is never lost: either the message could not be decoded
\* or a committed row carries its event.
AckedIsRecorded ==
  \A m \in Msgs \ Unparseable :
    sub[m] = "acked" => RowsOf(m) \cap Published # {}

\* When the pending rows fit in one drain, an acknowledged message has been
\* dispatched, except for one whose handler can fail: the 200 of a push means
\* its event was handled, and not merely stored.
AckedIsDispatched ==
  \A m \in Msgs \ Unparseable :
    sub[m] = "acked" =>
      \E i \in RowsOf(m) : \/ state[i] = "dispatched"
                           \/ event[i] \in Owned \cap (Poison \cup Flaky)

\* The completed handler calls for the rows of m, told apart by their number.
EffectsFor(m) == UNION {{i} \X (1..returns[i]) : i \in RowsOf(m)}

\* However often a message is delivered, while drains do not overlap it takes
\* effect at most once for each delivery and once more for each fault, as a
\* mark is lost by a fault only.
EffectsPerDelivery ==
  ~overlap =>
    \A m \in Msgs : Cardinality(EffectsFor(m)) <= deliveries[m] + faults

WellFormed(m) == m \notin Unparseable \cup Unstorable /\ Readable(Carries[m])

\* Every well-formed message is handled in the end, whatever single crash,
\* failed transaction or lost answer hits its deliveries and without any help
\* of a manual drain. routes.py:197 claims it next to malformed messages too.
WellFormedIsHandled ==
  \A m \in Msgs :
    WellFormed(m) => <>(\E i \in RowsOf(m) : state[i] = "dispatched")

\* routes.py:196: malformed messages are acknowledged because redelivering
\* them "buries the events behind it".
MalformedBuriesNothing == WellFormedIsHandled
=============================================================================
