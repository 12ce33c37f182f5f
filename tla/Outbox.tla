------------------------------- MODULE Outbox -------------------------------
(***************************************************************************)
(* The Activity stream as a transactional outbox (app/store.py,            *)
(* app/domain.py) and the drain that empties it (app/worker.py).           *)
(*                                                                         *)
(* A row is written inside the transaction of the business change it       *)
(* describes. Any number of callers (Pub/Sub pushes and manual drains, on  *)
(* up to ten instances) run drain_once at the same time: each reads the    *)
(* pending rows in one transaction, then takes them one by one, calling    *)
(* the owner's handler first and flipping `dispatched` afterwards, in a    *)
(* transaction of its own.                                                 *)
(***************************************************************************)
EXTENDS Naturals, FiniteSets

CONSTANTS
  Drains,     \* concurrent executions of drain_once
  MaxId,      \* bound: rows ever inserted
  Limit,      \* the drain's LIMIT (50 in the code)
  MaxFaults,  \* bound: crashes, failed transactions and sporadic handler errors
  Events,     \* the events written: records with a kind and a payload shape
  Poison,     \* events whose handler raises at every call
  Flaky,      \* events whose handler may raise
  NoEvent     \* the content of a row never inserted

ASSUME OutboxAssumption ==
  /\ IsFiniteSet(Drains)
  /\ MaxId \in Nat /\ Limit \in Nat /\ MaxFaults \in Nat
  /\ Poison \subseteq Events /\ Flaky \subseteq Events
  /\ NoEvent \notin Events

Ids == 1..MaxId

VARIABLES
  state,      \* a row's life: "free", "inflight" (flushed, not committed),
              \* "rolledback", "pending" (dispatched = False) or "dispatched"
  event,      \* kind and payload of the row
  pc,         \* where each drain is
  batch,      \* pending_ids of each drain, less the entries it is done with
  faults,     \* faults so far
  returns,    \* history: handler calls that completed, for each row
  lost,       \* history: completed calls whose mark never committed
  overlap     \* history: two drains were once active together

rowVars == <<state, event>>
drainVars == <<pc, batch>>
history == <<returns, lost, overlap>>
vars == <<state, event, pc, batch, faults, returns, lost, overlap>>

Active(w) == pc[w] \in {"loop", "calling", "called"}

Init ==
  /\ state   = [i \in Ids |-> "free"]
  /\ event   = [i \in Ids |-> NoEvent]
  /\ pc      = [w \in Drains |-> "idle"]
  /\ batch   = [w \in Drains |-> {}]
  /\ faults  = 0
  /\ returns = [i \in Ids |-> 0]
  /\ lost    = [i \in Ids |-> 0]
  /\ overlap = FALSE

----------------------------------------------------------------------------
(* Which agent owns which event.                                           *)

EVENT_ROUTES ==
  [k \in {"as.opened", "as.resolved", "delivery.done", "transaction.posted"} |->
     CASE k = "as.opened"          -> "triage_agent"
       [] k = "as.resolved"        -> "knowledge_agent"
       [] k = "delivery.done"      -> "followup_agent"
       [] k = "transaction.posted" -> "reconcile_agent"]

Owned == {e \in Events : e.kind \in DOMAIN EVENT_ROUTES}

\* dict(a.payload) raises TypeError or ValueError for a JSON payload that is
\* no object: null, a number, a text, a list of anything but pairs.
Readable(e) == e.payload = "object"

----------------------------------------------------------------------------
(* The writers' side. A serial id is taken when the transaction flushes,   *)
(* the row becomes visible when it commits: rows may appear out of order.  *)

Insert(i, e) ==
  /\ state[i] = "free"
  /\ \A j \in Ids : j < i => state[j] # "free"
  /\ state' = [state EXCEPT ![i] = "inflight"]
  /\ event' = [event EXCEPT ![i] = e]
  /\ UNCHANGED <<pc, batch, faults, returns, lost, overlap>>

EndTransaction(i, outcome) ==
  /\ state[i] = "inflight"
  /\ state' = [state EXCEPT ![i] = outcome]
  /\ UNCHANGED <<event, pc, batch, faults, returns, lost, overlap>>

Commit(i) == EndTransaction(i, "pending")
Rollback(i) == EndTransaction(i, "rolledback")

----------------------------------------------------------------------------
(* drain_once, one execution per member of Drains.                         *)

\* Mutation: the query sees rows of open transactions.
PendingUncommitted == {i \in Ids : state[i] \in {"inflight", "pending"}}

\* Mutation: the query forgets `dispatched`.
PendingOrDone == {i \in Ids : state[i] \in {"pending", "dispatched"}}

Pending == {i \in Ids : state[i] = "pending"}

\* Mutation: ORDER BY id DESC.
Newest(S, n) == {i \in S : Cardinality({j \in S : j > i}) < n}

\* ORDER BY id LIMIT n over the rows S.
Oldest(S, n) == {i \in S : Cardinality({j \in S : j < i}) < n}

\* The loop takes the entries of pending_ids in the order of their ids.
IsNext(w, i) == i \in batch[w] /\ \A j \in batch[w] : i <= j

Drop(w, i) == batch' = [batch EXCEPT ![w] = @ \ {i}]

Goto(w, label) == pc' = [pc EXCEPT ![w] = label]

Fault == faults < MaxFaults /\ faults' = faults + 1

\* The first transaction: read the oldest pending rows, decode them, close.
Select(w) ==
  /\ ~Active(w)
  /\ \A i \in Oldest(Pending, Limit) : Readable(event[i])
  /\ batch' = [batch EXCEPT ![w] = Oldest(Pending, Limit)]
  /\ Goto(w, "loop")
  /\ overlap' = (overlap \/ \E v \in Drains \ {w} : Active(v))
  /\ UNCHANGED <<rowVars, faults, returns, lost>>

\* One unreadable payload, or a database error, raises out of drain_once.
SelectRaises(w) ==
  /\ ~Active(w)
  /\ \/ /\ \E i \in Oldest(Pending, Limit) : ~Readable(event[i])
        /\ UNCHANGED faults
     \/ Fault
  /\ Goto(w, "raised")
  /\ UNCHANGED <<rowVars, batch, history>>

\* Mutation: a third value of the flag, which no reader knows.
MarkClaimed(i) == state' = [state EXCEPT ![i] = "claimed"]

\* Mutation: the flag is set on a copy and never written.
MarkForgotten(i) == state' = state

MarkDispatched(i) == state' = [state EXCEPT ![i] = "dispatched"]

\* No agent owns the kind: marked handled without a handler.
Skip(w, i) ==
  /\ pc[w] = "loop" /\ IsNext(w, i)
  /\ event[i] \notin Owned
  /\ MarkDispatched(i)
  /\ Drop(w, i)
  /\ UNCHANGED <<event, pc, faults, history>>

\* The handler starts. Nothing in the row says so.
Call(w, i) ==
  /\ pc[w] = "loop" /\ IsNext(w, i)
  /\ event[i] \in Owned
  /\ Goto(w, "calling")
  /\ UNCHANGED <<rowVars, batch, faults, history>>

HandlerReturns(w, i) ==
  /\ pc[w] = "calling" /\ IsNext(w, i)
  /\ event[i] \notin Poison
  /\ Goto(w, "called")
  /\ returns' = [returns EXCEPT ![i] = @ + 1]
  /\ UNCHANGED <<rowVars, batch, faults, lost, overlap>>

\* Mutation: without the `continue`, the row is marked after all.
HandlerRaisesFallsThrough(w, i) ==
  /\ pc[w] = "calling" /\ IsNext(w, i)
  /\ \/ event[i] \in Poison /\ UNCHANGED faults
     \/ event[i] \in Flaky /\ Fault
  /\ Goto(w, "called")
  /\ UNCHANGED <<rowVars, batch, history>>

\* An exception is logged, the row stays pending, the loop goes on.
HandlerRaises(w, i) ==
  /\ pc[w] = "calling" /\ IsNext(w, i)
  /\ \/ event[i] \in Poison /\ UNCHANGED faults
     \/ event[i] \in Flaky /\ Fault
  /\ Goto(w, "loop")
  /\ Drop(w, i)
  /\ UNCHANGED <<rowVars, history>>

\* The row is read again and flipped, whoever flipped it meanwhile.
Mark(w, i) ==
  /\ pc[w] = "called" /\ IsNext(w, i)
  /\ MarkDispatched(i)
  /\ Goto(w, "loop")
  /\ Drop(w, i)
  /\ UNCHANGED <<event, faults, history>>

\* What a completed handler call leaves behind when its mark never commits.
Forget(w) ==
  lost' = [i \in Ids |-> IF pc[w] = "called" /\ IsNext(w, i)
                           THEN lost[i] + 1 ELSE lost[i]]

\* The transaction that marks a row fails and the drain raises.
MarkRaises(w, i) ==
  /\ IsNext(w, i)
  /\ \/ pc[w] = "called"
     \/ pc[w] = "loop" /\ event[i] \notin Owned
  /\ Fault
  /\ Forget(w)
  /\ Goto(w, "raised")
  /\ batch' = [batch EXCEPT ![w] = {}]
  /\ UNCHANGED <<rowVars, returns, overlap>>

Finish(w) ==
  /\ pc[w] = "loop" /\ batch[w] = {}
  /\ Goto(w, "done")
  /\ UNCHANGED <<rowVars, batch, faults, history>>

\* The instance dies. Its drain is gone; the rows are as last committed.
Crash(w) ==
  /\ Active(w)
  /\ Fault
  /\ Forget(w)
  /\ Goto(w, "idle")
  /\ batch' = [batch EXCEPT ![w] = {}]
  /\ UNCHANGED <<rowVars, returns, overlap>>

Start(w) == Select(w) \/ SelectRaises(w)

Step(w) ==
  \/ \E i \in Ids : \/ Skip(w, i) \/ Call(w, i) \/ Mark(w, i)
                    \/ HandlerReturns(w, i) \/ HandlerRaises(w, i)
                    \/ MarkRaises(w, i)
  \/ Finish(w)

Write(i) == (\E e \in Events : Insert(i, e)) \/ Commit(i) \/ Rollback(i)

Next ==
  \/ \E i \in Ids : Write(i)
  \/ \E w \in Drains : Start(w) \/ Step(w) \/ Crash(w)

Spec == Init /\ [][Next]_vars

\* A drain under way runs on, an open transaction ends, and drain_once keeps
\* being called: the first two are the runtime's, the last one is not the
\* code's to give (a push or an operator calls /events/drain).
Fairness ==
  /\ \A w \in Drains : WF_vars(Step(w)) /\ WF_vars(Start(w))
  /\ \A i \in Ids : WF_vars(Commit(i) \/ Rollback(i))

LiveSpec == Spec /\ Fairness

----------------------------------------------------------------------------
(* Properties.                                                             *)

TypeOK ==
  /\ state \in [Ids -> {"free", "inflight", "rolledback", "pending", "dispatched"}]
  /\ event \in [Ids -> Events \cup {NoEvent}]
  /\ pc \in [Drains -> {"idle", "loop", "calling", "called", "done", "raised"}]
  /\ batch \in [Drains -> SUBSET Ids]
  /\ faults \in Nat
  /\ returns \in [Ids -> Nat]
  /\ lost \in [Ids -> Nat]
  /\ overlap \in BOOLEAN

\* An event an agent owns is marked dispatched only after a handler completed
\* for it, whichever drains, errors and crashes came in between.
DispatchedWasHandled ==
  \A i \in Ids :
    state[i] = "dispatched" /\ event[i] \in Owned => returns[i] > 0

\* No handler ever completes for a row whose transaction did not commit: the
\* outbox promises no work that never happened (docstring of store.emit).
OnlyCommittedHandled ==
  \A i \in Ids : returns[i] > 0 => state[i] \in {"pending", "dispatched"}

\* As long as no two drains ran together, an event takes effect once, plus
\* once for every handled call whose mark was lost to a crash or an error.
RedeliveredOnlyIfLost ==
  ~overlap => \A i \in Ids : returns[i] <= lost[i] + 1

\* With overlapping drains, each of them may add one more effect and no more:
\* a row that was marked is never picked up again.
EffectsBounded ==
  \A i \in Ids : returns[i] <= lost[i] + Cardinality(Drains)

\* The rows that fail at every attempt and stay in front of the queue.
Stuck(j) == state[j] = "pending" /\ event[j] \in Owned \cap Poison

Blocked(i) ==
  \/ \E j \in Oldest(Pending, Limit) : ~Readable(event[j])
  \/ Stuck(i)
  \/ Cardinality({j \in Ids : j < i /\ Stuck(j)}) >= Limit

\* Provided drains keep coming, an event waits for ever only if it fails every
\* time, if Limit older ones do, or if an unreadable row stops every drain:
\* neither events nobody owns nor sporadic failures can bury it.
OnlyBlockedEventsWait ==
  \A i \in Ids : <>[](state[i] = "pending") => <>[]Blocked(i)

\* A row no drain holds, behind an unreadable row or behind as many rows that
\* fail at every attempt as a drain takes.
Buried(i) ==
  /\ state[i] = "pending" /\ \A w \in Drains : i \notin batch[w]
  /\ \/ \E j \in Ids : j <= i /\ state[j] = "pending" /\ ~Readable(event[j])
     \/ Cardinality({j \in Ids : j < i /\ Stuck(j)}) >= Limit

\* The other way round, a row once buried stays so: no drain, handler, rollback
\* or crash ever digs it out (nothing in worker.py sets a failing row aside).
BuriedForGood == [][\A i \in Ids : Buried(i) => Buried(i)']_vars

----------------------------------------------------------------------------
(* The outbox keeps the stream's contract.                                 *)

Published == {i \in Ids : state[i] \in {"pending", "dispatched"}}

StreamStatus ==
  [i \in Ids |-> CASE state[i] = "pending"    -> "pending"
                   [] state[i] = "dispatched" -> "settled"
                   [] OTHER                   -> "unborn"]

StreamContent == [i \in Ids |-> IF i \in Published THEN event[i] ELSE NoEvent]

Stream == INSTANCE EventStream WITH
  status <- StreamStatus, content <- StreamContent, effects <- returns

\* Seen from outside, the rows, the drains and their faults are at-least-once
\* handling of an append-only stream (README: "It is an outbox").
KeepsStreamContract == Stream!Spec
=============================================================================
