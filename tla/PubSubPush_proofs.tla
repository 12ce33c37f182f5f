-------------------------- MODULE PubSubPush_proofs --------------------------
(***************************************************************************)
(* Proofs about PubSubPush, for any number of instances, manual drains,    *)
(* messages, deliveries, rows and faults:                                  *)
(*                                                                         *)
(*   - an acknowledged message is never lost: a push only comes to its     *)
(*     acknowledgement through a drain it began on a committed row of its  *)
(*     own message, and such a row stays;                                  *)
(*   - as long as the pending rows fit one drain, that drain dispatches it *)
(*     as well, unless its handler can fail;                               *)
(*   - what Outbox_proofs shows of the outbox holds behind the endpoint;   *)
(*   - without overlap a message takes effect at most once for each        *)
(*     delivery and once for each fault.                                   *)
(***************************************************************************)
EXTENDS PubSubPush, Outbox_proofs

\* Whatever instance w has appended and drained while it serves a message.
ServingInv ==
  \A w \in Pushers : serving[w] # NoMsg =>
    /\ rowOf[w] # 0 => state[rowOf[w]] # "free" /\ source[rowOf[w]] = serving[w]
    /\ pc[w] \in {"loop", "calling", "called", "done"} => rowOf[w] # 0 /\ Appended(w)

PushInv == PTypeOK /\ ServingInv /\ AckedIsRecorded

----------------------------------------------------------------------------
(* What the outbox does underneath.                                        *)

LEMMA RowZero == 0 \notin Ids
  BY OutboxAssumption DEF Ids

Used == {i \in Ids : state[i] # "free"}

\* A row that was committed stays committed, an id that was taken stays taken.
LEMMA RowsStay ==
  ASSUME TypeOK, [Next]_vars
  PROVE  Published \subseteq Published' /\ Used \subseteq Used'
  <1>1. ASSUME NEW i \in Ids, Write(i) PROVE Published \subseteq Published' /\ Used \subseteq Used'
    BY <1>1 DEF Write, Insert, Commit, Rollback, EndTransaction, Published, Used, TypeOK
  <1>2. ASSUME NEW w \in Drains, Start(w) \/ Crash(w)
        PROVE  Published \subseteq Published' /\ Used \subseteq Used'
    BY <1>2 DEF Start, Select, SelectRaises, Crash, rowVars, Published, Used
  <1>3. ASSUME NEW w \in Drains, Step(w)
        PROVE  Published \subseteq Published' /\ Used \subseteq Used'
    BY <1>3 DEF Step, Skip, Call, Mark, HandlerReturns, HandlerRaises, MarkRaises, Finish,
                MarkDispatched, rowVars, Published, Used, TypeOK
  <1>4. CASE UNCHANGED vars
    BY <1>4 DEF vars, Published, Used
  <1> QED BY <1>1, <1>2, <1>3, <1>4 DEF Next

\* A drain moves itself only.
LEMMA DrainsApart ==
  ASSUME TypeOK, NEW w \in Drains, Start(w) \/ Step(w) \/ Crash(w)
  PROVE  \A v \in Drains \ {w} : pc'[v] = pc[v]
  BY DEF Start, Select, SelectRaises, Crash, Step, Skip, Call, Mark, HandlerReturns,
         HandlerRaises, MarkRaises, Finish, Goto, TypeOK

\* Rows come and stay; what a request has appended, and whether that is
\* committed, are then told by Used and Published.
LEMMA ServingByRows ==
  ASSUME PTypeOK
  PROVE  ServingInv <=>
           \A w \in Pushers : serving[w] # NoMsg =>
             /\ rowOf[w] # 0 => rowOf[w] \in Used /\ source[rowOf[w]] = serving[w]
             /\ pc[w] \in {"loop", "calling", "called", "done"} => rowOf[w] \in Published
  BY RowZero DEF ServingInv, PTypeOK, Used, Published, Appended

----------------------------------------------------------------------------
(* Steps that leave the requests' own state alone.                         *)

LEMMA OutboxStep ==
  ASSUME PushInv, [Next]_vars, UNCHANGED pushVars,
         \A w \in Pushers : serving[w] # NoMsg /\ pc'[w] # pc[w] => Appended(w)
  PROVE  PushInv'
  <1>1. TypeOK' /\ Published \subseteq Published' /\ Used \subseteq Used'
    BY TypeStep, RowsStay DEF PushInv, PTypeOK
  <1>2. PTypeOK'
    BY <1>1 DEF PushInv, PTypeOK, pushVars
  <1>3. ASSUME NEW w \in Pushers, serving[w] # NoMsg
        PROVE  /\ rowOf[w] # 0 => rowOf[w] \in Used' /\ source[rowOf[w]] = serving[w]
               /\ pc'[w] \in {"loop", "calling", "called", "done"} => rowOf[w] \in Published'
    <2>1. /\ rowOf[w] # 0 => rowOf[w] \in Used /\ source[rowOf[w]] = serving[w]
          /\ pc[w] \in {"loop", "calling", "called", "done"} => rowOf[w] \in Published
      BY <1>3, ServingByRows DEF PushInv
    <2>2. Appended(w) => rowOf[w] \in Published
      BY DEF Appended, Published, PushInv, PTypeOK
    <2> QED BY <1>1, <1>3, <2>1, <2>2
  <1>4. ServingInv'
    BY <1>2, <1>3, RowZero DEF ServingInv, PTypeOK, Used, Published, Appended, pushVars
  <1>5. AckedIsRecorded'
    BY <1>1 DEF PushInv, AckedIsRecorded, RowsOf, pushVars
  <1> QED BY <1>2, <1>4, <1>5 DEF PushInv

LEMMA DrainStep ==
  ASSUME PushInv, UNCHANGED pushVars, NEW w \in Drains, Start(w) \/ Step(w) \/ Crash(w),
         w \in Pushers => serving[w] # NoMsg /\ Appended(w)
  PROVE  PushInv'
  <1>1. Next
    BY DEF Next
  <1>2. \A v \in Drains \ {w} : pc'[v] = pc[v]
    BY DrainsApart DEF PushInv, PTypeOK
  <1> QED BY <1>1, <1>2, OutboxStep, PubSubAssumption

----------------------------------------------------------------------------
(* Steps of the requests.                                                  *)

LEMMA DeliverStep ==
  ASSUME PushInv, NEW w \in Pushers, NEW m \in Msgs, Deliver(w, m)
  PROVE  PushInv'
  <1>1. /\ serving' = [serving EXCEPT ![w] = m] /\ rowOf' = [rowOf EXCEPT ![w] = 0]
        /\ pc' = [pc EXCEPT ![w] = "idle"]
        /\ deliveries[m] < MaxDeliveries /\ deliveries' = [deliveries EXCEPT ![m] = @ + 1]
        /\ UNCHANGED <<rowVars, batch, faults, history, sub, source>>
    BY DEF Deliver, Goto
  <1>2. PTypeOK'
    BY <1>1, PubSubAssumption, OutboxAssumption
    DEF PushInv, PTypeOK, TypeOK, rowVars, history
  <1>3. ASSUME NEW v \in Pushers, serving'[v] # NoMsg
        PROVE  /\ rowOf'[v] # 0 => rowOf'[v] \in Used /\ source[rowOf'[v]] = serving'[v]
               /\ pc'[v] \in {"loop", "calling", "called", "done"} => rowOf'[v] \in Published
    <2>1. CASE v = w
      BY <1>1, <2>1, PubSubAssumption DEF PushInv, PTypeOK, TypeOK
    <2>2. CASE v # w
      <3>1. serving'[v] = serving[v] /\ rowOf'[v] = rowOf[v] /\ pc'[v] = pc[v]
        BY <1>1, <2>2, PubSubAssumption DEF PushInv, PTypeOK, TypeOK
      <3> QED BY <1>3, <3>1, ServingByRows DEF PushInv
    <2> QED BY <2>1, <2>2
  <1>4. ServingInv'
    BY <1>1, <1>2, <1>3, RowZero DEF ServingInv, PTypeOK, Used, Published, Appended, rowVars
  <1>5. AckedIsRecorded'
    BY <1>1 DEF PushInv, AckedIsRecorded, RowsOf, Published, rowVars
  <1> QED BY <1>2, <1>4, <1>5 DEF PushInv

LEMMA AppendStep ==
  ASSUME PushInv, NEW w \in Pushers, NEW i \in Ids, Append(w, i)
  PROVE  PushInv'
  <1>1. /\ Insert(i, Carries[serving[w]]) /\ rowOf[w] = 0 /\ serving[w] \in Msgs
        /\ rowOf' = [rowOf EXCEPT ![w] = i] /\ source' = [source EXCEPT ![i] = serving[w]]
        /\ UNCHANGED <<sub, deliveries, serving>>
    BY DEF Append
  <1>2. Next
    BY <1>1, PubSubAssumption DEF Next, Write
  <1>3. TypeOK' /\ Published \subseteq Published' /\ Used \subseteq Used'
    BY <1>2, TypeStep, RowsStay DEF PushInv, PTypeOK
  <1>4. PTypeOK'
    BY <1>1, <1>3 DEF PushInv, PTypeOK
  <1>5. i \notin Used /\ i \notin Published /\ i \in Used' /\ pc' = pc
    BY <1>1 DEF Insert, Used, Published, PushInv, PTypeOK, TypeOK
  <1>6. ASSUME NEW v \in Pushers, serving'[v] # NoMsg
        PROVE  /\ rowOf'[v] # 0 => rowOf'[v] \in Used' /\ source'[rowOf'[v]] = serving'[v]
               /\ pc'[v] \in {"loop", "calling", "called", "done"} => rowOf'[v] \in Published'
    <2>1. /\ rowOf[v] # 0 => rowOf[v] \in Used /\ source[rowOf[v]] = serving[v]
          /\ pc[v] \in {"loop", "calling", "called", "done"} => rowOf[v] \in Published
      BY <1>1, <1>6, ServingByRows DEF PushInv
    <2>2. CASE v = w
      BY <1>1, <1>5, <2>1, <2>2, RowZero DEF PushInv, PTypeOK, Published
    <2>3. CASE v # w
      BY <1>1, <1>3, <1>5, <2>1, <2>3 DEF PushInv, PTypeOK
    <2> QED BY <2>2, <2>3
  <1>7. ServingInv'
    BY <1>4, <1>6, RowZero DEF ServingInv, PTypeOK, Used, Published, Appended
  <1>8. ASSUME NEW m \in Msgs, RowsOf(m) \cap Published # {}
        PROVE  RowsOf(m)' \cap Published' # {}
    BY <1>1, <1>3, <1>5, <1>8 DEF RowsOf, PushInv, PTypeOK
  <1>9. AckedIsRecorded'
    BY <1>1, <1>8 DEF PushInv, AckedIsRecorded
  <1> QED BY <1>4, <1>7, <1>9 DEF PushInv

\* An answer acknowledges, loses itself, or leaves the message outstanding; no
\* message is acknowledged without a row unless it could not be decoded.
LEMMA AnswerStep ==
  ASSUME PushInv, NEW w \in Pushers, serving[w] # NoMsg, NEW ack \in BOOLEAN, Answer(w, ack),
         ack => serving[w] \in Unparseable \/ rowOf[w] \in RowsOf(serving[w]) \cap Published
  PROVE  PushInv'
  <1>1. /\ \/ sub' = [sub EXCEPT ![serving[w]] = IF ack THEN "acked" ELSE @] /\ faults' = faults
           \/ faults < MaxFaults /\ faults' = faults + 1 /\ sub' = sub
        /\ serving' = [serving EXCEPT ![w] = NoMsg]
        /\ UNCHANGED <<rowVars, pc, batch, history, deliveries, rowOf, source>>
    BY DEF Answer, Fault
  <1>2. PTypeOK'
    <2>1. faults' \in Nat
      BY <1>1, OutboxAssumption DEF PushInv, PTypeOK, TypeOK
    <2>2. sub' \in [Msgs -> {"outstanding", "acked", "expired"}]
      BY <1>1 DEF PushInv, PTypeOK
    <2> QED BY <1>1, <2>1, <2>2 DEF PushInv, PTypeOK, TypeOK, rowVars, history
  <1>3. ServingInv'
    BY <1>1 DEF PushInv, PTypeOK, ServingInv, Appended, rowVars
  <1>4. ASSUME NEW m \in Msgs \ Unparseable, sub'[m] = "acked"
        PROVE  RowsOf(m) \cap Published # {}
    <2>1. CASE sub[m] = "acked"
      BY <1>4, <2>1 DEF PushInv, AckedIsRecorded
    <2>2. CASE sub[m] # "acked"
      <3>1. m = serving[w] /\ ack
        BY <1>1, <1>4, <2>2 DEF PushInv, PTypeOK
      <3> QED BY <3>1
    <2> QED BY <2>1, <2>2
  <1>5. AckedIsRecorded'
    BY <1>1, <1>4 DEF AckedIsRecorded, RowsOf, Published, rowVars
  <1> QED BY <1>2, <1>3, <1>5 DEF PushInv

LEMMA CrashStep ==
  ASSUME PushInv, NEW w \in Pushers, CrashPush(w)
  PROVE  PushInv'
  <1>1. /\ state' = [i \in Ids |-> IF i = rowOf[w] /\ state[i] = "inflight"
                                     THEN "rolledback" ELSE state[i]]
        /\ serving' = [serving EXCEPT ![w] = NoMsg]
        /\ pc' = [pc EXCEPT ![w] = "idle"] /\ batch' = [batch EXCEPT ![w] = {}]
        /\ faults < MaxFaults /\ faults' = faults + 1 /\ Forget(w)
        /\ UNCHANGED <<event, returns, overlap, sub, deliveries, rowOf, source>>
    BY DEF CrashPush, Fault, Goto
  <1>2. Published' = Published /\ Used' = Used
    BY <1>1 DEF Published, Used
  <1>3. PTypeOK'
    <2>1. lost' \in [Ids -> Nat]
      BY <1>1 DEF Forget, PushInv, PTypeOK, TypeOK
    <2>2. faults' \in Nat
      BY <1>1, OutboxAssumption DEF PushInv, PTypeOK, TypeOK
    <2>3. state' \in [Ids -> {"free", "inflight", "pending", "dispatched", "rolledback"}]
      BY <1>1 DEF PushInv, PTypeOK, TypeOK
    <2> QED BY <1>1, <2>1, <2>2, <2>3, PubSubAssumption DEF PushInv, PTypeOK, TypeOK
  <1>4. ASSUME NEW v \in Pushers, serving'[v] # NoMsg
        PROVE  /\ rowOf'[v] # 0 => rowOf'[v] \in Used' /\ source'[rowOf'[v]] = serving'[v]
               /\ pc'[v] \in {"loop", "calling", "called", "done"} => rowOf'[v] \in Published'
    <2>1. v # w /\ serving[v] # NoMsg /\ pc'[v] = pc[v]
      BY <1>1, <1>4, PubSubAssumption DEF PushInv, PTypeOK, TypeOK
    <2> QED BY <1>1, <1>2, <2>1, ServingByRows DEF PushInv
  <1>5. ServingInv'
    BY <1>3, <1>4, RowZero DEF ServingInv, PTypeOK, Used, Published, Appended
  <1>6. AckedIsRecorded'
    BY <1>1, <1>2 DEF PushInv, AckedIsRecorded, RowsOf
  <1> QED BY <1>3, <1>5, <1>6 DEF PushInv

----------------------------------------------------------------------------

LEMMA PushStep ==
  ASSUME PushInv, [PNext]_pvars
  PROVE  PushInv'
  <1>1. ASSUME NEW w \in Pushers, CommitAppend(w) PROVE PushInv'
    <2>1. rowOf[w] \in Ids /\ Commit(rowOf[w]) /\ UNCHANGED pushVars /\ pc' = pc
      BY <1>1 DEF CommitAppend, Commit, EndTransaction, PushInv, PTypeOK
    <2>2. Next
      BY <2>1 DEF Next, Write
    <2> QED BY <2>1, <2>2, OutboxStep
  <1>2. ASSUME NEW w \in Pushers, PushDrain(w) PROVE PushInv'
    BY <1>2, DrainStep, PubSubAssumption DEF PushDrain
  <1>3. ASSUME NEW w \in Drains \ Pushers, ManualDrain(w) PROVE PushInv'
    BY <1>3, DrainStep DEF ManualDrain
  <1>4. ASSUME NEW w \in Pushers, Ignore(w) PROVE PushInv'
    <2>1. serving[w] \in Unparseable /\ serving[w] # NoMsg /\ Answer(w, TRUE)
      BY <1>4, PubSubAssumption DEF Ignore
    <2> QED BY <2>1, AnswerStep
  <1>5. ASSUME NEW w \in Pushers, AppendRaises(w) \/ DrainRaised(w) PROVE PushInv'
    <2>1. serving[w] # NoMsg /\ Answer(w, FALSE)
      BY <1>5, PubSubAssumption DEF AppendRaises, DrainRaised
    <2> QED BY <2>1, AnswerStep
  <1>6. ASSUME NEW w \in Pushers, Accept(w) PROVE PushInv'
    <2>1. serving[w] # NoMsg /\ pc[w] = "done" /\ Answer(w, TRUE)
      BY <1>6 DEF Accept
    <2>2. rowOf[w] \in RowsOf(serving[w]) \cap Published
      <3>1. rowOf[w] \in Published
        BY <2>1, ServingByRows DEF PushInv
      <3>2. rowOf[w] \in Ids /\ source[rowOf[w]] = serving[w]
        BY <2>1, <3>1, ServingByRows, RowZero DEF PushInv, Published
      <3> QED BY <3>1, <3>2 DEF RowsOf
    <2> QED BY <2>1, <2>2, AnswerStep
  <1>7. ASSUME NEW m \in Msgs, Expire(m) PROVE PushInv'
    <2>1. /\ sub' = [sub EXCEPT ![m] = "expired"]
          /\ UNCHANGED <<vars, deliveries, serving, rowOf, source>>
      BY <1>7 DEF Expire
    <2>2. PTypeOK'
      BY <2>1 DEF PushInv, PTypeOK, TypeOK, vars, rowVars, history
    <2>3. ServingInv' /\ AckedIsRecorded'
      BY <2>1 DEF PushInv, PTypeOK, ServingInv, Appended, AckedIsRecorded, RowsOf, Published,
                  vars, rowVars, history
    <2> QED BY <2>2, <2>3 DEF PushInv
  <1>8. CASE UNCHANGED pvars
    BY <1>8 DEF pvars, pushVars, vars, rowVars, history, PushInv, PTypeOK, TypeOK, ServingInv,
                Appended, AckedIsRecorded, RowsOf, Published
  <1> QED BY <1>1, <1>2, <1>3, <1>4, <1>5, <1>6, <1>7, <1>8, DeliverStep, AppendStep, CrashStep
          DEF PNext, Request

\* The inductive invariant of the endpoint.
THEOREM PushCorrect == PSpec => []PushInv
  <1>1. PInit => PushInv
    <2> SUFFICES ASSUME PInit PROVE PushInv
      OBVIOUS
    <2>1. TypeOK
      BY OutboxAssumption DEF PInit, Init, TypeOK
    <2> QED BY <2>1, PubSubAssumption
            DEF PInit, Init, PushInv, PTypeOK, ServingInv, AckedIsRecorded
  <1> QED BY <1>1, PushStep, PTL DEF PSpec

\* Every reachable state of the endpoint and of its outbox is well typed.
THEOREM PushTypeCorrect == PSpec => []PTypeOK
  BY PushCorrect, PTL DEF PushInv

\* A message that was acknowledged, and could be decoded, has its event in a
\* committed row, whichever instances died and whichever answers were lost.
THEOREM AckedStored == PSpec => []AckedIsRecorded
  BY PushCorrect, PTL DEF PushInv

----------------------------------------------------------------------------
(* An acknowledgement means that the event was dispatched, when one drain  *)
(* can take all rows there are. The row of a push is settled, or the drain *)
(* that the push runs still has it ahead.                                  *)

Settled(i) == state[i] = "dispatched" \/ event[i] \in Owned \cap (Poison \cup Flaky)

Draining(w) ==
  /\ batch[w] \subseteq Published
  /\ \A i \in Ids : pc[w] = "calling" /\ IsNext(w, i) => event[i] \in Owned
  /\ serving[w] # NoMsg /\ pc[w] \in {"loop", "calling", "called", "done"} =>
       Settled(rowOf[w]) \/ (pc[w] # "done" /\ rowOf[w] \in batch[w])

DispatchInv ==
  /\ \A w \in Pushers : Draining(w)
  /\ \A i \in Ids : source[i] # NoMsg => i \in Used
  /\ AckedIsDispatched

\* What every step does to the rows there are.
RowsKeep ==
  /\ Published \subseteq Published' /\ Used \subseteq Used'
  /\ \A i \in Used : /\ event'[i] = event[i]
                     /\ state[i] = "dispatched" => state'[i] = "dispatched"

LEMMA OutboxKeepsRows ==
  ASSUME TypeOK, [Next]_vars
  PROVE  RowsKeep
  <1> SUFFICES ASSUME NEW j \in Used
               PROVE  /\ event'[j] = event[j]
                      /\ state[j] = "dispatched" => state'[j] = "dispatched"
    BY RowsStay DEF RowsKeep
  <1>1. ASSUME NEW i \in Ids, Write(i)
        PROVE  event'[j] = event[j] /\ (state[j] = "dispatched" => state'[j] = "dispatched")
    BY <1>1 DEF Write, Insert, Commit, Rollback, EndTransaction, Used, TypeOK
  <1>2. ASSUME NEW w \in Drains, Start(w) \/ Crash(w)
        PROVE  event'[j] = event[j] /\ (state[j] = "dispatched" => state'[j] = "dispatched")
    BY <1>2 DEF Start, Select, SelectRaises, Crash, rowVars
  <1>3. ASSUME NEW w \in Drains, Step(w)
        PROVE  event'[j] = event[j] /\ (state[j] = "dispatched" => state'[j] = "dispatched")
    BY <1>3 DEF Step, Skip, Call, Mark, HandlerReturns, HandlerRaises, MarkRaises, Finish,
                MarkDispatched, rowVars, Used, TypeOK
  <1>4. CASE UNCHANGED vars
    BY <1>4 DEF vars
  <1> QED BY <1>1, <1>2, <1>3, <1>4 DEF Next

LEMMA SettledStays ==
  ASSUME RowsKeep, NEW i \in Used, Settled(i)
  PROVE  Settled(i)'
  BY DEF RowsKeep, Settled

\* A push that takes no step keeps what it holds.
LEMMA DrainingStays ==
  ASSUME PushInv, RowsKeep, NEW w \in Pushers, Draining(w),
         pc'[w] = pc[w], batch'[w] = batch[w],
         serving'[w] = serving[w], rowOf'[w] = rowOf[w]
  PROVE  Draining(w)'
  <1>1. batch'[w] \subseteq Published'
    BY DEF RowsKeep, Draining
  <1>2. ASSUME NEW i \in Ids, pc'[w] = "calling", IsNext(w, i)'
        PROVE  event'[i] \in Owned
    <2>1. IsNext(w, i) /\ i \in Used
      BY <1>2 DEF IsNext, Draining, Published, Used
    <2> QED BY <1>2, <2>1 DEF RowsKeep, Draining
  <1>3. ASSUME serving'[w] # NoMsg, pc'[w] \in {"loop", "calling", "called", "done"}
        PROVE  Settled(rowOf[w])' \/ (pc'[w] # "done" /\ rowOf'[w] \in batch'[w])
    <2>1. rowOf[w] \in Used
      BY <1>3, ServingByRows DEF PushInv, Published, Used
    <2> QED BY <1>3, <2>1, SettledStays DEF Draining, Settled
  <1> QED BY <1>1, <1>2, <1>3 DEF Draining, Settled

\* What was acknowledged stays dispatched.
LEMMA AckedStays ==
  ASSUME PushInv, DispatchInv, RowsKeep, \A i \in Used : source'[i] = source[i],
         NEW m \in Msgs \ Unparseable, sub[m] = "acked"
  PROVE  \E i \in RowsOf(m)' : Settled(i)'
  <1>1. PICK i \in RowsOf(m) : Settled(i)
    BY DEF DispatchInv, AckedIsDispatched, Settled
  <1>2. i \in Used
    BY <1>1, PubSubAssumption DEF RowsOf, DispatchInv
  <1> QED BY <1>1, <1>2, SettledStays DEF RowsOf

LEMMA RestStays ==
  ASSUME PushInv, DispatchInv, RowsKeep, UNCHANGED source,
         \A m \in Msgs \ Unparseable :
           sub'[m] = "acked" => sub[m] = "acked" \/ \E i \in RowsOf(m) : i \in Used /\ Settled(i)
  PROVE  /\ \A i \in Ids : source'[i] # NoMsg => i \in Used'
         /\ AckedIsDispatched'
  <1>1. \A i \in Ids : source'[i] # NoMsg => i \in Used'
    BY DEF DispatchInv, RowsKeep
  <1>2. ASSUME NEW m \in Msgs \ Unparseable, sub'[m] = "acked"
        PROVE  \E i \in RowsOf(m)' : Settled(i)'
    <2>1. CASE sub[m] = "acked"
      BY <2>1, AckedStays
    <2>2. CASE \E i \in RowsOf(m) : i \in Used /\ Settled(i)
      BY <2>2, SettledStays DEF RowsOf
    <2> QED BY <1>2, <2>1, <2>2
  <1>3. AckedIsDispatched'
    BY <1>2 DEF AckedIsDispatched, Settled
  <1> QED BY <1>1, <1>3

----------------------------------------------------------------------------
(* The drain of a push.                                                    *)

\* The rows that wait fit in one drain.
PendingFits == Cardinality(Pending) <= Limit

LEMMA DrainsBatchApart ==
  ASSUME TypeOK, NEW w \in Drains, Start(w) \/ Step(w) \/ Crash(w)
  PROVE  \A v \in Drains \ {w} : batch'[v] = batch[v]
  BY DEF Start, Select, SelectRaises, Crash, Step, Skip, Call, Mark, HandlerReturns,
         HandlerRaises, MarkRaises, Finish, Drop, Goto, rowVars, TypeOK

\* Its own row is in the batch it selects, and leaves it settled.
LEMMA PushDrainStep ==
  ASSUME PendingFits, PushInv, PushInv', NEW w \in Pushers, Draining(w), RowsKeep,
         PushDrain(w)
  PROVE  Draining(w)'
  <1>1. /\ w \in Drains /\ TypeOK /\ serving[w] # NoMsg /\ UNCHANGED pushVars
        /\ rowOf[w] \in Published /\ rowOf[w] \in Ids
    BY PubSubAssumption DEF PushDrain, Appended, Published, PushInv, PTypeOK
  <1> DEFINE r == rowOf[w]
  <1>2. CASE Select(w)
    <2>1. batch'[w] = Pending /\ pc'[w] = "loop" /\ UNCHANGED rowVars
      <3>1. Oldest(Pending, Limit) = Pending
        BY OldestIsAll, PendingIsFinite, OutboxAssumption DEF PendingFits
      <3> QED BY <1>1, <1>2, <3>1 DEF Select, Goto, TypeOK
    <2>2. Pending \subseteq Published' /\ (Settled(r)' \/ r \in Pending)
      BY <1>1, <2>1 DEF Pending, Published, Settled, pushVars, rowVars
    <2> QED BY <1>1, <2>1, <2>2 DEF Draining, pushVars
  <1>3. CASE SelectRaises(w)
    <2>1. batch'[w] = batch[w] /\ pc'[w] = "raised"
      BY <1>1, <1>3 DEF SelectRaises, Goto, TypeOK
    <2> QED BY <2>1 DEF Draining, RowsKeep
  <1>4. ASSUME NEW i \in Ids, Skip(w, i) \/ Mark(w, i)
        PROVE  Draining(w)'
    <2>1. /\ batch'[w] = batch[w] \ {i} /\ pc'[w] = "loop" /\ state'[i] = "dispatched"
          /\ pc[w] \in {"loop", "called"}
      BY <1>1, <1>4 DEF Skip, Mark, MarkDispatched, Drop, Goto, TypeOK
    <2>2. Settled(r) \/ r \in batch[w]
      BY <1>1, <2>1 DEF Draining
    <2>3. Settled(r)' \/ r \in batch'[w]
      <3>1. CASE r = i
        BY <1>1, <2>1, <3>1 DEF Settled, pushVars
      <3>2. CASE r # i
        BY <1>1, <2>1, <2>2, <3>2, SettledStays DEF Published, Used, Settled, pushVars
      <3> QED BY <3>1, <3>2
    <2> QED BY <1>1, <2>1, <2>3 DEF Draining, RowsKeep, pushVars
  <1>5. ASSUME NEW i \in Ids, Call(w, i)
        PROVE  Draining(w)'
    <2>1. /\ batch' = batch /\ pc'[w] = "calling" /\ UNCHANGED rowVars /\ pc[w] = "loop"
          /\ IsNext(w, i) /\ event[i] \in Owned
      BY <1>1, <1>5 DEF Call, Goto, TypeOK
    <2>2. \A j \in Ids : IsNext(w, j)' => j = i
      BY <1>1, <2>1, NextIsUnique DEF IsNext
    <2> QED BY <1>1, <2>1, <2>2 DEF Draining, Settled, RowsKeep, pushVars, rowVars
  <1>6. ASSUME NEW i \in Ids, HandlerReturns(w, i)
        PROVE  Draining(w)'
    <2>1. /\ batch' = batch /\ pc'[w] = "called" /\ UNCHANGED rowVars /\ pc[w] = "calling"
      BY <1>1, <1>6 DEF HandlerReturns, Goto, TypeOK
    <2> QED BY <1>1, <2>1 DEF Draining, Settled, RowsKeep, pushVars, rowVars
  <1>7. ASSUME NEW i \in Ids, HandlerRaises(w, i)
        PROVE  Draining(w)'
    <2>1. /\ batch'[w] = batch[w] \ {i} /\ pc'[w] = "loop" /\ UNCHANGED rowVars
          /\ pc[w] = "calling" /\ IsNext(w, i) /\ event[i] \in Poison \cup Flaky
      BY <1>1, <1>7 DEF HandlerRaises, Drop, Goto, TypeOK
    <2>2. event[i] \in Owned
      BY <2>1 DEF Draining
    <2>3. Settled(r)' \/ r \in batch'[w]
      BY <1>1, <2>1, <2>2 DEF Draining, Settled, pushVars, rowVars
    <2> QED BY <1>1, <2>1, <2>3 DEF Draining, RowsKeep, pushVars
  <1>8. ASSUME NEW i \in Ids, MarkRaises(w, i)
        PROVE  Draining(w)'
    <2>1. batch'[w] = {} /\ pc'[w] = "raised"
      BY <1>1, <1>8 DEF MarkRaises, Goto, TypeOK
    <2> QED BY <2>1 DEF Draining
  <1>9. CASE Finish(w)
    <2>1. batch' = batch /\ batch[w] = {} /\ pc[w] = "loop" /\ pc'[w] = "done" /\ UNCHANGED rowVars
      BY <1>1, <1>9 DEF Finish, Goto, TypeOK
    <2> QED BY <1>1, <2>1 DEF Draining, Settled, pushVars, rowVars
  <1> QED BY <1>2, <1>3, <1>4, <1>5, <1>6, <1>7, <1>8, <1>9 DEF PushDrain, Start, Step

LEMMA DispatchStep ==
  ASSUME PendingFits, PushInv, PushInv', DispatchInv, [PNext]_pvars
  PROVE  DispatchInv'
  <1> USE DEF PushInv
  <1>1. ASSUME NEW w \in Pushers, NEW m \in Msgs, Deliver(w, m) PROVE DispatchInv'
    <2>1. /\ serving' = [serving EXCEPT ![w] = m] /\ rowOf' = [rowOf EXCEPT ![w] = 0]
          /\ pc' = [pc EXCEPT ![w] = "idle"]
          /\ UNCHANGED <<rowVars, batch, faults, history, sub, source>>
      BY <1>1 DEF Deliver, Goto
    <2>2. RowsKeep
      BY <2>1 DEF RowsKeep, Published, Used, rowVars
    <2>3. Draining(w)'
      BY <2>1, <2>2, PubSubAssumption DEF Draining, DispatchInv, RowsKeep, PTypeOK, TypeOK
    <2>4. ASSUME NEW v \in Pushers \ {w} PROVE Draining(v)'
      <3>1. /\ pc'[v] = pc[v] /\ batch'[v] = batch[v]
            /\ serving'[v] = serving[v] /\ rowOf'[v] = rowOf[v]
        BY <2>1, <2>4, PubSubAssumption DEF PTypeOK, TypeOK
      <3> QED BY <2>2, <2>4, <3>1, DrainingStays DEF DispatchInv
    <2> QED BY <2>1, <2>2, <2>3, <2>4, RestStays DEF DispatchInv
  <1>2. ASSUME NEW w \in Pushers, NEW i \in Ids, Append(w, i) PROVE DispatchInv'
    <2>1. /\ Insert(i, Carries[serving[w]]) /\ rowOf[w] = 0 /\ serving[w] \in Msgs
          /\ rowOf' = [rowOf EXCEPT ![w] = i] /\ source' = [source EXCEPT ![i] = serving[w]]
          /\ UNCHANGED <<sub, deliveries, serving, pc, batch>>
      BY <1>2 DEF Append, Insert
    <2>2. RowsKeep
      <3>1. Next
        BY <2>1, PubSubAssumption DEF Next, Write
      <3> QED BY <3>1, OutboxKeepsRows DEF PTypeOK
    <2>3. i \notin Used /\ i \in Used'
      BY <2>1 DEF Insert, Used, PTypeOK, TypeOK
    <2>4. Draining(w)'
      <3>1. pc[w] \notin {"loop", "calling", "called", "done"}
        BY <2>1, ServingByRows, RowZero, PubSubAssumption DEF Published
      <3> QED BY <2>1, <2>2, <3>1 DEF Draining, DispatchInv, RowsKeep
    <2>5. ASSUME NEW v \in Pushers \ {w} PROVE Draining(v)'
      <3>1. rowOf'[v] = rowOf[v]
        BY <2>1, <2>5 DEF PTypeOK
      <3> QED BY <2>1, <2>2, <2>5, <3>1, DrainingStays DEF DispatchInv
    <2>6. \A j \in Used : source'[j] = source[j]
      BY <2>1, <2>3 DEF PTypeOK, Used
    <2>7. AckedIsDispatched'
      BY <2>1, <2>2, <2>6, AckedStays DEF AckedIsDispatched, Settled
    <2>8. \A j \in Ids : source'[j] # NoMsg => j \in Used'
      BY <2>1, <2>2, <2>3 DEF DispatchInv, RowsKeep, PTypeOK
    <2> QED BY <2>4, <2>5, <2>7, <2>8 DEF DispatchInv
  <1>3. ASSUME NEW w \in Pushers, CommitAppend(w) PROVE DispatchInv'
    <2>1. Commit(rowOf[w]) /\ rowOf[w] \in Ids /\ UNCHANGED <<pc, batch, pushVars>>
      BY <1>3 DEF CommitAppend, Commit, EndTransaction, PTypeOK
    <2>2. RowsKeep
      <3>1. Next
        BY <2>1 DEF Next, Write
      <3> QED BY <3>1, OutboxKeepsRows DEF PTypeOK
    <2> QED BY <2>1, <2>2, DrainingStays, RestStays DEF DispatchInv, pushVars
  <1>4. ASSUME NEW w \in Drains, Start(w) \/ Step(w) \/ Crash(w), UNCHANGED pushVars,
               w \in Pushers => PushDrain(w)
        PROVE  DispatchInv'
    <2>1. RowsKeep
      BY <1>4, OutboxKeepsRows DEF Next, PTypeOK
    <2>2. ASSUME NEW v \in Pushers PROVE Draining(v)'
      <3>1. CASE v = w
        BY <1>4, <2>1, <2>2, <3>1, PushDrainStep DEF DispatchInv
      <3>2. CASE v # w
        <4>1. pc'[v] = pc[v] /\ batch'[v] = batch[v]
          BY <1>4, <2>2, <3>2, DrainsApart, DrainsBatchApart, PubSubAssumption DEF PTypeOK
        <4> QED BY <1>4, <2>1, <2>2, <4>1, DrainingStays DEF DispatchInv, pushVars
      <3> QED BY <3>1, <3>2
    <2> QED BY <1>4, <2>1, <2>2, RestStays DEF DispatchInv, pushVars
  <1>5. ASSUME NEW w \in Pushers, NEW ack \in BOOLEAN, serving[w] # NoMsg, Answer(w, ack),
               ack => serving[w] \in Unparseable \/ pc[w] = "done"
        PROVE  DispatchInv'
    <2>1. /\ \/ sub' = [sub EXCEPT ![serving[w]] = IF ack THEN "acked" ELSE @]
             \/ sub' = sub
          /\ serving' = [serving EXCEPT ![w] = NoMsg]
          /\ UNCHANGED <<rowVars, pc, batch, rowOf, source>>
      BY <1>5 DEF Answer
    <2>2. RowsKeep
      BY <2>1 DEF RowsKeep, Published, Used, rowVars
    <2>3. Draining(w)'
      BY <2>1 DEF Draining, DispatchInv, IsNext, Published, PTypeOK, rowVars
    <2>4. ASSUME NEW v \in Pushers \ {w} PROVE Draining(v)'
      <3>1. serving'[v] = serving[v]
        BY <2>1, <2>4 DEF PTypeOK
      <3> QED BY <2>1, <2>2, <2>4, <3>1, DrainingStays DEF DispatchInv
    <2>5. ASSUME NEW m \in Msgs \ Unparseable, sub'[m] = "acked", sub[m] # "acked"
          PROVE  \E i \in RowsOf(m) : i \in Used /\ Settled(i)
      <3>1. m = serving[w] /\ pc[w] = "done"
        BY <1>5, <2>1, <2>5 DEF PTypeOK
      <3>2. rowOf[w] \in Published /\ source[rowOf[w]] = m
        BY <1>5, <3>1, ServingByRows, RowZero DEF Published
      <3>3. Settled(rowOf[w])
        BY <1>5, <3>1 DEF DispatchInv, Draining
      <3> QED BY <3>2, <3>3 DEF RowsOf, Published, Used
    <2> QED BY <2>1, <2>2, <2>3, <2>4, <2>5, RestStays DEF DispatchInv
  <1>6. ASSUME NEW w \in Pushers, CrashPush(w) PROVE DispatchInv'
    <2>1. /\ state' = [i \in Ids |-> IF i = rowOf[w] /\ state[i] = "inflight"
                                       THEN "rolledback" ELSE state[i]]
          /\ serving' = [serving EXCEPT ![w] = NoMsg]
          /\ pc' = [pc EXCEPT ![w] = "idle"] /\ batch' = [batch EXCEPT ![w] = {}]
          /\ UNCHANGED <<event, sub, rowOf, source>>
      BY <1>6 DEF CrashPush, Goto
    <2>2. RowsKeep
      BY <2>1 DEF RowsKeep, Published, Used
    <2>3. Draining(w)'
      BY <2>1, PubSubAssumption DEF Draining, PTypeOK, TypeOK
    <2>4. ASSUME NEW v \in Pushers \ {w} PROVE Draining(v)'
      <3>1. pc'[v] = pc[v] /\ batch'[v] = batch[v] /\ serving'[v] = serving[v]
        BY <2>1, <2>4, PubSubAssumption DEF PTypeOK, TypeOK
      <3> QED BY <2>1, <2>2, <2>4, <3>1, DrainingStays DEF DispatchInv
    <2> QED BY <2>1, <2>2, <2>3, <2>4, RestStays DEF DispatchInv
  <1>7. ASSUME NEW m \in Msgs, Expire(m) PROVE DispatchInv'
    <2>1. sub' = [sub EXCEPT ![m] = "expired"] /\ UNCHANGED <<vars, serving, rowOf, source>>
      BY <1>7 DEF Expire
    <2>2. RowsKeep
      BY <2>1 DEF RowsKeep, Published, Used, vars
    <2> QED BY <2>1, <2>2, DrainingStays, RestStays DEF DispatchInv, PTypeOK, vars
  <1>8. CASE UNCHANGED pvars
    <2>1. RowsKeep
      BY <1>8 DEF RowsKeep, Published, Used, pvars, vars
    <2> QED BY <1>8, <2>1, DrainingStays, RestStays DEF DispatchInv, pvars, pushVars, vars
  <1>9. ASSUME NEW w \in Pushers, PushDrain(w) PROVE DispatchInv'
    BY <1>4, <1>9, PubSubAssumption DEF PushDrain
  <1>10. ASSUME NEW w \in Drains \ Pushers, ManualDrain(w) PROVE DispatchInv'
    BY <1>4, <1>10 DEF ManualDrain
  <1>11. ASSUME NEW w \in Pushers, Ignore(w) \/ AppendRaises(w) \/ Accept(w) \/ DrainRaised(w)
         PROVE  DispatchInv'
    BY <1>5, <1>11, PubSubAssumption DEF Ignore, AppendRaises, Accept, DrainRaised
  <1> QED BY <1>1, <1>2, <1>3, <1>6, <1>7, <1>8, <1>9, <1>10, <1>11 DEF PNext, Request

\* As long as the rows that wait fit in one drain, the success a push answers
\* means that its event was dispatched, unless its handler can fail: whichever
\* drains ran at the same time, and whatever failed.
THEOREM AckedDispatched == PSpec /\ []PendingFits => []AckedIsDispatched
  <1>1. PInit => DispatchInv
    BY PubSubAssumption, OutboxAssumption
       DEF PInit, Init, DispatchInv, Draining, AckedIsDispatched
  <1>2. PendingFits /\ PushInv /\ PushInv' /\ DispatchInv /\ [PNext]_pvars => DispatchInv'
    BY DispatchStep
  <1>3. DispatchInv => AckedIsDispatched
    BY DEF DispatchInv
  <1> QED BY <1>1, <1>2, <1>3, PushCorrect, PTL DEF PSpec

\* In particular when there are no more rows than LIMIT.
COROLLARY AckedDispatchedSmall ==
  ASSUME MaxId <= Limit
  PROVE  PSpec => []AckedIsDispatched
  <1>1. PendingFits
    <2>1. IsFiniteSet(Ids) /\ Cardinality(Ids) = MaxId /\ Pending \in SUBSET Ids
      BY OutboxAssumption, FS_Interval DEF Ids, Pending
    <2>2. Cardinality(Pending) <= Cardinality(Ids) /\ Cardinality(Pending) \in Nat
      BY <2>1, FS_Subset, FS_CardinalityType
    <2> QED BY <2>1, <2>2, OutboxAssumption DEF PendingFits
  <1>2. []PendingFits
    BY <1>1, PTL
  <1> QED BY <1>2, AckedDispatched, PTL

----------------------------------------------------------------------------
(* What holds of the outbox holds behind the endpoint. PSpec is no         *)
(* refinement of Spec: a delivery restarts a drain that ended, an answer   *)
(* may be lost, and an instance that dies takes its open transaction with  *)
(* it. But each of its steps is one of the outbox or a quiet one, which    *)
(* rests drains that ended and rolls open transactions back, and the       *)
(* invariants of the outbox survive the quiet steps.                       *)

Quiet ==
  /\ UNCHANGED <<event, batch, history>> /\ faults <= faults'
  /\ \A w \in Drains : pc'[w] = pc[w] \/ (~Active(w) /\ pc'[w] = "idle")
  /\ \A i \in Ids : \/ state'[i] = state[i]
                    \/ state[i] = "inflight" /\ state'[i] = "rolledback"

\* A request drains only while it serves, and only a message it could store.
StoredOnly ==
  \A w \in Pushers :
    /\ Active(w) => serving[w] # NoMsg
    /\ serving[w] # NoMsg /\ rowOf[w] # 0 => serving[w] \notin Unparseable \cup Unstorable

LEMMA RefusedIsInactive ==
  ASSUME PushInv, StoredOnly, NEW w \in Pushers, serving[w] \in Unparseable \cup Unstorable
  PROVE  ~Active(w)
  BY RowZero, PubSubAssumption DEF PushInv, ServingInv, StoredOnly, Active

LEMMA AnswerIsQuiet ==
  ASSUME TypeOK, NEW w \in Pushers, NEW ack \in BOOLEAN, Answer(w, ack)
  PROVE  Quiet
  BY DEF Answer, Fault, Quiet, rowVars, history, TypeOK

LEMMA CrashIsOutbox ==
  ASSUME PushInv, HandlingInv, NEW w \in Pushers, CrashPush(w)
  PROVE  [Next]_vars \/ Quiet
  <1>1. /\ state' = [i \in Ids |-> IF i = rowOf[w] /\ state[i] = "inflight"
                                     THEN "rolledback" ELSE state[i]]
        /\ serving[w] # NoMsg /\ Fault /\ Forget(w) /\ Goto(w, "idle")
        /\ batch' = [batch EXCEPT ![w] = {}] /\ UNCHANGED <<event, returns, overlap>>
        /\ TypeOK /\ w \in Drains
    BY PubSubAssumption DEF CrashPush, PushInv, PTypeOK
  <1>2. CASE Active(w)
    <2>1. Appended(w)
      BY <1>1, <1>2 DEF PushInv, ServingInv, Active
    <2>2. state' = state
      BY <1>1, <2>1 DEF Appended, TypeOK
    <2> QED BY <1>1, <1>2, <2>2 DEF Crash, Next, rowVars
  <1>3. CASE ~Active(w)
    <2>1. batch[w] = {} /\ pc[w] # "called"
      BY <1>1, <1>3 DEF HandlingInv, BatchInv, Active
    <2>2. batch' = batch /\ lost' = lost
      BY <1>1, <2>1 DEF Forget, TypeOK
    <2> QED BY <1>1, <1>3, <2>2 DEF Quiet, Fault, Goto, history, TypeOK
  <1> QED BY <1>2, <1>3

LEMMA OutboxOrQuiet ==
  ASSUME PushInv, StoredOnly, HandlingInv, [PNext]_pvars
  PROVE  [Next]_vars \/ Quiet
  <1> USE DEF PushInv, PTypeOK
  <1>1. ASSUME NEW w \in Pushers, NEW m \in Msgs, Deliver(w, m) PROVE Quiet
    <2>1. ~Active(w)
      BY <1>1 DEF Deliver, StoredOnly
    <2> QED BY <1>1, <2>1 DEF Deliver, Goto, Quiet, rowVars, history, TypeOK
  <1>2. ASSUME NEW w \in Pushers, NEW i \in Ids, Append(w, i) PROVE Next
    BY <1>2, PubSubAssumption DEF Append, Next, Write
  <1>3. ASSUME NEW w \in Pushers, CommitAppend(w) PROVE Next
    <2>1. rowOf[w] \in Ids /\ Commit(rowOf[w])
      BY <1>3 DEF CommitAppend
    <2> QED BY <2>1 DEF Next, Write
  <1>4. ASSUME NEW w \in Pushers, PushDrain(w) PROVE Next
    BY <1>4, PubSubAssumption DEF PushDrain, Next
  <1>5. ASSUME NEW w \in Drains \ Pushers, ManualDrain(w) PROVE Next
    BY <1>5 DEF ManualDrain, Next
  <1>6. ASSUME NEW w \in Pushers, Ignore(w) \/ AppendRaises(w) \/ Accept(w) \/ DrainRaised(w)
        PROVE  Quiet
    BY <1>6, AnswerIsQuiet DEF Ignore, AppendRaises, Accept, DrainRaised
  <1>7. ASSUME NEW m \in Msgs, Expire(m) PROVE UNCHANGED vars
    BY <1>7 DEF Expire
  <1>8. CASE UNCHANGED pvars
    BY <1>8 DEF pvars
  <1> QED BY <1>1, <1>2, <1>3, <1>4, <1>5, <1>6, <1>7, <1>8, CrashIsOutbox DEF PNext, Request

LEMMA StoredOnlyStep ==
  ASSUME PushInv, StoredOnly, [PNext]_pvars
  PROVE  StoredOnly'
  <1> USE DEF PushInv, PTypeOK
  <1>1. ASSUME NEW w \in Pushers, NEW m \in Msgs, Deliver(w, m) PROVE StoredOnly'
    BY <1>1, PubSubAssumption DEF Deliver, Goto, StoredOnly, Active, TypeOK
  <1>2. ASSUME NEW w \in Pushers, NEW i \in Ids, Append(w, i) PROVE StoredOnly'
    BY <1>2 DEF Append, Insert, StoredOnly, Active
  <1>3. ASSUME NEW w \in Pushers, CommitAppend(w) PROVE StoredOnly'
    BY <1>3 DEF CommitAppend, Commit, EndTransaction, StoredOnly, Active, pushVars
  <1>4. ASSUME NEW w \in Drains, Start(w) \/ Step(w) \/ Crash(w), UNCHANGED pushVars,
               w \in Pushers => serving[w] # NoMsg
        PROVE  StoredOnly'
    BY <1>4, DrainsApart, PubSubAssumption DEF StoredOnly, Active, pushVars
  <1>5. ASSUME NEW w \in Pushers, NEW ack \in BOOLEAN, Answer(w, ack), ~Active(w)
        PROVE  StoredOnly'
    BY <1>5 DEF Answer, StoredOnly, Active
  <1>6. ASSUME NEW w \in Pushers, CrashPush(w) PROVE StoredOnly'
    BY <1>6, PubSubAssumption DEF CrashPush, Goto, StoredOnly, Active, TypeOK
  <1>7. ASSUME NEW m \in Msgs, Expire(m) PROVE StoredOnly'
    BY <1>7 DEF Expire, StoredOnly, Active, vars
  <1>8. CASE UNCHANGED pvars
    BY <1>8 DEF pvars, pushVars, vars, StoredOnly, Active
  <1>9. ASSUME NEW w \in Pushers, PushDrain(w) PROVE StoredOnly'
    BY <1>4, <1>9, PubSubAssumption DEF PushDrain
  <1>10. ASSUME NEW w \in Drains \ Pushers, ManualDrain(w) PROVE StoredOnly'
    BY <1>4, <1>10 DEF ManualDrain
  <1>11. ASSUME NEW w \in Pushers, Ignore(w) \/ AppendRaises(w) PROVE StoredOnly'
    BY <1>5, <1>11, RefusedIsInactive DEF Ignore, AppendRaises
  <1>12. ASSUME NEW w \in Pushers, Accept(w) \/ DrainRaised(w) PROVE StoredOnly'
    BY <1>5, <1>12 DEF Accept, DrainRaised, Active
  <1> QED BY <1>1, <1>2, <1>3, <1>6, <1>7, <1>8, <1>9, <1>10, <1>11, <1>12 DEF PNext, Request

----------------------------------------------------------------------------
(* The quiet steps.                                                        *)

LEMMA QuietHandling ==
  ASSUME TypeOK, HandlingInv, Quiet
  PROVE  HandlingInv'
  BY DEF Quiet, history, HandlingInv, BatchInv, EventInv, DispatchedWasHandled,
         OnlyCommittedHandled, IsNext, Active, TypeOK

\* No drain comes to a mark or leaves it.
LEMMA QuietMarks ==
  ASSUME Quiet, NEW w \in Drains
  PROVE  /\ \A i \in Ids : AtMark(w, i)' <=> AtMark(w, i)
         /\ Active(w)' => Active(w)
  BY DEF Quiet, AtMark, IsNext, Active

LEMMA QuietSequential ==
  ASSUME TypeOK, HandlingInv, SequentialInv, Quiet
  PROVE  SequentialInv'
  <1> SUFFICES ASSUME ~overlap' PROVE SequentialInv'
    BY DEF SequentialInv
  <1>1. ~overlap /\ UNCHANGED <<batch, returns, lost>>
    BY DEF Quiet, history
  <1>2. \A i \in Ids : Marking(i)' <=> Marking(i)
    BY QuietMarks DEF Marking, AtMark
  <1>3. OneActive'
    BY <1>1, QuietMarks DEF SequentialInv, OneActive
  <1>4. \A i \in Ids : (state[i] = "pending") <=> (state'[i] = "pending")
    BY DEF Quiet
  <1> QED BY <1>1, <1>2, <1>3, <1>4 DEF SequentialInv, TypeOK

LEMMA QuietEffects ==
  ASSUME TypeOK, NEW i \in Ids, EffectsOf(i), Quiet
  PROVE  EffectsOf(i)'
  <1>1. Marks(i)' = Marks(i) /\ Waits(i)' = Waits(i)
    BY QuietMarks DEF Marks, Waits, Quiet
  <1> QED BY <1>1, NoEffect DEF Quiet, history

LEMMA QuietStream ==
  ASSUME TypeOK, Quiet
  PROVE  UNCHANGED Stream!vars
  <1>1. StreamStatus' = StreamStatus
    BY DEF Quiet, StreamStatus
  <1>2. StreamContent' = StreamContent
    BY DEF Quiet, StreamContent, Published
  <1> QED BY <1>1, <1>2 DEF Stream!vars, Quiet, history

----------------------------------------------------------------------------
(* The guarantees of the outbox, behind the endpoint.                      *)

BehindInv == StoredOnly /\ HandlingInv /\ SequentialInv /\ \A i \in Ids : EffectsOf(i)

LEMMA BehindInit == PInit => BehindInv
  <1> SUFFICES ASSUME PInit PROVE BehindInv
    OBVIOUS
  <1>1. StoredOnly /\ HandlingInv /\ SequentialInv
    BY PubSubAssumption
       DEF PInit, Init, StoredOnly, HandlingInv, BatchInv, EventInv, DispatchedWasHandled,
           OnlyCommittedHandled, SequentialInv, OneActive, Marking, Active, IsNext
  <1>2. ASSUME NEW i \in Ids PROVE EffectsOf(i)
    <2>1. state[i] # "dispatched" /\ returns[i] = 0 /\ lost[i] = 0
      BY DEF PInit, Init
    <2> QED BY <2>1, HoldersAreFew DEF EffectsOf
  <1> QED BY <1>1, <1>2 DEF BehindInv

LEMMA BehindStep ==
  ASSUME PushInv, PushInv', BehindInv, [PNext]_pvars
  PROVE  BehindInv'
  <1> USE DEF BehindInv, PushInv, PTypeOK
  <1>1. StoredOnly'
    BY StoredOnlyStep
  <1>2. CASE [Next]_vars
    <2>1. HandlingInv' /\ SequentialInv'
      BY <1>2, HandlingStep, SequentialStep
    <2>2. \A i \in Ids : EffectsOf(i)'
      BY <1>2, EffectStep
    <2> QED BY <1>1, <2>1, <2>2
  <1>3. CASE Quiet
    <2>1. HandlingInv' /\ SequentialInv'
      BY <1>3, QuietHandling, QuietSequential
    <2>2. \A i \in Ids : EffectsOf(i)'
      BY <1>3, QuietEffects
    <2> QED BY <1>1, <2>1, <2>2
  <1> QED BY <1>2, <1>3, OutboxOrQuiet

THEOREM BehindCorrect == PSpec => []BehindInv
  BY BehindInit, BehindStep, PushCorrect, PTL DEF PSpec

\* Whatever becomes of the requests, an owned event is dispatched only after a
\* handler completed for it, and no handler completes for an uncommitted row.
THEOREM PushedAreHandled == PSpec => []DispatchedWasHandled /\ []OnlyCommittedHandled
  BY BehindCorrect, PTL DEF BehindInv, HandlingInv

\* Redeliveries add rows, never effects to a row: behind the endpoint too each
\* row takes effect once and once for each lost mark, or, when drains overlap,
\* once for each of them.
THEOREM PushedTakeEffectOnce == PSpec => []RedeliveredOnlyIfLost /\ []EffectsBounded
  <1>1. BehindInv => RedeliveredOnlyIfLost
    BY DEF BehindInv, SequentialInv, RedeliveredOnlyIfLost
  <1>2. TypeOK /\ BehindInv => EffectsBounded
    <2> SUFFICES ASSUME TypeOK, BehindInv, NEW i \in Ids
                 PROVE  returns[i] <= lost[i] + Cardinality(Drains)
      BY DEF EffectsBounded
    <2>1. EffectsOf(i) /\ returns[i] \in Nat /\ lost[i] \in Nat
      BY DEF TypeOK, BehindInv
    <2> QED BY <2>1, HoldersAreFew DEF EffectsOf
  <1> QED BY <1>1, <1>2, BehindCorrect, PushTypeCorrect, PTL DEF PTypeOK

\* The stream behind the endpoint keeps its contract: deliveries, redeliveries,
\* lost answers and dying instances are invisible to it.
THEOREM PushedStream == PSpec => KeepsStreamContract
  <1>1. PInit => Stream!Init
    BY DEF PInit, Init, Stream!Init, StreamStatus, StreamContent, Published
  <1>2. PushInv /\ BehindInv /\ [PNext]_pvars => [Stream!Next]_(Stream!vars)
    BY OutboxOrQuiet, StreamStep, QuietStream DEF PushInv, PTypeOK, BehindInv
  <1> QED BY <1>1, <1>2, BehindCorrect, PushCorrect, PTL
          DEF PSpec, KeepsStreamContract, Stream!Spec

\* Neither a push nor its redelivery digs a row out: what is buried behind the
\* endpoint stays so, since pubsub_push drains by the same drain_once.
THEOREM PushedBuriedStays == PSpec => BuriedForGood
  <1>1. PInit => BurialInv
    BY DEF PInit, Init, BurialInv
  <1>2. TypeOK /\ Quiet /\ BurialInv => BurialInv'
    BY DEF Quiet, history, BurialInv
  <1>3. PushInv /\ PushInv' /\ BehindInv /\ BurialInv /\ [PNext]_pvars => BurialInv'
    BY <1>2, BurialStep, OutboxOrQuiet DEF PushInv, PTypeOK, BehindInv
  <1>4. PSpec => []BurialInv
    BY <1>1, <1>3, BehindCorrect, PushCorrect, PTL DEF PSpec
  <1>5. ASSUME TypeOK, Quiet, NEW i \in Ids, Buried(i) PROVE Buried(i)'
    <2>1. \A j \in Ids : state[j] = "pending" => state'[j] = "pending" /\ event'[j] = event[j]
      BY <1>5 DEF Quiet
    <2>2. \/ \E j \in Ids : j <= i /\ state'[j] = "pending" /\ ~Readable(event'[j])
          \/ Cardinality({j \in Ids : j < i /\ Stuck(j)}') >= Limit
      BY <1>5, <2>1, ReasonStays
    <2> QED BY <1>5, <2>1, <2>2 DEF Quiet, Buried
  <1>6. PushInv /\ BehindInv /\ BurialInv /\ [PNext]_pvars
          => [\A i \in Ids : Buried(i) => Buried(i)']_vars
    BY <1>5, BuriedStep, OutboxOrQuiet DEF PushInv, PTypeOK, BehindInv
  <1> QED BY <1>4, <1>6, BehindCorrect, PushCorrect, PTL DEF PSpec, BuriedForGood

----------------------------------------------------------------------------
(* A message takes effect at most once for each delivery and once for each *)
(* fault. Every row costs a delivery, and every effect of a row but the    *)
(* first, for which the row is spent, costs a lost mark.                   *)

Appending(m) == {w \in Pushers : Serves(w, m) /\ rowOf[w] = 0}

DeliveryInv ==
  /\ \A i \in Ids : source[i] # NoMsg => i \in Used
  /\ \A m \in Msgs :
       Cardinality(RowsOf(m)) + Cardinality(Appending(m)) <= deliveries[m]

Spent(m) == {i \in RowsOf(m) : state[i] = "dispatched" \/ Marking(i)}

Paid(m) ==
  /\ IsFiniteSet(EffectsFor(m))
  /\ Cardinality(EffectsFor(m)) <= Cardinality(Spent(m)) + faults

PaidInv == ~overlap => \A m \in Msgs : Paid(m)

LEMMA IdsAreFinite == IsFiniteSet(Ids)
  BY OutboxAssumption, FS_Interval DEF Ids

LEMMA FewRows ==
  ASSUME NEW m
  PROVE  /\ IsFiniteSet(RowsOf(m)) /\ IsFiniteSet(Appending(m)) /\ IsFiniteSet(Spent(m))
         /\ Cardinality(RowsOf(m)) \in Nat /\ Cardinality(Appending(m)) \in Nat
         /\ Cardinality(Spent(m)) \in Nat /\ Cardinality(Spent(m)) <= Cardinality(RowsOf(m))
  <1>1. IsFiniteSet(Ids) /\ IsFiniteSet(Drains)
    BY OutboxAssumption, IdsAreFinite
  <1>2. RowsOf(m) \in SUBSET Ids /\ Appending(m) \in SUBSET Drains
        /\ Spent(m) \in SUBSET RowsOf(m)
    BY PubSubAssumption DEF RowsOf, Appending, Spent
  <1>3. IsFiniteSet(RowsOf(m)) /\ IsFiniteSet(Appending(m))
    BY <1>1, <1>2, FS_Subset
  <1>4. IsFiniteSet(Spent(m)) /\ Cardinality(Spent(m)) <= Cardinality(RowsOf(m))
    BY <1>2, <1>3, FS_Subset
  <1> QED BY <1>3, <1>4, FS_CardinalityType

LEMMA PushKeepsUsed ==
  ASSUME PushInv, BehindInv, [PNext]_pvars
  PROVE  Used \subseteq Used'
  <1>1. [Next]_vars \/ Quiet
    BY OutboxOrQuiet DEF BehindInv
  <1>2. Quiet => Used \subseteq Used'
    BY DEF Quiet, Used
  <1> QED BY <1>1, <1>2, RowsStay DEF PushInv, PTypeOK

LEMMA DeliveryStep ==
  ASSUME PushInv, PushInv', BehindInv, DeliveryInv, [PNext]_pvars
  PROVE  DeliveryInv'
  <1> USE DEF PushInv, PTypeOK
  <1>1. Used \subseteq Used'
    BY PushKeepsUsed
  <1>2. ASSUME NEW w \in Pushers, NEW m \in Msgs, Deliver(w, m) PROVE DeliveryInv'
    <2>1. /\ serving[w] = NoMsg /\ serving' = [serving EXCEPT ![w] = m]
          /\ rowOf' = [rowOf EXCEPT ![w] = 0] /\ source' = source
          /\ deliveries' = [deliveries EXCEPT ![m] = @ + 1]
      BY <1>2 DEF Deliver
    <2>2. ASSUME NEW n \in Msgs
          PROVE  Cardinality(RowsOf(n)') + Cardinality(Appending(n)') <= deliveries'[n]
      <3>1. RowsOf(n)' = RowsOf(n) /\ deliveries[n] \in Nat /\ deliveries[m] \in Nat
            /\ Cardinality(RowsOf(n)) + Cardinality(Appending(n)) <= deliveries[n]
        BY <2>1 DEF RowsOf, DeliveryInv
      <3>2. CASE n = m
        <4>1. Appending(n)' = Appending(n) \cup {w} /\ w \notin Appending(n)
          BY <2>1, <3>2, PubSubAssumption DEF Appending, Serves
        <4>2. Cardinality(Appending(n)') = Cardinality(Appending(n)) + 1
          BY <4>1, FewRows, FS_AddElement
        <4>3. deliveries'[n] = deliveries[n] + 1
          BY <2>1, <3>2
        <4> QED BY <3>1, <4>2, <4>3, FewRows
      <3>3. CASE n # m
        <4>1. Appending(n)' = Appending(n) /\ deliveries'[n] = deliveries[n]
          BY <2>1, <3>3, PubSubAssumption DEF Appending, Serves
        <4> QED BY <3>1, <4>1
      <3> QED BY <3>2, <3>3
    <2> QED BY <1>1, <2>1, <2>2 DEF DeliveryInv
  <1>3. ASSUME NEW w \in Pushers, NEW i \in Ids, Append(w, i) PROVE DeliveryInv'
    <2> DEFINE m == serving[w]
    <2>1. /\ m \in Msgs /\ rowOf[w] = 0 /\ rowOf' = [rowOf EXCEPT ![w] = i] /\ i # 0
          /\ source' = [source EXCEPT ![i] = m] /\ UNCHANGED <<deliveries, serving>>
          /\ state[i] = "free" /\ i \in Used'
      BY <1>3, RowZero DEF Append, Insert, Used, TypeOK
    <2>2. source[i] = NoMsg
      BY <2>1 DEF DeliveryInv, Used
    <2>3. ASSUME NEW n \in Msgs
          PROVE  Cardinality(RowsOf(n)') + Cardinality(Appending(n)') <= deliveries'[n]
      <3>1. /\ Cardinality(RowsOf(n)) + Cardinality(Appending(n)) <= deliveries[n]
            /\ deliveries'[n] = deliveries[n] /\ deliveries[n] \in Nat
        BY <2>1 DEF DeliveryInv
      <3>2. CASE n = m
        <4>1. /\ RowsOf(n)' = RowsOf(n) \cup {i} /\ i \notin RowsOf(n)
              /\ Appending(n)' = Appending(n) \ {w} /\ w \in Appending(n)
          BY <2>1, <2>2, <3>2, PubSubAssumption DEF RowsOf, Appending, Serves
        <4>2. Cardinality(RowsOf(n)') = Cardinality(RowsOf(n)) + 1
          BY <4>1, FewRows, FS_AddElement
        <4>3. Cardinality(Appending(n)') = Cardinality(Appending(n)) - 1
          BY <4>1, FewRows, FS_RemoveElement
        <4> QED BY <3>1, <4>2, <4>3, FewRows
      <3>3. CASE n # m
        <4>1. RowsOf(n)' = RowsOf(n) /\ Appending(n)' = Appending(n)
          BY <2>1, <2>2, <3>3, PubSubAssumption DEF RowsOf, Appending, Serves
        <4> QED BY <3>1, <4>1
      <3> QED BY <3>2, <3>3
    <2>4. \A j \in Ids : source'[j] # NoMsg => j \in Used'
      BY <1>1, <2>1 DEF DeliveryInv
    <2> QED BY <2>3, <2>4 DEF DeliveryInv
  <1>4. ASSUME UNCHANGED <<deliveries, rowOf, source>>,
               \A w \in Pushers : serving'[w] \in {serving[w], NoMsg}
        PROVE  DeliveryInv'
    <2>1. ASSUME NEW n \in Msgs
          PROVE  Cardinality(RowsOf(n)') + Cardinality(Appending(n)') <= deliveries'[n]
      <3>1. RowsOf(n)' = RowsOf(n) /\ Appending(n)' \in SUBSET Appending(n)
        BY <1>4, PubSubAssumption DEF RowsOf, Appending, Serves
      <3>2. /\ Cardinality(Appending(n)') <= Cardinality(Appending(n))
            /\ Cardinality(Appending(n)') \in Nat
        BY <3>1, FewRows, FS_Subset, FS_CardinalityType
      <3>3. /\ Cardinality(RowsOf(n)) + Cardinality(Appending(n)) <= deliveries[n]
            /\ deliveries'[n] = deliveries[n] /\ deliveries[n] \in Nat
        BY <1>4 DEF DeliveryInv
      <3> QED BY <3>1, <3>2, <3>3, FewRows
    <2> QED BY <1>1, <1>4, <2>1 DEF DeliveryInv
  <1>5. ASSUME NEW w \in Pushers, CommitAppend(w) \/ PushDrain(w) PROVE DeliveryInv'
    BY <1>4, <1>5 DEF CommitAppend, PushDrain, pushVars
  <1>6. ASSUME NEW w \in Drains, ManualDrain(w) PROVE DeliveryInv'
    BY <1>4, <1>6 DEF ManualDrain, pushVars
  <1>7. ASSUME NEW w \in Pushers,
               \/ Ignore(w) \/ AppendRaises(w) \/ Accept(w) \/ DrainRaised(w) \/ CrashPush(w)
        PROVE  DeliveryInv'
    <2>1. UNCHANGED <<deliveries, rowOf, source>> /\ serving' = [serving EXCEPT ![w] = NoMsg]
      BY <1>7 DEF Ignore, AppendRaises, Accept, DrainRaised, Answer, CrashPush
    <2> QED BY <1>4, <2>1
  <1>8. CASE UNCHANGED pvars \/ \E m \in Msgs : Expire(m)
    BY <1>4, <1>8 DEF pvars, pushVars, Expire
  <1> QED BY <1>2, <1>3, <1>5, <1>6, <1>7, <1>8 DEF PNext, Request

----------------------------------------------------------------------------
(* How the effects of a message and its spent rows change.                 *)

LEMMA SameEffects ==
  ASSUME TypeOK, TypeOK', UNCHANGED returns, NEW m,
         \A i \in Ids : returns[i] > 0 => source'[i] = source[i]
  PROVE  EffectsFor(m)' = EffectsFor(m)
  <1>1. \A i \in Ids : returns[i] = 0 => {i} \X (1..returns[i]) = {}
    OBVIOUS
  <1>2. \A i \in Ids : returns[i] = 0 \/ source'[i] = source[i]
    BY DEF TypeOK
  <1> QED BY <1>1, <1>2 DEF EffectsFor, RowsOf

\* No row gets unspent.
LEMMA PaidStays ==
  ASSUME TypeOK, TypeOK', NEW m, Paid(m), EffectsFor(m)' = EffectsFor(m),
         Spent(m) \subseteq Spent(m)', faults <= faults'
  PROVE  Paid(m)'
  <1>1. IsFiniteSet(Spent(m)') /\ Cardinality(Spent(m)') \in Nat
    <2>1. Spent(m)' \in SUBSET Ids
      BY DEF Spent, RowsOf
    <2> QED BY <2>1, IdsAreFinite, FS_Subset, FS_CardinalityType
  <1>2. Cardinality(Spent(m)) <= Cardinality(Spent(m)')
    BY <1>1, FS_Subset
  <1>3. Cardinality(EffectsFor(m)) \in Nat /\ faults \in Nat /\ faults' \in Nat
    BY FS_CardinalityType DEF Paid, TypeOK
  <1> QED BY <1>1, <1>2, <1>3, FewRows DEF Paid

LEMMA OneMoreAtMost ==
  ASSUME NEW S, IsFiniteSet(S), NEW x
  PROVE  /\ Cardinality(S) \in Nat
         /\ IsFiniteSet(S \cup {x}) /\ Cardinality(S \cup {x}) \in Nat
         /\ Cardinality(S \cup {x}) <= Cardinality(S) + 1
  <1>1. Cardinality(S) \in Nat
    BY FS_CardinalityType
  <1> QED BY <1>1, FS_AddElement

\* A row that was not spent takes effect, and is spent for it.
LEMMA PaidByRow ==
  ASSUME TypeOK, NEW m, Paid(m), NEW i, i \notin Spent(m), NEW e,
         EffectsFor(m)' = EffectsFor(m) \cup {e}, Spent(m)' = Spent(m) \cup {i},
         faults' = faults
  PROVE  Paid(m)'
  <1>1. Cardinality(Spent(m)') = Cardinality(Spent(m)) + 1
    BY FewRows, FS_AddElement
  <1>2. /\ Cardinality(EffectsFor(m)) \in Nat
        /\ IsFiniteSet(EffectsFor(m)') /\ Cardinality(EffectsFor(m)') \in Nat
        /\ Cardinality(EffectsFor(m)') <= Cardinality(EffectsFor(m)) + 1
    BY OneMoreAtMost DEF Paid
  <1> QED BY <1>1, <1>2, FewRows DEF Paid, TypeOK

\* A fault unspends one row at most.
LEMMA PaidByFault ==
  ASSUME TypeOK, NEW m, Paid(m), NEW i, EffectsFor(m)' = EffectsFor(m),
         Spent(m) \ {i} \subseteq Spent(m)', faults' = faults + 1
  PROVE  Paid(m)'
  <1>1. IsFiniteSet(Spent(m)') /\ Cardinality(Spent(m)') \in Nat
    <2>1. Spent(m)' \in SUBSET Ids
      BY DEF Spent, RowsOf
    <2> QED BY <2>1, IdsAreFinite, FS_Subset, FS_CardinalityType
  <1>2. /\ IsFiniteSet(Spent(m) \ {i}) /\ Cardinality(Spent(m) \ {i}) \in Nat
        /\ Cardinality(Spent(m)) <= Cardinality(Spent(m) \ {i}) + 1
    <2>1. /\ IsFiniteSet(Spent(m) \ {i})
          /\ Cardinality(Spent(m) \ {i}) =
               IF i \in Spent(m) THEN Cardinality(Spent(m)) - 1 ELSE Cardinality(Spent(m))
      BY FewRows, FS_RemoveElement
    <2>2. Cardinality(Spent(m) \ {i}) \in Nat
      BY <2>1, FS_CardinalityType
    <2> QED BY <2>1, <2>2, FewRows
  <1>3. Cardinality(Spent(m) \ {i}) <= Cardinality(Spent(m)')
    BY <1>1, FS_Subset
  <1>4. Cardinality(EffectsFor(m)) \in Nat /\ faults \in Nat
    BY FS_CardinalityType DEF Paid, TypeOK
  <1> QED BY <1>1, <1>2, <1>3, <1>4, FewRows DEF Paid

\* A drain that ends early, and with it perhaps one mark.
LEMMA EndsPaid ==
  ASSUME TypeOK, TypeOK', NEW m, Paid(m), UNCHANGED <<state, returns>>,
         faults' = faults + 1, NEW w \in Drains,
         \A v \in Drains \ {w} : pc'[v] = pc[v] /\ batch'[v] = batch[v],
         EffectsFor(m)' = EffectsFor(m),
         \A i \in Spent(m) : source'[i] = source[i]
  PROVE  Paid(m)'
  <1>1. ASSUME NEW i \in Ids, Marking(i), ~AtMark(w, i) PROVE Marking(i)'
    BY <1>1 DEF Marking, AtMark, IsNext
  <1>2. ASSUME NEW i \in Spent(m), ~AtMark(w, i) PROVE i \in Spent(m)'
    BY <1>1, <1>2 DEF Spent, RowsOf
  <1>3. CASE \E i \in Ids : AtMark(w, i)
    <2>1. PICK i \in Ids : AtMark(w, i)
      BY <1>3
    <2>2. Spent(m) \ {i} \subseteq Spent(m)'
      BY <1>2, <2>1, NextIsUnique DEF AtMark, Spent, RowsOf
    <2> QED BY <2>2, PaidByFault
  <1>4. CASE \A i \in Ids : ~AtMark(w, i)
    <2>1. Spent(m) \subseteq Spent(m)'
      BY <1>2, <1>4 DEF Spent, RowsOf
    <2>2. faults <= faults'
      BY DEF TypeOK
    <2> QED BY <2>1, <2>2, PaidStays
  <1> QED BY <1>3, <1>4

LEMMA OutboxPays ==
  ASSUME TypeOK, TypeOK', HandlingInv, SequentialInv, ~overlap', [Next]_vars,
         \A i \in Used : source'[i] = source[i], NEW m, Paid(m)
  PROVE  Paid(m)'
  <1> USE DEF rowVars, history
  <1>1. ~overlap /\ OneActive
    <2>1. overlap' = overlap \/ \E w \in Drains : Select(w)
      BY DEF Next, Write, Insert, Commit, Rollback, EndTransaction, Start, SelectRaises, Step,
             Skip, Call, Mark, HandlerReturns, HandlerRaises, MarkRaises, Finish, Crash, vars
    <2>2. ~overlap
      BY <2>1 DEF Select, TypeOK
    <2> QED BY <2>2 DEF SequentialInv
  <1>2. \A i \in Ids : /\ Marking(i) \/ state[i] = "dispatched" \/ returns[i] > 0 => i \in Used
                       /\ i \in Spent(m) => source'[i] = source[i]
    BY DEF HandlingInv, BatchInv, OnlyCommittedHandled, Marking, IsNext, Spent, RowsOf, Used
  <1>3. UNCHANGED returns => EffectsFor(m)' = EffectsFor(m)
    BY <1>2, SameEffects
  <1>4. ASSUME UNCHANGED returns, faults <= faults',
               \A i \in Ids : /\ state[i] = "dispatched" => state'[i] = "dispatched"
                              /\ Marking(i) => Marking(i)' \/ state'[i] = "dispatched"
        PROVE  Paid(m)'
    <2>1. Spent(m) \subseteq Spent(m)'
      BY <1>2, <1>4 DEF Spent, RowsOf
    <2> QED BY <1>3, <1>4, <2>1, PaidStays
  <1>5. ASSUME NEW i \in Ids, Write(i) PROVE Paid(m)'
    <2>1. /\ UNCHANGED <<pc, batch, faults, returns>>
          /\ \A j \in Ids : state[j] = "dispatched" => state'[j] = "dispatched"
      BY <1>5 DEF Write, Insert, Commit, Rollback, EndTransaction, TypeOK
    <2> QED BY <1>4, <2>1 DEF Marking, IsNext, TypeOK
  <1>6. ASSUME NEW w \in Drains, Start(w) PROVE Paid(m)'
    <2>1. /\ UNCHANGED <<state, returns>> /\ faults <= faults' /\ pc[w] # "called"
          /\ \A v \in Drains \ {w} : pc'[v] = pc[v] /\ batch'[v] = batch[v]
      BY <1>6 DEF Start, Select, SelectRaises, Fault, Goto, Active, TypeOK
    <2> QED BY <1>4, <2>1 DEF Marking, IsNext
  <1>7. ASSUME NEW w \in Drains, NEW i \in Ids, Skip(w, i) \/ Call(w, i) \/ Mark(w, i)
        PROVE  Paid(m)'
    <2>1. /\ UNCHANGED <<returns, faults>> /\ IsNext(w, i)
          /\ \A v \in Drains \ {w} : pc'[v] = pc[v] /\ batch'[v] = batch[v]
          /\ \A j \in Ids : state[j] = "dispatched" => state'[j] = "dispatched"
          /\ pc[w] = "called" => state'[i] = "dispatched"
      BY <1>7 DEF Skip, Call, Mark, MarkDispatched, Goto, Drop, TypeOK
    <2>2. ASSUME NEW j \in Ids, Marking(j) PROVE Marking(j)' \/ state'[j] = "dispatched"
      <3>1. PICK v \in Drains : pc[v] = "called" /\ IsNext(v, j)
        BY <2>2 DEF Marking
      <3>2. CASE v = w
        BY <2>1, <3>1, <3>2, NextIsUnique
      <3>3. CASE v # w
        BY <2>1, <3>1, <3>3 DEF Marking, IsNext
      <3> QED BY <3>2, <3>3
    <2>3. faults <= faults'
      BY <2>1 DEF TypeOK
    <2> QED BY <1>4, <2>1, <2>2, <2>3
  <1>8. ASSUME NEW w \in Drains, NEW i \in Ids, HandlerReturns(w, i) PROVE Paid(m)'
    <2>1. /\ UNCHANGED <<state, faults, batch>> /\ IsNext(w, i) /\ pc[w] = "calling"
          /\ pc'[w] = "called" /\ \A v \in Drains \ {w} : pc'[v] = pc[v]
          /\ returns' = [returns EXCEPT ![i] = @ + 1] /\ returns[i] \in Nat
      BY <1>8 DEF HandlerReturns, Goto, TypeOK
    <2>2. state[i] = "pending" /\ ~Marking(i) /\ i \in Used
      BY <1>1, <2>1, OnlyMarking DEF SequentialInv, IsNext, Active, Used
    <2>3. \A j \in Ids : Marking(j)' <=> Marking(j) \/ j = i
      <3>1. Marking(i)'
        BY <2>1 DEF Marking, IsNext
      <3>2. \A j \in Ids : Marking(j) => Marking(j)'
        BY <2>1 DEF Marking, IsNext
      <3>3. ASSUME NEW j \in Ids \ {i}, Marking(j)' PROVE Marking(j)
        <4>1. ~IsNext(w, j)
          BY <2>1, <3>3, NextIsUnique
        <4> QED BY <2>1, <3>3, <4>1 DEF Marking, IsNext
      <3> QED BY <3>1, <3>2, <3>3
    <2>4. CASE source[i] = m
      <3>1. Spent(m)' = Spent(m) \cup {i} /\ i \notin Spent(m)
        <4>1. i \in RowsOf(m) /\ i \in RowsOf(m)' /\ i \notin Spent(m)
          BY <2>2, <2>4 DEF RowsOf, Spent
        <4>2. ASSUME NEW j \in Ids PROVE j \in Spent(m)' <=> j \in Spent(m) \/ j = i
          <5>1. state[j] = "dispatched" \/ Marking(j) => source'[j] = source[j]
            BY <1>2
          <5> QED BY <2>1, <2>3, <4>1, <5>1 DEF Spent, RowsOf
        <4>3. Spent(m) \subseteq Ids /\ Spent(m)' \subseteq Ids
          BY DEF Spent, RowsOf
        <4> QED BY <4>1, <4>2, <4>3
      <3>2. EffectsFor(m)' = EffectsFor(m) \cup {<<i, returns[i] + 1>>}
        <4>1. 1..returns'[i] = (1..returns[i]) \cup {returns[i] + 1}
          BY <2>1 DEF TypeOK
        <4>2. \A j \in Ids : /\ source'[j] = m /\ j # i => returns'[j] = returns[j]
                             /\ returns[j] = 0 \/ source'[j] = source[j]
          BY <1>2, <2>1 DEF TypeOK
        <4>3. i \in RowsOf(m)' /\ i \in RowsOf(m)
          BY <1>2, <2>2, <2>4 DEF RowsOf
        <4>4. ASSUME NEW j \in RowsOf(m), NEW k \in 1..returns[j]
              PROVE  <<j, k>> \in EffectsFor(m)'
          <5>1. returns[j] # 0
            BY <2>1 DEF TypeOK
          <5>2. j \in RowsOf(m)' /\ k \in 1..returns'[j]
            BY <2>1, <4>1, <4>2, <5>1 DEF RowsOf, TypeOK
          <5> QED BY <5>2 DEF EffectsFor
        <4>5. ASSUME NEW j \in RowsOf(m)', NEW k \in 1..returns'[j]
              PROVE  <<j, k>> \in EffectsFor(m) \cup {<<i, returns[i] + 1>>}
          <5>1. CASE j = i
            BY <4>1, <4>3, <5>1 DEF EffectsFor
          <5>2. CASE j # i
            <6>1. returns'[j] = returns[j] /\ returns[j] # 0
              BY <2>1, <5>2 DEF RowsOf, TypeOK
            <6>2. j \in RowsOf(m)
              BY <4>2, <6>1 DEF RowsOf
            <6> QED BY <6>1, <6>2 DEF EffectsFor
          <5> QED BY <5>1, <5>2
        <4>6. <<i, returns[i] + 1>> \in EffectsFor(m)'
          BY <4>1, <4>3 DEF EffectsFor
        <4>7. /\ \A x \in EffectsFor(m) : \E j \in RowsOf(m) : \E k \in 1..returns[j] : x = <<j, k>>
              /\ \A x \in EffectsFor(m)' :
                   \E j \in RowsOf(m)' : \E k \in 1..returns'[j] : x = <<j, k>>
          BY DEF EffectsFor
        <4>8. EffectsFor(m) \subseteq EffectsFor(m)'
          BY <4>4, <4>7
        <4>9. EffectsFor(m)' \subseteq EffectsFor(m) \cup {<<i, returns[i] + 1>>}
          BY <4>5, <4>7
        <4> QED BY <4>6, <4>8, <4>9
      <3> QED BY <2>1, <3>1, <3>2, PaidByRow
    <2>5. CASE source[i] # m
      <3>1. EffectsFor(m)' = EffectsFor(m)
        <4>1. source'[i] = source[i] /\ i \notin RowsOf(m) /\ i \notin RowsOf(m)'
          BY <1>2, <2>2, <2>5 DEF RowsOf
        <4>2. \A j \in Ids \ {i} : /\ returns'[j] = returns[j]
                                   /\ returns[j] = 0 \/ source'[j] = source[j]
          BY <1>2, <2>1 DEF TypeOK
        <4>3. ASSUME NEW j \in RowsOf(m), NEW k \in 1..returns[j]
              PROVE  j \in RowsOf(m)' /\ k \in 1..returns'[j]
          <5>1. j \in Ids \ {i} /\ returns[j] # 0
            BY <4>1 DEF RowsOf, TypeOK
          <5> QED BY <4>2, <5>1 DEF RowsOf
        <4>4. ASSUME NEW j \in RowsOf(m)', NEW k \in 1..returns'[j]
              PROVE  j \in RowsOf(m) /\ k \in 1..returns[j]
          <5>1. j \in Ids \ {i} /\ returns[j] # 0
            BY <4>1, <4>2 DEF RowsOf, TypeOK
          <5> QED BY <4>2, <5>1 DEF RowsOf
        <4> QED BY <4>3, <4>4 DEF EffectsFor
      <3>2. Spent(m) \subseteq Spent(m)'
        BY <1>2, <2>1, <2>3 DEF Spent, RowsOf
      <3> QED BY <2>1, <3>1, <3>2, PaidStays DEF TypeOK
    <2> QED BY <2>4, <2>5
  <1>9. ASSUME NEW w \in Drains, (\E i \in Ids : HandlerRaises(w, i)) \/ Finish(w)
        PROVE  Paid(m)'
    <2>1. /\ UNCHANGED <<state, returns>> /\ faults <= faults' /\ pc[w] # "called"
          /\ \A v \in Drains \ {w} : pc'[v] = pc[v] /\ batch'[v] = batch[v]
      BY <1>9 DEF HandlerRaises, Finish, Fault, Goto, Drop, TypeOK
    <2> QED BY <1>4, <2>1 DEF Marking, IsNext
  <1>10. ASSUME NEW w \in Drains, (\E i \in Ids : MarkRaises(w, i)) \/ Crash(w)
         PROVE  Paid(m)'
    <2>1. /\ UNCHANGED <<state, returns>> /\ faults' = faults + 1
          /\ \A v \in Drains \ {w} : pc'[v] = pc[v] /\ batch'[v] = batch[v]
      BY <1>10 DEF MarkRaises, Crash, Fault, Goto, TypeOK
    <2>2. \A i \in Spent(m) : source'[i] = source[i]
      BY <1>2 DEF Spent, RowsOf
    <2> QED BY <1>3, <2>1, <2>2, EndsPaid
  <1>11. CASE UNCHANGED vars
    BY <1>4, <1>11 DEF vars, Marking, IsNext, TypeOK
  <1> QED BY <1>5, <1>6, <1>7, <1>8, <1>9, <1>10, <1>11 DEF Next, Step


LEMMA QuietPays ==
  ASSUME TypeOK, TypeOK', HandlingInv, Quiet, \A i \in Used : source'[i] = source[i],
         NEW m, Paid(m)
  PROVE  Paid(m)'
  <1>1. \A i \in Ids : Marking(i) \/ state[i] = "dispatched" \/ returns[i] > 0 => i \in Used
    BY DEF HandlingInv, BatchInv, OnlyCommittedHandled, Marking, IsNext, Used
  <1>2. EffectsFor(m)' = EffectsFor(m)
    BY <1>1, SameEffects DEF Quiet, history
  <1>3. \A i \in Ids : Marking(i)' <=> Marking(i)
    BY QuietMarks DEF Marking, AtMark
  <1>4. Spent(m) \subseteq Spent(m)'
    BY <1>1, <1>3 DEF Spent, RowsOf, Quiet
  <1> QED BY <1>2, <1>4, PaidStays DEF Quiet

\* The origin of a row is written once, when its id is taken.
LEMMA OriginStays ==
  ASSUME PushInv, [PNext]_pvars
  PROVE  \A i \in Used : source'[i] = source[i]
  <1>1. ASSUME NEW w \in Pushers, NEW j \in Ids, Append(w, j)
        PROVE  \A i \in Used : source'[i] = source[i]
    BY <1>1 DEF Append, Insert, Used, PushInv, PTypeOK
  <1> QED
    BY <1>1 DEF PNext, Request, Deliver, CommitAppend, PushDrain, Ignore, AppendRaises, Accept,
                DrainRaised, Answer, CrashPush, ManualDrain, Expire, pvars, pushVars

LEMMA PaidStep ==
  ASSUME PushInv, PushInv', BehindInv, PaidInv, [PNext]_pvars
  PROVE  PaidInv'
  <1> SUFFICES ASSUME ~overlap', NEW m \in Msgs PROVE Paid(m)'
    BY DEF PaidInv
  <1> USE DEF PushInv, PTypeOK, BehindInv
  <1>1. [Next]_vars \/ Quiet
    BY OutboxOrQuiet
  <1>2. \A i \in Used : source'[i] = source[i]
    BY OriginStays
  <1>3. ~overlap
    <2>1. [Next]_vars => overlap' = overlap \/ \E w \in Drains : Select(w)
      BY DEF Next, Write, Insert, Commit, Rollback, EndTransaction, Start, SelectRaises, Step,
             Skip, Call, Mark, HandlerReturns, HandlerRaises, MarkRaises, Finish, Crash, vars,
             history
    <2> QED BY <1>1, <2>1 DEF Select, TypeOK, Quiet, history
  <1>4. Paid(m)
    BY <1>3 DEF PaidInv
  <1> QED BY <1>1, <1>2, <1>4, OutboxPays, QuietPays

THEOREM PaidCorrect == PSpec => []DeliveryInv /\ []PaidInv
  <1>1. PInit => DeliveryInv /\ PaidInv
    <2> SUFFICES ASSUME PInit, NEW m \in Msgs
                 PROVE  /\ Cardinality(RowsOf(m)) + Cardinality(Appending(m)) <= deliveries[m]
                        /\ Paid(m)
      BY DEF PInit, DeliveryInv, PaidInv
    <2>1. RowsOf(m) = {} /\ Appending(m) = {} /\ deliveries[m] = 0 /\ faults = 0
      BY PubSubAssumption DEF PInit, Init, RowsOf, Appending, Serves
    <2>2. EffectsFor(m) = {} /\ Spent(m) = {}
      BY <2>1 DEF EffectsFor, Spent
    <2> QED BY <2>1, <2>2, FS_EmptySet DEF Paid
  <1>2. PushInv /\ PushInv' /\ BehindInv /\ DeliveryInv /\ [PNext]_pvars => DeliveryInv'
    BY DeliveryStep
  <1>3. PushInv /\ PushInv' /\ BehindInv /\ PaidInv /\ [PNext]_pvars => PaidInv'
    BY PaidStep
  <1> QED BY <1>1, <1>2, <1>3, PushCorrect, BehindCorrect, PTL DEF PSpec

\* However often a message is delivered and whatever fails, while drains do not
\* overlap it takes effect at most once for each delivery and once for each
\* fault (routes.py: the endpoint appends at every delivery).
THEOREM PaidByDeliveries == PSpec => []EffectsPerDelivery
  <1>1. PTypeOK /\ DeliveryInv /\ PaidInv => EffectsPerDelivery
    <2> SUFFICES ASSUME PTypeOK, DeliveryInv, PaidInv, ~overlap, NEW m \in Msgs
                 PROVE  Cardinality(EffectsFor(m)) <= deliveries[m] + faults
      BY DEF EffectsPerDelivery
    <2>1. /\ Cardinality(RowsOf(m)) + Cardinality(Appending(m)) <= deliveries[m]
          /\ deliveries[m] \in Nat /\ faults \in Nat
      BY PubSubAssumption DEF DeliveryInv, PTypeOK, TypeOK
    <2>2. /\ Cardinality(EffectsFor(m)) <= Cardinality(Spent(m)) + faults
          /\ Cardinality(EffectsFor(m)) \in Nat
      BY FS_CardinalityType DEF PaidInv, Paid
    <2> QED BY <2>1, <2>2, FewRows
  <1> QED BY <1>1, PaidCorrect, PushTypeCorrect, PTL
=============================================================================
