--------------------------- MODULE Outbox_proofs ----------------------------
(***************************************************************************)
(* Proofs about Outbox, for any number of drains, rows, faults and kinds   *)
(* of events:                                                              *)
(*                                                                         *)
(*   - the type invariant;                                                 *)
(*   - a drain takes at most LIMIT rows, the oldest ones;                  *)
(*   - dispatched means handled, and handled means committed;              *)
(*   - effects beyond the first are accounted for by lost marks as long as *)
(*     drains do not overlap, and by the number of drains in any case;     *)
(*     without overlap each event takes effect once and once for each      *)
(*     fault at most;                                                      *)
(*   - a row that is buried stays buried;                                  *)
(*   - the outbox implements EventStream.                                  *)
(***************************************************************************)
EXTENDS Outbox, FiniteSetTheorems, TLAPS

----------------------------------------------------------------------------
(* ORDER BY id LIMIT n, as Oldest writes it.                               *)

LEMMA OldestIsSubset ==
  ASSUME NEW S, NEW n
  PROVE  Oldest(S, n) \subseteq S
  BY DEF Oldest

\* A finite set of numbers has a greatest element.
LEMMA HasGreatest ==
  ASSUME NEW S \in SUBSET Nat, IsFiniteSet(S), S # {}
  PROVE  \E i \in S : \A j \in S : j <= i
  <1> DEFINE Above(i) == {j \in S : j > i}
             Cuts == {Above(i) : i \in S}
  <1>1. Cuts \subseteq FiniteSubsetsOf(S) /\ Cuts # {}
    <2>1. \A i \in S : Above(i) \subseteq S /\ IsFiniteSet(Above(i))
      BY FS_Subset
    <2> QED BY <2>1 DEF FiniteSubsetsOf
  <1>2. PICK least \in Cuts : \A cut \in Cuts : <<cut, least>> \notin StrictSubsetOrdering(S)
    BY <1>1, FS_StrictSubsetOrderingWellFounded, WFMin
  <1>3. PICK i \in S : least = Above(i)
    BY <1>2
  <1>4. ASSUME NEW j \in S, j > i PROVE FALSE
    <2>1. i \in Nat /\ j \in Nat /\ \A k \in S : k \in Nat
      OBVIOUS
    <2>2. Above(j) \subseteq Above(i) /\ j \in Above(i) /\ j \notin Above(j)
      <3>1. (\A k \in S : k > j => k > i) /\ ~(j > j)
        BY <1>4, <2>1
      <3> QED BY <1>4, <3>1
    <2>3. <<Above(j), Above(i)>> \in StrictSubsetOrdering(S)
      BY <2>2 DEF StrictSubsetOrdering
    <2> QED BY <1>2, <1>3, <2>3
  <1> QED BY <1>4

\* It never takes more than the limit.
LEMMA OldestAreFew ==
  ASSUME NEW S \in SUBSET Nat, IsFiniteSet(S), NEW n \in Nat
  PROVE  IsFiniteSet(Oldest(S, n)) /\ Cardinality(Oldest(S, n)) <= n
  <1> DEFINE O == Oldest(S, n)
  <1>1. O \in SUBSET Nat /\ IsFiniteSet(O) /\ Cardinality(O) \in Nat
    BY FS_Subset, FS_CardinalityType, OldestIsSubset
  <1>2. CASE O = {}
    BY <1>1, <1>2, FS_EmptySet
  <1>3. CASE O # {}
    <2>1. PICK i \in O : \A j \in O : j <= i
      BY <1>1, <1>3, HasGreatest
    <2> DEFINE before == {j \in S : j < i}
    <2>2. IsFiniteSet(before) /\ Cardinality(before) \in Nat /\ Cardinality(before) < n
      BY FS_Subset, FS_CardinalityType DEF Oldest
    <2>3. O \ {i} \in SUBSET before
      BY <1>1, <2>1, OldestIsSubset
    <2>4. Cardinality(O \ {i}) = Cardinality(O) - 1
      BY <1>1, FS_RemoveElement
    <2>5. Cardinality(O \ {i}) <= Cardinality(before)
      BY <2>2, <2>3, FS_Subset
    <2> QED BY <1>1, <2>2, <2>4, <2>5
  <1> QED BY <1>2, <1>3

\* It passes over no row for a newer one.
LEMMA OldestComeFirst ==
  ASSUME NEW S \in SUBSET Nat, IsFiniteSet(S), NEW n \in Nat,
         NEW i \in Oldest(S, n), NEW j \in S, j < i
  PROVE  j \in Oldest(S, n)
  <1> DEFINE before(k) == {l \in S : l < k}
  <1>1. i \in Nat /\ j \in Nat /\ i \in S /\ \A k \in S : k \in Nat
    BY DEF Oldest
  <1>2. before(j) \in SUBSET before(i)
    <2>1. \A k \in S : k < j => k < i
      BY <1>1
    <2> QED BY <2>1
  <1>3. IsFiniteSet(before(i))
    <2>1. before(i) \in SUBSET S
      OBVIOUS
    <2> QED BY <2>1, FS_Subset
  <1>4. Cardinality(before(j)) <= Cardinality(before(i)) /\ IsFiniteSet(before(j))
    BY <1>2, <1>3, FS_Subset
  <1>5. Cardinality(before(j)) \in Nat /\ Cardinality(before(i)) \in Nat
    BY <1>3, <1>4, FS_CardinalityType
  <1>6. Cardinality(before(i)) < n
    BY DEF Oldest
  <1>7. Cardinality(before(j)) < n
    BY <1>4, <1>5, <1>6
  <1> QED BY <1>7 DEF Oldest

\* It takes all there are when they fit.
LEMMA OldestIsAll ==
  ASSUME NEW S \in SUBSET Nat, IsFiniteSet(S), NEW n \in Nat, Cardinality(S) <= n
  PROVE  Oldest(S, n) = S
  <1> SUFFICES ASSUME NEW i \in S
               PROVE  Cardinality({j \in S : j < i}) < n
    BY DEF Oldest
  <1>1. {j \in S : j < i} \in SUBSET (S \ {i})
    OBVIOUS
  <1>2. IsFiniteSet(S \ {i}) /\ Cardinality(S \ {i}) = Cardinality(S) - 1
    BY FS_RemoveElement
  <1>3. Cardinality({j \in S : j < i}) <= Cardinality(S \ {i})
    BY <1>1, <1>2, FS_Subset
  <1>4. Cardinality(S) \in Nat /\ Cardinality({j \in S : j < i}) \in Nat
    BY <1>1, <1>2, FS_Subset, FS_CardinalityType
  <1> QED BY <1>2, <1>3, <1>4

----------------------------------------------------------------------------
(* Types.                                                                  *)

\* The entry a drain is at is unique.
LEMMA NextIsUnique ==
  ASSUME TypeOK, NEW w \in Drains, NEW i \in Ids, NEW j \in Ids,
         IsNext(w, i), IsNext(w, j)
  PROVE  i = j
  BY DEF IsNext, TypeOK, Ids

LEMMA TypeStep == TypeOK /\ [Next]_vars => TypeOK'
  <1> SUFFICES ASSUME TypeOK, [Next]_vars PROVE TypeOK'
    OBVIOUS
  <1> USE DEF rowVars, drainVars, history
  <1>1. ASSUME NEW i \in Ids, NEW e \in Events, Insert(i, e) PROVE TypeOK'
    BY <1>1 DEF Insert, TypeOK
  <1>2. ASSUME NEW i \in Ids, Commit(i) \/ Rollback(i) PROVE TypeOK'
    BY <1>2 DEF Commit, Rollback, EndTransaction, TypeOK
  <1>3. ASSUME NEW w \in Drains, Select(w) PROVE TypeOK'
    <2>1. Oldest(Pending, Limit) \in SUBSET Ids
      BY OldestIsSubset DEF Pending
    <2> QED BY <1>3, <2>1 DEF Select, Goto, TypeOK
  <1>4. ASSUME NEW w \in Drains, SelectRaises(w) PROVE TypeOK'
    BY <1>4 DEF SelectRaises, Goto, Fault, TypeOK
  <1>5. ASSUME NEW w \in Drains, NEW i \in Ids,
               Skip(w, i) \/ Call(w, i) \/ Mark(w, i)
        PROVE  TypeOK'
    BY <1>5 DEF Skip, Call, Mark, MarkDispatched, Drop, Goto, TypeOK
  <1>6. ASSUME NEW w \in Drains, NEW i \in Ids, HandlerReturns(w, i)
        PROVE  TypeOK'
    BY <1>6 DEF HandlerReturns, Goto, TypeOK
  <1>7. ASSUME NEW w \in Drains, NEW i \in Ids, HandlerRaises(w, i)
        PROVE  TypeOK'
    BY <1>7 DEF HandlerRaises, Drop, Goto, Fault, TypeOK
  <1>8. ASSUME NEW w \in Drains, Forget(w) PROVE lost' \in [Ids -> Nat]
    BY <1>8 DEF Forget, TypeOK
  <1>9. ASSUME NEW w \in Drains, NEW i \in Ids, MarkRaises(w, i) PROVE TypeOK'
    BY <1>9, <1>8 DEF MarkRaises, Goto, Fault, TypeOK
  <1>10. ASSUME NEW w \in Drains, Finish(w) PROVE TypeOK'
    BY <1>10 DEF Finish, Goto, TypeOK
  <1>11. ASSUME NEW w \in Drains, Crash(w) PROVE TypeOK'
    BY <1>11, <1>8 DEF Crash, Goto, Fault, TypeOK
  <1>12. CASE UNCHANGED vars
    BY <1>12 DEF vars, TypeOK
  <1> QED
    BY <1>1, <1>2, <1>3, <1>4, <1>5, <1>6, <1>7, <1>9, <1>10, <1>11, <1>12
       DEF Next, Write, Start, Step

\* Every reachable state is well typed.
THEOREM TypeCorrect == Spec => []TypeOK
  <1>1. ASSUME Init PROVE TypeOK
    BY <1>1 DEF Init, TypeOK
  <1> QED
    BY <1>1, TypeStep, PTL DEF Spec

----------------------------------------------------------------------------
(* What a drain takes on. It never holds more than LIMIT entries, and when *)
(* it takes them it passes over no pending row for a newer one.            *)

LEMMA PendingIsFinite == Pending \in SUBSET Nat /\ IsFiniteSet(Pending)
  <1>1. Pending \in SUBSET Ids /\ Ids \in SUBSET Nat
    BY OutboxAssumption DEF Pending, Ids
  <1>2. IsFiniteSet(Ids)
    BY OutboxAssumption, FS_Interval DEF Ids
  <1> QED BY <1>1, <1>2, FS_Subset

BatchWithinLimit ==
  \A w \in Drains : IsFiniteSet(batch[w]) /\ Cardinality(batch[w]) <= Limit

TakesOldest(w) ==
  \A i \in batch'[w] : \A j \in Pending : j < i => j \in batch'[w]

LEMMA BatchStep ==
  TypeOK /\ BatchWithinLimit /\ [Next]_vars => BatchWithinLimit'
  <1> SUFFICES ASSUME TypeOK, BatchWithinLimit, [Next]_vars, NEW v \in Drains
               PROVE  IsFiniteSet(batch'[v]) /\ Cardinality(batch'[v]) <= Limit
    BY DEF BatchWithinLimit
  <1>1. CASE batch'[v] = Oldest(Pending, Limit)
    BY <1>1, PendingIsFinite, OldestAreFew, OutboxAssumption
  <1>2. CASE batch'[v] \subseteq batch[v]
    <2>1. IsFiniteSet(batch[v]) /\ Cardinality(batch[v]) <= Limit
      BY DEF BatchWithinLimit
    <2>2. IsFiniteSet(batch'[v]) /\ Cardinality(batch'[v]) <= Cardinality(batch[v])
      BY <1>2, <2>1, FS_Subset
    <2>3. Cardinality(batch[v]) \in Nat /\ Cardinality(batch'[v]) \in Nat
      BY <2>1, <2>2, FS_CardinalityType
    <2> QED BY <2>1, <2>2, <2>3, OutboxAssumption
  <1>3. batch'[v] = Oldest(Pending, Limit) \/ batch'[v] \subseteq batch[v]
    <2> USE DEF TypeOK, rowVars, history
    <2>1. ASSUME NEW i \in Ids, Write(i) PROVE batch'[v] = batch[v]
      BY <2>1 DEF Write, Insert, Commit, Rollback, EndTransaction
    <2>2. ASSUME NEW w \in Drains, Start(w) \/ Crash(w)
          PROVE  batch'[v] = Oldest(Pending, Limit) \/ batch'[v] \subseteq batch[v]
      BY <2>2 DEF Start, Select, SelectRaises, Crash
    <2>3. ASSUME NEW w \in Drains, Step(w) PROVE batch'[v] \subseteq batch[v]
      BY <2>3 DEF Step, Skip, Call, Mark, HandlerReturns, HandlerRaises, MarkRaises, Finish, Drop
    <2>4. CASE UNCHANGED vars
      BY <2>4 DEF vars
    <2> QED BY <2>1, <2>2, <2>3, <2>4 DEF Next
  <1> QED BY <1>1, <1>2, <1>3

\* A drain works on at most LIMIT rows, and selects the oldest there are: a row
\* is never passed over for a newer one (ORDER BY id LIMIT of drain_once).
THEOREM DrainsTakeOldest ==
  Spec => []BatchWithinLimit /\ [][\A w \in Drains : Select(w) => TakesOldest(w)]_vars
  <1>1. ASSUME Init PROVE BatchWithinLimit
    BY <1>1, FS_EmptySet, OutboxAssumption DEF Init, BatchWithinLimit
  <1>2. ASSUME TypeOK, [Next]_vars PROVE [\A w \in Drains : Select(w) => TakesOldest(w)]_vars
    <2> SUFFICES ASSUME NEW w \in Drains, Select(w) PROVE TakesOldest(w)
      OBVIOUS
    <2>1. batch'[w] = Oldest(Pending, Limit)
      BY <1>2 DEF Select, TypeOK
    <2> QED BY <2>1, OldestComeFirst, PendingIsFinite, OutboxAssumption DEF TakesOldest
  <1> QED BY <1>1, <1>2, BatchStep, TypeCorrect, PTL DEF Spec

----------------------------------------------------------------------------
(* What a drain holds. Its batch stays within the published rows, the entry *)
(* it is calling a handler for is owned, and it marks only what a handler   *)
(* completed for. The safety invariants are not inductive without this.     *)

BatchInv ==
  \A w \in Drains :
    /\ ~Active(w) => batch[w] = {}
    /\ \A i \in batch[w] : state[i] \in {"pending", "dispatched"}
    /\ \A i \in Ids :
         /\ pc[w] \in {"calling", "called"} /\ IsNext(w, i) => event[i] \in Owned
         /\ pc[w] = "called" /\ IsNext(w, i) => returns[i] > 0

EventInv == \A i \in Ids : state[i] # "free" => event[i] \in Events

HandlingInv ==
  /\ BatchInv
  /\ EventInv
  /\ DispatchedWasHandled
  /\ OnlyCommittedHandled

LEMMA HandlingStep ==
  TypeOK /\ TypeOK' /\ HandlingInv /\ [Next]_vars => HandlingInv'
  <1> SUFFICES ASSUME TypeOK, TypeOK', HandlingInv, [Next]_vars
               PROVE  HandlingInv'
    OBVIOUS
  <1> USE DEF rowVars, drainVars, history, HandlingInv, BatchInv, EventInv,
              DispatchedWasHandled, OnlyCommittedHandled, IsNext, Active
  <1>1. ASSUME NEW i \in Ids, NEW e \in Events, Insert(i, e)
        PROVE  HandlingInv'
    BY <1>1 DEF Insert, TypeOK
  <1>2. ASSUME NEW i \in Ids, Commit(i) \/ Rollback(i) PROVE HandlingInv'
    BY <1>2 DEF Commit, Rollback, EndTransaction, TypeOK
  <1>3. ASSUME NEW w \in Drains, Select(w) PROVE HandlingInv'
    <2>1. \A i \in Oldest(Pending, Limit) : i \in Ids /\ state[i] = "pending"
      BY OldestIsSubset DEF Pending
    <2> QED BY <1>3, <2>1 DEF Select, Goto, TypeOK
  <1>4. ASSUME NEW w \in Drains, SelectRaises(w) PROVE HandlingInv'
    BY <1>4 DEF SelectRaises, Goto, TypeOK
  <1>5. ASSUME NEW w \in Drains, NEW i \in Ids, Skip(w, i) PROVE HandlingInv'
    BY <1>5 DEF Skip, MarkDispatched, Drop, TypeOK
  <1>6. ASSUME NEW w \in Drains, NEW i \in Ids, Call(w, i) PROVE HandlingInv'
    BY <1>6 DEF Call, Goto, TypeOK, Ids
  <1>7. ASSUME NEW w \in Drains, NEW i \in Ids, HandlerReturns(w, i)
        PROVE  HandlingInv'
    BY <1>7 DEF HandlerReturns, Goto, TypeOK, Ids
  <1>8. ASSUME NEW w \in Drains, NEW i \in Ids, HandlerRaises(w, i)
        PROVE  HandlingInv'
    BY <1>8 DEF HandlerRaises, Drop, Goto, TypeOK
  <1>9. ASSUME NEW w \in Drains, NEW i \in Ids, Mark(w, i) PROVE HandlingInv'
    BY <1>9 DEF Mark, MarkDispatched, Drop, Goto, TypeOK
  <1>10. ASSUME NEW w \in Drains, NEW i \in Ids, MarkRaises(w, i)
         PROVE  HandlingInv'
    BY <1>10 DEF MarkRaises, Goto, TypeOK
  <1>11. ASSUME NEW w \in Drains, Finish(w) PROVE HandlingInv'
    BY <1>11 DEF Finish, Goto, TypeOK
  <1>12. ASSUME NEW w \in Drains, Crash(w) PROVE HandlingInv'
    BY <1>12 DEF Crash, Goto, TypeOK
  <1>13. CASE UNCHANGED vars
    BY <1>13 DEF vars
  <1> QED
    BY <1>1, <1>2, <1>3, <1>4, <1>5, <1>6, <1>7, <1>8, <1>9, <1>10, <1>11,
       <1>12, <1>13
       DEF Next, Write, Start, Step

\* Whatever the drains do, they hold published rows only, and mark an owned row
\* only after its handler returned (the order of drain_once).
THEOREM HandlingCorrect == Spec => []HandlingInv
  <1>1. ASSUME Init PROVE HandlingInv
    BY <1>1 DEF Init, HandlingInv, BatchInv, EventInv, DispatchedWasHandled,
                OnlyCommittedHandled, Active, IsNext
  <1> QED
    BY <1>1, HandlingStep, TypeCorrect, PTL DEF Spec

\* An owned event is dispatched only after a handler completed for it.
THEOREM DispatchedHandled == Spec => []DispatchedWasHandled
  BY HandlingCorrect, PTL DEF HandlingInv

\* No handler completes for a row that never committed.
THEOREM HandledCommitted == Spec => []OnlyCommittedHandled
  BY HandlingCorrect, PTL DEF HandlingInv

----------------------------------------------------------------------------
(* Drains that never overlapped. One drain at most is active, its batch is *)
(* still pending, and a pending row owes no effect to anything but a lost  *)
(* mark, except for the row whose mark is about to be written.             *)

Marking(i) == \E w \in Drains : pc[w] = "called" /\ IsNext(w, i)

OneActive == \A v, w \in Drains : Active(v) /\ Active(w) => v = w

SequentialInv ==
  ~overlap =>
    /\ OneActive
    /\ \A w \in Drains : \A i \in batch[w] : state[i] = "pending"
    /\ \A i \in Ids :
         /\ returns[i] <= lost[i] + 1
         /\ state[i] = "pending" /\ ~Marking(i) => returns[i] <= lost[i]

\* With one drain active, only the row that drain has called can be marked.
LEMMA OnlyMarking ==
  ASSUME TypeOK, OneActive, NEW w \in Drains, Active(w),
         NEW i \in Ids, IsNext(w, i)
  PROVE  /\ pc[w] # "called" => \A j \in Ids : ~Marking(j)
         /\ \A j \in Ids : Marking(j) => j = i
  BY NextIsUnique DEF OneActive, Marking, Active

\* A drain that ends at row i with its mark unwritten accounts for it in lost.
LEMMA ForgetAccounts ==
  ASSUME TypeOK, HandlingInv, SequentialInv, ~overlap,
         NEW w \in Drains, Active(w), NEW end \in {"idle", "raised"},
         Forget(w), Goto(w, end), batch' = [batch EXCEPT ![w] = {}],
         UNCHANGED <<state, returns, overlap>>
  PROVE  SequentialInv'
  <1> USE DEF SequentialInv
  <1>1. OneActive'
    BY DEF OneActive, Active, Goto, TypeOK
  <1>2. \A v \in Drains : \A i \in batch'[v] : state'[i] = "pending"
    BY DEF TypeOK
  <1>3. ASSUME NEW i \in Ids
        PROVE  /\ returns'[i] <= lost'[i] + 1
               /\ state'[i] = "pending" => returns'[i] <= lost'[i]
    <2>1. CASE pc[w] = "called" /\ IsNext(w, i)
      BY <2>1 DEF Forget, TypeOK
    <2>2. CASE ~(pc[w] = "called" /\ IsNext(w, i))
      <3>1. ~Marking(i)
        BY <2>2 DEF Marking, OneActive, Active
      <3> QED BY <2>2, <3>1 DEF Forget, TypeOK
    <2> QED BY <2>1, <2>2
  <1> QED BY <1>1, <1>2, <1>3

LEMMA SequentialStep ==
  TypeOK /\ TypeOK' /\ HandlingInv /\ SequentialInv /\ [Next]_vars
    => SequentialInv'
  <1> SUFFICES ASSUME TypeOK, TypeOK', HandlingInv, SequentialInv, [Next]_vars,
                      ~overlap'
               PROVE  SequentialInv'
    BY DEF SequentialInv
  <1> USE DEF rowVars, drainVars, history
  <1>1. ASSUME NEW i \in Ids, NEW e \in Events, Insert(i, e)
        PROVE  SequentialInv'
    BY <1>1 DEF Insert, SequentialInv, OneActive, Active, Marking, IsNext, TypeOK
  <1>2. ASSUME NEW i \in Ids, Commit(i) \/ Rollback(i) PROVE SequentialInv'
    <2>1. returns[i] = 0
      BY <1>2 DEF Commit, Rollback, EndTransaction, HandlingInv,
                  OnlyCommittedHandled, TypeOK
    <2> QED BY <1>2, <2>1 DEF Commit, Rollback, EndTransaction, SequentialInv,
                              OneActive, Active, Marking, IsNext, TypeOK
  <1>3. ASSUME NEW w \in Drains, Select(w) PROVE SequentialInv'
    <2>1. \A i \in Oldest(Pending, Limit) : i \in Ids /\ state[i] = "pending"
      BY OldestIsSubset DEF Pending
    <2>2. ~overlap /\ \A v \in Drains : ~Active(v)
      BY <1>3 DEF Select
    <2>3. \A i \in Ids : ~Marking(i) /\ ~Marking(i)'
      BY <1>3, <2>2 DEF Select, Goto, Marking, Active, TypeOK
    <2> QED BY <1>3, <2>1, <2>2, <2>3
            DEF Select, Goto, SequentialInv, OneActive, Active, TypeOK
  <1>4. ASSUME NEW w \in Drains, SelectRaises(w) PROVE SequentialInv'
    BY <1>4 DEF SelectRaises, Goto, SequentialInv, OneActive, Active, Marking,
                IsNext, TypeOK
  <1>5. ASSUME NEW w \in Drains, NEW i \in Ids,
               Skip(w, i) \/ Mark(w, i) \/ HandlerRaises(w, i)
        PROVE  SequentialInv'
    <2>1. Active(w) /\ IsNext(w, i) /\ ~overlap
      BY <1>5 DEF Skip, Mark, HandlerRaises, Active
    <2>2. \A j \in Ids : ~Marking(j)'
      BY <1>5, <2>1 DEF Skip, Mark, HandlerRaises, Drop, Goto, Marking, Active,
                        SequentialInv, OneActive, TypeOK
    <2>3. \A j \in Ids \ {i} : ~Marking(j)
      BY <2>1, OnlyMarking DEF SequentialInv
    <2>4. CASE Skip(w, i) \/ Mark(w, i)
      <3>1. \A v \in Drains \ {w} : batch[v] = {}
        BY <2>1 DEF SequentialInv, OneActive, HandlingInv, BatchInv
      <3> QED BY <2>1, <2>2, <2>3, <2>4, <3>1
         DEF Skip, Mark, MarkDispatched, Drop, Goto, SequentialInv, OneActive,
             Active, TypeOK
    <2>5. CASE HandlerRaises(w, i)
      <3>1. ~Marking(i)
        BY <2>1, <2>5, OnlyMarking DEF SequentialInv, HandlerRaises
      <3> QED BY <2>1, <2>2, <2>3, <2>5, <3>1
              DEF HandlerRaises, Drop, Goto, SequentialInv, OneActive, Active, TypeOK
    <2> QED BY <1>5, <2>4, <2>5
  <1>6. ASSUME NEW w \in Drains, NEW i \in Ids, Call(w, i)
        PROVE  SequentialInv'
    BY <1>6 DEF Call, Goto, SequentialInv, OneActive, Active, Marking, IsNext, TypeOK
  <1>7. ASSUME NEW w \in Drains, NEW i \in Ids, HandlerReturns(w, i)
        PROVE  SequentialInv'
    <2>1. Active(w) /\ IsNext(w, i) /\ ~overlap /\ \A j \in Ids : ~Marking(j)
      BY <1>7, OnlyMarking DEF HandlerReturns, Active, SequentialInv
    <2>2. Marking(i)'
      BY <1>7 DEF HandlerReturns, Goto, Marking, IsNext, TypeOK
    <2> QED BY <1>7, <2>1, <2>2 DEF HandlerReturns, Goto, SequentialInv,
                                    OneActive, Active, IsNext, TypeOK
  <1>8. ASSUME NEW w \in Drains, NEW i \in Ids, MarkRaises(w, i)
        PROVE  SequentialInv'
    BY <1>8, ForgetAccounts DEF MarkRaises, Active
  <1>9. ASSUME NEW w \in Drains, Finish(w) PROVE SequentialInv'
    BY <1>9 DEF Finish, Goto, SequentialInv, OneActive, Active, Marking, IsNext, TypeOK
  <1>10. ASSUME NEW w \in Drains, Crash(w) PROVE SequentialInv'
    BY <1>10, ForgetAccounts DEF Crash
  <1>11. CASE UNCHANGED vars
    BY <1>11 DEF vars, SequentialInv, OneActive, Active, Marking, IsNext
  <1> QED
    BY <1>1, <1>2, <1>3, <1>4, <1>5, <1>6, <1>7, <1>8, <1>9, <1>10, <1>11
       DEF Next, Write, Start, Step

\* While drains do not overlap, an event takes effect once, and once more for
\* each completed call whose mark a crash or an error lost.
THEOREM RedeliveryIsLoss == Spec => []RedeliveredOnlyIfLost
  <1>1. ASSUME Init PROVE SequentialInv
    BY <1>1 DEF Init, SequentialInv, OneActive, Active, Marking
  <1>2. SequentialInv => RedeliveredOnlyIfLost
    BY DEF SequentialInv, RedeliveredOnlyIfLost
  <1> QED
    BY <1>1, <1>2, SequentialStep, TypeCorrect, HandlingCorrect, PTL DEF Spec

----------------------------------------------------------------------------
(* Drains that overlap. A drain that holds a row has called its handler and *)
(* is about to mark it, or may still call it. Before the first mark every   *)
(* effect has a drain of the first kind or a lost mark; after it, no drain  *)
(* comes to hold the row that did not before.                               *)

AtMark(w, i) == pc[w] = "called" /\ IsNext(w, i)

Marks(i) == {w \in Drains : AtMark(w, i)}

Waits(i) == {w \in Drains : i \in batch[w] /\ ~AtMark(w, i)}

EffectsOf(i) ==
  IF state[i] = "dispatched"
    THEN returns[i] + Cardinality(Waits(i)) <= lost[i] + Cardinality(Drains)
    ELSE returns[i] <= lost[i] + Cardinality(Marks(i))

LEMMA HoldersAreFew ==
  ASSUME NEW i \in Ids
  PROVE  /\ IsFiniteSet(Marks(i)) /\ IsFiniteSet(Waits(i))
         /\ Cardinality(Marks(i)) \in Nat /\ Cardinality(Waits(i)) \in Nat
         /\ Cardinality(Marks(i)) + Cardinality(Waits(i)) <= Cardinality(Drains)
         /\ Cardinality(Drains) \in Nat
  <1>1. Marks(i) \subseteq Drains /\ Waits(i) \subseteq Drains /\ Marks(i) \cap Waits(i) = {}
    BY DEF Marks, Waits
  <1>2. IsFiniteSet(Marks(i)) /\ IsFiniteSet(Waits(i)) /\ IsFiniteSet(Drains)
    BY <1>1, FS_Subset, OutboxAssumption
  <1>3. /\ Cardinality(Marks(i)) \in Nat /\ Cardinality(Waits(i)) \in Nat
        /\ Cardinality(Drains) \in Nat
    BY <1>2, FS_CardinalityType
  <1>4. Cardinality(Marks(i) \cup Waits(i)) = Cardinality(Marks(i)) + Cardinality(Waits(i))
    <2>1. Cardinality(Marks(i) \cup Waits(i))
            = Cardinality(Marks(i)) + Cardinality(Waits(i)) - Cardinality(Marks(i) \cap Waits(i))
      BY <1>2, FS_Union
    <2>2. Cardinality(Marks(i) \cap Waits(i)) = 0
      BY <1>1, FS_EmptySet
    <2> QED BY <1>3, <2>1, <2>2
  <1>5. Cardinality(Marks(i) \cup Waits(i)) <= Cardinality(Drains)
    BY <1>1, <1>2, FS_Subset
  <1> QED BY <1>2, <1>3, <1>4, <1>5

\* No new effect: the row is unmarked and who is at its mark stays there, or
\* it is marked, now or before, and nobody joins those who may still call.
LEMMA NoEffect ==
  ASSUME TypeOK, NEW i \in Ids, EffectsOf(i), returns'[i] = returns[i], lost'[i] = lost[i],
         IF state'[i] = "dispatched" THEN Waits(i)' \subseteq Waits(i)
         ELSE state[i] # "dispatched" /\ Marks(i) \subseteq Marks(i)'
  PROVE  EffectsOf(i)'
  <1>1. returns[i] \in Nat /\ lost[i] \in Nat
    BY DEF TypeOK
  <1>2. Cardinality(Waits(i)') \in Nat /\ Cardinality(Marks(i)') \in Nat /\ IsFiniteSet(Marks(i)')
    <2>1. IsFiniteSet(Marks(i)') /\ IsFiniteSet(Waits(i)')
      BY FS_Subset, OutboxAssumption DEF Marks, Waits
    <2> QED BY <2>1, FS_CardinalityType
  <1>3. CASE state'[i] = "dispatched"
    <2>1. Cardinality(Waits(i)') <= Cardinality(Waits(i))
      BY <1>3, HoldersAreFew, FS_Subset
    <2> QED BY <1>1, <1>2, <1>3, <2>1, HoldersAreFew DEF EffectsOf
  <1>4. CASE state'[i] # "dispatched"
    <2>1. Cardinality(Marks(i)) <= Cardinality(Marks(i)')
      BY <1>2, <1>4, FS_Subset
    <2> QED BY <1>1, <1>2, <1>4, <2>1, HoldersAreFew DEF EffectsOf
  <1> QED BY <1>3, <1>4

\* A handler returns: who waited is now at the mark.
LEMMA OneEffect ==
  ASSUME TypeOK, NEW i \in Ids, EffectsOf(i), NEW w \in Waits(i),
         returns'[i] = returns[i] + 1, lost'[i] = lost[i], state'[i] = state[i],
         Marks(i)' = Marks(i) \cup {w}, Waits(i)' = Waits(i) \ {w}
  PROVE  EffectsOf(i)'
  <1>1. returns[i] \in Nat /\ lost[i] \in Nat
    BY DEF TypeOK
  <1>2. w \notin Marks(i)
    BY DEF Marks, Waits
  <1>3. Cardinality(Marks(i)') = Cardinality(Marks(i)) + 1
    BY <1>2, HoldersAreFew, FS_AddElement
  <1>4. Cardinality(Waits(i)') = Cardinality(Waits(i)) - 1
    BY HoldersAreFew, FS_RemoveElement
  <1> QED BY <1>1, <1>3, <1>4, HoldersAreFew DEF EffectsOf

\* A mark is lost: one drain less is at it, one more loss is counted.
LEMMA LostMark ==
  ASSUME TypeOK, NEW i \in Ids, EffectsOf(i), NEW w \in Marks(i),
         returns'[i] = returns[i], lost'[i] = lost[i] + 1, state'[i] = state[i],
         Marks(i)' = Marks(i) \ {w}, Waits(i)' = Waits(i)
  PROVE  EffectsOf(i)'
  <1>1. returns[i] \in Nat /\ lost[i] \in Nat
    BY DEF TypeOK
  <1>2. Cardinality(Marks(i)') = Cardinality(Marks(i)) - 1
    BY HoldersAreFew, FS_RemoveElement
  <1>3. Cardinality(Waits(i)') = Cardinality(Waits(i))
    OBVIOUS
  <1> QED BY <1>1, <1>2, <1>3, HoldersAreFew DEF EffectsOf

\* A drain that ends early, at its entry's mark or elsewhere.
LEMMA EndsEarly ==
  ASSUME TypeOK, NEW w \in Drains, NEW end \in {"idle", "raised"}, NEW i \in Ids, EffectsOf(i),
         Forget(w), Goto(w, end), batch' = [batch EXCEPT ![w] = {}],
         UNCHANGED <<state, returns>>
  PROVE  EffectsOf(i)'
  <1>1. /\ pc'[w] = end /\ batch'[w] = {}
        /\ \A v \in Drains \ {w} : pc'[v] = pc[v] /\ batch'[v] = batch[v]
    BY DEF Goto, TypeOK
  <1>2. Marks(i)' = Marks(i) \ {w} /\ Waits(i)' = Waits(i) \ {w}
    BY <1>1 DEF Marks, Waits, AtMark, IsNext
  <1>3. CASE w \in Marks(i)
    <2>1. lost'[i] = lost[i] + 1 /\ Waits(i)' = Waits(i)
      BY <1>2, <1>3 DEF Forget, Marks, Waits, AtMark, TypeOK
    <2> QED BY <1>2, <1>3, <2>1, LostMark
  <1>4. CASE w \notin Marks(i)
    <2>1. lost'[i] = lost[i] /\ Marks(i)' = Marks(i) /\ Waits(i)' \subseteq Waits(i)
      BY <1>2, <1>4 DEF Forget, Marks, AtMark, TypeOK
    <2> QED BY <2>1, NoEffect
  <1> QED BY <1>3, <1>4

LEMMA EffectStep ==
  ASSUME TypeOK, HandlingInv, [Next]_vars, NEW i \in Ids, EffectsOf(i)
  PROVE  EffectsOf(i)'
  <1> USE DEF rowVars, drainVars, history
  <1>1. ASSUME NEW j \in Ids, Write(j) PROVE EffectsOf(i)'
    <2>1. /\ UNCHANGED <<pc, batch, returns, lost>>
          /\ state'[i] = "dispatched" <=> state[i] = "dispatched"
      BY <1>1 DEF Write, Insert, Commit, Rollback, EndTransaction, TypeOK
    <2>2. Marks(i)' = Marks(i) /\ Waits(i)' = Waits(i)
      BY <2>1 DEF Marks, Waits, AtMark, IsNext
    <2> QED BY <2>1, <2>2, NoEffect
  <1>2. ASSUME NEW w \in Drains, Start(w) PROVE EffectsOf(i)'
    <2>1. UNCHANGED <<state, returns, lost>>
      BY <1>2 DEF Start, Select, SelectRaises
    <2>2. /\ \A v \in Drains \ {w} : pc'[v] = pc[v] /\ batch'[v] = batch[v]
          /\ pc[w] # "called" /\ pc'[w] # "called"
          /\ batch'[w] \subseteq Pending \cup batch[w]
      BY <1>2, OldestIsSubset DEF Start, Select, SelectRaises, Goto, Active, TypeOK
    <2>3. /\ Marks(i) \subseteq Marks(i)'
          /\ state[i] = "dispatched" => Waits(i)' \subseteq Waits(i)
      BY <2>2 DEF Marks, Waits, AtMark, IsNext, Pending
    <2> QED BY <2>1, <2>3, NoEffect
  <1>3. ASSUME NEW w \in Drains, NEW j \in Ids, Skip(w, j) \/ Call(w, j) \/ Mark(w, j)
        PROVE  EffectsOf(i)'
    <2>1. /\ UNCHANGED <<returns, lost>> /\ IsNext(w, j)
          /\ \A v \in Drains \ {w} : pc'[v] = pc[v] /\ batch'[v] = batch[v]
          /\ pc'[w] # "called" /\ batch'[w] \subseteq batch[w]
          /\ pc[w] = "called" => j \notin batch'[w] /\ state'[j] = "dispatched"
          /\ state'[i] = state[i] \/ (i = j /\ state'[i] = "dispatched")
      BY <1>3 DEF Skip, Call, Mark, MarkDispatched, Goto, Drop, TypeOK
    <2>2. Waits(i)' \subseteq Waits(i)
      <3> SUFFICES ASSUME NEW v \in Waits(i)' PROVE v \in Waits(i)
        OBVIOUS
      <3>1. CASE v = w
        BY <2>1, <3>1, NextIsUnique DEF Waits, AtMark
      <3>2. CASE v # w
        BY <2>1, <3>2 DEF Waits, AtMark, IsNext
      <3> QED BY <3>1, <3>2
    <2>3. state'[i] # "dispatched" => state[i] # "dispatched" /\ Marks(i) \subseteq Marks(i)'
      <3> SUFFICES ASSUME state'[i] # "dispatched"
                   PROVE  state[i] # "dispatched" /\ Marks(i) \subseteq Marks(i)'
        OBVIOUS
      <3>1. pc[w] = "called" => i # j
        BY <2>1
      <3>2. w \notin Marks(i)
        BY <2>1, <3>1, NextIsUnique DEF Marks, AtMark
      <3> QED BY <2>1, <3>2 DEF Marks, AtMark, IsNext
    <2> QED BY <2>1, <2>2, <2>3, NoEffect
  <1>4. ASSUME NEW w \in Drains, NEW j \in Ids, HandlerReturns(w, j) PROVE EffectsOf(i)'
    <2>1. /\ UNCHANGED <<state, lost, batch>> /\ IsNext(w, j) /\ pc[w] = "calling"
          /\ pc'[w] = "called" /\ \A v \in Drains \ {w} : pc'[v] = pc[v]
          /\ returns'[i] = IF i = j THEN returns[i] + 1 ELSE returns[i]
      BY <1>4 DEF HandlerReturns, Goto, TypeOK
    <2>2. CASE i = j
      <3>1. w \in Waits(i) /\ Marks(i)' = Marks(i) \cup {w} /\ Waits(i)' = Waits(i) \ {w}
        BY <2>1, <2>2 DEF Marks, Waits, AtMark, IsNext
      <3> QED BY <2>1, <2>2, <3>1, OneEffect
    <2>3. CASE i # j
      <3>1. ~IsNext(w, i)
        BY <2>1, <2>3, NextIsUnique
      <3>2. Marks(i)' = Marks(i) /\ Waits(i)' = Waits(i)
        BY <2>1, <3>1 DEF Marks, Waits, AtMark, IsNext
      <3> QED BY <2>1, <2>3, <3>2, NoEffect
    <2> QED BY <2>2, <2>3
  <1>5. ASSUME NEW w \in Drains, (\E j \in Ids : HandlerRaises(w, j)) \/ Finish(w)
        PROVE  EffectsOf(i)'
    <2>1. /\ UNCHANGED <<state, returns, lost>>
          /\ \A v \in Drains \ {w} : pc'[v] = pc[v] /\ batch'[v] = batch[v]
          /\ pc[w] # "called" /\ pc'[w] # "called" /\ batch'[w] \subseteq batch[w]
      BY <1>5 DEF HandlerRaises, Finish, Goto, Drop, TypeOK
    <2>2. Marks(i)' = Marks(i) /\ Waits(i)' \subseteq Waits(i)
      BY <2>1 DEF Marks, Waits, AtMark, IsNext
    <2> QED BY <2>1, <2>2, NoEffect
  <1>6. ASSUME NEW w \in Drains, (\E j \in Ids : MarkRaises(w, j)) \/ Crash(w)
        PROVE  EffectsOf(i)'
    BY <1>6, EndsEarly DEF MarkRaises, Crash
  <1>7. CASE UNCHANGED vars
    <2>1. UNCHANGED <<state, returns, lost>> /\ Marks(i)' = Marks(i) /\ Waits(i)' = Waits(i)
      BY <1>7 DEF vars, Marks, Waits, AtMark, IsNext
    <2> QED BY <2>1, NoEffect
  <1> QED BY <1>1, <1>2, <1>3, <1>4, <1>5, <1>6, <1>7 DEF Next, Step

\* However drains overlap, an event takes effect no more often than there are
\* drains, and once more for each mark that was lost.
THEOREM EffectsAreBounded == Spec => []EffectsBounded
  <1> DEFINE EffectInv == \A i \in Ids : EffectsOf(i)
  <1>1. ASSUME Init PROVE EffectInv
    <2> SUFFICES ASSUME NEW i \in Ids PROVE EffectsOf(i)
      OBVIOUS
    <2>1. state[i] # "dispatched" /\ returns[i] = 0 /\ lost[i] = 0
      BY <1>1 DEF Init
    <2> QED BY <2>1, HoldersAreFew DEF EffectsOf
  <1>2. EffectInv /\ TypeOK /\ HandlingInv /\ [Next]_vars => EffectInv'
    BY EffectStep
  <1>3. TypeOK /\ EffectInv => EffectsBounded
    <2> SUFFICES ASSUME TypeOK, EffectInv, NEW i \in Ids
                 PROVE  returns[i] <= lost[i] + Cardinality(Drains)
      BY DEF EffectsBounded
    <2>1. EffectsOf(i) /\ returns[i] \in Nat /\ lost[i] \in Nat
      BY DEF TypeOK
    <2> QED BY <2>1, HoldersAreFew DEF EffectsOf
  <1> HIDE DEF EffectInv
  <1> QED BY <1>1, <1>2, <1>3, TypeCorrect, HandlingCorrect, PTL DEF Spec

----------------------------------------------------------------------------
(* Without overlap, handling is exactly once but for faults: every lost    *)
(* mark is one.                                                            *)

LostIsFault == \A i \in Ids : lost[i] <= faults

LEMMA LostStep ==
  TypeOK /\ TypeOK' /\ LostIsFault /\ [Next]_vars => LostIsFault'
  <1> SUFFICES ASSUME TypeOK, TypeOK', LostIsFault, [Next]_vars, NEW i \in Ids
               PROVE  lost'[i] <= faults'
    BY DEF LostIsFault
  <1>1. lost[i] \in Nat /\ faults \in Nat /\ lost[i] <= faults
    BY DEF TypeOK, LostIsFault
  <1>2. ASSUME NEW w \in Drains, (\E j \in Ids : MarkRaises(w, j)) \/ Crash(w)
        PROVE  lost'[i] <= faults'
    <2>1. lost'[i] \in {lost[i], lost[i] + 1} /\ faults' = faults + 1
      BY <1>2 DEF MarkRaises, Crash, Forget, Fault, TypeOK
    <2> QED BY <1>1, <2>1
  <1>3. CASE UNCHANGED lost /\ faults <= faults'
    BY <1>1, <1>3 DEF TypeOK
  <1>4. \/ UNCHANGED lost /\ faults <= faults'
        \/ \E w \in Drains : (\E j \in Ids : MarkRaises(w, j)) \/ Crash(w)
    <2> USE <1>1 DEF rowVars, history, Fault
    <2>1. ASSUME NEW j \in Ids, Write(j) PROVE UNCHANGED lost /\ faults <= faults'
      BY <2>1 DEF Write, Insert, Commit, Rollback, EndTransaction
    <2>2. ASSUME NEW w \in Drains, Start(w) PROVE UNCHANGED lost /\ faults <= faults'
      BY <2>2 DEF Start, Select, SelectRaises
    <2>3. ASSUME NEW w \in Drains, Step(w)
          PROVE  \/ UNCHANGED lost /\ faults <= faults'
                 \/ \E j \in Ids : MarkRaises(w, j)
      BY <2>3 DEF Step, Skip, Call, Mark, HandlerReturns, HandlerRaises, Finish
    <2>4. CASE UNCHANGED vars
      BY <2>4 DEF vars
    <2> QED BY <2>1, <2>2, <2>3, <2>4 DEF Next
  <1> QED BY <1>2, <1>3, <1>4

\* Drains that come one after the other handle an owned event that is dispatched
\* exactly once, but for one more time for each fault there was (worker.py: "a
\* crash mid-handler costs at most one redelivery").
THEOREM OnceButForFaults ==
  Spec => [](~overlap =>
               \A i \in Ids : /\ returns[i] <= 1 + faults
                              /\ state[i] = "dispatched" /\ event[i] \in Owned =>
                                   returns[i] \in 1..(1 + faults))
  <1> DEFINE Once == ~overlap =>
               \A i \in Ids : /\ returns[i] <= 1 + faults
                              /\ state[i] = "dispatched" /\ event[i] \in Owned =>
                                   returns[i] \in 1..(1 + faults)
  <1>1. Init => LostIsFault
    BY DEF Init, LostIsFault
  <1>2. TypeOK /\ LostIsFault /\ RedeliveredOnlyIfLost /\ DispatchedWasHandled => Once
    BY DEF TypeOK, LostIsFault, RedeliveredOnlyIfLost, DispatchedWasHandled
  <1> HIDE DEF Once
  <1>3. Spec => []LostIsFault
    BY <1>1, LostStep, TypeCorrect, PTL DEF Spec
  <1>4. Spec => []Once
    BY <1>2, <1>3, TypeCorrect, RedeliveryIsLoss, DispatchedHandled, PTL
  <1> QED BY <1>4 DEF Once

----------------------------------------------------------------------------
(* A row that is buried stays buried. No drain ever holds an unreadable    *)
(* row, and no handler ever completes for a poisonous one, so that neither *)
(* leaves the rows that wait.                                              *)

BurialInv ==
  /\ \A w \in Drains : \A i \in batch[w] : Readable(event[i])
  /\ \A i \in Ids : event[i] \in Poison => returns[i] = 0

LEMMA BurialStep ==
  TypeOK /\ TypeOK' /\ HandlingInv /\ BurialInv /\ [Next]_vars => BurialInv'
  <1> SUFFICES ASSUME TypeOK, TypeOK', HandlingInv, BurialInv, [Next]_vars
               PROVE  BurialInv'
    OBVIOUS
  <1> USE DEF rowVars, history
  <1>1. ASSUME NEW i \in Ids, NEW e \in Events, Insert(i, e) PROVE BurialInv'
    <2>1. /\ event' = [event EXCEPT ![i] = e] /\ UNCHANGED <<batch, returns>>
          /\ returns[i] = 0 /\ \A w \in Drains : i \notin batch[w]
      BY <1>1 DEF Insert, HandlingInv, BatchInv, OnlyCommittedHandled, TypeOK
    <2> QED BY <2>1 DEF BurialInv, Readable, TypeOK
  <1>2. ASSUME NEW i \in Ids, Commit(i) \/ Rollback(i) PROVE BurialInv'
    BY <1>2 DEF Commit, Rollback, EndTransaction, BurialInv, Readable
  <1>3. ASSUME NEW w \in Drains, Start(w) \/ Crash(w) PROVE BurialInv'
    BY <1>3 DEF Start, Select, SelectRaises, Crash, BurialInv, Readable, TypeOK
  <1>4. ASSUME NEW w \in Drains, NEW i \in Ids, HandlerReturns(w, i) PROVE BurialInv'
    BY <1>4 DEF HandlerReturns, BurialInv, Readable, TypeOK
  <1>5. ASSUME NEW w \in Drains,
               \/ \E i \in Ids : \/ Skip(w, i) \/ Call(w, i) \/ Mark(w, i)
                                 \/ HandlerRaises(w, i) \/ MarkRaises(w, i)
               \/ Finish(w)
        PROVE  BurialInv'
    <2>1. /\ UNCHANGED <<event, returns>>
          /\ \A v \in Drains : batch'[v] \subseteq batch[v]
      BY <1>5 DEF Skip, Call, Mark, HandlerRaises, MarkRaises, Finish, Drop, TypeOK
    <2> QED BY <2>1 DEF BurialInv, Readable
  <1>6. CASE UNCHANGED vars
    BY <1>6 DEF vars, BurialInv, Readable
  <1> QED BY <1>1, <1>2, <1>3, <1>4, <1>5, <1>6 DEF Next, Write, Step

\* What is behind an unreadable row, or behind enough stuck ones, is out of the
\* reach of a drain that starts.
LEMMA BuriedIsNotSelected ==
  ASSUME TypeOK, NEW i \in Ids, Buried(i), NEW w \in Drains, Select(w)
  PROVE  i \notin batch'[w]
  <1>1. batch'[w] = Oldest(Pending, Limit) /\ \A j \in batch'[w] : Readable(event[j])
    BY DEF Select, TypeOK
  <1>2. ASSUME NEW j \in Ids, j <= i, state[j] = "pending", ~Readable(event[j])
        PROVE  i \notin batch'[w]
    <2>1. j \in Pending /\ i \in Nat /\ j \in Nat
      BY <1>2, OutboxAssumption DEF Pending, Ids
    <2>2. i \in Oldest(Pending, Limit) => j \in Oldest(Pending, Limit)
      <3>1. CASE j < i
        BY <2>1, <3>1, OldestComeFirst, PendingIsFinite, OutboxAssumption
      <3>2. CASE j = i
        BY <3>2
      <3> QED BY <1>2, <2>1, <3>1, <3>2
    <2> QED BY <1>1, <1>2, <2>2
  <1>3. CASE Cardinality({j \in Ids : j < i /\ Stuck(j)}) >= Limit
    <2> DEFINE stuck == {j \in Ids : j < i /\ Stuck(j)}
               before == {j \in Pending : j < i}
    <2>1. stuck \in SUBSET before /\ before \in SUBSET Pending
      BY DEF Stuck, Pending
    <2>2. IsFiniteSet(before) /\ IsFiniteSet(stuck) /\ Cardinality(stuck) <= Cardinality(before)
      BY <2>1, PendingIsFinite, FS_Subset
    <2>3. Cardinality(before) \in Nat /\ Cardinality(stuck) \in Nat
      BY <2>2, FS_CardinalityType
    <2>4. ~(Cardinality(before) < Limit)
      BY <1>3, <2>2, <2>3, OutboxAssumption
    <2>5. i \notin Oldest(Pending, Limit)
      BY <2>4 DEF Oldest
    <2> QED BY <1>1, <2>5
  <1> QED BY <1>2, <1>3 DEF Buried

\* A row that waits, and is either unreadable or stuck, waits on.
LEMMA BurierStays ==
  ASSUME TypeOK, HandlingInv, BurialInv, [Next]_vars, NEW j \in Ids, state[j] = "pending",
         ~Readable(event[j]) \/ Stuck(j)
  PROVE  /\ state'[j] = "pending" /\ event'[j] = event[j]
  <1> USE DEF rowVars, history
  <1>1. ASSUME NEW i \in Ids, Write(i) PROVE state'[j] = "pending" /\ event'[j] = event[j]
    BY <1>1 DEF Write, Insert, Commit, Rollback, EndTransaction, TypeOK
  <1>2. ASSUME NEW w \in Drains, NEW i \in Ids, Skip(w, i) \/ Mark(w, i)
        PROVE  state'[j] = "pending" /\ event'[j] = event[j]
    <2>1. i # j
      BY <1>2 DEF Skip, Mark, IsNext, BurialInv, HandlingInv, BatchInv, Stuck
    <2> QED BY <1>2, <2>1 DEF Skip, Mark, MarkDispatched, TypeOK
  <1>3. ASSUME NEW w \in Drains,
               \/ Start(w) \/ Crash(w) \/ Finish(w)
               \/ \E i \in Ids : \/ Call(w, i) \/ HandlerReturns(w, i)
                                 \/ HandlerRaises(w, i) \/ MarkRaises(w, i)
        PROVE  state'[j] = "pending" /\ event'[j] = event[j]
    BY <1>3 DEF Start, Select, SelectRaises, Crash, Finish, Call, HandlerReturns,
                HandlerRaises, MarkRaises
  <1>4. CASE UNCHANGED vars
    BY <1>4 DEF vars
  <1> QED BY <1>1, <1>2, <1>3, <1>4 DEF Next, Step

\* The reason of a burial outlasts a step that keeps who buries.
LEMMA ReasonStays ==
  ASSUME TypeOK, NEW i \in Ids, Buried(i),
         \A j \in Ids : state[j] = "pending" /\ (~Readable(event[j]) \/ Stuck(j)) =>
                          state'[j] = "pending" /\ event'[j] = event[j]
  PROVE  \/ \E j \in Ids : j <= i /\ state'[j] = "pending" /\ ~Readable(event'[j])
         \/ Cardinality({j \in Ids : j < i /\ Stuck(j)}') >= Limit
  <1>1. ASSUME NEW j \in Ids, j <= i, state[j] = "pending", ~Readable(event[j])
        PROVE  state'[j] = "pending" /\ ~Readable(event'[j])
    BY <1>1
  <1>2. CASE Cardinality({j \in Ids : j < i /\ Stuck(j)}) >= Limit
    <2> DEFINE stuck == {j \in Ids : j < i /\ Stuck(j)}
    <2>1. stuck \in SUBSET stuck'
      BY DEF Stuck
    <2>2. IsFiniteSet(Ids) /\ stuck \in SUBSET Ids /\ stuck' \in SUBSET Ids
      BY OutboxAssumption, FS_Interval DEF Ids
    <2>3. IsFiniteSet(stuck) /\ IsFiniteSet(stuck')
      BY <2>2, FS_Subset
    <2>4. Cardinality(stuck) <= Cardinality(stuck')
      BY <2>1, <2>3, FS_Subset
    <2>5. Cardinality(stuck) \in Nat /\ Cardinality(stuck') \in Nat
      BY <2>3, FS_CardinalityType
    <2> QED BY <1>2, <2>4, <2>5, OutboxAssumption
  <1> QED BY <1>1, <1>2 DEF Buried

LEMMA BuriedStep ==
  ASSUME TypeOK, HandlingInv, BurialInv, [Next]_vars, NEW i \in Ids, Buried(i)
  PROVE  Buried(i)'
  <1> USE DEF rowVars, history
  <1>1. /\ state[i] = "pending" /\ \A w \in Drains : i \notin batch[w]
    BY DEF Buried
  <1>2. state'[i] = "pending"
    <2>1. ASSUME NEW j \in Ids, Write(j) PROVE state'[i] = "pending"
      BY <1>1, <2>1 DEF Write, Insert, Commit, Rollback, EndTransaction, TypeOK
    <2>2. ASSUME NEW w \in Drains, Start(w) \/ Step(w) \/ Crash(w) PROVE state'[i] = "pending"
      BY <1>1, <2>2 DEF Start, Select, SelectRaises, Crash, Step, Skip, Call, Mark,
         HandlerReturns, HandlerRaises, MarkRaises, Finish, MarkDispatched, IsNext, TypeOK
    <2>3. CASE UNCHANGED vars
      BY <1>1, <2>3 DEF vars
    <2> QED BY <2>1, <2>2, <2>3 DEF Next
  <1>3. ASSUME NEW v \in Drains PROVE i \notin batch'[v]
    <2>1. ASSUME NEW j \in Ids, Write(j) PROVE batch' = batch
      BY <2>1 DEF Write, Insert, Commit, Rollback, EndTransaction
    <2>2. ASSUME NEW w \in Drains, Select(w) PROVE i \notin batch'[v]
      <3>1. CASE v = w
        BY <2>2, <3>1, BuriedIsNotSelected
      <3>2. CASE v # w
        BY <1>1, <2>2, <3>2 DEF Select, TypeOK
      <3> QED BY <3>1, <3>2
    <2>3. ASSUME NEW w \in Drains, SelectRaises(w) \/ Step(w) \/ Crash(w)
          PROVE  batch'[v] \subseteq batch[v]
      BY <2>3 DEF SelectRaises, Crash, Step, Skip, Call, Mark, HandlerReturns, HandlerRaises,
                  MarkRaises, Finish, Drop, TypeOK
    <2>4. CASE UNCHANGED vars
      BY <1>1, <2>4 DEF vars
    <2> QED BY <1>1, <2>1, <2>2, <2>3, <2>4 DEF Next, Start
  <1>4. \/ \E j \in Ids : j <= i /\ state'[j] = "pending" /\ ~Readable(event'[j])
        \/ Cardinality({j \in Ids : j < i /\ Stuck(j)}') >= Limit
    BY BurierStays, ReasonStays
  <1> QED BY <1>2, <1>3, <1>4 DEF Buried

\* One unreadable row buries every row behind it for good, and so do as many
\* failing rows as a drain takes: nothing the outbox does digs a row out.
THEOREM BuriedStays == Spec => BuriedForGood
  <1>1. Init => BurialInv
    BY DEF Init, BurialInv
  <1>2. Spec => []BurialInv
    BY <1>1, BurialStep, TypeCorrect, HandlingCorrect, PTL DEF Spec
  <1>3. TypeOK /\ HandlingInv /\ BurialInv /\ [Next]_vars
          => [\A i \in Ids : Buried(i) => Buried(i)']_vars
    BY BuriedStep
  <1> QED BY <1>2, <1>3, TypeCorrect, HandlingCorrect, PTL DEF Spec, BuriedForGood

----------------------------------------------------------------------------
(* The outbox implements the stream: a commit publishes, a completed call  *)
(* takes effect, the first mark settles, everything else stutters.         *)

LEMMA StutterSteps ==
  ASSUME UNCHANGED <<state, returns>>,
         \A i \in Ids : state[i] # "free" => event'[i] = event[i]
  PROVE  UNCHANGED Stream!vars
  <1>1. StreamStatus' = StreamStatus
    BY DEF StreamStatus
  <1>2. StreamContent' = StreamContent
    BY DEF StreamContent, Published
  <1> QED BY <1>1, <1>2 DEF Stream!vars

\* Marking a pending row settles it; marking it again changes nothing.
LEMMA MarkSettles ==
  ASSUME TypeOK, NEW i \in Ids, state[i] \in {"pending", "dispatched"},
         event[i] \in Owned => returns[i] > 0,
         MarkDispatched(i), UNCHANGED <<event, returns>>
  PROVE  [Stream!Next]_(Stream!vars)
  <1>1. StreamContent' = StreamContent
    BY DEF StreamContent, Published, MarkDispatched, TypeOK
  <1>2. CASE state[i] = "pending"
    <2>1. StreamStatus' = [StreamStatus EXCEPT ![i] = "settled"]
      BY <1>2 DEF StreamStatus, MarkDispatched, TypeOK
    <2>2. Stream!Settle(i)
      BY <1>1, <1>2, <2>1 DEF Stream!Settle, StreamStatus, StreamContent, Published
    <2> QED BY <2>2 DEF Stream!Next
  <1>3. CASE state[i] = "dispatched"
    <2>1. StreamStatus' = StreamStatus
      BY <1>3 DEF StreamStatus, MarkDispatched, TypeOK
    <2> QED BY <1>1, <2>1 DEF Stream!vars
  <1> QED BY <1>2, <1>3

LEMMA StreamStep ==
  TypeOK /\ HandlingInv /\ [Next]_vars => [Stream!Next]_(Stream!vars)
  <1> SUFFICES ASSUME TypeOK, HandlingInv, [Next]_vars
               PROVE  [Stream!Next]_(Stream!vars)
    OBVIOUS
  <1>1. ASSUME NEW i \in Ids, NEW e \in Events, Insert(i, e)
        PROVE  UNCHANGED Stream!vars
    <2>1. StreamStatus' = StreamStatus
      BY <1>1 DEF Insert, StreamStatus, TypeOK
    <2>2. StreamContent' = StreamContent
      BY <1>1 DEF Insert, StreamContent, Published, TypeOK
    <2> QED BY <1>1, <2>1, <2>2 DEF Stream!vars, Insert
  <1>2. ASSUME NEW i \in Ids, Commit(i) PROVE Stream!Next
    <2>1. PICK e \in Events : e = event[i]
      BY <1>2 DEF Commit, EndTransaction, HandlingInv, EventInv
    <2>2. StreamStatus' = [StreamStatus EXCEPT ![i] = "pending"]
      BY <1>2 DEF Commit, EndTransaction, StreamStatus, TypeOK
    <2>3. StreamContent' = [StreamContent EXCEPT ![i] = e]
      BY <1>2, <2>1 DEF Commit, EndTransaction, StreamContent, Published, TypeOK
    <2>4. Stream!Publish(i, e)
      BY <1>2, <2>2, <2>3 DEF Commit, EndTransaction, Stream!Publish, StreamStatus
    <2> QED BY <2>4 DEF Stream!Next
  <1>3. ASSUME NEW i \in Ids, Rollback(i) PROVE UNCHANGED Stream!vars
    <2>1. StreamStatus' = StreamStatus
      BY <1>3 DEF Rollback, EndTransaction, StreamStatus, TypeOK
    <2>2. StreamContent' = StreamContent
      BY <1>3 DEF Rollback, EndTransaction, StreamContent, Published, TypeOK
    <2> QED BY <1>3, <2>1, <2>2 DEF Stream!vars, Rollback, EndTransaction
  <1>4. ASSUME NEW w \in Drains, NEW i \in Ids, Skip(w, i) \/ Mark(w, i)
        PROVE  [Stream!Next]_(Stream!vars)
    <2>1. /\ state[i] \in {"pending", "dispatched"}
          /\ event[i] \in Owned => returns[i] > 0
      BY <1>4 DEF Skip, Mark, IsNext, HandlingInv, BatchInv
    <2> QED BY <1>4, <2>1, MarkSettles DEF Skip, Mark, history
  <1>5. ASSUME NEW w \in Drains, NEW i \in Ids, HandlerReturns(w, i)
        PROVE  Stream!Next
    <2>1. i \in Published /\ event[i] \in Owned
      BY <1>5 DEF HandlerReturns, IsNext, HandlingInv, BatchInv, Published
    <2>2. StreamStatus[i] # "unborn" /\ StreamContent[i] \in Owned
      BY <2>1 DEF StreamStatus, StreamContent, Published
    <2>3. UNCHANGED <<StreamStatus, StreamContent>>
      BY <1>5 DEF HandlerReturns, rowVars, StreamStatus, StreamContent, Published
    <2>4. Stream!TakeEffect(i)
      BY <1>5, <2>2, <2>3 DEF HandlerReturns, Stream!TakeEffect
    <2> QED BY <2>4 DEF Stream!Next
  <1>6. ASSUME NEW w \in Drains,
               \/ Start(w) \/ Finish(w) \/ Crash(w)
               \/ \E i \in Ids : Call(w, i) \/ HandlerRaises(w, i) \/ MarkRaises(w, i)
        PROVE  UNCHANGED Stream!vars
    <2>1. UNCHANGED <<state, event, returns>>
      BY <1>6 DEF Start, Select, SelectRaises, Call, HandlerRaises, MarkRaises,
                  Finish, Crash, rowVars, history
    <2> QED BY <2>1, StutterSteps
  <1>7. CASE UNCHANGED vars
    BY <1>7, StutterSteps DEF vars
  <1> QED
    BY <1>1, <1>2, <1>3, <1>4, <1>5, <1>6, <1>7 DEF Next, Write, Step

\* Rows, drains, errors and crashes together are an at-least-once stream.
THEOREM StreamImplemented == Spec => KeepsStreamContract
  <1>1. ASSUME Init PROVE Stream!Init
    BY <1>1 DEF Init, Stream!Init, StreamStatus, StreamContent, Published
  <1> QED
    BY <1>1, StreamStep, TypeCorrect, HandlingCorrect, PTL
       DEF Spec, KeepsStreamContract, Stream!Spec
=============================================================================
