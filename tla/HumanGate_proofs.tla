-------------------------- MODULE HumanGate_proofs --------------------------
(***************************************************************************)
(* Proofs about HumanGate, for any number of drafts, people and concurrent *)
(* requests: no message leaves unsigned, the rows match the event stream,  *)
(* and the gate implements GateContract.                                   *)
(*                                                                         *)
(* The invariants are inductive only together with what the snapshots of   *)
(* the requests under way guarantee: a snapshot never claims more than its *)
(* row, and an approver it names has signed.                               *)
(***************************************************************************)
EXTENDS HumanGate, TLAPS

Signed(a, p) == Logged("approved", a, p)

ApproverKnown(x) ==
  IF x.approved THEN x.approved_by \in People ELSE x.approved_by = Nobody

SnapshotInv ==
  \A r \in Requests :
    LET q == req[r]
    IN  q # NoReq =>
          /\ q.id \in queued
          /\ q.op = "send" => q.seen.approved
          /\ q.op = "approve" => q.who \in People
          /\ ApproverKnown(q.seen)
          /\ q.seen.approved => row[q.id].approved /\ Signed(q.id, q.seen.approved_by)
          /\ q.seen.sent => row[q.id].sent

RowInv ==
  \A a \in Drafts :
    /\ ApproverKnown(row[a])
    /\ row[a].approved => Signed(a, row[a].approved_by)
    /\ (\E p \in People : Signed(a, p)) => row[a].approved
    /\ row[a].sent <=> \E p \in People : Logged("sent", a, p)

GateInv == TypeOK /\ SnapshotInv /\ RowInv /\ SentWasSignedOff

----------------------------------------------------------------------------
(* The log.                                                                *)

LEMMA EmitLogs ==
  ASSUME log \in Seq(Event), NEW k \in {"drafted", "approved", "sent"},
         NEW a \in Drafts, NEW p \in People \cup {Nobody}, Emit(k, a, p)
  PROVE  /\ log' \in Seq(Event)
         /\ Len(log) + 1 \in DOMAIN log'
         /\ log'[Len(log) + 1].kind = k
         /\ log'[Len(log) + 1].id = a
         /\ log'[Len(log) + 1].by = p
         /\ \A n \in DOMAIN log : n \in DOMAIN log' /\ log'[n] = log[n]
         /\ \A n \in DOMAIN log' : n \in DOMAIN log \/ n = Len(log) + 1
         /\ \A n \in DOMAIN log : n < Len(log) + 1
  BY DEF Emit, Event

LEMMA EmitAddsOne ==
  ASSUME log \in Seq(Event), NEW k \in {"drafted", "approved", "sent"},
         NEW a \in Drafts, NEW p \in People \cup {Nobody}, Emit(k, a, p),
         NEW l \in {"drafted", "approved", "sent"}, NEW b \in Drafts,
         NEW z \in People \cup {Nobody}
  PROVE  Logged(l, b, z)' <=> Logged(l, b, z) \/ (l = k /\ b = a /\ z = p)
  <1>1. Logged(l, b, z) => Logged(l, b, z)'
    BY EmitLogs DEF Logged
  <1>2. l = k /\ b = a /\ z = p => Logged(l, b, z)'
    BY EmitLogs DEF Logged
  <1>3. Logged(l, b, z)' => Logged(l, b, z) \/ (l = k /\ b = a /\ z = p)
    BY EmitLogs DEF Logged
  <1> QED BY <1>1, <1>2, <1>3

\* An event that is no send, or a send in the name of somebody who signed,
\* keeps every send of the log behind its approval.
LEMMA EmitKeepsOrder ==
  ASSUME log \in Seq(Event), NEW k \in {"drafted", "approved", "sent"},
         NEW a \in Drafts, NEW p \in People \cup {Nobody}, Emit(k, a, p),
         SentWasSignedOff, k = "sent" => Signed(a, p)
  PROVE  SentWasSignedOff'
  <1> SUFFICES ASSUME NEW n \in DOMAIN log', log'[n].kind = "sent"
               PROVE  \E m \in DOMAIN log' :
                        /\ m < n
                        /\ log'[m] = [kind |-> "approved", id |-> log'[n].id,
                                      by |-> log'[n].by]
    BY DEF SentWasSignedOff
  <1>1. CASE n \in DOMAIN log
    BY <1>1, EmitLogs DEF SentWasSignedOff
  <1>2. CASE n = Len(log) + 1
    <2>1. k = "sent" /\ log'[n].id = a /\ log'[n].by = p
      BY <1>2, EmitLogs
    <2>2. PICK m \in DOMAIN log :
            log[m].kind = "approved" /\ log[m].id = a /\ log[m].by = p
      BY <2>1 DEF Signed, Logged
    <2>3. log[m] \in Event /\ m < n
      BY <1>2, <2>2, EmitLogs
    <2>4. log[m] = [kind |-> "approved", id |-> a, by |-> p]
      BY <2>2, <2>3 DEF Event
    <2> QED BY <2>1, <2>2, <2>3, <2>4, EmitLogs
  <1> QED BY <1>1, <1>2, EmitLogs

----------------------------------------------------------------------------
(* The rows.                                                               *)

\* Column by column, the flush takes what the request changed and keeps the
\* rest of the row as it now is.
LEMMA FlushColumns ==
  ASSUME NEW current \in Row, NEW seen \in Row, NEW new \in Row
  PROVE  LET x == Flush(current, seen, new)
         IN  /\ x \in Row
             /\ x.approved = IF new.approved # seen.approved
                               THEN new.approved ELSE current.approved
             /\ x.approved_by = IF new.approved_by # seen.approved_by
                                  THEN new.approved_by ELSE current.approved_by
             /\ x.sent = IF new.sent # seen.sent THEN new.sent ELSE current.sent
  <1> DEFINE x == Flush(current, seen, new)
  <1>1. DOMAIN current = {"approved", "approved_by", "sent"}
    BY DEF Row
  <1>2. x = [approved |-> x.approved, approved_by |-> x.approved_by, sent |-> x.sent]
    BY <1>1 DEF Flush
  <1>3. /\ x.approved = IF new.approved # seen.approved
                          THEN new.approved ELSE current.approved
        /\ x.approved_by = IF new.approved_by # seen.approved_by
                             THEN new.approved_by ELSE current.approved_by
        /\ x.sent = IF new.sent # seen.sent THEN new.sent ELSE current.sent
    BY <1>1 DEF Flush
  <1>4. x \in Row
    BY <1>2, <1>3 DEF Row
  <1> QED BY <1>3, <1>4

\* An approval changes its own row only: approved, by one who signed.
LEMMA ApproveRow ==
  ASSUME GateInv, NEW r \in Requests, CommitApprove(r)
  PROVE  LET q == req[r]
         IN  /\ row' \in [Drafts -> Row]
             /\ \A a \in Drafts \ {q.id} : row'[a] = row[a]
             /\ row'[q.id].approved
             /\ row'[q.id].approved_by \in {q.who, row[q.id].approved_by}
             /\ ~row[q.id].approved => row'[q.id].approved_by = q.who
             /\ row'[q.id].sent = row[q.id].sent
  <1> DEFINE q == req[r]
             new == [q.seen EXCEPT !.approved = TRUE, !.approved_by = q.who]
  <1>1. q \in Req /\ q.id \in Drafts /\ q.who \in People /\ q.seen \in Row
    BY DEF GateInv, TypeOK, SnapshotInv, CommitApprove, NoReq, Req
  <1>2. /\ new \in Row /\ new.approved = TRUE /\ new.approved_by = q.who
        /\ new.sent = q.seen.sent
    BY <1>1 DEF Row
  <1>3. /\ q.seen.approved => row[q.id].approved
        /\ ~q.seen.approved => q.seen.approved_by # q.who
    BY <1>1, GateAssumption
       DEF GateInv, SnapshotInv, ApproverKnown, CommitApprove, NoReq
  <1>4. row[q.id] \in Row /\ row \in [Drafts -> Row]
    BY <1>1 DEF GateInv, TypeOK
  <1>5. row' = [row EXCEPT ![q.id] = Flush(row[q.id], q.seen, new)]
    BY DEF CommitApprove
  <1>6. q.seen.approved \in BOOLEAN /\ row[q.id].approved \in BOOLEAN
    BY <1>1, <1>4 DEF Row
  <1> DEFINE x == Flush(row[q.id], q.seen, new)
  <1>7. /\ x \in Row
        /\ x.approved = IF new.approved # q.seen.approved
                          THEN new.approved ELSE row[q.id].approved
        /\ x.approved_by = IF new.approved_by # q.seen.approved_by
                             THEN new.approved_by ELSE row[q.id].approved_by
        /\ x.sent = IF new.sent # q.seen.sent THEN new.sent ELSE row[q.id].sent
    <2> HIDE DEF new
    <2> QED BY <1>1, <1>2, <1>4, FlushColumns
  <1>8. /\ row' \in [Drafts -> Row]
        /\ \A a \in Drafts \ {q.id} : row'[a] = row[a]
        /\ row'[q.id] = x
    <2> HIDE DEF x
    <2>1. row' = [row EXCEPT ![q.id] = x]
      BY <1>5 DEF x
    <2> QED BY <2>1, <1>1, <1>4, <1>7
  <1>9. /\ x.approved
        /\ x.approved_by \in {q.who, row[q.id].approved_by}
        /\ ~row[q.id].approved => x.approved_by = q.who
        /\ x.sent = row[q.id].sent
    <2> HIDE DEF x, new
    <2> QED BY <1>2, <1>3, <1>6, <1>7
  <1> QED BY <1>8, <1>9

\* A send changes its own row only, and there only `sent`.
LEMMA SendRow ==
  ASSUME GateInv, NEW r \in Requests, CommitSend(r)
  PROVE  LET q == req[r]
         IN  /\ row' \in [Drafts -> Row]
             /\ \A a \in Drafts \ {q.id} : row'[a] = row[a]
             /\ row'[q.id].approved = row[q.id].approved
             /\ row'[q.id].approved_by = row[q.id].approved_by
             /\ row'[q.id].sent
             /\ row[q.id].approved
             /\ q.seen.approved_by \in People
             /\ Signed(q.id, q.seen.approved_by)
  <1> DEFINE q == req[r]
             new == [q.seen EXCEPT !.sent = TRUE]
             x == Flush(row[q.id], q.seen, new)
  <1>1. q \in Req /\ q.id \in Drafts /\ q.seen \in Row /\ q # NoReq
    BY DEF GateInv, TypeOK, CommitSend, NoReq, Req
  <1>2. /\ new \in Row /\ new.sent = TRUE /\ new.approved = q.seen.approved
        /\ new.approved_by = q.seen.approved_by
    BY <1>1 DEF Row
  <1>3. /\ q.seen.approved /\ row[q.id].approved
        /\ q.seen.approved_by \in People
        /\ Signed(q.id, q.seen.approved_by)
        /\ q.seen.sent => row[q.id].sent
    BY <1>1 DEF GateInv, SnapshotInv, ApproverKnown, CommitSend
  <1>4. row[q.id] \in Row /\ row \in [Drafts -> Row]
    BY <1>1 DEF GateInv, TypeOK
  <1>5. /\ x \in Row
        /\ x.approved = IF new.approved # q.seen.approved
                          THEN new.approved ELSE row[q.id].approved
        /\ x.approved_by = IF new.approved_by # q.seen.approved_by
                             THEN new.approved_by ELSE row[q.id].approved_by
        /\ x.sent = IF new.sent # q.seen.sent THEN new.sent ELSE row[q.id].sent
    <2> HIDE DEF new
    <2> QED BY <1>1, <1>2, <1>4, FlushColumns
  <1>6. /\ row' \in [Drafts -> Row]
        /\ \A a \in Drafts \ {q.id} : row'[a] = row[a]
        /\ row'[q.id] = x
    <2>1. row' = [row EXCEPT ![q.id] = x]
      BY DEF CommitSend
    <2> HIDE DEF x
    <2> QED BY <2>1, <1>1, <1>4, <1>5
  <1>7. q.seen.sent \in BOOLEAN /\ row[q.id].sent \in BOOLEAN
    BY <1>1, <1>4 DEF Row
  <1>8. /\ x.approved = row[q.id].approved
        /\ x.approved_by = row[q.id].approved_by
        /\ x.sent
    <2> HIDE DEF x, new
    <2> QED BY <1>2, <1>3, <1>5, <1>7
  <1> QED BY <1>3, <1>6, <1>8

----------------------------------------------------------------------------
(* The invariant is inductive.                                             *)

\* Rows and log that only grow keep every snapshot truthful.
LEMMA SnapshotsKept ==
  ASSUME GateInv, queued \subseteq queued',
         \A a \in Drafts : row[a].approved => row'[a].approved,
         \A a \in Drafts : row[a].sent => row'[a].sent,
         \A a \in Drafts, p \in People : Signed(a, p) => Signed(a, p)',
         \A r \in Requests : req'[r] \in {NoReq, req[r]}
  PROVE  SnapshotInv'
  <1> SUFFICES ASSUME NEW r \in Requests, req'[r] # NoReq
               PROVE  LET q == req'[r]
                      IN  /\ q.id \in queued'
                          /\ q.op = "send" => q.seen.approved
                          /\ q.op = "approve" => q.who \in People
                          /\ ApproverKnown(q.seen)
                          /\ q.seen.approved => row'[q.id].approved
                          /\ q.seen.approved =>
                               \E n \in DOMAIN log' :
                                 /\ log'[n].kind = "approved"
                                 /\ log'[n].id = q.id
                                 /\ log'[n].by = q.seen.approved_by
                          /\ q.seen.sent => row'[q.id].sent
    BY DEF SnapshotInv, ApproverKnown, Signed, Logged
  <1>1. req'[r] = req[r] /\ req[r].id \in Drafts
    BY DEF GateInv, TypeOK, NoReq, Req
  <1>2. PICK p, a : a \in Drafts /\ a = req[r].id /\ p = req[r].seen.approved_by
    BY <1>1
  <1>3. /\ a \in queued
        /\ req[r].op = "send" => req[r].seen.approved
        /\ req[r].op = "approve" => req[r].who \in People
        /\ ApproverKnown(req[r].seen)
        /\ req[r].seen.approved => row[a].approved /\ Signed(a, p)
        /\ req[r].seen.sent => row[a].sent
    BY <1>1, <1>2 DEF GateInv, SnapshotInv
  <1>4. req[r].seen.approved => p \in People
    BY <1>2, <1>3 DEF ApproverKnown
  <1>5. req[r].seen.approved => Signed(a, p)'
    BY <1>2, <1>3, <1>4
  <1> QED BY <1>1, <1>2, <1>3, <1>5 DEF ApproverKnown, Signed, Logged

LEMMA DraftStep ==
  ASSUME GateInv, NEW a \in Drafts, NEW p \in People, Draft(a, p)
  PROVE  GateInv'
  <1>1. Emit("drafted", a, p) /\ UNCHANGED <<row, req>> /\ log \in Seq(Event)
    BY DEF Draft, GateInv, TypeOK
  <1>2. TypeOK'
    BY <1>1, EmitLogs DEF Draft, GateInv, TypeOK
  <1>3. \A b \in Drafts, z \in People \cup {Nobody} :
          /\ Logged("approved", b, z)' <=> Logged("approved", b, z)
          /\ Logged("sent", b, z)' <=> Logged("sent", b, z)
    BY <1>1, EmitAddsOne
  <1>4. SnapshotInv'
    BY <1>1, <1>3, SnapshotsKept DEF Draft, Signed
  <1>5. RowInv'
    BY <1>1, <1>3 DEF GateInv, RowInv, ApproverKnown, Signed
  <1>6. SentWasSignedOff'
    BY <1>1, EmitKeepsOrder DEF GateInv
  <1> QED BY <1>2, <1>4, <1>5, <1>6 DEF GateInv

LEMMA LoadStep ==
  ASSUME GateInv, NEW r \in Requests, NEW op \in {"approve", "send"},
         NEW a \in Drafts, NEW p \in People \cup {Nobody}, Load(r, op, a, p),
         op = "send" => row[a].approved, op = "approve" => p \in People
  PROVE  GateInv'
  <1>1. UNCHANGED <<queued, row, log>>
    BY DEF Load
  <1>2. TypeOK'
    BY DEF Load, GateInv, TypeOK, Req
  <1>3. SnapshotInv'
    <2>1. req'[r] = [op |-> op, id |-> a, who |-> p, seen |-> row[a]]
      BY DEF Load, GateInv, TypeOK
    <2>2. a \in queued /\ \A s \in Requests \ {r} : req'[s] = req[s]
      BY DEF Load, GateInv, TypeOK
    <2> QED BY <1>1, <2>1, <2>2
            DEF GateInv, SnapshotInv, RowInv, ApproverKnown, Signed, Logged
  <1>4. RowInv' /\ SentWasSignedOff'
    BY <1>1 DEF GateInv, RowInv, SentWasSignedOff, Signed, Logged, ApproverKnown
  <1> QED BY <1>2, <1>3, <1>4 DEF GateInv

LEMMA ApproveStep ==
  ASSUME GateInv, NEW r \in Requests, CommitApprove(r)
  PROVE  GateInv'
  <1>1. PICK a \in Drafts, p \in People : a = req[r].id /\ p = req[r].who
    BY DEF GateInv, TypeOK, SnapshotInv, CommitApprove, NoReq, Req
  <1>2. /\ row' \in [Drafts -> Row]
        /\ \A b \in Drafts \ {a} : row'[b] = row[b]
        /\ row'[a].approved
        /\ row'[a].approved_by \in {p, row[a].approved_by}
        /\ ~row[a].approved => row'[a].approved_by = p
        /\ row'[a].sent = row[a].sent
    BY <1>1, ApproveRow
  <1>3. Emit("approved", a, p) /\ log \in Seq(Event)
    BY <1>1 DEF CommitApprove, GateInv, TypeOK
  <1>4. TypeOK'
    BY <1>2, <1>3, EmitLogs DEF CommitApprove, GateInv, TypeOK
  <1>5. \A b \in Drafts, z \in People \cup {Nobody} :
          /\ Logged("approved", b, z)' <=> Logged("approved", b, z) \/ (b = a /\ z = p)
          /\ Logged("sent", b, z)' <=> Logged("sent", b, z)
    BY <1>3, EmitAddsOne
  <1>6. SnapshotInv'
    <2>1. \A s \in Requests : req'[s] \in {NoReq, req[s]}
      BY DEF CommitApprove, GateInv, TypeOK
    <2> QED BY <1>2, <1>5, <2>1, SnapshotsKept DEF CommitApprove, Signed
  <1>7. RowInv'
    BY <1>2, <1>5, GateAssumption DEF GateInv, RowInv, ApproverKnown, Signed
  <1>8. SentWasSignedOff'
    BY <1>3, EmitKeepsOrder DEF GateInv
  <1> QED BY <1>4, <1>6, <1>7, <1>8 DEF GateInv

LEMMA SendStep ==
  ASSUME GateInv, NEW r \in Requests, CommitSend(r)
  PROVE  GateInv'
  <1>1. PICK a \in Drafts : a = req[r].id
    BY DEF GateInv, TypeOK, CommitSend, NoReq, Req
  <1>2. PICK p \in People : p = req[r].seen.approved_by
    BY SendRow
  <1>3. /\ row' \in [Drafts -> Row]
        /\ \A b \in Drafts \ {a} : row'[b] = row[b]
        /\ row'[a].approved = row[a].approved
        /\ row'[a].approved_by = row[a].approved_by
        /\ row'[a].sent
        /\ Signed(a, p)
    BY <1>1, <1>2, SendRow
  <1>4. Emit("sent", a, p) /\ log \in Seq(Event)
    BY <1>1, <1>2 DEF CommitSend, GateInv, TypeOK
  <1>5. TypeOK'
    BY <1>3, <1>4, EmitLogs DEF CommitSend, GateInv, TypeOK
  <1>6. \A b \in Drafts, z \in People \cup {Nobody} :
          /\ Logged("approved", b, z)' <=> Logged("approved", b, z)
          /\ Logged("sent", b, z)' <=> Logged("sent", b, z) \/ (b = a /\ z = p)
    BY <1>4, EmitAddsOne
  <1>7. SnapshotInv'
    <2>1. \A s \in Requests : req'[s] \in {NoReq, req[s]}
      BY DEF CommitSend, GateInv, TypeOK
    <2> QED BY <1>3, <1>6, <2>1, SnapshotsKept DEF CommitSend, Signed
  <1>8. RowInv'
    BY <1>3, <1>6 DEF GateInv, RowInv, ApproverKnown, Signed
  <1>9. SentWasSignedOff'
    BY <1>3, <1>4, EmitKeepsOrder DEF GateInv
  <1> QED BY <1>5, <1>7, <1>8, <1>9 DEF GateInv

LEMMA GateStep == GateInv /\ [Next]_vars => GateInv'
  <1> SUFFICES ASSUME GateInv, [Next]_vars PROVE GateInv'
    OBVIOUS
  <1>1. ASSUME NEW r \in Requests, NEW a \in Drafts, LoadSend(r, a) PROVE GateInv'
    BY <1>1, LoadStep DEF LoadSend
  <1>2. ASSUME NEW r \in Requests, NEW a \in Drafts, NEW p \in People,
               LoadApprove(r, a, p)
        PROVE  GateInv'
    BY <1>2, LoadStep DEF LoadApprove
  <1>3. ASSUME NEW r \in Requests, Abort(r) PROVE GateInv'
    <2>1. SnapshotInv'
      <3>1. \A s \in Requests : req'[s] \in {NoReq, req[s]}
        BY <1>3 DEF Abort, GateInv, TypeOK
      <3> QED BY <1>3, <3>1, SnapshotsKept DEF Abort, Signed, Logged
    <2> QED BY <1>3, <2>1 DEF Abort, GateInv, TypeOK, RowInv, SentWasSignedOff,
                              Signed, Logged, ApproverKnown
  <1>4. CASE UNCHANGED vars
    BY <1>4 DEF vars, GateInv, TypeOK, SnapshotInv, RowInv, SentWasSignedOff,
                Signed, Logged, ApproverKnown
  <1> QED BY <1>1, <1>2, <1>3, <1>4, DraftStep, ApproveStep, SendStep DEF Next

LEMMA GateInvariant == Spec => []GateInv
  <1>1. ASSUME Init PROVE GateInv
    BY <1>1 DEF Init, GateInv, TypeOK, SnapshotInv, RowInv, SentWasSignedOff,
                Row, Fresh, Signed, Logged, ApproverKnown
  <1> QED BY <1>1, GateStep, PTL DEF Spec

----------------------------------------------------------------------------
(* What the gate guarantees.                                               *)

\* Every reachable state of the gate is well typed.
THEOREM TypeCorrect == Spec => []TypeOK
  <1>1. GateInv => TypeOK
    BY DEF GateInv
  <1> QED BY <1>1, GateInvariant, PTL

\* No message leaves before a person signed that draft off, and it leaves in
\* the name of one who did (approvals.send).
THEOREM SignedBeforeSent == Spec => []SentWasSignedOff
  <1>1. GateInv => SentWasSignedOff
    BY DEF GateInv
  <1> QED BY <1>1, GateInvariant, PTL

\* The rows and the events committed with them never disagree (store.emit),
\* whatever stale snapshots the requests flush.
THEOREM RowsMatch == Spec => []RowsMatchLog
  <1>1. GateInv => RowsMatchLog
    BY DEF GateInv, RowInv, ApproverKnown, Signed, RowsMatchLog
  <1> QED BY <1>1, GateInvariant, PTL

\* The list of GET /approvals holds exactly the drafts nobody has signed yet.
THEOREM PendingIsExact == Spec => []PendingAwaitsPerson
  <1>1. ASSUME GateInv PROVE PendingAwaitsPerson
    <2>1. ASSUME NEW a \in queued
          PROVE  row[a].approved <=> \E p \in People : \/ Logged("approved", a, p)
                                                      \/ Logged("sent", a, p)
      <3>1. a \in Drafts
        BY <1>1 DEF GateInv, TypeOK
      <3>2. row[a].approved <=> \E p \in People : Signed(a, p)
        BY <1>1, <3>1 DEF GateInv, RowInv, ApproverKnown
      <3>3. ASSUME NEW p \in People, Logged("sent", a, p) PROVE Signed(a, p)
        BY <1>1, <3>3 DEF GateInv, SentWasSignedOff, Logged, Signed
      <3> QED BY <3>2, <3>3 DEF Signed
    <2> QED BY <2>1 DEF PendingAwaitsPerson, pending
  <1> QED BY <1>1, GateInvariant, PTL

----------------------------------------------------------------------------
(* The gate implements GateContract: a draft queues, a committed approval  *)
(* signs off, a committed send delivers, everything else stutters.         *)

LEMMA ContractStep == GateInv /\ [Next]_vars => [Gate!Next]_(Gate!vars)
  <1> SUFFICES ASSUME GateInv, [Next]_vars PROVE [Gate!Next]_(Gate!vars)
    OBVIOUS
  <1>1. ASSUME NEW a \in Drafts, NEW p \in People, Draft(a, p) PROVE Gate!Next
    <2>1. \A b \in Drafts, z \in People \cup {Nobody} :
            /\ Logged("approved", b, z)' <=> Logged("approved", b, z)
            /\ Logged("sent", b, z)' <=> Logged("sent", b, z)
      BY <1>1, EmitAddsOne DEF Draft, GateInv, TypeOK
    <2>2. Signers' = Signers /\ Senders' = Senders
      BY <2>1 DEF Signers, Senders
    <2>3. Gate!Queue(a)
      BY <1>1, <2>2 DEF Draft, Gate!Queue
    <2> QED BY <2>3 DEF Gate!Next
  <1>2. ASSUME NEW r \in Requests, CommitApprove(r) PROVE Gate!Next
    <2>1. PICK a \in Drafts, p \in People : a = req[r].id /\ p = req[r].who
      BY <1>2 DEF GateInv, TypeOK, SnapshotInv, CommitApprove, NoReq, Req
    <2>2. \A b \in Drafts, z \in People \cup {Nobody} :
            /\ Logged("approved", b, z)' <=> Logged("approved", b, z) \/ (b = a /\ z = p)
            /\ Logged("sent", b, z)' <=> Logged("sent", b, z)
      BY <1>2, <2>1, EmitAddsOne DEF CommitApprove, GateInv, TypeOK
    <2>3. a \in queued /\ queued' = queued
      BY <1>2, <2>1 DEF GateInv, SnapshotInv, CommitApprove, NoReq
    <2>4. Senders' = Senders /\ Signers' = [Signers EXCEPT ![a] = @ \cup {p}]
      BY <2>2 DEF Signers, Senders
    <2>5. Gate!SignOff(a, p)
      BY <2>3, <2>4 DEF Gate!SignOff
    <2> QED BY <2>5 DEF Gate!Next
  <1>3. ASSUME NEW r \in Requests, CommitSend(r) PROVE Gate!Next
    <2>1. PICK a \in Drafts : a = req[r].id
      BY <1>3 DEF GateInv, TypeOK, CommitSend, NoReq, Req
    <2>2. PICK p \in People : p = req[r].seen.approved_by
      BY <1>3, SendRow
    <2>3. \A b \in Drafts, z \in People \cup {Nobody} :
            /\ Logged("approved", b, z)' <=> Logged("approved", b, z)
            /\ Logged("sent", b, z)' <=> Logged("sent", b, z) \/ (b = a /\ z = p)
      BY <1>3, <2>1, <2>2, EmitAddsOne DEF CommitSend, GateInv, TypeOK
    <2>4. Signed(a, p) /\ queued' = queued
      BY <1>3, <2>1, <2>2, SendRow DEF CommitSend
    <2>5. p \in Signers[a]
      BY <2>4 DEF Signers, Signed
    <2>6. Signers' = Signers /\ Senders' = [Senders EXCEPT ![a] = @ \cup {p}]
      BY <2>3 DEF Signers, Senders
    <2>7. Gate!Deliver(a, p)
      BY <2>4, <2>5, <2>6 DEF Gate!Deliver
    <2> QED BY <2>7 DEF Gate!Next
  <1>4. ASSUME UNCHANGED <<queued, log>> PROVE UNCHANGED Gate!vars
    <2>1. Signers' = Signers /\ Senders' = Senders
      BY <1>4 DEF Signers, Senders, Logged
    <2> QED BY <1>4, <2>1 DEF Gate!vars
  <1> QED BY <1>1, <1>2, <1>3, <1>4
          DEF Next, vars, Load, LoadSend, LoadApprove, Abort

\* Concurrent requests over rows and snapshots implement the abstract gate:
\* nobody's message leaves but in the name of one of its signers.
THEOREM GateImplemented == Spec => KeepsGateContract
  <1>1. ASSUME Init PROVE Gate!Init
    <2>1. \A k, a, p : ~Logged(k, a, p)
      BY <1>1 DEF Init, Logged
    <2> QED BY <1>1, <2>1 DEF Init, Gate!Init, Signers, Senders
  <1> QED
    BY <1>1, ContractStep, GateInvariant, PTL DEF Spec, KeepsGateContract, Gate!Spec
=============================================================================
