----------------------------- MODULE HumanGate ------------------------------
(***************************************************************************)
(* The approval queue (app/approvals.py, its endpoints in app/routes.py)   *)
(* and the one tool that fills it (draft_followup, app/tools.py).          *)
(*                                                                         *)
(* Requests run concurrently, each in one READ COMMITTED transaction: it   *)
(* loads the row (session.get), decides on that snapshot, and at commit    *)
(* the ORM writes the columns whose value changed against the snapshot,    *)
(* together with the Activity row of emit. A request that fails or dies    *)
(* leaves nothing.                                                         *)
(***************************************************************************)
EXTENDS Naturals, Sequences

CONSTANTS
  Drafts,    \* ids of approvals
  People,    \* employees with a token
  Nobody,    \* approved_by of a row nobody approved
  Requests,  \* concurrent requests
  MaxLog     \* bound: committed events

ASSUME GateAssumption ==
  /\ Nobody \notin People
  /\ MaxLog \in Nat

VARIABLES
  queued,  \* the approvals inserted
  row,     \* approved, approved_by and sent of each approval
  req,     \* each request's transaction
  log      \* the events committed, in commit order

vars == <<queued, row, req, log>>

\* A request works on approval `id`, on the snapshot `seen` it loaded; `who`
\* is the approver, or Nobody for a send.
NoReq == [op |-> "none"]

Row == [approved : BOOLEAN, approved_by : People \cup {Nobody}, sent : BOOLEAN]
Req == [op : {"approve", "send"}, id : Drafts, who : People \cup {Nobody}, seen : Row]
Event == [kind : {"drafted", "approved", "sent"}, id : Drafts,
          by : People \cup {Nobody}]

Fresh == [approved |-> FALSE, approved_by |-> Nobody, sent |-> FALSE]

Init ==
  /\ queued = {}
  /\ row = [a \in Drafts |-> Fresh]
  /\ req = [r \in Requests |-> NoReq]
  /\ log = <<>>

\* emit appends within the transaction that commits here.
Emit(k, a, p) ==
  /\ Len(log) < MaxLog
  /\ log' = Append(log, [kind |-> k, id |-> a, by |-> p])

\* Mutation: the draft is announced under a kind no consumer knows.
DraftUnderOtherKind(a, p) ==
  /\ a \notin queued
  /\ queued' = queued \cup {a}
  /\ Emit("queued", a, p)
  /\ UNCHANGED <<row, req>>

\* draft_followup, in a session of person p: one transaction inserts the row
\* and its event. The agent's reach ends here.
Draft(a, p) ==
  /\ a \notin queued
  /\ queued' = queued \cup {a}
  /\ Emit("drafted", a, p)
  /\ UNCHANGED <<row, req>>

Load(r, op, a, p) ==
  /\ req[r] = NoReq
  /\ a \in queued      \* else NotApproved: a 404 or 409, and nothing changes
  /\ req' = [req EXCEPT ![r] = [op |-> op, id |-> a, who |-> p, seen |-> row[a]]]
  /\ UNCHANGED <<queued, row, log>>

LoadApprove(r, a, p) == Load(r, "approve", a, p)

\* Mutation: the last checkpoint trusts its caller.
LoadSendUnchecked(r, a) == Load(r, "send", a, Nobody)

\* Refused with NotApproved, a 409, unless the row loaded is approved.
LoadSend(r, a) ==
  /\ row[a].approved
  /\ Load(r, "send", a, Nobody)

\* What the flush leaves in a row: the columns changed since it was loaded.
Flush(current, seen, new) ==
  [c \in DOMAIN current |-> IF new[c] # seen[c] THEN new[c] ELSE current[c]]

\* Mutation: the row is written back as it was loaded, all columns of it.
CommitApproveWholeRow(r) ==
  LET q == req[r]
  IN  /\ q.op = "approve"
      /\ row' = [row EXCEPT ![q.id] = [q.seen EXCEPT !.approved = TRUE,
                                                     !.approved_by = q.who]]
      /\ Emit("approved", q.id, q.who)
      /\ req' = [req EXCEPT ![r] = NoReq]
      /\ UNCHANGED queued

\* Mutation: the approval leaves no event.
CommitApproveSilently(r) ==
  LET q == req[r]
  IN  /\ q.op = "approve"
      /\ row' = [row EXCEPT ![q.id] =
                   Flush(@, q.seen, [q.seen EXCEPT !.approved = TRUE,
                                                   !.approved_by = q.who])]
      /\ req' = [req EXCEPT ![r] = NoReq]
      /\ UNCHANGED <<queued, log>>

CommitApprove(r) ==
  LET q == req[r]
  IN  /\ q.op = "approve"
      /\ row' = [row EXCEPT ![q.id] =
                   Flush(@, q.seen, [q.seen EXCEPT !.approved = TRUE,
                                                   !.approved_by = q.who])]
      /\ Emit("approved", q.id, q.who)
      /\ req' = [req EXCEPT ![r] = NoReq]
      /\ UNCHANGED queued

\* Nothing looks at `sent`: an approved draft can be sent again.
CommitSend(r) ==
  LET q == req[r]
  IN  /\ q.op = "send"
      /\ row' = [row EXCEPT ![q.id] =
                   Flush(@, q.seen, [q.seen EXCEPT !.sent = TRUE])]
      /\ Emit("sent", q.id, q.seen.approved_by)
      /\ req' = [req EXCEPT ![r] = NoReq]
      /\ UNCHANGED queued

\* Mutation: the list goes by what was delivered.
pending_unsent == {a \in queued : ~row[a].sent}

\* pending, behind GET /approvals: the drafts a person is asked to look at.
pending == {a \in queued : ~row[a].approved}

\* A failed commit, or a crash: the transaction rolls back as a whole.
Abort(r) ==
  /\ req[r] # NoReq
  /\ req' = [req EXCEPT ![r] = NoReq]
  /\ UNCHANGED <<queued, row, log>>

Next ==
  \/ \E a \in Drafts, p \in People : Draft(a, p)
  \/ \E r \in Requests :
       \/ \E a \in Drafts : LoadSend(r, a) \/ \E p \in People : LoadApprove(r, a, p)
       \/ CommitApprove(r) \/ CommitSend(r) \/ Abort(r)

Spec == Init /\ [][Next]_vars

----------------------------------------------------------------------------
(* Properties.                                                             *)

TypeOK ==
  /\ queued \in SUBSET Drafts
  /\ row \in [Drafts -> Row]
  /\ req \in [Requests -> Req \cup {NoReq}]
  /\ log \in Seq(Event)

Logged(k, a, p) ==
  \E n \in DOMAIN log : log[n].kind = k /\ log[n].id = a /\ log[n].by = p

\* Every message that left names a person who had signed that draft off
\* before it left (.agents-cli-spec.md: "Zero customer messages sent without
\* recorded approval"), however approvals and sends interleave.
SentWasSignedOff ==
  \A n \in DOMAIN log :
    log[n].kind = "sent" =>
      \E m \in DOMAIN log :
        /\ m < n
        /\ log[m] = [kind |-> "approved", id |-> log[n].id, by |-> log[n].by]

\* The row and the stream tell the same story: "the event and the business
\* change it describes must commit together or not at all" (store.emit), and
\* no stale request undoes what another one committed.
RowsMatchLog ==
  \A a \in Drafts :
    /\ row[a].approved <=> \E p \in People : Logged("approved", a, p)
    /\ row[a].approved => Logged("approved", a, row[a].approved_by)
    /\ row[a].sent <=> \E p \in People : Logged("sent", a, p)

\* The list a person works from (GET /approvals) is exactly the drafts nobody
\* has signed, whoever else approves and sends meanwhile: nothing that left is
\* on it, nothing is missing from it before a person has seen to it. A draft
\* that was approved and not yet sent is no longer on it.
PendingAwaitsPerson ==
  pending = {a \in queued : \A p \in People : ~Logged("approved", a, p)
                                            /\ ~Logged("sent", a, p)}

----------------------------------------------------------------------------
(* The rows, the requests and the stream keep the gate's promise.          *)

Signers == [a \in Drafts |-> {p \in People : Logged("approved", a, p)}]
Senders == [a \in Drafts |-> {p \in People \cup {Nobody} : Logged("sent", a, p)}]

Gate == INSTANCE GateContract WITH signers <- Signers, senders <- Senders

\* The concurrent requests implement a gate where a message leaves only in
\* the name of a person who signed it off (docs/architecture.md, "Human gate").
KeepsGateContract == Gate!Spec
=============================================================================
