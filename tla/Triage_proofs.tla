---------------------------- MODULE Triage_proofs ----------------------------
(***************************************************************************)
(* Proofs about Triage, for any staff, tickets, labels and number of calls *)
(* at once. The counter is bounded because a call adds one to a load it    *)
(* read: by its commit at least as many triages have chosen its owner, and *)
(* each that did since has crossed it. The counter is exact, and a ticket  *)
(* as the last event told, because a call that has the table, or the       *)
(* ticket, to itself still sees at its commit what it read.                *)
(***************************************************************************)
EXTENDS Triage, FiniteSetTheorems, TLAPS

Chooses(c) == call[c] # NoCall /\ call[c].chosen

\* A load, in a row or as a call read it, and the triages that chose e.
Accounts(load, e) == load <= Given(e) /\ Given(e) <= load + crossed[e]

LoadCalls ==
  \A c \in Calls : Chooses(c) /\ call[c].to # Nobody => Accounts(call[c].load, call[c].to)

LoadInv == (\A e \in Staff : Accounts(open_load[e], e)) /\ LoadCalls

\* A call that is alone holds the loads as they are.
AloneInv ==
  /\ \A c, d \in Calls : call[c] # NoCall /\ call[d] # NoCall => c = d
  /\ \A c \in Calls : Chooses(c) =>
       IF Staff = {} THEN call[c].to = Nobody
       ELSE call[c].to \in LeastLoaded /\ call[c].load = open_load[call[c].to]

Fair == \A e, f \in Staff : open_load[e] = Given(e) /\ open_load[e] <= open_load[f] + 1

ReadsAs(t, x) ==
  /\ ticket[t].category = x.label.category
  /\ ticket[t].severity = x.label.severity
  /\ ticket[t].assignee = x.to

\* A call that has its ticket to itself holds the row as it is, and the row is
\* as the last event told.
TicketCalls ==
  \A c \in Calls : \A t \in Tickets \ contested : IsAbout(c, t) =>
    /\ \A d \in Calls : IsAbout(d, t) => c = d
    /\ call[c].seen = ticket[t]

TicketInv ==
  /\ TicketCalls
  /\ \A t \in Tickets \ contested : \A n \in LastTriage(t) : ReadsAs(t, triaged[n])

\* A column that is no longer blank was reported, and none gets blank again.
Reported(t) ==
  /\ \/ ticket[t].category = NoLabel
     \/ \E m \in About(t) : ticket[t].category = triaged[m].label.category
  /\ \/ ticket[t].severity = NoLabel
     \/ \E m \in About(t) : ticket[t].severity = triaged[m].label.severity
  /\ \/ ticket[t].assignee = Nobody
     \/ \E m \in About(t) : ticket[t].assignee = triaged[m].to

NotBlanker(row, than) ==
  /\ than.category # NoLabel => row.category # NoLabel
  /\ than.severity # NoLabel => row.severity # NoLabel
  /\ than.assignee # Nobody  => row.assignee # Nobody

Filled(t) ==
  /\ ticket[t].category # NoLabel /\ ticket[t].severity # NoLabel
  /\ Staff # {} => ticket[t].assignee # Nobody

ReportedCalls ==
  \A c \in Calls :
    /\ call[c] # NoCall => NotBlanker(ticket[call[c].ticket], call[c].seen)
    /\ Chooses(c) => (call[c].to = Nobody <=> Staff = {})

ReportedInv ==
  /\ \A t \in Tickets : Reported(t) /\ (About(t) # {} => Filled(t))
  /\ ReportedCalls

TriageInv ==
  TypeOK /\ LoadInv /\ (~overlap => AloneInv /\ Fair) /\ TicketInv /\ ReportedInv

----------------------------------------------------------------------------
(* Calls, rows and the events.                                             *)

LEMMA NoCallIsNone == NoCall \notin Call /\ \A q \in Call : DOMAIN q # DOMAIN NoCall
  BY DEF NoCall, Call

LEMMA GivenIsCount ==
  ASSUME TypeOK, NEW e
  PROVE  /\ IsFiniteSet({n \in DOMAIN triaged : triaged[n].to = e})
         /\ Given(e) \in Nat
  <1>1. DOMAIN triaged = 1..Len(triaged) /\ Len(triaged) \in Nat
    BY DEF TypeOK
  <1>2. IsFiniteSet(1..Len(triaged))
    BY <1>1, FS_Interval
  <1>3. IsFiniteSet({n \in DOMAIN triaged : triaged[n].to = e})
    BY <1>1, <1>2, FS_Subset
  <1> QED BY <1>3, FS_CardinalityType DEF Given

\* A committed call counts for its owner and for nobody else.
LEMMA GivenAppended ==
  ASSUME TypeOK, NEW x \in Triaged, triaged' = Append(triaged, x), NEW e
  PROVE  Given(e)' = IF x.to = e THEN Given(e) + 1 ELSE Given(e)
  <1> DEFINE N == Len(triaged) + 1
             S == {n \in DOMAIN triaged : triaged[n].to = e}
             T == {n \in DOMAIN triaged' : triaged'[n].to = e}
  <1>1. /\ DOMAIN triaged = 1..Len(triaged) /\ Len(triaged) \in Nat
        /\ DOMAIN triaged' = 1..N /\ triaged'[N] = x
        /\ \A n \in DOMAIN triaged : triaged'[n] = triaged[n]
    BY DEF TypeOK
  <1>2. T = IF x.to = e THEN S \cup {N} ELSE S
    BY <1>1
  <1>3. IsFiniteSet(S) /\ N \notin S
    <2>1. IsFiniteSet(S)
      BY GivenIsCount
    <2>2. N \notin S
      BY <1>1
    <2> QED BY <2>1, <2>2
  <1>4. Cardinality(T) = IF x.to = e THEN Cardinality(S) + 1 ELSE Cardinality(S)
    BY <1>2, <1>3, FS_AddElement
  <1> QED BY <1>4 DEF Given

\* Column by column, what differs from the row as it was seen is written.
LEMMA FlushColumns ==
  ASSUME NEW current \in Row, NEW seen \in Row, NEW new \in Row
  PROVE  LET x == Flush(current, seen, new)
         IN  /\ x \in Row
             /\ x.category = IF new.category # seen.category THEN new.category ELSE current.category
             /\ x.severity = IF new.severity # seen.severity THEN new.severity ELSE current.severity
             /\ x.assignee = IF new.assignee # seen.assignee THEN new.assignee ELSE current.assignee
             /\ current = seen => x = new
  <1> DEFINE x == Flush(current, seen, new)
  <1>1. DOMAIN current = {"category", "severity", "assignee"}
    BY DEF Row
  <1>2. x = [category |-> x.category, severity |-> x.severity, assignee |-> x.assignee]
    BY <1>1 DEF Flush
  <1>3. /\ x.category = IF new.category # seen.category THEN new.category ELSE current.category
        /\ x.severity = IF new.severity # seen.severity THEN new.severity ELSE current.severity
        /\ x.assignee = IF new.assignee # seen.assignee THEN new.assignee ELSE current.assignee
    BY <1>1 DEF Flush
  <1>4. x \in Row
    BY <1>2, <1>3 DEF Row
  <1>5. ASSUME current = seen PROVE x = new
    <2>1. x.category = new.category /\ x.severity = new.severity /\ x.assignee = new.assignee
      BY <1>3, <1>5
    <2>2. new = [category |-> new.category, severity |-> new.severity, assignee |-> new.assignee]
      BY DEF Row
    <2> HIDE DEF x
    <2> QED BY <1>2, <2>1, <2>2
  <1> QED BY <1>3, <1>4, <1>5

LEMMA ClassifiedIsRow ==
  ASSUME NEW q \in Call
  PROVE  /\ Classified(q) \in Row
         /\ Classified(q).category = q.label.category
         /\ Classified(q).severity = q.label.severity
         /\ Classified(q).assignee = IF q.to = Nobody THEN q.seen.assignee ELSE q.to
  BY DEF Classified, Call, Row

\* A commit writes every column, or finds it as it would write it.
LEMMA RowAfterCommit ==
  ASSUME NEW q \in Call, NEW current \in Row, NotBlanker(current, q.seen),
         q.to = Nobody <=> Staff = {}
  PROVE  LET x == Flush(current, q.seen, Classified(q))
         IN  /\ x.category \in {q.label.category, current.category} \ {NoLabel}
             /\ x.severity \in {q.label.severity, current.severity} \ {NoLabel}
             /\ q.to = Nobody => x.assignee = current.assignee
             /\ q.to # Nobody => x.assignee \in {q.to, current.assignee} \ {Nobody}
  <1> DEFINE x == Flush(current, q.seen, Classified(q))
  <1>1. /\ q.seen \in Row /\ q.label \in Labels /\ Classified(q) \in Row
        /\ Classified(q).category = q.label.category
        /\ Classified(q).severity = q.label.severity
        /\ Classified(q).assignee = IF q.to = Nobody THEN q.seen.assignee ELSE q.to
    BY ClassifiedIsRow DEF Call
  <1>2. q.label.category # NoLabel /\ q.label.severity # NoLabel
    BY <1>1, TriageAssumption
  <1>3. /\ x.category = IF q.label.category # q.seen.category THEN q.label.category
                        ELSE current.category
        /\ x.severity = IF q.label.severity # q.seen.severity THEN q.label.severity
                        ELSE current.severity
        /\ x.assignee = IF Classified(q).assignee # q.seen.assignee THEN Classified(q).assignee
                        ELSE current.assignee
    BY <1>1, FlushColumns
  <1>4. /\ x.category \in {q.label.category, current.category} \ {NoLabel}
        /\ x.severity \in {q.label.severity, current.severity} \ {NoLabel}
        /\ q.to = Nobody => x.assignee = current.assignee
        /\ q.to # Nobody => x.assignee \in {q.to, current.assignee} \ {Nobody}
    <2> HIDE DEF x
    <2> QED BY <1>1, <1>2, <1>3 DEF NotBlanker
  <1> QED BY <1>4

LEMMA AboutAppended ==
  ASSUME TypeOK, NEW x \in Triaged, triaged' = Append(triaged, x), NEW t
  PROVE  /\ About(t)' = IF x.ticket = t THEN About(t) \cup {Len(triaged) + 1} ELSE About(t)
         /\ \A n \in About(t) : n <= Len(triaged) /\ triaged'[n] = triaged[n]
         /\ triaged'[Len(triaged) + 1] = x
  <1>1. /\ DOMAIN triaged = 1..Len(triaged) /\ Len(triaged) \in Nat
        /\ DOMAIN triaged' = 1..(Len(triaged) + 1) /\ triaged'[Len(triaged) + 1] = x
        /\ \A m \in DOMAIN triaged : triaged'[m] = triaged[m]
    BY DEF TypeOK
  <1> QED BY <1>1 DEF About

\* The last event about the committed ticket is the new one, and about every
\* other ticket the one it was.
LEMMA LastAppended ==
  ASSUME TypeOK, NEW x \in Triaged, triaged' = Append(triaged, x), NEW t \in Tickets,
         NEW n \in LastTriage(t)'
  PROVE  IF x.ticket = t THEN triaged'[n] = x
         ELSE n \in LastTriage(t) /\ triaged'[n] = triaged[n]
  <1> DEFINE N == Len(triaged) + 1
  <1>1. /\ DOMAIN triaged = 1..Len(triaged) /\ Len(triaged) \in Nat
        /\ DOMAIN triaged' = 1..N /\ triaged'[N] = x
        /\ \A m \in DOMAIN triaged : triaged'[m] = triaged[m]
    BY DEF TypeOK
  <1>2. /\ n \in 1..N /\ triaged'[n].ticket = t
        /\ \A m \in 1..N : triaged'[m].ticket = t => m <= n
    BY <1>1 DEF LastTriage, About
  <1> QED BY <1>1, <1>2 DEF LastTriage, About

----------------------------------------------------------------------------
(* The steps. All but the commit leave the tables and the events alone.    *)

LEMMA Reads ==
  ASSUME TriageInv, UNCHANGED <<ticket, open_load, triaged, crossed>>,
         call' \in [Calls -> Call \cup {NoCall}], overlap' \in BOOLEAN,
         contested' \in SUBSET Tickets, overlap => overlap', contested \subseteq contested',
         LoadCalls', TicketCalls', ReportedCalls', ~overlap' => AloneInv'
  PROVE  TriageInv'
  <1>1. TypeOK'
    BY DEF TriageInv, TypeOK
  <1>2. /\ \A e : Given(e)' = Given(e)
        /\ \A t : About(t)' = About(t) /\ LastTriage(t)' = LastTriage(t)
    BY DEF Given, About, LastTriage
  <1>3. LoadInv'
    BY <1>2 DEF TriageInv, LoadInv, Accounts
  <1>4. ~overlap' => Fair'
    BY <1>2 DEF TriageInv, Fair
  <1>5. TicketInv'
    BY <1>2 DEF TriageInv, TicketInv, ReadsAs
  <1>6. ReportedInv'
    BY <1>2 DEF TriageInv, ReportedInv, Reported, Filled
  <1> QED BY <1>1, <1>3, <1>4, <1>5, <1>6 DEF TriageInv

LEMMA LoadTicketStep ==
  ASSUME TriageInv, NEW c \in Calls, NEW t \in Tickets, NEW l \in Labels, LoadTicket(c, t, l)
  PROVE  TriageInv'
  <1> DEFINE new == [ticket |-> t, label |-> l, seen |-> ticket[t], chosen |-> FALSE,
                     to |-> Nobody, load |-> 0]
  <1>1. new \in Call
    BY DEF TriageInv, TypeOK, Call
  <1>2. /\ call' = [call EXCEPT ![c] = new]
        /\ UNCHANGED <<ticket, open_load, triaged, crossed>>
        /\ call[c] = NoCall
        /\ overlap' = (overlap \/ \E d \in Calls \ {c} : call[d] # NoCall)
        /\ contested' = IF \E d \in Calls \ {c} : IsAbout(d, t)
                          THEN contested \cup {t} ELSE contested
    BY DEF LoadTicket
  <1>3. /\ call' \in [Calls -> Call \cup {NoCall}] /\ call'[c] = new
        /\ \A d \in Calls \ {c} : call'[d] = call[d]
        /\ overlap' \in BOOLEAN /\ (overlap => overlap')
        /\ contested' \in SUBSET Tickets /\ contested \subseteq contested'
    <2> HIDE DEF new
    <2> QED BY <1>1, <1>2 DEF TriageInv, TypeOK
  <1>4. \A d \in Calls : Chooses(d)' => d # c /\ Chooses(d) /\ call'[d] = call[d]
    BY <1>3 DEF Chooses
  <1>5. \A e : Given(e)' = Given(e)
    BY <1>2 DEF Given
  <1>6. LoadCalls'
    BY <1>2, <1>4, <1>5 DEF TriageInv, LoadInv, LoadCalls, Accounts
  <1>7. TicketCalls'
    <2> SUFFICES ASSUME NEW d \in Calls, NEW u \in Tickets \ contested', IsAbout(d, u)'
                 PROVE  /\ \A f \in Calls : IsAbout(f, u)' => d = f
                        /\ call'[d].seen = ticket'[u]
      BY DEF TicketCalls
    <2>1. /\ new.ticket = t /\ new.seen = ticket[t] /\ u \notin contested
          /\ IsAbout(c, u)' => u = t
          /\ \A f \in Calls \ {c} : IsAbout(f, u)' <=> IsAbout(f, u)
      BY <1>3 DEF IsAbout
    <2>2. u = t => \A f \in Calls \ {c} : ~IsAbout(f, u)
      BY <1>2
    <2> HIDE DEF new
    <2>3. CASE d = c
      BY <1>2, <1>3, <2>1, <2>2, <2>3
    <2>4. CASE d # c
      BY <1>2, <1>3, <2>1, <2>2, <2>4 DEF TriageInv, TicketInv, TicketCalls
    <2> QED BY <2>3, <2>4
  <1>8. ReportedCalls'
    <2>1. NotBlanker(ticket[new.ticket], new.seen)
      BY DEF NotBlanker
    <2> HIDE DEF new
    <2> QED BY <1>2, <1>3, <1>4, <2>1 DEF TriageInv, ReportedInv, ReportedCalls, NotBlanker
  <1>9. ASSUME ~overlap' PROVE AloneInv'
    <2>1. \A d \in Calls \ {c} : call'[d] = NoCall
      BY <1>2, <1>3, <1>9
    <2>2. \A d \in Calls : ~Chooses(d)'
      BY <1>3, <2>1 DEF Chooses
    <2> QED BY <1>3, <2>1, <2>2 DEF AloneInv
  <1> QED BY <1>2, <1>3, <1>6, <1>7, <1>8, <1>9, Reads

LEMMA ChooseOwnerStep ==
  ASSUME TriageInv, NEW c \in Calls, NEW e \in Choice, ChooseOwner(c, e)
  PROVE  TriageInv'
  <1> DEFINE load == IF e = Nobody THEN 0 ELSE open_load[e]
             new == [call[c] EXCEPT !.chosen = TRUE, !.to = e, !.load = load]
  <1>1. /\ IF Staff = {} THEN e = Nobody ELSE e \in LeastLoaded
        /\ e \in Staff \cup {Nobody} /\ (e = Nobody <=> Staff = {})
    BY TriageAssumption DEF Choice, LeastLoaded
  <1>2. load \in Nat /\ (e # Nobody => Accounts(load, e))
    BY <1>1 DEF TriageInv, TypeOK, LoadInv
  <1>3. /\ call[c] \in Call /\ call[c] # NoCall
        /\ UNCHANGED <<ticket, open_load, triaged, overlap, contested, crossed>>
    BY DEF ChooseOwner, TriageInv, TypeOK, history
  <1>4. call' = [call EXCEPT ![c] = new]
    BY DEF ChooseOwner, TriageInv, TypeOK
  <1>5. /\ new \in Call /\ new # NoCall /\ new.to = e /\ new.load = load
        /\ new.ticket = call[c].ticket /\ new.seen = call[c].seen
    <2> HIDE DEF load
    <2> QED BY <1>1, <1>2, <1>3, NoCallIsNone DEF Call
  <1>6. /\ call' \in [Calls -> Call \cup {NoCall}] /\ call'[c] = new
        /\ \A d \in Calls \ {c} : call'[d] = call[d]
    <2> HIDE DEF new
    <2> QED BY <1>3, <1>4, <1>5 DEF TriageInv, TypeOK
  <1> HIDE DEF new, load
  <1>7. \A x, g : Accounts(x, g) => Given(g)' = Given(g) /\ crossed' = crossed
    BY <1>3 DEF Given
  <1>8. LoadCalls'
    <2> SUFFICES ASSUME NEW d \in Calls, Chooses(d)', call'[d].to # Nobody
                 PROVE  Accounts(call[d].load, call[d].to)'
      BY DEF LoadCalls
    <2>1. Accounts(call'[d].load, call'[d].to)
      BY <1>2, <1>5, <1>6 DEF TriageInv, LoadInv, LoadCalls, Chooses
    <2> QED BY <1>7, <2>1 DEF Accounts
  <1>9. TicketCalls'
    <2>1. \A d \in Calls : \A t : IsAbout(d, t)' <=> IsAbout(d, t)
      BY <1>3, <1>5, <1>6 DEF IsAbout
    <2>2. \A d \in Calls : call'[d].seen = call[d].seen
      BY <1>5, <1>6
    <2> QED BY <1>3, <2>1, <2>2 DEF TriageInv, TicketInv, TicketCalls
  <1>10. ReportedCalls'
    <2>1. \A d \in Calls : /\ call'[d].seen = call[d].seen /\ call'[d].ticket = call[d].ticket
                           /\ call'[d] # NoCall <=> call[d] # NoCall
                           /\ Chooses(d)' => d = c \/ (Chooses(d) /\ call'[d].to = call[d].to)
      BY <1>3, <1>5, <1>6 DEF Chooses
    <2> QED BY <1>1, <1>3, <1>5, <1>6, <2>1
            DEF TriageInv, ReportedInv, ReportedCalls, NotBlanker
  <1>11. ASSUME ~overlap' PROVE AloneInv'
    <2>1. AloneInv /\ \A d \in Calls \ {c} : call[d] = NoCall
      BY <1>3, <1>11 DEF TriageInv, AloneInv
    <2>2. \A d \in Calls \ {c} : call'[d] = NoCall
      BY <1>6, <2>1
    <2>3. IF Staff = {} THEN new.to = Nobody
          ELSE new.to \in LeastLoaded /\ new.load = open_load[new.to]
      BY <1>1, <1>5 DEF load
    <2>4. LeastLoaded' = LeastLoaded
      BY <1>3 DEF LeastLoaded
    <2> QED BY <1>3, <1>5, <1>6, <2>2, <2>3, <2>4 DEF AloneInv, Chooses
  <1>12. /\ overlap' \in BOOLEAN /\ (overlap => overlap')
         /\ contested' \in SUBSET Tickets /\ contested \subseteq contested'
    BY <1>3 DEF TriageInv, TypeOK
  <1> QED BY <1>3, <1>6, <1>8, <1>9, <1>10, <1>11, <1>12, Reads

LEMMA AbortStep ==
  ASSUME TriageInv, NEW c \in Calls, Abort(c)
  PROVE  TriageInv'
  <1>1. /\ call' = [call EXCEPT ![c] = NoCall]
        /\ UNCHANGED <<ticket, open_load, triaged, overlap, contested, crossed>>
    BY DEF Abort, history
  <1>2. /\ call' \in [Calls -> Call \cup {NoCall}] /\ call'[c] = NoCall
        /\ \A d \in Calls \ {c} : call'[d] = call[d]
        /\ overlap' \in BOOLEAN /\ contested' \in SUBSET Tickets
    BY <1>1 DEF TriageInv, TypeOK
  <1>3. \A d \in Calls : call'[d] # NoCall => d # c /\ call'[d] = call[d]
    BY <1>2
  <1>4. \A e : Given(e)' = Given(e)
    BY <1>1 DEF Given
  <1>5. LoadCalls'
    BY <1>1, <1>3, <1>4 DEF TriageInv, LoadInv, LoadCalls, Accounts, Chooses
  <1>6. TicketCalls'
    BY <1>1, <1>3 DEF TriageInv, TicketInv, TicketCalls, IsAbout
  <1>7. ReportedCalls'
    BY <1>1, <1>3 DEF TriageInv, ReportedInv, ReportedCalls, NotBlanker, Chooses
  <1>8. LeastLoaded' = LeastLoaded
    BY <1>1 DEF LeastLoaded
  <1>9. ~overlap' => AloneInv'
    BY <1>1, <1>3, <1>8 DEF TriageInv, AloneInv, Chooses
  <1> QED BY <1>1, <1>2, <1>5, <1>6, <1>7, <1>9, Reads

----------------------------------------------------------------------------
(* The commit.                                                             *)

LEMMA CommitStep ==
  ASSUME TriageInv, NEW c \in Calls, Commit(c)
  PROVE  TriageInv'
  <1> DEFINE q == call[c]
             x == [ticket |-> q.ticket, label |-> q.label, to |-> q.to]
             new == Flush(ticket[q.ticket], q.seen, Classified(q))
             N == Len(triaged) + 1
  <1>1. /\ q \in Call /\ q # NoCall /\ q.chosen /\ Len(triaged) < MaxTriages
        /\ ticket' = [ticket EXCEPT ![q.ticket] = new]
        /\ open_load' = [e \in Staff |-> IF e = q.to THEN q.load + 1 ELSE open_load[e]]
        /\ triaged' = Append(triaged, x)
        /\ call' = [call EXCEPT ![c] = NoCall]
        /\ crossed' = [e \in Staff |-> IF e = q.to /\ \E d \in Calls \ {c} : Chose(d, e)
                                       THEN crossed[e] + 1 ELSE crossed[e]]
        /\ overlap' = overlap /\ contested' = contested
    BY DEF Commit, TriageInv, TypeOK, Loaded
  <1>2. /\ q.ticket \in Tickets /\ q.label \in Labels /\ q.seen \in Row
        /\ q.to \in Staff \cup {Nobody} /\ q.load \in Nat
    BY <1>1 DEF Call
  <1>3. x \in Triaged /\ x.ticket = q.ticket /\ x.label = q.label /\ x.to = q.to
    BY <1>2 DEF Triaged
  <1>4. new \in Row /\ (ticket[q.ticket] = q.seen => new = Classified(q))
    BY <1>1, <1>2, FlushColumns, ClassifiedIsRow DEF TriageInv, TypeOK
  <1>5. /\ ticket' \in [Tickets -> Row] /\ ticket'[q.ticket] = new
        /\ \A t \in Tickets \ {q.ticket} : ticket'[t] = ticket[t]
    <2> HIDE DEF new, q
    <2> QED BY <1>1, <1>2, <1>4 DEF TriageInv, TypeOK
  <1>6. /\ call' \in [Calls -> Call \cup {NoCall}] /\ call'[c] = NoCall
        /\ \A d \in Calls : call'[d] # NoCall => d # c /\ call'[d] = call[d]
    BY <1>1 DEF TriageInv, TypeOK
  <1>7. TypeOK'
    <2>1. open_load' \in [Staff -> Nat] /\ crossed' \in [Staff -> Nat]
      BY <1>1, <1>2 DEF TriageInv, TypeOK
    <2>2. triaged' \in Seq(Triaged) /\ Len(triaged') <= MaxTriages
      <3> HIDE DEF x
      <3> QED BY <1>1, <1>3, TriageAssumption DEF TriageInv, TypeOK
    <2> QED BY <1>1, <1>5, <1>6, <2>1, <2>2 DEF TriageInv, TypeOK
  <1>8. \A e : Given(e)' = (IF q.to = e THEN Given(e) + 1 ELSE Given(e)) /\ Given(e) \in Nat
    <2> SUFFICES ASSUME NEW e
                 PROVE  Given(e)' = (IF q.to = e THEN Given(e) + 1 ELSE Given(e)) /\ Given(e) \in Nat
      OBVIOUS
    <2>1. Given(e)' = IF x.to = e THEN Given(e) + 1 ELSE Given(e)
      <3> HIDE DEF x
      <3> QED BY <1>1, <1>3, GivenAppended DEF TriageInv
    <2> QED BY <1>3, <2>1, GivenIsCount DEF TriageInv
  <1>9. /\ \A t : About(t)' = IF q.ticket = t THEN About(t) \cup {N} ELSE About(t)
        /\ \A t : \A m \in About(t) : triaged'[m] = triaged[m]
        /\ triaged'[N] = x
    <2>1. TypeOK /\ x \in Triaged /\ triaged' = Append(triaged, x) /\ x.ticket = q.ticket
      BY <1>1, <1>3 DEF TriageInv
    <2> HIDE DEF x, q
    <2> QED BY <2>1, AboutAppended
  <1>10. /\ NotBlanker(ticket[q.ticket], q.seen) /\ (q.to = Nobody <=> Staff = {})
         /\ Chooses(c)
    BY <1>1 DEF TriageInv, ReportedInv, ReportedCalls, Chooses
  <1> HIDE DEF new, x, N
  <1>11. LoadInv'
    <2>1. ASSUME NEW e \in Staff PROVE Accounts(open_load[e], e)'
      <3>1. crossed[e] \in Nat /\ crossed'[e] \in {crossed[e], crossed[e] + 1}
        BY <1>1 DEF TriageInv, TypeOK
      <3>2. CASE e = q.to
        <4>1. Accounts(q.load, e)
          BY <1>10, <3>2, TriageAssumption DEF TriageInv, LoadInv, LoadCalls
        <4> QED BY <1>1, <1>2, <1>8, <3>1, <3>2, <4>1 DEF Accounts
      <3>3. CASE e # q.to
        BY <1>1, <1>8, <3>3 DEF TriageInv, LoadInv, Accounts
      <3> QED BY <3>2, <3>3
    <2>2. LoadCalls'
      <3> SUFFICES ASSUME NEW d \in Calls, Chooses(d)', call'[d].to # Nobody
                   PROVE  Accounts(call[d].load, call[d].to)'
        BY DEF LoadCalls
      <3>1. d # c /\ Chooses(d) /\ call'[d] = call[d] /\ call[d] \in Call
        BY <1>6 DEF TriageInv, TypeOK, Chooses
      <3>2. call[d].to \in Staff /\ call[d].load \in Nat
        BY <3>1, TriageAssumption DEF Call
      <3> PICK e \in Staff, load \in Nat : e = call[d].to /\ load = call[d].load
        BY <3>2
      <3>3. Accounts(load, e) /\ Chose(d, e)
        BY <3>1 DEF TriageInv, LoadInv, LoadCalls, Chooses, Chose
      <3>4. crossed[e] \in Nat /\ crossed'[e] = IF e = q.to THEN crossed[e] + 1 ELSE crossed[e]
        BY <1>1, <3>1, <3>3 DEF TriageInv, TypeOK
      <3>5. Given(e)' = (IF q.to = e THEN Given(e) + 1 ELSE Given(e)) /\ Given(e) \in Nat
        BY <1>8
      <3>6. load <= Given(e)' /\ Given(e)' <= load + crossed'[e]
        <4> HIDE DEF q
        <4> QED BY <3>3, <3>4, <3>5 DEF Accounts
      <3>7. call'[d].to = e /\ call'[d].load = load /\ Given(call[d].to)' = Given(e)'
        BY <3>1
      <3> QED BY <3>6, <3>7 DEF Accounts
    <2> QED BY <2>1, <2>2 DEF LoadInv
  <1>12. TicketInv'
    <2>1. TicketCalls'
      <3> SUFFICES ASSUME NEW d \in Calls, NEW t \in Tickets \ contested', IsAbout(d, t)'
                   PROVE  /\ \A f \in Calls : IsAbout(f, t)' => d = f
                          /\ call'[d].seen = ticket'[t]
        BY DEF TicketCalls
      <3>1. \A f \in Calls : IsAbout(f, t)' => f # c /\ IsAbout(f, t) /\ call'[f] = call[f]
        BY <1>6 DEF IsAbout
      <3>2. t # q.ticket
        BY <1>1, <3>1 DEF TriageInv, TicketInv, TicketCalls, IsAbout
      <3> QED BY <1>1, <1>5, <3>1, <3>2 DEF TriageInv, TicketInv, TicketCalls
    <2>2. ASSUME NEW t \in Tickets \ contested', NEW n \in LastTriage(t)'
          PROVE  ReadsAs(t, triaged[n])'
      <3>1. IF x.ticket = t THEN triaged'[n] = x
            ELSE n \in LastTriage(t) /\ triaged'[n] = triaged[n]
        <4>1. TypeOK /\ x \in Triaged /\ triaged' = Append(triaged, x)
          BY <1>1, <1>3 DEF TriageInv
        <4> HIDE DEF q
        <4> QED BY <4>1, LastAppended
      <3>2. CASE t = q.ticket
        <4>1. q.seen = ticket[t]
          BY <1>1, <2>2, <3>2 DEF TriageInv, TicketInv, TicketCalls, IsAbout
        <4>2. (IF q.to = Nobody THEN q.seen.assignee ELSE q.to) = q.to
          BY <1>2, <1>10 DEF Row
        <4>3. ticket'[t] = Classified(q) /\ triaged'[n] = x
          BY <1>3, <1>4, <1>5, <3>1, <3>2, <4>1
        <4>4. /\ Classified(q).category = q.label.category
              /\ Classified(q).severity = q.label.severity
              /\ Classified(q).assignee = q.to
          BY <1>1, <4>2, ClassifiedIsRow
        <4> QED BY <1>3, <4>3, <4>4 DEF ReadsAs
      <3>3. CASE t # q.ticket
        <4>1. n \in LastTriage(t) /\ triaged'[n] = triaged[n] /\ ticket'[t] = ticket[t]
          BY <1>3, <1>5, <3>1, <3>3
        <4>2. ReadsAs(t, triaged[n])
          BY <1>1, <4>1 DEF TriageInv, TicketInv
        <4> QED BY <4>1, <4>2 DEF ReadsAs
      <3> QED BY <3>2, <3>3
    <2> QED BY <2>1, <2>2 DEF TicketInv
  <1>13. /\ new.category \in {q.label.category, ticket[q.ticket].category} \ {NoLabel}
         /\ new.severity \in {q.label.severity, ticket[q.ticket].severity} \ {NoLabel}
         /\ q.to = Nobody => new.assignee = ticket[q.ticket].assignee
         /\ q.to # Nobody => new.assignee \in {q.to, ticket[q.ticket].assignee} \ {Nobody}
    <2>1. ticket[q.ticket] \in Row
      BY <1>2 DEF TriageInv, TypeOK
    <2> HIDE DEF q
    <2> QED BY <1>1, <1>10, <2>1, RowAfterCommit DEF new
  <1>14. ReportedInv'
    <2>1. ASSUME NEW t \in Tickets PROVE Reported(t)' /\ (About(t)' # {} => Filled(t)')
      <3>0. Reported(t) /\ (About(t) # {} => Filled(t))
        BY DEF TriageInv, ReportedInv
      <3>1. CASE t = q.ticket
        <4>1. /\ ticket'[t] = new /\ N \in About(t)' /\ About(t) \subseteq About(t)'
              /\ triaged'[N].label = q.label /\ triaged'[N].to = q.to
              /\ \A m \in About(t) : triaged'[m] = triaged[m]
          BY <1>3, <1>5, <1>9, <3>1
        <4>2. \E m \in About(t)' : ticket'[t].category = triaged'[m].label.category
          BY <1>13, <3>0, <3>1, <4>1 DEF Reported
        <4>3. \E m \in About(t)' : ticket'[t].severity = triaged'[m].label.severity
          BY <1>13, <3>0, <3>1, <4>1 DEF Reported
        <4>4. \/ ticket'[t].assignee = Nobody
              \/ \E m \in About(t)' : ticket'[t].assignee = triaged'[m].to
          BY <1>13, <3>0, <3>1, <4>1 DEF Reported
        <4>5. Filled(t)'
          BY <1>10, <1>13, <4>1 DEF Filled
        <4> QED BY <4>2, <4>3, <4>4, <4>5 DEF Reported
      <3>2. CASE t # q.ticket
        <4>1. /\ ticket'[t] = ticket[t] /\ About(t)' = About(t)
              /\ \A m \in About(t) : triaged'[m] = triaged[m]
          BY <1>5, <1>9, <3>2
        <4> QED BY <3>0, <4>1 DEF Reported, Filled
      <3> QED BY <3>1, <3>2
    <2>2. ReportedCalls'
      <3> SUFFICES ASSUME NEW d \in Calls, call'[d] # NoCall
                   PROVE  /\ NotBlanker(ticket[call[d].ticket], call[d].seen)'
                          /\ Chooses(d)' => (call'[d].to = Nobody <=> Staff = {})
        BY DEF ReportedCalls, Chooses
      <3>1. /\ call'[d] = call[d] /\ call[d] # NoCall
            /\ call[d].ticket \in Tickets
        BY <1>6 DEF TriageInv, TypeOK, Call
      <3>2. /\ NotBlanker(ticket[call[d].ticket], call[d].seen)
            /\ Chooses(d) => (call[d].to = Nobody <=> Staff = {})
        BY <3>1 DEF TriageInv, ReportedInv, ReportedCalls
      <3>3. NotBlanker(ticket'[call[d].ticket], call[d].seen)
        <4>1. CASE call[d].ticket = q.ticket
          BY <1>5, <1>13, <3>2, <4>1 DEF NotBlanker
        <4>2. CASE call[d].ticket # q.ticket
          BY <1>5, <3>1, <3>2, <4>2
        <4> QED BY <4>1, <4>2
      <3> QED BY <3>1, <3>2, <3>3 DEF NotBlanker, Chooses
    <2> QED BY <2>1, <2>2 DEF ReportedInv
  <1>15. ASSUME ~overlap' PROVE AloneInv' /\ Fair'
    <2>1. /\ AloneInv /\ Fair
          /\ IF Staff = {} THEN q.to = Nobody ELSE q.to \in LeastLoaded /\ q.load = open_load[q.to]
      BY <1>1, <1>10, <1>15 DEF TriageInv, AloneInv
    <2>2. AloneInv'
      <3>1. \A d \in Calls : call'[d] = NoCall
        BY <1>1, <1>6, <2>1 DEF AloneInv
      <3> QED BY <3>1 DEF AloneInv, Chooses
    <2>3. Fair'
      <3> SUFFICES ASSUME NEW e \in Staff, NEW f \in Staff
                   PROVE  open_load'[e] = Given(e)' /\ open_load'[e] <= open_load'[f] + 1
        BY DEF Fair
      <3>1. /\ q.to \in Staff /\ q.load = open_load[q.to]
            /\ \A g \in Staff : q.load <= open_load[g]
        BY <2>1 DEF LeastLoaded
      <3>2. \A g \in Staff : open_load[g] \in Nat /\ open_load[g] = Given(g)
        BY <2>1 DEF Fair, TriageInv, TypeOK
      <3>3. open_load[e] <= open_load[f] + 1
        BY <2>1 DEF Fair
      <3>4. open_load'[e] = IF e = q.to THEN open_load[e] + 1 ELSE open_load[e]
        BY <1>1, <3>1
      <3>5. open_load'[f] = IF f = q.to THEN open_load[f] + 1 ELSE open_load[f]
        BY <1>1, <3>1
      <3>6. Given(e)' = IF q.to = e THEN Given(e) + 1 ELSE Given(e)
        BY <1>8
      <3> QED BY <3>1, <3>2, <3>3, <3>4, <3>5, <3>6
    <2> QED BY <2>2, <2>3
  <1> QED BY <1>7, <1>11, <1>12, <1>14, <1>15 DEF TriageInv

----------------------------------------------------------------------------

LEMMA TriageStep == TriageInv /\ [Next]_vars => TriageInv'
  <1> SUFFICES ASSUME TriageInv, [Next]_vars PROVE TriageInv'
    OBVIOUS
  <1>1. CASE UNCHANGED vars
    <2>1. /\ UNCHANGED <<ticket, open_load, triaged, crossed, overlap, contested, call>>
          /\ LeastLoaded' = LeastLoaded /\ \A e : Given(e)' = Given(e)
      BY <1>1 DEF vars, history, LeastLoaded, Given
    <2>2. LoadCalls' /\ TicketCalls' /\ ReportedCalls'
      BY <2>1 DEF TriageInv, LoadInv, LoadCalls, TicketInv, TicketCalls, ReportedInv,
                  ReportedCalls, Accounts, Chooses, IsAbout, NotBlanker
    <2>3. ~overlap' => AloneInv'
      BY <2>1 DEF TriageInv, AloneInv, Chooses
    <2> QED BY <2>1, <2>2, <2>3, Reads DEF TriageInv, TypeOK
  <1> QED BY <1>1, LoadTicketStep, ChooseOwnerStep, CommitStep, AbortStep DEF Next

\* The inductive invariant of triage.
THEOREM TriageCorrect == Spec => []TriageInv
  <1>1. ASSUME Init PROVE TriageInv
    <2>1. triaged = <<>> /\ \A c \in Calls : call[c] = NoCall
      BY <1>1 DEF Init
    <2>2. TypeOK
      <3>1. Unclassified \in Row
        BY DEF Unclassified, Row
      <3>2. /\ ticket \in [Tickets -> Row] /\ open_load \in [Staff -> Nat]
            /\ overlap \in BOOLEAN /\ contested \in SUBSET Tickets /\ crossed \in [Staff -> Nat]
        BY <1>1, <3>1 DEF Init
      <3>3. call \in [Calls -> Call \cup {NoCall}]
        BY <1>1 DEF Init
      <3>4. triaged \in Seq(Triaged) /\ Len(triaged) <= MaxTriages
        BY <2>1, TriageAssumption
      <3> QED BY <3>2, <3>3, <3>4 DEF TypeOK
    <2>3. (\A e : Given(e) = 0) /\ (\A t : About(t) = {} /\ LastTriage(t) = {})
      BY <2>1, FS_EmptySet DEF Given, About, LastTriage
    <2>4. LoadInv /\ AloneInv /\ Fair
      BY <1>1, <2>1, <2>3 DEF Init, LoadInv, LoadCalls, Accounts, AloneInv, Fair, Chooses
    <2>5. TicketInv
      BY <2>1, <2>3 DEF TicketInv, TicketCalls, IsAbout
    <2>6. ReportedInv
      BY <1>1, <2>1, <2>3 DEF Init, Unclassified, ReportedInv, Reported, ReportedCalls, Chooses
    <2> QED BY <2>2, <2>4, <2>5, <2>6 DEF TriageInv
  <1> QED BY <1>1, TriageStep, PTL DEF Spec

\* Every reachable state of triage is well typed.
THEOREM TriageTypeCorrect == Spec => []TypeOK
  BY TriageCorrect, PTL DEF TriageInv

\* However many calls run at once, a counter falls behind the work given by no
\* more than the commits that another call had crossed, and never runs ahead.
THEOREM LoadAccounted == Spec => []LostIncrementsCrossed
  <1>1. TriageInv => LostIncrementsCrossed
    BY DEF TriageInv, LoadInv, Accounts, LostIncrementsCrossed
  <1> QED BY <1>1, TriageCorrect, PTL

\* Calls one after the other keep the counters exact and within one of each
\* other, for any staff and any number of triages.
THEOREM SequentialFairness == Spec => []SequentialIsFair
  <1>1. TriageInv => SequentialIsFair
    BY DEF TriageInv, Fair, SequentialIsFair
  <1> QED BY <1>1, TriageCorrect, PTL

\* Every column of a ticket is as some triage of it reported, and a ticket that
\* calls took one after the other is as the last one did.
THEOREM TicketAsReported == Spec => []TicketReadsAsReported
  <1>1. ASSUME TriageInv PROVE TicketReadsAsReported
    <2> SUFFICES ASSUME NEW t \in Tickets, NEW n \in LastTriage(t)
                 PROVE  /\ \E m \in About(t) : ticket[t].category = triaged[m].label.category
                        /\ \E m \in About(t) : ticket[t].severity = triaged[m].label.severity
                        /\ \E m \in About(t) : ticket[t].assignee = triaged[m].to
                        /\ t \notin contested => ReadsAs(t, triaged[n])
      BY DEF TicketReadsAsReported, ReadsAs
    <2>1. n \in About(t) /\ Reported(t) /\ Filled(t)
      <3>1. n \in About(t)
        BY DEF LastTriage
      <3> QED BY <1>1, <3>1 DEF TriageInv, ReportedInv
    <2>2. Staff = {} => triaged[n].to = Nobody
      <3>1. n \in DOMAIN triaged /\ triaged \in Seq(Triaged)
        BY <1>1, <2>1 DEF TriageInv, TypeOK, About
      <3>2. triaged[n] \in Triaged
        BY <3>1
      <3> QED BY <3>2 DEF Triaged
    <2>3. t \notin contested => ReadsAs(t, triaged[n])
      BY <1>1 DEF TriageInv, TicketInv
    <2> QED BY <2>1, <2>2, <2>3 DEF Reported, Filled
  <1> QED BY <1>1, TriageCorrect, PTL
=============================================================================
