------------------------------- MODULE Triage -------------------------------
(***************************************************************************)
(* triage_ticket (app/tools.py): classify a ticket and give it to the      *)
(* support employee with the lowest open_load.                             *)
(*                                                                         *)
(* Calls run concurrently, each in one READ COMMITTED transaction: it      *)
(* loads the ticket and the employee, adds one to the load it saw, and at  *)
(* commit the ORM writes the columns that changed against what it loaded.  *)
(***************************************************************************)
EXTENDS Naturals, Sequences, FiniteSets

CONSTANTS
  Staff,      \* employees of role support
  Tickets,    \* rows of the ticket table
  Labels,     \* the (category, severity) pairs agents report
  Nobody,     \* a ticket without assignee, a triage without staff
  NoLabel,    \* the columns of a ticket nobody classified
  Calls,      \* concurrent tool calls
  MaxTriages  \* bound: committed calls

ASSUME TriageAssumption ==
  /\ Nobody \notin Staff
  /\ NoLabel \notin Labels
  /\ \A l \in Labels : /\ DOMAIN l = {"category", "severity"}
                        /\ l.category # NoLabel /\ l.severity # NoLabel
  /\ MaxTriages \in Nat

VARIABLES
  ticket,     \* category, severity and assignee of each ticket
  open_load,  \* the counter in the row of each employee
  call,       \* each call's transaction
  triaged,    \* the as.triaged events committed, and whom each call chose
  overlap,    \* history: two calls were once in progress together
  contested,  \* history: the tickets two calls were in progress about
  crossed     \* history: per employee, the commits made while another call
              \* that had chosen the employee was in progress

history == <<overlap, contested, crossed>>
vars    == <<ticket, open_load, call, triaged, history>>

NoCall == [ticket |-> Nobody]

Unclassified == [category |-> NoLabel, severity |-> NoLabel, assignee |-> Nobody]

Init ==
  /\ ticket    = [t \in Tickets |-> Unclassified]
  /\ open_load = [e \in Staff |-> 0]
  /\ call      = [c \in Calls |-> NoCall]
  /\ triaged   = <<>>
  /\ overlap   = FALSE
  /\ contested = {}
  /\ crossed   = [e \in Staff |-> 0]

IsAbout(c, t) == call[c] # NoCall /\ call[c].ticket = t

Chose(c, e) == call[c] # NoCall /\ call[c].chosen /\ call[c].to = e

\* The first statement: the ticket is read. An unknown severity or ticket is
\* refused here and changes nothing.
LoadTicket(c, t, label) ==
  /\ call[c] = NoCall
  /\ call' = [call EXCEPT ![c] =
                [ticket |-> t, label |-> label, seen |-> ticket[t], chosen |-> FALSE,
                 to |-> Nobody, load |-> 0]]
  /\ overlap' = (overlap \/ \E d \in Calls \ {c} : call[d] # NoCall)
  /\ contested' = IF \E d \in Calls \ {c} : IsAbout(d, t)
                    THEN contested \cup {t} ELSE contested
  /\ UNCHANGED <<ticket, open_load, triaged, crossed>>

\* ORDER BY open_load takes any employee of the lowest load.
LeastLoaded == {e \in Staff : \A f \in Staff : open_load[e] <= open_load[f]}

\* Mutation: without ORDER BY, any row comes first.
AnyOfStaff == IF Staff = {} THEN {Nobody} ELSE Staff

Choice == IF Staff = {} THEN {Nobody} ELSE LeastLoaded

\* The second statement reads the owner-to-be and the load to add to.
ChooseOwner(c, e) ==
  /\ call[c] # NoCall /\ ~call[c].chosen
  /\ e \in Choice
  /\ call' = [call EXCEPT ![c].chosen = TRUE, ![c].to = e,
                          ![c].load = IF e = Nobody THEN 0 ELSE open_load[e]]
  /\ UNCHANGED <<ticket, open_load, triaged, history>>

\* What the flush leaves in a row: the columns changed since it was loaded.
Flush(current, seen, new) ==
  [k \in DOMAIN current |-> IF new[k] # seen[k] THEN new[k] ELSE current[k]]

\* Mutation: a ticket keeps the first severity it was given.
ClassifiedOnce(q) ==
  [category |-> q.label.category,
   severity |-> IF q.seen.severity = NoLabel THEN q.label.severity ELSE q.seen.severity,
   assignee |-> IF q.to = Nobody THEN q.seen.assignee ELSE q.to]

\* Mutation: the assignee is the label's category.
ClassifiedAskew(q) ==
  [category |-> q.label.category, severity |-> q.label.severity,
   assignee |-> q.label.category]

Classified(q) ==
  [category |-> q.label.category, severity |-> q.label.severity,
   assignee |-> IF q.to = Nobody THEN q.seen.assignee ELSE q.to]

\* Mutation: an owner who keeps the ticket is not counted again.
LoadedUnlessKept(q) == IF q.seen.assignee = q.to THEN q.load ELSE q.load + 1

Loaded(q) == q.load + 1

\* The ticket, the load and the event as.triaged, at once.
Commit(c) ==
  LET q == call[c]
  IN  /\ q # NoCall /\ q.chosen /\ Len(triaged) < MaxTriages
      /\ ticket' = [ticket EXCEPT ![q.ticket] = Flush(@, q.seen, Classified(q))]
      /\ open_load' = [e \in Staff |-> IF e = q.to THEN Loaded(q) ELSE open_load[e]]
      /\ triaged' = Append(triaged, [ticket |-> q.ticket, label |-> q.label, to |-> q.to])
      /\ call' = [call EXCEPT ![c] = NoCall]
      /\ crossed' = [e \in Staff |-> IF e = q.to /\ \E d \in Calls \ {c} : Chose(d, e)
                                     THEN crossed[e] + 1 ELSE crossed[e]]
      /\ UNCHANGED <<overlap, contested>>

Abort(c) ==
  /\ call[c] # NoCall
  /\ call' = [call EXCEPT ![c] = NoCall]
  /\ UNCHANGED <<ticket, open_load, triaged, history>>

Next ==
  \E c \in Calls :
    \/ \E t \in Tickets, label \in Labels : LoadTicket(c, t, label)
    \/ \E e \in Choice : ChooseOwner(c, e)
    \/ Commit(c) \/ Abort(c)

Spec == Init /\ [][Next]_vars

----------------------------------------------------------------------------
(* Properties.                                                             *)

Row == [category : {l.category : l \in Labels} \cup {NoLabel},
        severity : {l.severity : l \in Labels} \cup {NoLabel},
        assignee : Staff \cup {Nobody}]

Call == [ticket : Tickets, label : Labels, seen : Row, chosen : BOOLEAN,
         to : Staff \cup {Nobody}, load : Nat]

Triaged == [ticket : Tickets, label : Labels, to : Staff \cup {Nobody}]

TypeOK ==
  /\ ticket \in [Tickets -> Row]
  /\ open_load \in [Staff -> Nat]
  /\ call \in [Calls -> Call \cup {NoCall}]
  /\ triaged \in Seq(Triaged)
  /\ Len(triaged) <= MaxTriages
  /\ overlap \in BOOLEAN
  /\ contested \in SUBSET Tickets
  /\ crossed \in [Staff -> Nat]

Given(e) == Cardinality({n \in DOMAIN triaged : triaged[n].to = e})

\* Concurrent calls lose increments and never invent one; and what is missing
\* from a counter is accounted for by the commits that happened while another
\* call had already read it: no other sequence of calls loses an increment.
LostIncrementsCrossed ==
  \A e \in Staff :
    /\ open_load[e] <= Given(e)
    /\ Given(e) <= open_load[e] + crossed[e]

\* As long as no two calls run together, the counter is exact and the work is
\* shared out evenly.
SequentialIsFair ==
  ~overlap =>
    \A e, f \in Staff : open_load[e] = Given(e) /\ Given(e) <= Given(f) + 1

About(t) == {n \in DOMAIN triaged : triaged[n].ticket = t}

LastTriage(t) == {n \in About(t) : \A m \in About(t) : m <= n}

\* Calls about one ticket at the same time may leave a mixture, but each of its
\* columns was reported by one of them. A ticket that no two calls were ever
\* about at once reads as the last as.triaged event about it, whatever calls
\* about other tickets, and their owners, were doing.
TicketReadsAsReported ==
  \A t \in Tickets : \A n \in LastTriage(t) :
    /\ \E m \in About(t) : ticket[t].category = triaged[m].label.category
    /\ \E m \in About(t) : ticket[t].severity = triaged[m].label.severity
    /\ \E m \in About(t) : ticket[t].assignee = triaged[m].to
    /\ t \notin contested =>
         /\ ticket[t].category = triaged[n].label.category
         /\ ticket[t].severity = triaged[n].label.severity
         /\ ticket[t].assignee = triaged[n].to

OpenTickets(e) == Cardinality({t \in Tickets : ticket[t].assignee = e})

\* Docstring of triage_ticket (app/tools.py:276): "The owner is chosen
\* deterministically as the least-loaded support employee". When a ticket
\* gets its first owner, nobody has fewer tickets than that owner had.
NewOwnerIsLeastLoaded ==
  [][\A t \in Tickets : \A e \in Staff :
       ticket[t].assignee = Nobody /\ ticket'[t].assignee = e =>
         \A f \in Staff : OpenTickets(e) <= OpenTickets(f)]_vars
=============================================================================
