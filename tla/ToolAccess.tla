----------------------------- MODULE ToolAccess -----------------------------
(***************************************************************************)
(* Who can learn what through the fleet's eight tools (app/tools.py), the  *)
(* rules behind them (app/identity.py) and role-scoped retrieval           *)
(* (app/retrieval.py).                                                     *)
(*                                                                         *)
(* What a tool reveals is a set of matters: a customer's records, what a   *)
(* document is about, the ledger. A model may put what its session has     *)
(* learned into the text it hands to a tool: into a document it captures,  *)
(* and other sessions find it there, or into the category of a ticket it   *)
(* triages, and other sessions read it in their lists. (draft_followup     *)
(* shows a session nothing: its text goes to people.)                      *)
(* Each call is one transaction: its result is shown only when that        *)
(* commits. A denial or an error shows nothing and leaves the state as it  *)
(* is. A result the guardrail replaces (app/guardrails.py,                 *)
(* after_tool_callback) shows nothing either, so it adds no behaviour.     *)
(***************************************************************************)
CONSTANTS
  Sessions,   \* sessions of the agents
  Employees,  \* rows of the employee table
  RoleOf,     \* the role of each employee
  Customers,  \* rows of the customer table
  OwnerOf,    \* the employee who owns each customer, or NoOne
  Tickets,    \* rows of the ticket table; nothing closes one
  CustomerOf, \* the customer of each ticket
  Memos,      \* what the authored documents are about
  Authored,   \* the documents in the database at the start
  Ledger,     \* what a reconciliation reveals
  Plain,      \* a category that gives nothing away, or none
  NoOne       \* the identity of a session that carries none

Role == {"sales", "support", "accounting", "manager"}

Matters == Customers \cup Memos \cup {Ledger}

\* allowed_roles, and what the title and body give away. A document about
\* several matters counts as several documents.
Document == [about : Matters, allowed_roles : SUBSET Role]

ASSUME AccessAssumption ==
  /\ RoleOf \in [Employees -> Role]
  /\ OwnerOf \in [Customers -> Employees \cup {NoOne}]
  /\ CustomerOf \in [Tickets -> Customers]
  /\ Authored \subseteq Document
  /\ NoOne \notin Employees
  /\ Plain \notin Matters

VARIABLES
  who,       \* the verified identity in each session's state
  docs,      \* the documents
  category,  \* the category of each ticket
  knows,     \* history: the matters tools have shown to each session
  labelled   \* history: the matters each ticket's category ever gave away

vars == <<who, docs, category, knows, labelled>>

Init ==
  /\ who      = [s \in Sessions |-> NoOne]
  /\ docs     = Authored
  /\ category = [t \in Tickets |-> Plain]
  /\ knows    = [s \in Sessions |-> {}]
  /\ labelled = [t \in Tickets |-> {}]

----------------------------------------------------------------------------
(* The rules, in Python and in SQL predicates.                             *)

TOOL_ROLES == [t \in {"reconcile_accounting"} |-> {"accounting", "manager"}]

MayCall(role, tool) == tool \in DOMAIN TOOL_ROLES => role \in TOOL_ROLES[tool]

visible_customers(e) ==
  {c \in Customers : RoleOf[e] = "sales" => OwnerOf[c] = e}

\* Mutation: the ranker is trusted to leave documents out.
all_documents(role) == docs

permitted_documents(role) == {d \in docs : role \in d.allowed_roles}

----------------------------------------------------------------------------
(* The tools. `caller` is the first thing each of them asks for.           *)

\* The server, or FLEET_DEV_TOKEN on a laptop, writes the identity; one that
\* is there already is kept.
AttachIdentity(s, e) ==
  /\ who[s] = NoOne
  /\ who' = [who EXCEPT ![s] = e]
  /\ UNCHANGED <<docs, category, knows, labelled>>

caller(s, e) == who[s] = e /\ e \in Employees

Show(s, matters) ==
  /\ knows' = [knows EXCEPT ![s] = @ \cup matters]
  /\ UNCHANGED <<who, docs, category, labelled>>

\* One permitted hit; a call with more of them is several such steps.
search_knowledge(s) ==
  \E e \in Employees :
    /\ caller(s, e)
    /\ \E d \in permitted_documents(RoleOf[e]) : Show(s, {d.about})

get_customer_360(s, c) ==
  \E e \in Employees :
    /\ caller(s, e)
    /\ c \in visible_customers(e)
    /\ Show(s, {c})

visible_tickets(e) == {t \in Tickets : CustomerOf[t] \in visible_customers(e)}

\* What the customers' tickets say, and the category each bears by now.
list_open_tickets(s) ==
  \E e \in Employees :
    /\ caller(s, e)
    /\ Show(s, UNION {{CustomerOf[t], category[t]} \ {Plain} : t \in visible_tickets(e)})

get_pipeline(s) ==
  \E e \in Employees : caller(s, e) /\ Show(s, visible_customers(e))

reconcile_accounting(s) ==
  \E e \in Employees :
    /\ caller(s, e)
    /\ MayCall(RoleOf[e], "reconcile_accounting")
    /\ Show(s, {Ledger})

\* The category is any text: only the severity is checked. Any employee may
\* write it, on any ticket, whoever the customer belongs to.
triage_ticket(s, t, m) ==
  \E e \in Employees :
    /\ caller(s, e)
    /\ m \in knows[s] \cup {Plain}
    /\ category' = [category EXCEPT ![t] = m]
    /\ labelled' = [labelled EXCEPT ![t] = @ \cup ({m} \ {Plain})]
    /\ UNCHANGED <<who, docs, knows>>

\* Mutation: a role that does not exist.
captured_roles_misspelt(role) == {role, "support", "managers"}

captured_roles(role) == {role, "support", "manager"}

\* The ticket has to exist; neither its status nor whose it is matters.
capture_knowledge(s, m) ==
  \E e \in Employees :
    /\ caller(s, e)
    /\ Tickets # {}
    /\ m \in knows[s]
    /\ docs' = docs \cup {[about |-> m, allowed_roles |-> captured_roles(RoleOf[e])]}
    /\ UNCHANGED <<who, category, knows, labelled>>

Next ==
  \E s \in Sessions :
    \/ \E e \in Employees : AttachIdentity(s, e)
    \/ search_knowledge(s)
    \/ \E c \in Customers : get_customer_360(s, c)
    \/ list_open_tickets(s) \/ get_pipeline(s)
    \/ reconcile_accounting(s)
    \/ \E t \in Tickets, m \in Matters \cup {Plain} : triage_ticket(s, t, m)
    \/ \E m \in Matters : capture_knowledge(s, m)

Spec == Init /\ [][Next]_vars

----------------------------------------------------------------------------
(* Properties.                                                             *)

TypeOK ==
  /\ who \in [Sessions -> Employees \cup {NoOne}]
  /\ docs \in SUBSET Document
  /\ category \in [Tickets -> Matters \cup {Plain}]
  /\ knows \in [Sessions -> SUBSET Matters]
  /\ labelled \in [Tickets -> SUBSET Matters]

\* What an employee may reach without anybody's captured documents.
Scope(e) ==
  visible_customers(e)
    \cup {d.about : d \in {a \in Authored : RoleOf[e] \in a.allowed_roles}}
    \cup (IF MayCall(RoleOf[e], "reconcile_accounting") THEN {Ledger} ELSE {})

DepartmentScope(role) ==
  UNION {Scope(e) : e \in {f \in Employees : RoleOf[f] = role}}

\* What has ever been written as the category of a ticket the employee sees.
Labels(e) == UNION {labelled[t] : t \in visible_tickets(e)}

DepartmentLabels(role) ==
  UNION {Labels(e) : e \in {f \in Employees : RoleOf[f] = role}}

\* README.md:10: "a sales rep's agent cannot reach accounting documents". The
\* documents keep that boundary: no sequence of calls, by however many
\* sessions and through however many captured documents, brings to sales or
\* accounting anything that nobody of that department may reach, but for what
\* somebody wrote as the category of a ticket of theirs. Of the two places
\* where a model leaves text, only the unchecked one lets it cross.
OnlyLabelsCross ==
  \A s \in Sessions : \A e \in Employees :
    who[s] = e /\ RoleOf[e] \notin {"support", "manager"} =>
      knows[s] \subseteq DepartmentScope(RoleOf[e]) \cup DepartmentLabels(RoleOf[e])

\* Docstring of capture_knowledge (app/tools.py:335): "capturing knowledge
\* cannot widen who can see it": nobody would then know of anything but what
\* is in their own scope, or was written on a ticket they see.
CaptureWidensNothing ==
  \A s \in Sessions : \A e \in Employees :
    who[s] = e => knows[s] \subseteq Scope(e) \cup Labels(e)
=============================================================================
