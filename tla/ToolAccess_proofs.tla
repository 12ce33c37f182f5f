------------------------- MODULE ToolAccess_proofs --------------------------
(***************************************************************************)
(* Proofs about ToolAccess, for any company: employees, customers,         *)
(* tickets, documents and sessions. The boundary around sales and          *)
(* accounting needs invariants about the two places where sessions leave   *)
(* text: captured documents and the categories of tickets carry knowledge  *)
(* from one session to the next.                                           *)
(***************************************************************************)
EXTENDS ToolAccess, TLAPS

Bounded(role) == role \notin {"support", "manager"}

\* What a department may reach, labels included. It never shrinks.
Reach(role) == DepartmentScope(role) \cup DepartmentLabels(role)

\* Whatever a department can find by searching, it may reach anyway.
DocsInv ==
  \A d \in docs : \A e \in Employees :
    RoleOf[e] \in d.allowed_roles /\ Bounded(RoleOf[e]) =>
      d.about \in Reach(RoleOf[e])

\* The category a ticket bears is one that somebody gave it.
LabelsInv == \A t \in Tickets : category[t] # Plain => category[t] \in labelled[t]

BlankInv == \A s \in Sessions : who[s] = NoOne => knows[s] = {}

AccessInv == TypeOK /\ LabelsInv /\ DocsInv /\ BlankInv /\ OnlyLabelsCross

LEMMA EmployeesReach ==
  ASSUME NEW e \in Employees
  PROVE  /\ Scope(e) \subseteq Reach(RoleOf[e])
         /\ Labels(e) \subseteq Reach(RoleOf[e])
  BY DEF DepartmentScope, DepartmentLabels, Reach

\* Showing a session what its employee's department may reach keeps the
\* boundary.
LEMMA ShowKeeps ==
  ASSUME AccessInv, NEW s \in Sessions, NEW e \in Employees, who[s] = e,
         NEW M \in SUBSET Matters, Show(s, M),
         Bounded(RoleOf[e]) => M \subseteq Reach(RoleOf[e])
  PROVE  AccessInv'
  <1>0. \A role : DepartmentLabels(role)' = DepartmentLabels(role)
    BY DEF Show, DepartmentLabels, Labels
  <1>1. TypeOK' /\ LabelsInv'
    BY DEF AccessInv, TypeOK, LabelsInv, Show
  <1>2. DocsInv'
    BY <1>0 DEF AccessInv, DocsInv, Show, Reach
  <1>3. BlankInv'
    BY AccessAssumption DEF AccessInv, BlankInv, Show, TypeOK
  <1>4. OnlyLabelsCross'
    BY <1>0 DEF AccessInv, OnlyLabelsCross, Bounded, Show, TypeOK, Reach
  <1> QED BY <1>1, <1>2, <1>3, <1>4 DEF AccessInv

\* A new label only adds to what the departments that see the ticket reach.
LEMMA TriageKeeps ==
  ASSUME AccessInv, NEW s \in Sessions, NEW t \in Tickets,
         NEW m \in Matters \cup {Plain}, triage_ticket(s, t, m)
  PROVE  AccessInv'
  <1>1. /\ category' = [category EXCEPT ![t] = m]
        /\ labelled' = [labelled EXCEPT ![t] = @ \cup ({m} \ {Plain})]
        /\ UNCHANGED <<who, docs, knows>>
    BY DEF triage_ticket
  <1>2. \A u \in Tickets : labelled[u] \subseteq labelled'[u]
    BY <1>1 DEF AccessInv, TypeOK
  <1>3. \A role : DepartmentLabels(role) \subseteq DepartmentLabels(role)'
    BY <1>2 DEF DepartmentLabels, Labels, visible_tickets
  <1>4. TypeOK' /\ LabelsInv'
    BY <1>1 DEF AccessInv, TypeOK, LabelsInv
  <1>5. DocsInv'
    BY <1>1, <1>3 DEF AccessInv, DocsInv, Reach
  <1>6. BlankInv' /\ OnlyLabelsCross'
    BY <1>1, <1>3 DEF AccessInv, BlankInv, OnlyLabelsCross
  <1> QED BY <1>4, <1>5, <1>6 DEF AccessInv

\* Only a caller of the department itself makes a document visible to a
\* bounded department, and such a caller knows nothing from outside but
\* labels the department sees.
LEMMA CaptureKeeps ==
  ASSUME AccessInv, NEW s \in Sessions, NEW m \in Matters, capture_knowledge(s, m)
  PROVE  AccessInv'
  <1>1. PICK e \in Employees :
          /\ caller(s, e) /\ m \in knows[s]
          /\ docs' = docs \cup {[about |-> m, allowed_roles |-> captured_roles(RoleOf[e])]}
          /\ UNCHANGED <<who, category, knows, labelled>>
    BY DEF capture_knowledge
  <1> DEFINE doc == [about |-> m, allowed_roles |-> captured_roles(RoleOf[e])]
  <1>2. doc \in Document
    BY AccessAssumption DEF Document, captured_roles, Role
  <1>3. ASSUME NEW f \in Employees, RoleOf[f] \in doc.allowed_roles, Bounded(RoleOf[f])
        PROVE  doc.about \in Reach(RoleOf[f])
    <2>1. RoleOf[f] = RoleOf[e]
      BY <1>3 DEF captured_roles, Bounded
    <2>2. knows[s] \subseteq Reach(RoleOf[e])
      BY <1>1, <1>3, <2>1 DEF AccessInv, OnlyLabelsCross, Bounded, caller, Reach
    <2> QED BY <1>1, <2>1, <2>2
  <1>4. \A role : DepartmentLabels(role)' = DepartmentLabels(role)
    BY <1>1 DEF DepartmentLabels, Labels
  <1>5. TypeOK' /\ LabelsInv'
    BY <1>1, <1>2 DEF AccessInv, TypeOK, LabelsInv
  <1>6. DocsInv'
    BY <1>1, <1>3, <1>4 DEF AccessInv, DocsInv, Reach
  <1>7. BlankInv' /\ OnlyLabelsCross'
    BY <1>1, <1>4 DEF AccessInv, BlankInv, OnlyLabelsCross
  <1> QED BY <1>5, <1>6, <1>7 DEF AccessInv

LEMMA AttachKeeps ==
  ASSUME AccessInv, NEW s \in Sessions, NEW e \in Employees, AttachIdentity(s, e)
  PROVE  AccessInv'
  <1>1. \A role : DepartmentLabels(role)' = DepartmentLabels(role)
    BY DEF AttachIdentity, DepartmentLabels, Labels
  <1>2. TypeOK' /\ LabelsInv'
    BY DEF AccessInv, TypeOK, LabelsInv, AttachIdentity
  <1>3. DocsInv'
    BY <1>1 DEF AccessInv, DocsInv, Reach, AttachIdentity
  <1>4. BlankInv' /\ OnlyLabelsCross'
    BY <1>1, AccessAssumption
       DEF AccessInv, TypeOK, BlankInv, OnlyLabelsCross, AttachIdentity
  <1> QED BY <1>2, <1>3, <1>4 DEF AccessInv

LEMMA AccessStep == AccessInv /\ [Next]_vars => AccessInv'
  <1> SUFFICES ASSUME AccessInv, [Next]_vars PROVE AccessInv'
    OBVIOUS
  <1>1. ASSUME NEW s \in Sessions, NEW e \in Employees, AttachIdentity(s, e)
        PROVE  AccessInv'
    BY <1>1, AttachKeeps
  <1>2. ASSUME NEW s \in Sessions, search_knowledge(s) PROVE AccessInv'
    <2>1. PICK e \in Employees, d \in docs :
            /\ caller(s, e) /\ Show(s, {d.about})
            /\ RoleOf[e] \in d.allowed_roles
      BY <1>2 DEF search_knowledge, permitted_documents
    <2>2. /\ {d.about} \in SUBSET Matters
          /\ Bounded(RoleOf[e]) => {d.about} \subseteq Reach(RoleOf[e])
      BY <2>1 DEF AccessInv, TypeOK, Document, DocsInv
    <2> QED BY <2>1, <2>2, ShowKeeps DEF caller
  <1>3. ASSUME NEW s \in Sessions, NEW c \in Customers, get_customer_360(s, c)
        PROVE  AccessInv'
    <2>1. PICK e \in Employees :
            caller(s, e) /\ c \in visible_customers(e) /\ Show(s, {c})
      BY <1>3 DEF get_customer_360
    <2>2. {c} \subseteq Reach(RoleOf[e]) /\ {c} \in SUBSET Matters
      BY <2>1, EmployeesReach DEF Scope, Matters
    <2> QED BY <2>1, <2>2, ShowKeeps DEF caller
  <1>4. ASSUME NEW s \in Sessions, list_open_tickets(s) PROVE AccessInv'
    <2> DEFINE Listed(e) ==
          UNION {{CustomerOf[t], category[t]} \ {Plain} : t \in visible_tickets(e)}
    <2>1. PICK e \in Employees : caller(s, e) /\ Show(s, Listed(e))
      BY <1>4 DEF list_open_tickets
    <2>2. ASSUME NEW t \in visible_tickets(e)
          PROVE  {CustomerOf[t], category[t]} \ {Plain} \subseteq Matters \cap Reach(RoleOf[e])
      <3>1. CustomerOf[t] \in Matters \cap Reach(RoleOf[e])
        BY EmployeesReach DEF visible_tickets, visible_customers, Scope, Matters
      <3>2. category[t] # Plain => category[t] \in labelled[t]
        BY DEF visible_tickets, AccessInv, LabelsInv
      <3>3. labelled[t] \subseteq Matters
        BY DEF visible_tickets, AccessInv, TypeOK
      <3>4. labelled[t] \subseteq Reach(RoleOf[e])
        BY EmployeesReach DEF Labels
      <3> QED BY <3>1, <3>2, <3>3, <3>4
    <2>3. Listed(e) \subseteq Reach(RoleOf[e]) /\ Listed(e) \in SUBSET Matters
      BY <2>2
    <2> HIDE DEF Listed
    <2> QED BY <2>1, <2>3, ShowKeeps DEF caller
  <1>5. ASSUME NEW s \in Sessions, get_pipeline(s) PROVE AccessInv'
    <2>1. PICK e \in Employees : caller(s, e) /\ Show(s, visible_customers(e))
      BY <1>5 DEF get_pipeline
    <2>2. /\ visible_customers(e) \subseteq Reach(RoleOf[e])
          /\ visible_customers(e) \in SUBSET Matters
      BY EmployeesReach DEF Scope, Matters, visible_customers
    <2> QED BY <2>1, <2>2, ShowKeeps DEF caller
  <1>6. ASSUME NEW s \in Sessions, reconcile_accounting(s) PROVE AccessInv'
    <2>1. PICK e \in Employees :
            /\ caller(s, e) /\ Show(s, {Ledger})
            /\ MayCall(RoleOf[e], "reconcile_accounting")
      BY <1>6 DEF reconcile_accounting
    <2>2. {Ledger} \subseteq Reach(RoleOf[e]) /\ {Ledger} \in SUBSET Matters
      BY <2>1, EmployeesReach DEF Scope, Matters
    <2> QED BY <2>1, <2>2, ShowKeeps DEF caller
  <1>7. ASSUME NEW s \in Sessions, NEW t \in Tickets, NEW m \in Matters \cup {Plain},
               triage_ticket(s, t, m)
        PROVE  AccessInv'
    BY <1>7, TriageKeeps
  <1>8. ASSUME NEW s \in Sessions, NEW m \in Matters, capture_knowledge(s, m)
        PROVE  AccessInv'
    BY <1>8, CaptureKeeps
  <1>9. CASE UNCHANGED vars
    <2>1. \A role : DepartmentLabels(role)' = DepartmentLabels(role)
      BY <1>9 DEF vars, DepartmentLabels, Labels
    <2> QED
      BY <1>9, <2>1
         DEF vars, AccessInv, TypeOK, LabelsInv, DocsInv, BlankInv, OnlyLabelsCross, Reach
  <1> QED
    BY <1>1, <1>2, <1>3, <1>4, <1>5, <1>6, <1>7, <1>8, <1>9 DEF Next

LEMMA AccessInit == Init => AccessInv
  <1> SUFFICES ASSUME Init PROVE AccessInv
    OBVIOUS
  <1>1. TypeOK /\ LabelsInv /\ BlankInv
    BY AccessAssumption DEF Init, TypeOK, LabelsInv, BlankInv
  <1>2. DocsInv
    <2> SUFFICES ASSUME NEW d \in Authored, NEW e \in Employees,
                        RoleOf[e] \in d.allowed_roles
                 PROVE  d.about \in Reach(RoleOf[e])
      BY DEF Init, DocsInv
    <2>1. d.about \in Scope(e)
      BY DEF Scope
    <2> QED BY <2>1, EmployeesReach
  <1>3. OnlyLabelsCross
    BY DEF Init, OnlyLabelsCross
  <1> QED BY <1>1, <1>2, <1>3 DEF AccessInv

\* Every reachable state of the tools' world is well typed.
THEOREM TypeCorrect == Spec => []TypeOK
  <1>1. AccessInv => TypeOK
    BY DEF AccessInv
  <1> QED
    BY <1>1, AccessInit, AccessStep, PTL DEF Spec

\* Sales and accounting never learn, through any tools, sessions and captured
\* documents, what nobody in the department may reach, unless somebody wrote
\* it as the category of a ticket the department sees.
THEOREM OnlyLabelsEverCross == Spec => []OnlyLabelsCross
  <1>1. AccessInv => OnlyLabelsCross
    BY DEF AccessInv
  <1> QED
    BY <1>1, AccessInit, AccessStep, PTL DEF Spec
=============================================================================
