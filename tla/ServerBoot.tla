----------------------------- MODULE ServerBoot -----------------------------
(***************************************************************************)
(* How an instance comes up (app/agent.py, app/fast_api_app.py): importing *)
(* the agent seeds an empty database (app/store.py, seed_if_empty), then   *)
(* the services are built, of which MemoryBank has the one with state.     *)
(*                                                                         *)
(* Creating the tables and seeding them are each a look followed by a      *)
(* change, with other instances in between. Whoever changes second gets an *)
(* error from the database, its import fails, and the platform starts the  *)
(* instance again.                                                         *)
(***************************************************************************)
EXTENDS MemoryBank

VARIABLES
  tables,     \* the tables exist
  company,    \* the company's rows: "none", as "seeded", or as "worked" on
  booting,    \* how far each instance is, before its services
  worked,     \* history: users did something
  late,       \* history: the instances whose last boot found a company there
  lost        \* history: how often each instance failed to another one

seed  == <<tables, company, booting, worked, late, lost>>
bvars == <<vars, seed>>

BInit ==
  /\ Init
  /\ tables  = FALSE
  /\ company = "none"
  /\ booting = [i \in Instances |-> "no"]
  /\ worked  = FALSE
  /\ late    = {}
  /\ lost    = [i \in Instances |-> 0]

Reaches(i, stage) == booting' = [booting EXCEPT ![i] = stage]

\* A new instance, or one that starts again whatever it was doing.
Launch(i) ==
  /\ Reaches(i, "importing")
  /\ pc' = [pc EXCEPT ![i] = "down"]
  /\ job' = [job EXCEPT ![i] = Boot]
  /\ target' = [target EXCEPT ![i] = InMemory]
  /\ attached' = [attached EXCEPT ![i] = InMemory]
  /\ late' = IF company = "none" THEN late \ {i} ELSE late \cup {i}
  /\ UNCHANGED <<engines, memories, overlap, tables, company, worked, lost>>

\* init_db looks which tables there are.
FindTables(i) ==
  /\ booting[i] = "importing"
  /\ Reaches(i, IF tables THEN "checking" ELSE "creating")
  /\ UNCHANGED <<vars, tables, company, worked, late, lost>>

\* The database refuses what another instance has done meanwhile.
LosesRace(i) ==
  /\ Reaches(i, "no")
  /\ lost' = [lost EXCEPT ![i] = @ + 1]
  /\ UNCHANGED <<vars, tables, company, worked, late>>

CreateTables(i) ==
  /\ booting[i] = "creating"
  /\ IF tables
       THEN LosesRace(i)
       ELSE /\ tables' = TRUE
            /\ Reaches(i, "checking")
            /\ UNCHANGED <<vars, company, worked, late, lost>>

\* Mutation: every boot seeds, and leaves it to the database to refuse.
FindEmployeesNever(i) ==
  /\ booting[i] = "checking"
  /\ Reaches(i, "populating")
  /\ UNCHANGED <<vars, tables, company, worked, late, lost>>

\* seed_if_empty: one employee is enough to leave everything alone.
FindEmployees(i) ==
  /\ booting[i] = "checking"
  /\ Reaches(i, IF company = "none" THEN "populating" ELSE "seeded")
  /\ UNCHANGED <<vars, tables, company, worked, late, lost>>

\* Mutation: tokens are not unique, and there are two of everything.
PopulateTwice(i) ==
  /\ booting[i] = "populating"
  /\ company' = IF company = "none" THEN "seeded" ELSE "twice"
  /\ Reaches(i, "seeded")
  /\ UNCHANGED <<vars, tables, worked, late, lost>>

\* Mutation: session.merge with fixed ids instead of session.add.
PopulateByMerge(i) ==
  /\ booting[i] = "populating"
  /\ company' = "seeded"
  /\ Reaches(i, "seeded")
  /\ UNCHANGED <<vars, tables, worked, late, lost>>

\* _populate is one transaction that writes the rows; api_token is unique, so
\* on top of a company its commit fails as a whole.
Populate(i) ==
  /\ booting[i] = "populating"
  /\ IF company = "none"
       THEN /\ company' = "seeded"
            /\ Reaches(i, "seeded")
            /\ UNCHANGED <<vars, tables, worked, late, lost>>
       ELSE LosesRace(i)

\* Mutation: an instance that could not seed serves all the same.
BootFailsQuietly(i) ==
  /\ booting[i] \notin {"no", "seeded"}
  /\ Reaches(i, "seeded")
  /\ UNCHANGED <<vars, tables, company, worked, late, lost>>

\* The database cannot be reached, or the instance dies.
BootFails(i) ==
  /\ booting[i] # "no"
  /\ Reaches(i, "no")
  /\ UNCHANGED <<vars, tables, company, worked, late, lost>>

\* The import is through; the services come next, MemoryBank's Start.
Assemble(i) ==
  /\ booting[i] = "seeded"
  /\ Reaches(i, "no")
  /\ Start(i)
  /\ UNCHANGED <<tables, company, worked, late, lost>>

Serves(i) == booting[i] = "no" /\ Step(i) /\ UNCHANGED seed

\* Users work with an instance that serves: tickets, approvals, documents.
Work(i) ==
  /\ booting[i] = "no" /\ pc[i] = "serving"
  /\ company' = "worked" /\ worked' = TRUE
  /\ UNCHANGED <<vars, tables, booting, late, lost>>

BNext ==
  \E i \in Instances :
    \/ Launch(i) \/ FindTables(i) \/ CreateTables(i) \/ FindEmployees(i)
    \/ Populate(i) \/ BootFails(i) \/ Assemble(i) \/ Serves(i) \/ Work(i)

BSpec == BInit /\ [][BNext]_bvars

----------------------------------------------------------------------------
(* Properties.                                                             *)

BTypeOK ==
  /\ tables \in BOOLEAN /\ worked \in BOOLEAN
  /\ company \in {"none", "seeded", "worked"}
  /\ booting \in [Instances -> {"no", "importing", "creating", "checking",
                                "populating", "seeded"}]
  /\ late \in SUBSET Instances
  /\ lost \in [Instances -> Nat]

\* An instance that answers has a company behind it, all of it.
ServesSeeded ==
  \A i \in Instances : pc[i] # "down" => tables /\ company # "none"

\* app/agent.py:121: "a restarting instance never overwrites rows that are
\* already there". What users did stays, also when a boot that found nothing
\* goes on after another one has seeded and is used; and a boot that starts
\* with a company there does not even try to write.
RestartOverwritesNothing ==
  /\ worked => company = "worked"
  /\ \A i \in late : booting[i] \notin {"creating", "populating"}

\* A boot that fails to another instance leaves the database further on than
\* it found it: instances that start together do not keep each other down,
\* each of them starts again twice at most.
RaceIsLostTwiceAtMost == \A i \in Instances : lost[i] <= 2
=============================================================================
