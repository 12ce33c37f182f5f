----------------------------- MODULE MemoryBank -----------------------------
(***************************************************************************)
(* How server instances come by the Agent Engine that holds long-term      *)
(* memory (app/memory.py) and which one each turn writes to                *)
(* (app/agent.py, _store_memories).                                        *)
(*                                                                         *)
(* An instance resolves an engine at boot and attaches its memory service  *)
(* to it; PreloadMemoryTool reads there. Every finished turn resolves one  *)
(* anew and writes there. Resolving lists the engines of the right name    *)
(* and creates one if there is none: two calls, with other instances in    *)
(* between. AGENT_ENGINE_ID, which skips all this, is not set.             *)
(***************************************************************************)
EXTENDS Naturals, FiniteSets

CONSTANTS
  Instances,  \* server processes
  Users,      \* whose turns are remembered
  Engines,    \* ids the service can give to engines of this display name
  InMemory,   \* the fallback service, which no turn writes to
  Boot        \* what an instance resolves an engine for, besides a user's turn

ASSUME MemoryAssumption ==
  /\ InMemory \notin Engines
  /\ Boot \notin Users

VARIABLES
  engines,   \* the engines that exist
  memories,  \* the users each engine remembers something of
  pc,        \* "down", "listing", "creating", "writing" or "serving"
  job,       \* what the instance resolves for: Boot, or the user of a turn
  target,    \* the engine a turn resolved
  attached,  \* the engine of the instance's memory service, or InMemory
  overlap    \* history: two instances resolved engines at the same time

vars == <<engines, memories, pc, job, target, attached, overlap>>

Resolving(i) == pc[i] \in {"listing", "creating"}

Init ==
  /\ engines  = {}
  /\ memories = [g \in Engines |-> {}]
  /\ pc       = [i \in Instances |-> "down"]
  /\ job      = [i \in Instances |-> Boot]
  /\ target   = [i \in Instances |-> InMemory]
  /\ attached = [i \in Instances |-> InMemory]
  /\ overlap  = FALSE

\* ensure_agent_engine is called. Turns of one instance that end together are
\* left to several instances.
Resolve(i, j) ==
  /\ pc' = [pc EXCEPT ![i] = "listing"]
  /\ job' = [job EXCEPT ![i] = j]
  /\ target' = [target EXCEPT ![i] = InMemory]
  /\ overlap' = (overlap \/ \E k \in Instances \ {i} : Resolving(k))
  /\ UNCHANGED <<engines, memories>>

\* A deployment, or a restart, whatever the instance was doing.
Start(i) ==
  /\ Resolve(i, Boot)
  /\ attached' = [attached EXCEPT ![i] = InMemory]

EndTurn(i, u) ==
  /\ pc[i] = "serving"
  /\ Resolve(i, u)
  /\ UNCHANGED attached

\* The boot, or the turn, is done with the bank.
Rests(i) ==
  /\ pc' = [pc EXCEPT ![i] = "serving"]
  /\ job' = [job EXCEPT ![i] = Boot]
  /\ target' = [target EXCEPT ![i] = InMemory]

\* A boot attaches its service to engine g, a turn is about to write to it.
Use(i, g) ==
  IF job[i] = Boot
    THEN /\ attached' = [attached EXCEPT ![i] = g]
         /\ Rests(i)
    ELSE /\ target' = [target EXCEPT ![i] = g]
         /\ pc' = [pc EXCEPT ![i] = "writing"]
         /\ UNCHANGED <<job, attached>>

Found == engines

\* The listing has no order to rely on: the first engine is any of them.
ListFinds(i, g) ==
  /\ pc[i] = "listing"
  /\ g \in Found
  /\ Use(i, g)
  /\ UNCHANGED <<engines, memories, overlap>>

\* Mutation: the listing compares the wrong name and never matches.
ListFindsNoneEver(i) ==
  /\ pc[i] = "listing"
  /\ pc' = [pc EXCEPT ![i] = "creating"]
  /\ UNCHANGED <<engines, memories, job, target, attached, overlap>>

ListFindsNone(i) ==
  /\ pc[i] = "listing"
  /\ Found = {}
  /\ pc' = [pc EXCEPT ![i] = "creating"]
  /\ UNCHANGED <<engines, memories, job, target, attached, overlap>>

Create(i, g) ==
  /\ pc[i] = "creating"
  /\ g \in Engines \ engines
  /\ engines' = engines \cup {g}
  /\ Use(i, g)
  /\ UNCHANGED <<memories, overlap>>

\* The service creates the engine, and its answer is an error or is lost.
CreateUnanswered(i, g) ==
  /\ pc[i] = "creating"
  /\ g \in Engines \ engines
  /\ engines' = engines \cup {g}
  /\ Rests(i)
  /\ UNCHANGED <<memories, attached, overlap>>

\* Mutation: a failure to resolve takes the instance out of service.
ResolveFailsHard(i) ==
  /\ Resolving(i) \/ pc[i] = "writing"
  /\ pc' = [pc EXCEPT ![i] = "failed"]
  /\ UNCHANGED <<engines, memories, job, target, attached, overlap>>

\* Any exception is logged: a boot falls back to in-process memory, a turn
\* goes unremembered.
ResolveFails(i) ==
  /\ Resolving(i) \/ pc[i] = "writing"
  /\ Rests(i)
  /\ UNCHANGED <<engines, memories, attached, overlap>>

Generate(i) ==
  /\ pc[i] = "writing"
  /\ memories' = [memories EXCEPT ![target[i]] = @ \cup {job[i]}]
  /\ Rests(i)
  /\ UNCHANGED <<engines, attached, overlap>>

Step(i) ==
  \/ ListFindsNone(i) \/ ResolveFails(i) \/ Generate(i)
  \/ \E u \in Users : EndTurn(i, u)
  \/ \E g \in Engines : ListFinds(i, g) \/ Create(i, g) \/ CreateUnanswered(i, g)

Next == \E i \in Instances : Start(i) \/ Step(i)

Spec == Init /\ [][Next]_vars

----------------------------------------------------------------------------
(* Properties.                                                             *)

TypeOK ==
  /\ engines \in SUBSET Engines
  /\ memories \in [Engines -> SUBSET Users]
  /\ pc \in [Instances -> {"down", "listing", "creating", "writing", "serving"}]
  /\ job \in [Instances -> Users \cup {Boot}]
  /\ target \in [Instances -> Engines \cup {InMemory}]
  /\ attached \in [Instances -> Engines \cup {InMemory}]
  /\ overlap \in BOOLEAN

Remembered == UNION {memories[g] : g \in engines}

\* app/memory.py:30: the engine is "Reused across deploys so redeploying does
\* not orphan the memories". It is so as long as no two instances resolve at
\* the same time: an instance attached to a bank then finds whatever any
\* instance stored, before or after any restart.
RedeployOrphansNothing ==
  ~overlap =>
    \A i \in Instances :
      attached[i] # InMemory => Remembered \subseteq memories[attached[i]]
=============================================================================
