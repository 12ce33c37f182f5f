-------------------------- MODULE ServerBoot_proofs -------------------------
(***************************************************************************)
(* Proofs about ServerBoot and the MemoryBank it brings up, for any number *)
(* of instances, users and engines, and any order of boots and restarts.   *)
(***************************************************************************)
EXTENDS ServerBoot, TLAPS

\* How far an instance is tells what the database already has; and once the
\* database has it, no boot can fail for the lack of it again.
SeedInv ==
  /\ company # "none" => tables
  /\ worked => company = "worked"
  /\ late # {} => company # "none"
  /\ \A i \in late : booting[i] \notin {"creating", "populating"}
  /\ ~tables => \A i \in Instances : lost[i] = 0
  /\ company = "none" => \A i \in Instances : lost[i] <= 1
  /\ \A i \in Instances :
       /\ booting[i] = "creating" => lost[i] = 0
       /\ booting[i] = "populating" => lost[i] <= 1
       /\ booting[i] \in {"checking", "populating", "seeded"} => tables
       /\ booting[i] = "seeded" => company # "none"
       /\ pc[i] # "down" => company # "none"
       /\ lost[i] <= 2

\* While no two instances resolve at once, there is one engine at most.
BankInv ==
  /\ \A i \in Instances : attached[i] # InMemory => attached[i] \in engines
  /\ \A i \in Instances : pc[i] = "writing" => target[i] \in engines /\ job[i] \in Users
  /\ ~overlap =>
       /\ \A g, h \in engines : g = h
       /\ \A i, k \in Instances : Resolving(i) /\ Resolving(k) => i = k
       /\ \A i \in Instances : pc[i] = "creating" => engines = {}

BootInv == TypeOK /\ BTypeOK /\ SeedInv /\ BankInv

----------------------------------------------------------------------------
(* The bank.                                                               *)

LEMMA RestsKeeps ==
  ASSUME TypeOK, NEW i \in Instances, Rests(i)
  PROVE  /\ pc'[i] = "serving" /\ target'[i] = InMemory
         /\ \A k \in Instances \ {i} :
              pc'[k] = pc[k] /\ target'[k] = target[k] /\ job'[k] = job[k]
         /\ pc' \in [Instances -> {"down", "listing", "creating", "writing", "serving"}]
         /\ job' \in [Instances -> Users \cup {Boot}]
         /\ target' \in [Instances -> Engines \cup {InMemory}]
  BY DEF Rests, TypeOK

LEMMA ResolveKeeps ==
  ASSUME TypeOK, BankInv, NEW i \in Instances, NEW j \in Users \cup {Boot}, Resolve(i, j),
         attached' = attached \/ attached' = [attached EXCEPT ![i] = InMemory]
  PROVE  /\ TypeOK' /\ BankInv'
         /\ pc'[i] = "listing" /\ \A k \in Instances \ {i} : pc'[k] = pc[k]
  <1>1. /\ pc'[i] = "listing" /\ target'[i] = InMemory
        /\ \A k \in Instances \ {i} :
             pc'[k] = pc[k] /\ target'[k] = target[k] /\ job'[k] = job[k]
        /\ \A k \in Instances : attached'[k] \in {attached[k], InMemory}
    BY DEF Resolve, TypeOK
  <1>2. TypeOK'
    <2>1. overlap' \in BOOLEAN
      BY DEF Resolve
    <2>2. /\ engines' = engines /\ memories' = memories
          /\ pc' \in [Instances -> {"down", "listing", "creating", "writing", "serving"}]
          /\ job' \in [Instances -> Users \cup {Boot}]
          /\ target' \in [Instances -> Engines \cup {InMemory}]
          /\ attached' \in [Instances -> Engines \cup {InMemory}]
      BY DEF Resolve, TypeOK
    <2> QED BY <2>1, <2>2 DEF TypeOK
  <1>3. BankInv'
    <2>1. ~overlap' => ~overlap /\ \A k \in Instances \ {i} : ~Resolving(k)
      BY DEF Resolve
    <2>2. engines' = engines
      BY DEF Resolve
    <2> QED BY <1>1, <2>1, <2>2 DEF BankInv, Resolving
  <1> QED BY <1>1, <1>2, <1>3

\* Engine g is there now, and the boot or the turn of instance i goes on.
LEMMA UseKeeps ==
  ASSUME TypeOK, BankInv, NEW i \in Instances, NEW g \in Engines, Use(i, g),
         engines' \in SUBSET Engines, engines \subseteq engines', g \in engines',
         ~overlap => \A x, y \in engines' : x = y,
         Resolving(i), UNCHANGED <<memories, overlap>>
  PROVE  /\ TypeOK' /\ BankInv'
         /\ pc'[i] # "down" /\ \A k \in Instances \ {i} : pc'[k] = pc[k]
  <1>1. /\ pc'[i] \in {"serving", "writing"}
        /\ pc'[i] = "writing" => target'[i] = g /\ job'[i] \in Users
        /\ \A k \in Instances \ {i} :
             pc'[k] = pc[k] /\ target'[k] = target[k] /\ job'[k] = job[k]
        /\ \A k \in Instances : attached'[k] \in {attached[k], g}
        /\ TypeOK'
    <2>1. CASE job[i] = Boot
      BY <2>1, RestsKeeps DEF Use, TypeOK
    <2>2. CASE job[i] # Boot
      BY <2>2 DEF Use, TypeOK
    <2> QED BY <2>1, <2>2
  <1>2. \A k \in Instances : pc'[k] = "creating" => overlap
    BY <1>1 DEF BankInv, Resolving
  <1>3. BankInv'
    BY <1>1, <1>2 DEF BankInv, Resolving
  <1> QED BY <1>1, <1>3

LEMMA BankStep ==
  ASSUME TypeOK, BankInv, NEW i \in Instances, Step(i)
  PROVE  /\ TypeOK' /\ BankInv'
         /\ pc[i] # "down" /\ \A k \in Instances : pc'[k] # "down" => pc[k] # "down"
  <1>1. CASE ListFindsNone(i)
    <2>1. /\ pc[i] = "listing" /\ pc'[i] = "creating" /\ engines = {}
          /\ \A k \in Instances \ {i} : pc'[k] = pc[k]
          /\ UNCHANGED <<engines, memories, job, target, attached, overlap>>
      BY <1>1 DEF ListFindsNone, Found, TypeOK
    <2>2. TypeOK'
      BY <1>1 DEF ListFindsNone, TypeOK
    <2>3. BankInv'
      BY <2>1 DEF BankInv, Resolving
    <2> QED BY <2>1, <2>2, <2>3
  <1>2. CASE ResolveFails(i)
    <2>1. UNCHANGED <<engines, memories, attached, overlap>> /\ pc[i] # "down" /\ Rests(i)
      BY <1>2 DEF ResolveFails, Resolving
    <2>2. TypeOK' /\ BankInv'
      BY <2>1, RestsKeeps DEF TypeOK, BankInv, Resolving
    <2> QED BY <2>1, <2>2, RestsKeeps
  <1>3. CASE Generate(i)
    <2>1. UNCHANGED <<engines, attached, overlap>> /\ pc[i] # "down" /\ Rests(i)
      BY <1>3 DEF Generate
    <2>2. memories' \in [Engines -> SUBSET Users]
      BY <1>3 DEF Generate, BankInv, TypeOK
    <2>3. TypeOK' /\ BankInv'
      BY <2>1, <2>2, RestsKeeps DEF TypeOK, BankInv, Resolving
    <2> QED BY <2>1, <2>3, RestsKeeps
  <1>4. ASSUME NEW u \in Users, EndTurn(i, u)
        PROVE  /\ TypeOK' /\ BankInv' /\ pc[i] # "down"
               /\ \A k \in Instances \ {i} : pc'[k] = pc[k]
    BY <1>4, ResolveKeeps DEF EndTurn
  <1>5. ASSUME NEW g \in Engines, ListFinds(i, g)
        PROVE  /\ TypeOK' /\ BankInv' /\ pc[i] # "down"
               /\ \A k \in Instances \ {i} : pc'[k] = pc[k]
    <2>1. /\ engines' = engines /\ g \in engines /\ Use(i, g)
          /\ pc[i] = "listing" /\ UNCHANGED <<memories, overlap>>
      BY <1>5 DEF ListFinds, Found
    <2>2. /\ Resolving(i) /\ engines' \in SUBSET Engines
          /\ ~overlap => \A x, y \in engines' : x = y
      BY <2>1 DEF Resolving, TypeOK, BankInv
    <2> QED BY <2>1, <2>2, UseKeeps
  <1>6. ASSUME NEW g \in Engines, Create(i, g)
        PROVE  /\ TypeOK' /\ BankInv' /\ pc[i] # "down"
               /\ \A k \in Instances \ {i} : pc'[k] = pc[k]
    <2>1. /\ engines' = engines \cup {g} /\ Use(i, g)
          /\ pc[i] = "creating" /\ UNCHANGED <<memories, overlap>>
      BY <1>6 DEF Create
    <2>2. /\ Resolving(i) /\ engines' \in SUBSET Engines
          /\ ~overlap => \A x, y \in engines' : x = y
      BY <2>1 DEF Resolving, TypeOK, BankInv
    <2> QED BY <2>1, <2>2, UseKeeps
  <1>7. ASSUME NEW g \in Engines, CreateUnanswered(i, g)
        PROVE  /\ TypeOK' /\ BankInv' /\ pc[i] # "down"
               /\ \A k \in Instances \ {i} : pc'[k] = pc[k]
    <2>1. /\ engines' = engines \cup {g} /\ Rests(i)
          /\ pc[i] = "creating" /\ UNCHANGED <<memories, attached, overlap>>
      BY <1>7 DEF CreateUnanswered
    <2>2. ~overlap => /\ engines = {}
                      /\ \A k \in Instances \ {i} : pc[k] # "creating" /\ pc[k] # "listing"
      BY <2>1 DEF BankInv, Resolving
    <2>3. TypeOK'
      BY <2>1, RestsKeeps DEF TypeOK
    <2>4. BankInv'
      BY <2>1, <2>2, RestsKeeps DEF BankInv, Resolving
    <2> QED BY <2>1, <2>3, <2>4, RestsKeeps
  <1> QED BY <1>1, <1>2, <1>3, <1>4, <1>5, <1>6, <1>7 DEF Step

----------------------------------------------------------------------------
(* The boot.                                                               *)

LEMMA ReachesKeeps ==
  ASSUME BTypeOK, NEW i \in Instances, NEW stage, Reaches(i, stage)
  PROVE  booting'[i] = stage /\ \A k \in Instances \ {i} : booting'[k] = booting[k]
  BY DEF Reaches, BTypeOK

\* Steps of the boot that change neither the bank nor any loss.
LEMMA StageStep ==
  ASSUME BootInv, NEW i \in Instances,
         NEW stage \in {"no", "importing", "creating", "checking", "populating", "seeded"},
         Reaches(i, stage), UNCHANGED <<vars, worked, late, lost>>,
         tables' \in BOOLEAN, company' \in {"none", "seeded", "worked"}, tables => tables',
         company # "none" => company' = company, company' # "none" => tables',
         stage = "creating" => ~tables, stage = "populating" => company = "none",
         stage \in {"checking", "populating", "seeded"} => tables',
         stage = "seeded" => company' # "none"
  PROVE  BootInv'
  <1>1. BTypeOK'
    BY DEF Reaches, BootInv, BTypeOK
  <1>2. \A k \in late' : booting'[k] \notin {"creating", "populating"}
    BY ReachesKeeps DEF BootInv, SeedInv, BTypeOK
  <1>3. SeedInv'
    BY <1>2, ReachesKeeps DEF BootInv, SeedInv, vars, BTypeOK
  <1> QED BY <1>1, <1>3 DEF BootInv, vars, TypeOK, BankInv, Resolving

\* Whoever loses is one loss further, and the database already has what the
\* loser came to bring.
LEMMA LosesRaceStep ==
  ASSUME BootInv, NEW i \in Instances, LosesRace(i), tables,
         \/ booting[i] = "creating"
         \/ booting[i] = "populating" /\ company # "none"
  PROVE  BootInv'
  <1>1. /\ UNCHANGED <<vars, tables, company, worked, late>>
        /\ lost'[i] = lost[i] + 1 /\ \A k \in Instances \ {i} : lost'[k] = lost[k]
        /\ lost' \in [Instances -> Nat] /\ lost[i] \in Nat
    BY DEF LosesRace, BootInv, BTypeOK
  <1>2. BTypeOK'
    BY <1>1 DEF LosesRace, Reaches, BootInv, BTypeOK
  <1>3. SeedInv'
    BY <1>1, ReachesKeeps DEF LosesRace, BootInv, SeedInv, vars, BTypeOK
  <1> QED BY <1>1, <1>2, <1>3 DEF BootInv, vars, TypeOK, BankInv, Resolving

LEMMA LaunchStep ==
  ASSUME BootInv, NEW i \in Instances, Launch(i)
  PROVE  BootInv'
  <1>1. /\ UNCHANGED <<engines, memories, overlap, tables, company, worked, lost>>
        /\ pc'[i] = "down" /\ attached'[i] = InMemory
        /\ \A k \in Instances \ {i} : /\ pc'[k] = pc[k] /\ job'[k] = job[k]
                                      /\ target'[k] = target[k] /\ attached'[k] = attached[k]
    BY DEF Launch, BootInv, TypeOK
  <1>2. TypeOK'
    BY DEF Launch, BootInv, TypeOK
  <1>3. BTypeOK'
    BY DEF Launch, Reaches, BootInv, BTypeOK
  <1>4. SeedInv'
    <2>1. booting'[i] = "importing" /\ \A k \in Instances \ {i} : booting'[k] = booting[k]
      BY ReachesKeeps DEF Launch, BootInv
    <2>2. /\ late' \subseteq late \cup {i}
          /\ late' # {} => company # "none"
      BY DEF Launch, BootInv, SeedInv
    <2>3. late' \subseteq Instances
      BY <1>3 DEF BTypeOK
    <2>4. \A k \in late' : booting'[k] \notin {"creating", "populating"}
      BY <2>1, <2>2, <2>3 DEF BootInv, SeedInv
    <2> QED BY <1>1, <2>1, <2>2, <2>4 DEF BootInv, SeedInv
  <1>5. BankInv'
    BY <1>1 DEF BootInv, BankInv, Resolving
  <1> QED BY <1>2, <1>3, <1>4, <1>5 DEF BootInv

LEMMA BootStep == BootInv /\ [BNext]_bvars => BootInv'
  <1> SUFFICES ASSUME BootInv, [BNext]_bvars PROVE BootInv'
    OBVIOUS
  <1>1. CASE UNCHANGED bvars
    BY <1>1 DEF bvars, vars, seed, BootInv, TypeOK, BTypeOK, SeedInv, BankInv, Resolving
  <1>2. ASSUME NEW i \in Instances, FindTables(i) PROVE BootInv'
    <2>1. tables \in BOOLEAN /\ company \in {"none", "seeded", "worked"} /\ (company # "none" => tables)
      BY DEF BootInv, BTypeOK, SeedInv
    <2> QED BY <1>2, <2>1, StageStep DEF FindTables
  <1>3. ASSUME NEW i \in Instances, CreateTables(i) PROVE BootInv'
    <2>1. tables \in BOOLEAN /\ company \in {"none", "seeded", "worked"} /\ (company # "none" => tables)
      BY DEF BootInv, BTypeOK, SeedInv
    <2>2. CASE tables
      BY <1>3, <2>2, LosesRaceStep DEF CreateTables
    <2>3. CASE ~tables
      BY <1>3, <2>1, <2>3, StageStep DEF CreateTables
    <2> QED BY <2>2, <2>3
  <1>4. ASSUME NEW i \in Instances, FindEmployees(i) PROVE BootInv'
    <2>1. tables \in BOOLEAN /\ company \in {"none", "seeded", "worked"} /\ tables
      BY <1>4 DEF FindEmployees, BootInv, BTypeOK, SeedInv
    <2> QED BY <1>4, <2>1, StageStep DEF FindEmployees
  <1>5. ASSUME NEW i \in Instances, Populate(i) PROVE BootInv'
    <2>1. tables \in BOOLEAN /\ company \in {"none", "seeded", "worked"} /\ tables
      BY <1>5 DEF Populate, BootInv, BTypeOK, SeedInv
    <2>2. CASE company # "none"
      BY <1>5, <2>1, <2>2, LosesRaceStep DEF Populate
    <2>3. CASE company = "none"
      BY <1>5, <2>1, <2>3, StageStep DEF Populate
    <2> QED BY <2>2, <2>3
  <1>6. ASSUME NEW i \in Instances, BootFails(i) PROVE BootInv'
    <2>1. tables \in BOOLEAN /\ company \in {"none", "seeded", "worked"} /\ (company # "none" => tables)
      BY DEF BootInv, BTypeOK, SeedInv
    <2> QED BY <1>6, <2>1, StageStep DEF BootFails
  <1>7. ASSUME NEW i \in Instances, Assemble(i) PROVE BootInv'
    <2>1. UNCHANGED <<tables, company, worked, late, lost>> /\ company # "none"
      BY <1>7 DEF Assemble, BootInv, SeedInv
    <2>2. /\ TypeOK' /\ BankInv'
          /\ \A k \in Instances \ {i} : pc'[k] = pc[k]
      BY <1>7, ResolveKeeps DEF Assemble, Start, BootInv
    <2>3. BTypeOK'
      BY <1>7 DEF Assemble, Reaches, BootInv, BTypeOK
    <2>4. SeedInv'
      <3>1. booting'[i] = "no" /\ \A k \in Instances \ {i} : booting'[k] = booting[k]
        BY <1>7, ReachesKeeps DEF Assemble, BootInv
      <3>2. \A k \in late : booting'[k] \notin {"creating", "populating"}
        BY <3>1 DEF BootInv, SeedInv, BTypeOK
      <3> QED BY <2>1, <2>2, <3>1, <3>2 DEF BootInv, SeedInv
    <2> QED BY <2>2, <2>3, <2>4 DEF BootInv
  <1>8. ASSUME NEW i \in Instances, Serves(i) PROVE BootInv'
    <2>1. /\ UNCHANGED <<tables, company, booting, worked, late, lost>>
          /\ Step(i)
      BY <1>8 DEF Serves, seed
    <2>2. /\ TypeOK' /\ BankInv'
          /\ \A k \in Instances : pc'[k] # "down" => pc[k] # "down"
      BY <2>1, BankStep DEF BootInv
    <2> QED BY <2>1, <2>2 DEF BootInv, BTypeOK, SeedInv
  <1>9. ASSUME NEW i \in Instances, Work(i) PROVE BootInv'
    BY <1>9 DEF Work, vars, BootInv, TypeOK, BTypeOK, SeedInv, BankInv, Resolving
  <1> QED BY <1>1, <1>2, <1>3, <1>4, <1>5, <1>6, <1>7, <1>8, <1>9, LaunchStep DEF BNext

LEMMA BootInvariant == BSpec => []BootInv
  <1>1. ASSUME BInit PROVE BootInv
    <2>1. TypeOK
      BY <1>1 DEF BInit, Init, TypeOK
    <2>2. BTypeOK
      BY <1>1 DEF BInit, BTypeOK
    <2>3. SeedInv
      BY <1>1 DEF BInit, Init, SeedInv
    <2>4. BankInv
      BY <1>1 DEF BInit, Init, BankInv, Resolving
    <2> QED BY <2>1, <2>2, <2>3, <2>4 DEF BootInv
  <1> QED BY <1>1, BootStep, PTL DEF BSpec

----------------------------------------------------------------------------
(* What a boot can rely on.                                                *)

\* Every reachable state of the bank is well typed.
THEOREM BankTypeCorrect == BSpec => []TypeOK
  <1>1. BootInv => TypeOK
    BY DEF BootInv
  <1> QED BY <1>1, BootInvariant, PTL

\* So is every reachable state of the boots and of what they seed.
THEOREM BootTypeCorrect == BSpec => []BTypeOK
  <1>1. BootInv => BTypeOK
    BY DEF BootInv
  <1> QED BY <1>1, BootInvariant, PTL

\* An instance that answers has a whole company behind it (store._populate).
THEOREM SeededIsServed == BSpec => []ServesSeeded
  <1>1. BootInv => ServesSeeded
    BY DEF BootInv, SeedInv, ServesSeeded
  <1> QED BY <1>1, BootInvariant, PTL

\* However boots overlap, none takes away what users did, and one that starts
\* after the company was written never writes (seed_if_empty, _populate).
THEOREM NothingOverwritten == BSpec => []RestartOverwritesNothing
  <1>1. BootInv => RestartOverwritesNothing
    BY DEF BootInv, SeedInv, RestartOverwritesNothing
  <1> QED BY <1>1, BootInvariant, PTL

\* No instance loses the race of the boots more than twice (init_db, _populate).
THEOREM RaceEnds == BSpec => []RaceIsLostTwiceAtMost
  <1>1. BootInv => RaceIsLostTwiceAtMost
    BY DEF BootInv, SeedInv, RaceIsLostTwiceAtMost
  <1> QED BY <1>1, BootInvariant, PTL

\* Without two resolutions at once there is one engine, and every attached
\* instance finds there what any of them stored (ensure_agent_engine).
THEOREM NothingOrphaned == BSpec => []RedeployOrphansNothing
  <1>1. BootInv => RedeployOrphansNothing
    BY DEF BootInv, BankInv, RedeployOrphansNothing, Remembered
  <1> QED BY <1>1, BootInvariant, PTL
=============================================================================
