# Gemini Ops Fleet in TLA+

This directory specifies the stateful parts of Gemini Ops Fleet in TLA+: the event
outbox and its drain, the Pub/Sub push endpoint in front of it, the human gate for
outbound messages, what the agents' tools may show to whom, the runs of the agents with
their guardrails and audit trail, ticket triage, reconciliation, and how instances boot,
seed the database and share the memory bank. TLC checks the modules on small instances,
TLAPS proves all of their safety properties for instances of any size.

The models are written from the code under `src/`. Where a comment or a document says
something else, there is a run that shows the difference (section 6).

## 1. The system

| Component | State | Operations | What is hard about it |
|---|---|---|---|
| Outbox and drain (`app/store.py`, `app/worker.py`, `app/domain.py`, `EVENT_ROUTES` in `app/fleet.py`) | `activities` rows with the flag `dispatched` | `emit` inside any transaction; `drain_once` | any number of drains at once, handlers that raise, transactions that fail, instances that die, ids that become visible out of order |
| Pub/Sub push (`pubsub_push` in `app/routes.py`, `pubsub.tf`) | the subscription's outstanding messages | decode, append, drain, answer | redelivery, lost and late answers, messages that cannot be decoded or stored |
| Human gate (`app/approvals.py`, `approve` and `send` in `app/routes.py`, `draft_followup` in `app/tools.py`) | `approvals` rows: `approved`, `approved_by`, `sent` | draft, approve, send | concurrent requests that decide on stale snapshots |
| Tools and their scope (`app/tools.py`, `app/identity.py`, `app/retrieval.py`) | the identity of a session, documents with `allowed_roles` | eight tools, identity at the start of a run | information that travels from session to session, in captured documents and in the categories of tickets |
| Triage (`triage_ticket`) | a ticket's classification and owner, `open_load` | classify and assign | lost updates of the counter, mixtures of two classifications |
| Memory Bank (`app/memory.py`, `_store_memories` in `app/agent.py`) | the Agent Engines of one display name, what they remember, which one each instance reads | resolve, create, attach, write after each turn | check-then-create across instances, answers that are lost, restarts |
| Guardrails and runs (`app/guardrails.py`, `audit` in `app/identity.py` and `app/tracing.py`, `_store_memories`) | a block carried in session state from one callback to the next, what a session holds, audit rows and spans | four callbacks of a run, tool calls, the write to memory | runs that break off between two callbacks, two runs of one session, screens that cannot be reached |
| Seeding and boot (`init_db`, `seed_if_empty`, `_populate`) | the tables and the demo company | look, then create; look, then populate | several instances booting together, restarts while users work |
| Reconciliation (`reconcile_accounting`) | none; reads orders and their ledger | one report of many statements | books that change under the report, rounding |
| Ranking (`app/retrieval.py`), registry, token lookup, telemetry, configuration, server assembly, Terraform, demo | none of their own | | |

How they interact: every business change (`triage_ticket`, `capture_knowledge`,
`draft_followup`, `approve`, `send`) calls `emit` in its own transaction and so feeds
the outbox; `pubsub_push` feeds it from outside and then drains it; the drain routes an
event to an agent by a table; agents act through the tools, and the tools are where the
scope rules apply. A message to a customer passes through the approval queue, which no
agent can flip. Around every run of an agent stand the callbacks of the guardrail
plugin, and after it what was said goes to the memory bank, from where later runs are
given it.

Two facts about the deployment decide what can interleave. The service runs on up to ten
instances (`service.tf`) against one Postgres (SQLite is the default of a laptop), whose
default isolation is READ COMMITTED; and `pubsub_push` is an `async` function that never
awaits, so it holds its instance's event loop from the first line to the answer, while
the other endpoints are plain functions that run in a thread pool.

### What makes each component correct

- Outbox: an event is settled only when handled, nothing is handled that did not commit,
  an event is handled again only for a reason, and nothing waits for ever behind
  somebody else's failure.
- Push: an acknowledgement means the event is recorded, and what it means for its
  handling; a redelivery has a bounded price; no good message is lost.
- Human gate: nothing leaves that a person has not signed before, in whose name it
  leaves; rows and events tell the same story.
- Tools: no chain of calls carries to a department what it may not reach, but for what
  somebody writes on one of its tickets.
- Triage: the counter never runs ahead, and lacks only increments that two overlapping
  calls explain; without concurrency work is shared out evenly; a ticket shows its last
  classification unless two calls were about it at once.
- Runs: what no screen let pass reaches no model, by whatever way; a block stops its own
  run and no other; the audit trail tells what happened.
- Memory: what was remembered is found again after a restart.
- Boot: who answers has the whole company behind it, no boot writes over what users
  did, and instances that start together do not keep each other down.
- Reconciliation: what a report says is true of all that did not change under it, and
  an order it calls missing was.

## 2. Modules

| Module | What it is |
|---|---|
| `EventStream` | abstract: an at-least-once stream |
| `Outbox` | rows, transactions, concurrent drains; implements `EventStream` |
| `PubSubPush` | extends `Outbox` with the subscription and the endpoint |
| `GateContract` | abstract: sign off first, deliver after |
| `HumanGate` | rows, snapshots and commits of the approval queue; implements `GateContract` |
| `ToolAccess` | what each tool shows, and documents that carry it on |
| `Triage` | `triage_ticket` as concurrent transactions |
| `AgentTurn` | runs of agents: callbacks, tool calls with audit rows, session and memory |
| `MemoryBank` | resolving, creating and using Agent Engines |
| `ServerBoot` | extends `MemoryBank` with what comes before it in a boot: tables and seed |
| `Reconcile` | the report over books that change meanwhile |
| `MC*` | the instances TLC checks |
| `*_proofs` | theorems and their proofs, one module each for `Outbox`, `PubSubPush`, `HumanGate`, `ToolAccess`, `Triage`, `AgentTurn`, `ServerBoot` (with `MemoryBank`) and `Reconcile` |

### Transactions

`session_scope` commits at the end of its block or rolls back. The modules open
a transaction up as far as its inside can be observed.

- `Outbox` gives a writer's row the states "inflight" and "pending": the serial id is
  taken at the flush, and the row appears at the commit, so that rows may appear in
  another order than their ids. The drain's own transactions are one step each: they
  read a set of rows, or set one flag to TRUE, which nothing ever sets back.
- `HumanGate` and `Triage` keep what a request loaded (`seen`) until its commit, where
  `Flush` writes the columns whose new value differs from the loaded one. This is what
  SQLAlchemy's unit of work does, and it is what makes stale snapshots harmless in one
  place and harmful in another. The two reads of `triage_ticket` are two steps.
- `ToolAccess` treats a call as one step. Each call either shows something or writes one
  thing which does not depend on what it read in the database, so that a call which
  reads earlier and commits later does nothing that one-step calls cannot do.
- `Reconcile` makes every statement of the report a step of its own, since under READ
  COMMITTED each sees what has committed by then; the orders it read first stay in its
  session as they were.
- `AgentTurn` keeps of a call's transaction what it has written so far (`open`): the
  tool's changes and the audit row are steps of their own, the commit makes permanent
  whatever is there, and the span's attributes are outside of it.
- `ServerBoot` makes a look and the change after it two steps, and lets the database
  refuse the change when another instance was first.

### Outbox

`Select`/`SelectRaises` are the first block of `drain_once`, `Skip` the branch for
events nobody owns, `Call`, `HandlerReturns` and `HandlerRaises` the handler, `Mark` the
last transaction, `MarkRaises` its failure (and that of `Skip`), `Finish` the return.
`batch[w]` is `pending_ids` less the entries that are done with; the loop takes the
smallest id, since the query ordered them. An event is a record of its kind and the
shape of its payload: `dict(a.payload)` raises for JSON values other than objects, and
raises for the whole batch.

Handlers are a parameter of `drain_once`. The one in use (`log_only_handler`) never
raises; the tests pass handlers that do, and agents will. `Poison` are the events whose
handler raises at every call, `Flaky` those whose handler may.

### PubSubPush

A pusher is an instance's event loop, the other drains are thread-pool calls of
`/events/drain`. `Append` opens the transaction of the endpoint, `CommitAppend` ends it,
`PushDrain` runs the drain's steps on the request's thread. A request ends in `Ignore`
(undecodable: acknowledged), `AppendRaises` (the database refuses the kind: 500),
`Accept` or `DrainRaised` (500 with a committed row). An answer may be lost, and Pub/Sub
may deliver a message again while an instance still serves it. Pub/Sub itself is
external: it redelivers what is not acknowledged until its retention ends
(`MaxDeliveries`).

### HumanGate

`LoadApprove` and `LoadSend` are the reads and decisions of `approve` and `send`,
`CommitApprove` and `CommitSend` the commits with their event, `Abort` a rollback, a
crash or an exception. A draft can be approved again, also after it was sent, and can be
sent again: nothing in the code looks. `pending` is the list people work from: a
function of the rows at any moment.

### ToolAccess

A matter is anything worth protecting: a customer's records, what a document is about,
the ledger. `knows[s]` is a history variable of what tools have shown session `s`; a
model can write anything of it into the text of a call. There are two places from which
other sessions read such text. Search finds a captured document for the roles it names;
and `list_open_tickets` shows the category of a ticket, which `triage_ticket` takes from
any employee's session, on any ticket and unchecked, to whoever sees the ticket.
`labelled[t]` is a history variable of what a ticket's category ever gave away; a
category that gives nothing away is `Plain`. No code closes a ticket. Queries, ranking,
order and layout of results are left out: a search is one permitted hit at a time. A
call that is denied or fails changes nothing here; the audit rows of calls are in
`AgentTurn`.

### AgentTurn

A run is one message of a user. `ScreenPrompt` is `on_user_message_callback`,
`BeforeRun` `before_run_callback`, `ScreenResult` `after_tool_callback`, `StoreMemories`
the agent's callback after its turn; in between the ADK appends to the session
(`AppendMessage`, `Refuse`, `AppendResult`, `Answer`) and asks the model (`AskModel`),
which calls any tool (`CallTool`). `ScanRaises` is Model Armor out of reach within a
callback, `BreakOff` every other end: an exception, a client that leaves, an instance
that dies.

The ADK is external (google-adk 2.2.0 in the lock file). Two of its traits matter, and
the module commits to neither. A run works on a copy of its session; what a callback
writes to `session.state` directly is no part of an event, so that it depends on the
session service whether the next run finds it (`SavesState`). And when another run of
the same session has written meanwhile, an append may fail, go on with its own copy, or
load a newer one: `AppendEvent` allows all of these once a session has two runs (`alone`
is lost), and `BreakOff` is the failure. TLC checks `SavesState = TRUE`, the case in
which a block can stay behind; the proofs cover both.

`Flags` and `Leaks` say what each screen takes for an injection or for contact details;
the patterns are not modelled. A verdict is one of `Verdicts`: the heuristic always
flags what it finds, while `ModelArmorScreen._flagged` lets an answer without a result
pass, so that Model Armor may let anything through. For Model Armor, `Flags` are the
messages whose answer has state 1, which is what `_flagged` compares with; what that
number means is an enumeration of the client library, which is not under `src/`. An
instance has either screen, as `build_screen` falls back to the heuristic when Model
Armor cannot be set up, so that two runs of one session can be screened differently.
`passed` are the texts some screen has let pass.

A call that returns before it comes to the audit (no identity, an unknown severity or
ticket) is "quiet". Of the others, `Act` is what a tool that writes does first, `Audit`
adds the row and sets the span's attributes at once, `CommitCall` is the end of
`session_scope` and `ReturnCall` hands over the result; a run can break off before and
after each. A result that is withheld has taken effect all the same.

### Triage, MemoryBank, ServerBoot

`Triage` has `LoadTicket`, `ChooseOwner` and `Commit` for the two reads and the commit
of one call. Two history variables tell what overlapped: `contested` has the tickets two
calls were about at once, `crossed` counts for each employee the commits during which
another call had chosen them too. `MemoryBank` has the two remote calls of
`ensure_agent_engine` as separate steps, used at boot (`build_memory_service`) and after
every turn (`store_session_memories`); an error at either of them makes a boot fall back
to in-process memory and a turn go unremembered.

`ServerBoot` puts the import of `app/agent.py` in front: `FindTables` and `CreateTables`
for `init_db`, `FindEmployees` and `Populate` for `seed_if_empty`, then `Assemble`,
which starts `MemoryBank`'s boot. An instance may be launched anew at any time, whatever
it was doing. Whoever loses a race to another instance gets an error from the database
(a table that exists, a token that is not unique), its import fails and the platform
starts it again; `lost` counts that. `company` says what the rows are: none, as seeded,
or as users left them. `Populate` writes them and relies on the unique token to fail on
top of others; `Work` stands for all that users do, also between the look and the change
of an instance that is slow to boot. `late` are the instances whose last boot began with
a company there.

### Reconcile

`LoadOrders` is the query for all orders, `Judge` one pass of the loop with its query
for the entries of one order, `Finish` the rate, the audit row and the return. `Trade`
is any transaction of the business: it places or changes an order, posts an entry, or
both. `bare` keeps which orders stood without an entry when a call read them. Nothing
under `src/` does so after the seed; the report claims to watch exactly
such systems.

Money is in cents. The code adds floats and accepts `abs(net - expected) <= 0.01`; the
floating sums of amounts with two decimals are off by far less than half a cent, so that
only a gap of exactly one cent can be judged either way, and it is a choice here.
`Rates` are the results of `round(..., 4)`, a tie falling either way; `Scale` is 10000
in the code and 1 in the run.

## 3. Runs

| Run | Instance | Shows |
|---|---|---|
| `outbox` | 2 drains, 3 rows, LIMIT 2, 1 fault, 4 classes of events | dispatched was handled, handled was committed, what a second effect costs; `Outbox` implements `EventStream`; only blocked events wait, and buried ones for ever |
| `push_safety` | 2 instances, 4 messages, 2 deliveries each, 3 rows, 1 fault | what an acknowledgement means |
| `push_live` | 1 instance and a manual drain, 4 messages, 4 rows, 1 fault | well-formed messages are handled |
| `gate` | 2 drafts, 2 people, 2 requests, 5 events | signed before sent, rows match events, the pending list is exact; `HumanGate` implements `GateContract` |
| `access` | 2 sessions, 4 employees, 2 customers, 2 tickets, a memo on the ledger | nothing crosses into sales or accounting but by the category of a ticket of theirs |
| `triage` | 2 calls, 2 tickets, 2 employees, 3 labels, 3 triages | which increments are lost, which tickets may read as a mixture |
| `memory` | 2 instances, 2 users, 3 engines | who seeds, no boot writes over users' work; no memory is orphaned without a race |
| `reconcile` | 1 report, 3 orders, amounts of 1 and 3 cents, 3 changes, a rate in whole units | what the report says of orders that change and of those that do not; what rounds away |
| `agent_turn` | 2 runs at once, 2 sessions, 2 messages, 1 result, both screens, 3 messages received, 1 tool call | what reaches a model, whom a block stops, what the trail tells |

The other three runs each end in a counterexample; see section 6.

Why these bounds are enough.

- `outbox`: LIMIT is smaller than the number of rows, so that a batch can leave rows
  behind, and two rows that always fail starve the third. The events are an owned one
  with a flaky handler, an owned one that always fails, one nobody owns and one with an
  unreadable payload. With two drains and one fault a row can take effect three times,
  which is the bound of `EffectsBounded`.
- `push_*`: two deliveries and one fault suffice for a redelivery of a stored message;
  three rows are one less than the deliveries that could store, which only cuts
  behaviours where all of them did.
- `gate`: five events are a draft, two approvals and two sends.
- `access`: one session that leaves text and one that reads it, in both directions, by
  any two of the employees. Longer chains are what `OnlyLabelsEverCross` proves. The
  company has each role that bounds what may cross: two reps, of whom one owns a
  customer, an accountant, and a support engineer who sees all customers but not the
  ledger. Each customer has a ticket, one that sales sees and one that it does not.
- `memory`: two instances race, and either may be launched anew and find what they left;
  two racing creations and a third one are three engines. `lost` needs no bound, as no
  instance loses more than twice.
- `reconcile`: a report reads orders and entries at four different moments, and three
  changes can fall between any of them. Amounts of 1 and 3 make gaps of nothing, of
  exactly one cent, and of more. With a scale of 1 the
  boundary is at two orders, so that one order is below it, two are on it and three
  past it.
- `agent_turn`: three messages are a run that breaks off, one that overlaps it and one
  that comes after; one message is flagged by both screens, the other by Model Armor
  only. Tool calls are independent of each other but for the texts they leave, so that
  one is enough for the trail.

A run whose configuration turns deadlock checking off has an end by its bound (`MaxLog`,
`MaxTriages`, `MaxDeliveries`, `MaxMessages`, `MaxChanges`) that the system does not
have.

Symmetry is used for instances, sessions, calls and the like, in runs that check
invariants only.

### Fairness

- `Outbox!LiveSpec`: a drain under way takes its steps and an open transaction ends
  (weak fairness), which threads and the database provide. It also assumes that
  `drain_once` keeps being called, which is not the code's to give: the property is
  about what an endless sequence of drains achieves. Nothing is assumed about a handler
  succeeding: a flaky one fails as long as the bound allows, a poisonous one always.
- `PubSubPush!PLiveSpec`: Pub/Sub delivers an unacknowledged message again and again
  (strong fairness, since an instance may be busy at times) and a request under way goes
  on. No manual drain is assumed.

Safety properties need no fairness. `outbox` checks its own under `LiveSpec` all the
same, next to the liveness, which loses nothing: `LiveSpec` reaches the same states as
`Spec`. The other runs and all proofs assume no fairness.

## 4. Proofs

All proofs hold for any number of drains, rows, faults, drafts, requests, sessions,
employees, instances, orders, runs and so on, from the assumptions named in the modules
(`OutboxAssumption`, `PubSubAssumption`, `GateAssumption`, `AccessAssumption`,
`TriageAssumption`, `MemoryAssumption`, `ReconcileAssumption`, `TurnAssumption`). They
say what kind of value a constant is, that the sets which are counted (`Drains`,
`Orders`) are finite, that placeholders are none of the values they stand for, and in
`TurnAssumption` that messages, results and notices are different texts. Every one of
them is evaluated by TLC in a passing run.

- `Outbox_proofs`: `TypeCorrect`; then `HandlingCorrect`, whose invariant `HandlingInv`
  adds to the two safety properties what a drain holds: a batch contains published rows
  only, and a drain that is about to mark an owned row has seen its handler return.
  Without this, a step of `Mark` could dispatch an unhandled row. `DispatchedHandled`
  and `HandledCommitted` follow. `RedeliveryIsLoss` needs `SequentialInv`: while drains
  never overlapped, one at most is active, its batch is still pending, and a pending row
  owes its effects to lost marks, but for the row whose mark is about to be written.
  `EffectsAreBounded` counts drains, by `EffectsOf`: before the first mark every effect
  of a row has a drain that is about to mark it or a lost mark; after it, no drain comes
  to hold the row that did not before, and those that still hold it have their effect
  yet to come. `OnceButForFaults` turns lost marks into faults: without overlap a
  dispatched event took effect between once and `1 + faults` times. `DrainsTakeOldest`
  rests on lemmas about `Oldest`, which is ORDER BY and LIMIT in one set: it has LIMIT
  elements at most (`OldestAreFew`), nothing left out precedes anything taken
  (`OldestComeFirst`), and it is everything that fits (`OldestIsAll`).
  `BuriedStays` is the converse of `OnlyBlockedEventsWait`: once a row no drain holds
  has an unreadable row, or LIMIT rows that always fail, before it, no step takes it up
  again. `BurialInv` says why those in front never leave: no drain holds an unreadable
  row, and a poisonous handler never completed. `StreamImplemented` is the refinement: a
  commit is `Publish`, a completed call is `TakeEffect`, the first mark is `Settle`, and
  everything else, crashes and marks that come second included, stutters.
- `PubSubPush_proofs`: `PushTypeCorrect`, `AckedStored` and `AckedDispatched`. A step of
  a push either leaves the outbox alone, or is one of its own steps, so that `TypeOK` is
  carried over. `ServingInv` relates what an instance is serving to its row: the row it
  took is the message's, and it drains, and so acknowledges, only behind the commit of
  the append. `AckedDispatched` assumes that the pending rows never outnumber LIMIT
  (`PendingFits`), so that a drain takes all of them; `DispatchInv` then says that the
  row of a push is settled, or still ahead of the drain which that push runs. The
  assumption is needed: with more rows pending, the drain of a push may not come to the
  push's own row. `AckedDispatchedSmall` is the case the run `push_safety` checks, where
  the table itself is no larger than LIMIT.

`PSpec` does not refine the `Spec` of the outbox, since a delivery restarts a drain that
ended and an instance that dies takes its open transaction along. But every step is one
of the outbox or `Quiet` (`OutboxOrQuiet`), and quiet steps preserve the outbox's
invariants; so `PushedAreHandled`, `PushedTakeEffectOnce`, `PushedBuriedStays` and the
refinement of `EventStream`, `PushedStream`, hold behind the endpoint too.
`PaidByDeliveries` proves `EffectsPerDelivery` by counting: `EffectsFor(m)` is the set
of numbered effects of a message's rows; its rows and the requests about to append one
are no more than its deliveries (`DeliveryInv`), and its effects no more than its rows
that are spent, dispatched or about to be marked, and the faults (`PaidInv`).
- `HumanGate_proofs`: `GateInv` strengthens the properties with what the snapshots of
  the requests under way guarantee: a snapshot never claims more than its row, and the
  approver it names has signed. It rests on `FlushColumns`, which says column by column
  what a flush leaves. From it `TypeCorrect`, `SignedBeforeSent`, `RowsMatch`,
  `PendingIsExact`, and the refinement `GateImplemented`.
- `ToolAccess_proofs`: `TypeCorrect` and `OnlyLabelsEverCross`, by the invariant
  `DocsInv` that whatever sales or accounting can find by searching they may reach
  anyway or were shown on a ticket: only one of their own could have captured it for
  them, and that one knew it from within or from such a ticket.
- `Triage_proofs`: `TriageTypeCorrect`; `LoadAccounted`, whose invariant `LoadInv` says
  of the counter, and of what each call under way has read of it, that they are no more
  than the work given and that the rest is in `crossed`; `SequentialFairness`, for which
  `AloneInv` says that without overlap what a call has read is what is still there; and
  `TicketAsReported`, by `TicketInv`, which says the same of tickets no two calls were
  about at once, and `ReportedInv`, by which every column that is written was reported.
- `ServerBoot_proofs`: `BootInv` joins `SeedInv` and `BankInv`. `SeedInv` follows a
  boot: whoever has passed the look for employees, and whoever serves, has the company
  behind it, and an instance that lost twice has passed everything there is to lose, and
  one whose boot began with a company never comes to write. `BankInv` says that without
  overlap there is at most one engine, that nobody is about to create a second, and that
  whoever is attached or about to write has an engine that exists. The six theorems are
  the invariants of the run `memory`.
- `Reconcile_proofs`: `HonestInv` says that a report's row of an untouched order is the
  order, and that what it said of such an order already is right; `BareInv`, for
  `MissingIsMissing`, that whatever was found missing or can still be was so when the
  report began; `RateInv` ties the rate of a finished report to the number of its
  findings, from which `FullRate` follows by the arithmetic of `FullRateRounds`.
- `AgentTurn_proofs`: `TextInv` is the core: whatever a session, a memory, a context or
  a run's next text holds is a notice or has passed, but for the text of a run whose
  screen has not looked yet. `BlockInv` says for a run alone in its session that its
  block is there between the two callbacks, and who may have left a block behind
  otherwise; `CallInv` which calls are open, that no two runs share one, and by
  `Progress` what the transaction of each holds at every stage of it, without which a
  commit could make an effect permanent and no row.

Only model-checked: all liveness (`OnlyBlockedEventsWait`, `WellFormedIsHandled`), which
is beyond the prover.

## 5. What is not modelled

- What is in texts: queries, snippets, prompts, what the screens match, how floats are
  printed.
- Retrieval ranking: a pure function of texts. `ToolAccess` has a search return any
  permitted document, which covers every ranking.
- The model's choices: any tool call at any time is possible.
- `reset_and_seed`, which `demo.py` and the tests run on a database of their own. With
  it, rows are deleted; no other code deletes any.
- The services of ADK: `build_session_service`, A2A endpoints, and what they keep.
  `AgentTurn` takes one session service for all instances.
- The registry's constant tables, the lookup of a token (one row read per request),
  configuration, the assembly of the server, Terraform.
- Spans and logs, apart from the attributes that `audit` writes next to its row.

## 6. Where the words and the code disagree

| Run | Said | Found |
|---|---|---|
| `push_malformed` | app/routes.py:196-198 malformed messages are acknowledged, lest they bury the events behind them | a payload of null is stored, and every later drain raises on it; `PushedBuriedStays` proves that nothing ever digs out what is behind it |
| `access_capture` | app/tools.py:335-336 "capturing knowledge cannot widen who can see it" | a colleague of the same department learns of a customer who is not theirs |
| `triage_least` | app/tools.py:276 "the least-loaded support employee" | the counter keeps the load of tickets that were given to somebody else |

Further statements hold only under a condition, and the property that holds names it:

- app/worker.py:8 "a row is claimed by flipping `dispatched`": the flag is flipped after
  the handler, so that overlapping drains handle a row once each (`EffectsBounded`, and
  `RedeliveredOnlyIfLost` under `~overlap`).
- app/worker.py:8-10 "a crash mid-handler costs at most one redelivery": one for each
  crash, while drains do not overlap (`OnceButForFaults`); without a condition there may
  be one more for each drain (`EffectsBounded`).
- pubsub.tf:63-64 "one duplicate attempt rather than a duplicated side effect": each
  delivery is a row of its own with an effect of its own, and that is also all it can
  cost but for faults (`EffectsPerDelivery`, `PaidByDeliveries`).
- app/memory.py:100 "creating it once" and app/memory.py:169-170, what is written is
  found: true while no two instances resolve at the same time and the boot did not fall
  back to in-process memory (`RedeployOrphansNothing`).
- docs/architecture.md:148-149 "A crash costs one redelivery, not a duplicate": whether
  the redelivery duplicates an effect is up to the handler, which may have completed.
  `RedeliveredOnlyIfLost` and `EffectsBounded` say how often, `KeepsStreamContract` that
  it is at least once.
- app/domain.py:178 "Every tool call an agent makes, including the ones that were
  denied", and README.md:34 "every call audited, denials included": denials for a role
  or a customer are, but calls without an identity or with an unknown severity or ticket
  end before any audit row is written (tools.py:64, 293-294, 298-299). `AgentTurn` has
  such calls, and `TrailTellsEffects` speaks of the others only. The outcome "blocked"
  of app/domain.py:190 is never written.
- README.md:10 "a sales rep's agent cannot reach accounting documents": not the
  documents themselves; but `triage_ticket` takes any text for a category (tools.py:293
  checks the severity only, the docstring lists four categories), any employee's session
  may write it on any ticket (307), and `list_open_tickets` shows it to whoever sees the
  ticket (172). That is the one way across (`OnlyLabelsCross`, `OnlyLabelsEverCross`).
- app/identity.py:108-110, a single call site keeps rows and spans from drifting apart:
  when the transaction rolls back, the span stays and the row does not. The other way
  round never happens, and a call that was audited does not answer its run before its
  row is there (`TrailTellsEffects`).
- app/guardrails.py:172 "Stop the run outright": so it is while a session has one run at
  a time. A copy of the session loaded again between the callbacks loses the block; the
  model is then given the refusal in place of the message, never the message itself
  (`BlockedRunStops`, `InjectionReachesNoModel`). A run that breaks off between the
  callbacks can leave its block to the next message of the session (`CleanIsServed`).
- .agents-cli-spec.md:67-68, injections and PII are blocked at the gateway: of messages
  and of tool results (`InjectionReachesNoModel`, `LeakReachesNoModel`). What the model
  says of itself is screened nowhere.
- app/tools.py:214, every order has matching entries: of orders that do not change
  during the report (`UntouchedJudgedRight`). An order that does may be called clean or
  mismatched although it never was, but not missing (`MissingWasMissing`). A rate of 1.0
  means that nothing was found only below twenty thousand orders; from there on it means
  one discrepancy in twenty thousand at most (`FullRateIsClean`).
- app/guardrails.py:93 "any match is a block": an answer without a result is none, and
  the text passes (`Verdicts`).
- app/agent.py:58-59 expects the server to write the identity of a session; nothing
  under `src/` does, so that outside of local runs every tool refuses. `ToolAccess` has
  such sessions.

## 7. Plan

Done: the outbox, push, human gate, tool access, triage and memory bank; then runs with
guardrails and audit trail, boot and seed, reconciliation; proofs for every safety
property, and of the outbox's guarantees behind the endpoint.

Left:

1. `Fleet`: the transactions of the tools and of the gate as the writers of the outbox,
   so that the rows of `approvals` and `tickets` and the events that are handled agree
   end to end. Every writer emits within its own transaction, so that what this adds is
   the order in which handlers see the events of one draft.
2. Ranking as operators over token sets, compared with a reference definition, for the
   limit below zero.
