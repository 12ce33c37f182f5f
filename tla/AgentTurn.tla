------------------------------ MODULE AgentTurn ------------------------------
(***************************************************************************)
(* The runs of the fleet's agents: one message of a user each, through the *)
(* callbacks of the guardrail plugin (app/guardrails.py), tool calls with  *)
(* their transactions, audit rows and spans (app/tools.py, app/identity.py,*)
(* app/tracing.py), and the write to long-term memory (app/agent.py).      *)
(*                                                                         *)
(* The ADK calls the callbacks, appends what was said to the session, and  *)
(* asks the model, which may then call any tool. A run works on a copy of  *)
(* its session. The block that one callback leaves in session.state for    *)
(* the next is no part of an event: whether the session service stores it  *)
(* (SavesState), and whether it reloads a copy when another run wrote to   *)
(* the same session, is not for this code to say.                          *)
(***************************************************************************)
EXTENDS Naturals, Sequences

CONSTANTS
  Sessions,     \* sessions of one user
  Runs,         \* requests served at once
  Prompts,      \* messages
  Flags,        \* those each screen finds to be injections
  Results,      \* what tools return
  Leaks,        \* those each screen finds contact details in
  Notice,       \* the texts said in place of others
  SavesState,   \* the session service stores what is written to session.state
  MaxMessages,  \* bound: messages received
  MaxCalls      \* bound: tool calls

\* build_screen: Model Armor where it is configured and can be set up when the
\* instance boots, the heuristic otherwise.
build_screen == {"heuristic", "model_armor"}

Said  == {"removed", "refusal", "withheld", "reply"}
Texts == Prompts \cup Results \cup {Notice[k] : k \in Said}

ASSUME TurnAssumption ==
  /\ Flags \in [build_screen -> SUBSET Prompts]
  /\ Leaks \in [build_screen -> SUBSET Results]
  /\ \A k \in Said : Notice[k] \notin Prompts \cup Results
  /\ Prompts \cap Results = {}
  /\ SavesState \in BOOLEAN
  /\ MaxMessages \in Nat /\ MaxCalls \in Nat

VARIABLES
  stored,    \* the texts and the block each session has with its service
  run,       \* each run under way
  memory,    \* the texts the memory bank was given
  trail,     \* the tool calls: what was traced, what committed
  received,  \* messages so far
  context,   \* history: what each run's model was given
  passed,    \* history: the messages and results that a screen let pass
  troubled   \* history: sessions with two runs at once, or a blocked run cut off

history == <<context, passed, troubled>>
vars == <<stored, run, memory, trail, received, history>>

\* A run holds the text to be appended next and its copy of the block; `flagged`
\* is the verdict on its message, `alone` that it has had its session to itself;
\* `call` its tool call under way, or 0, and `open` what that has written in a
\* transaction which did not commit.
Idle == [stage |-> "idle"]

Init ==
  /\ stored   = [s \in Sessions |-> [texts |-> {}, blocked |-> FALSE]]
  /\ run      = [r \in Runs |-> Idle]
  /\ memory   = {}
  /\ trail    = <<>>
  /\ received = 0
  /\ context  = [r \in Runs |-> {}]
  /\ passed   = {}
  /\ troubled = {}

Becomes(r, new) == run' = [run EXCEPT ![r] = new]

Goes(r, stage) == Becomes(r, [run[r] EXCEPT !.stage = stage])

\* The ADK appends what run r holds to its session. The service may store the
\* state with it, and reload a copy that another run has outdated.
AppendEvent(r, stage) ==
  LET s      == run[r].session
      saved  == IF SavesState THEN run[r].blocked ELSE stored[s].blocked
      copies == {run[r].blocked} \cup (IF run[r].alone THEN {} ELSE {saved, stored[s].blocked})
  IN  /\ stored' = [stored EXCEPT ![s] = [texts   |-> @.texts \cup {run[r].text},
                                          blocked |-> saved]]
      /\ \E b \in copies :
           Becomes(r, [run[r] EXCEPT !.stage = stage, !.blocked = b,
                                     !.text = Notice["reply"]])
      /\ UNCHANGED <<memory, trail, received, history>>

----------------------------------------------------------------------------
(* Before the model.                                                       *)

Mates(s) == {r \in Runs : run[r] # Idle /\ run[r].session = s}

Receive(r, s, p, screen) ==
  /\ run[r] = Idle
  /\ received < MaxMessages
  /\ received' = received + 1
  /\ run' = [q \in Runs |->
               IF q = r THEN [stage |-> "received", session |-> s, screen |-> screen,
                              prompt |-> p, text |-> p, blocked |-> stored[s].blocked,
                              flagged |-> FALSE, alone |-> Mates(s) = {},
                              call |-> 0, open |-> {}]
               ELSE IF q \in Mates(s) THEN [run[q] EXCEPT !.alone = FALSE] ELSE run[q]]
  /\ context' = [context EXCEPT ![r] = {}]
  /\ troubled' = IF Mates(s) = {} THEN troubled ELSE troubled \cup {s}
  /\ UNCHANGED <<stored, memory, trail, passed>>

\* ModelArmorScreen._flagged blocks on a match only: an answer without a result
\* lets the text pass, whatever it is. The heuristic always has a verdict.
Verdicts(screen, found) ==
  {flagged \in BOOLEAN : /\ flagged => found
                         /\ found => flagged \/ screen = "model_armor"}

scan_prompt(r) == Verdicts(run[r].screen, run[r].prompt \in Flags[run[r].screen])

\* Mutation: the block is noted, and the message goes on as it was.
ScreenPromptOnly(r) ==
  /\ run[r].stage = "received"
  /\ \E flagged \in scan_prompt(r) :
       /\ Becomes(r, [run[r] EXCEPT !.stage = "screened", !.flagged = flagged,
                                    !.blocked = @ \/ flagged])
       /\ passed' = IF flagged THEN passed ELSE passed \cup {run[r].prompt}
  /\ UNCHANGED <<stored, memory, trail, received, context, troubled>>

\* on_user_message_callback: a flagged message is replaced, and the block is
\* left for before_run_callback.
ScreenPrompt(r) ==
  /\ run[r].stage = "received"
  /\ \E flagged \in scan_prompt(r) :
       /\ Becomes(r, [run[r] EXCEPT !.stage = "screened", !.flagged = flagged,
                                    !.blocked = @ \/ flagged,
                                    !.text = IF flagged THEN Notice["removed"] ELSE @])
       /\ passed' = IF flagged THEN passed ELSE passed \cup {run[r].prompt}
  /\ UNCHANGED <<stored, memory, trail, received, context, troubled>>

AppendMessage(r) == run[r].stage = "screened" /\ AppendEvent(r, "appended")

\* Mutation: the block is read, and left where it is.
BeforeRunGet(r) ==
  /\ run[r].stage = "appended"
  /\ Becomes(r, [run[r] EXCEPT !.stage = IF run[r].blocked THEN "refused" ELSE "thinking",
                               !.text = Notice["refusal"]])
  /\ UNCHANGED <<stored, memory, trail, received, history>>

\* Mutation: the run goes on; the replaced message is thought to be enough.
BeforeRunGoesOn(r) ==
  /\ run[r].stage = "appended"
  /\ Becomes(r, [run[r] EXCEPT !.stage = "thinking", !.blocked = FALSE])
  /\ UNCHANGED <<stored, memory, trail, received, history>>

\* before_run_callback takes the block out of the state; a blocked run ends.
BeforeRun(r) ==
  /\ run[r].stage = "appended"
  /\ IF run[r].blocked
       THEN Becomes(r, [run[r] EXCEPT !.stage = "refused", !.blocked = FALSE,
                                      !.text = Notice["refusal"]])
       ELSE Goes(r, "thinking")
  /\ UNCHANGED <<stored, memory, trail, received, history>>

Refuse(r) == run[r].stage = "refused" /\ AppendEvent(r, "ended")

----------------------------------------------------------------------------
(* The model and its tools.                                                *)

\* The model is given the session so far and what PreloadMemoryTool finds.
AskModel(r) ==
  /\ run[r].stage = "thinking"
  /\ context' = [context EXCEPT ![r] = @ \cup stored[run[r].session].texts \cup memory]
  /\ Goes(r, "asked")
  /\ UNCHANGED <<stored, memory, trail, received, passed, troubled>>

\* A "quiet" call returns before it comes to the audit: no identity, an unknown
\* severity, a missing ticket. One that is denied for its role or its customer
\* is audited, and like one that reads it changes nothing.
Kinds == {"quiet", "read", "write"}

CallTool(r, kind) ==
  /\ run[r].stage = "asked"
  /\ Len(trail) < MaxCalls
  /\ trail' = Append(trail, [kind |-> kind, traced |-> FALSE, done |-> {}, answered |-> FALSE])
  /\ Becomes(r, [run[r] EXCEPT !.stage = "calling", !.call = Len(trail) + 1])
  /\ UNCHANGED <<stored, memory, received, history>>

\* The changes of a tool that writes, in the transaction of the call.
Act(r) ==
  /\ run[r].stage = "calling"
  /\ trail[run[r].call].kind = "write"
  /\ Becomes(r, [run[r] EXCEPT !.open = {"effect"}])
  /\ UNCHANGED <<stored, memory, trail, received, history>>

\* Mutation: the audit row goes in by a transaction of its own.
AuditAlone(r) ==
  LET n == run[r].call
  IN  /\ run[r].stage = "calling"
      /\ trail[n].kind # "quiet"
      /\ trail[n].kind = "write" => "effect" \in run[r].open
      /\ trail' = [trail EXCEPT ![n].traced = TRUE, ![n].done = {"row"}]
      /\ Goes(r, "audited")
      /\ UNCHANGED <<stored, memory, received, history>>

\* audit: the row waits for the commit, the span's attribute is there at once.
Audit(r) ==
  LET n == run[r].call
  IN  /\ run[r].stage = "calling"
      /\ trail[n].kind # "quiet"
      /\ trail[n].kind = "write" => "effect" \in run[r].open
      /\ trail' = [trail EXCEPT ![n].traced = TRUE]
      /\ Becomes(r, [run[r] EXCEPT !.stage = "audited", !.open = @ \cup {"row"}])
      /\ UNCHANGED <<stored, memory, received, history>>

\* session_scope commits when its block is left, before the tool has returned.
CommitCall(r) ==
  /\ run[r].stage = "audited"
  /\ trail' = [trail EXCEPT ![run[r].call].done = @ \cup run[r].open]
  /\ Becomes(r, [run[r] EXCEPT !.stage = "committed", !.open = {}])
  /\ UNCHANGED <<stored, memory, received, history>>

Returns(r, result) ==
  /\ trail' = [trail EXCEPT ![run[r].call].answered = TRUE]
  /\ Becomes(r, [run[r] EXCEPT !.stage = "returned", !.text = result, !.call = 0])
  /\ UNCHANGED <<stored, memory, received, history>>

ReturnQuietly(r, result) ==
  /\ run[r].stage = "calling"
  /\ trail[run[r].call].kind = "quiet"
  /\ Returns(r, result)

ReturnCall(r, result) == run[r].stage = "committed" /\ Returns(r, result)

scan_output(r) == Verdicts(run[r].screen, run[r].text \in Leaks[run[r].screen])

\* Mutation: the reason alone is returned.
WithheldBarely(r, flagged) == IF flagged THEN "pii" ELSE run[r].text

\* Mutation: what the screen finds is noted only.
WithheldNever(r, flagged) == run[r].text

Withheld(r, flagged) == IF flagged THEN Notice["withheld"] ELSE run[r].text

\* after_tool_callback. What the call did is done.
ScreenResult(r) ==
  /\ run[r].stage = "returned"
  /\ \E flagged \in scan_output(r) :
       /\ Becomes(r, [run[r] EXCEPT !.stage = "told", !.text = Withheld(r, flagged)])
       /\ passed' = IF flagged THEN passed ELSE passed \cup {run[r].text}
  /\ UNCHANGED <<stored, memory, trail, received, context, troubled>>

AppendResult(r) == run[r].stage = "told" /\ AppendEvent(r, "thinking")

----------------------------------------------------------------------------
(* The end of a run.                                                       *)

Answer(r) == run[r].stage = "asked" /\ AppendEvent(r, "answered")

\* _store_memories hands over all events of the session; a failure is logged.
StoreMemories(r, works) ==
  /\ run[r].stage = "answered"
  /\ memory' = IF works THEN memory \cup stored[run[r].session].texts ELSE memory
  /\ Goes(r, "ended")
  /\ UNCHANGED <<stored, trail, received, history>>

End(r) ==
  /\ run[r].stage = "ended"
  /\ Becomes(r, Idle)
  /\ UNCHANGED <<stored, memory, trail, received, history>>

Ends(r) ==
  /\ Becomes(r, Idle)
  /\ troubled' = IF run[r].flagged THEN troubled \cup {run[r].session} ELSE troubled
  /\ UNCHANGED <<stored, memory, trail, received, context, passed>>

\* Model Armor cannot be reached: the callback raises, and the run fails closed.
ScanRaises(r) ==
  /\ run[r].stage \in {"received", "returned"}
  /\ run[r].screen = "model_armor"
  /\ Ends(r)

\* Anything else raises, the client goes away, the instance dies; an open
\* transaction rolls back.
BreakOff(r) ==
  /\ run[r].stage \notin {"idle", "ended"}
  /\ Ends(r)

Next ==
  \E r \in Runs :
    \/ \E s \in Sessions, p \in Prompts, x \in build_screen : Receive(r, s, p, x)
    \/ ScreenPrompt(r) \/ AppendMessage(r) \/ BeforeRun(r) \/ Refuse(r)
    \/ AskModel(r) \/ \E k \in Kinds : CallTool(r, k)
    \/ \E t \in Results : ReturnQuietly(r, t) \/ ReturnCall(r, t)
    \/ Act(r) \/ Audit(r) \/ CommitCall(r) \/ ScreenResult(r) \/ AppendResult(r)
    \/ Answer(r) \/ \E works \in BOOLEAN : StoreMemories(r, works)
    \/ End(r) \/ ScanRaises(r) \/ BreakOff(r)

Spec == Init /\ [][Next]_vars

----------------------------------------------------------------------------
(* Properties.                                                             *)

Stopped == {"received", "screened", "appended", "refused", "ended"}
Going   == {"thinking", "asked", "calling", "audited", "committed", "returned", "told",
            "answered"}

Run == [stage : Stopped \cup Going, session : Sessions, screen : build_screen,
        prompt : Prompts, text : Texts, blocked : BOOLEAN, flagged : BOOLEAN,
        alone : BOOLEAN, call : 0..MaxCalls, open : SUBSET {"effect", "row"}]

Call == [kind : Kinds, traced : BOOLEAN, done : SUBSET {"effect", "row"}, answered : BOOLEAN]

TypeOK ==
  /\ stored \in [Sessions -> [texts : SUBSET Texts, blocked : BOOLEAN]]
  /\ run \in [Runs -> Run \cup {Idle}]
  /\ memory \in SUBSET Texts
  /\ trail \in Seq(Call)
  /\ Len(trail) <= MaxCalls
  /\ received \in 0..MaxMessages
  /\ context \in [Runs -> SUBSET Texts]
  /\ passed \in SUBSET (Prompts \cup Results)
  /\ troubled \in SUBSET Sessions

Reached == memory \cup UNION {context[r] : r \in Runs}

\* .agents-cli-spec.md:67: injections "are blocked at the gateway". No model
\* is given a message that no screen let pass, neither in its own run nor
\* through the session or the memory in a later one, wherever runs break off
\* and whatever the session service does to the block.
InjectionReachesNoModel == Reached \cap Prompts \subseteq passed

\* The same of what tools return (app/guardrails.py:49, "Contact details that
\* should not be echoed back out of a tool result").
LeakReachesNoModel == Reached \cap Results \subseteq passed

\* before_run_callback: "Stop the run outright when the incoming prompt was
\* blocked". So it is while a session has one run at a time; a copy loaded
\* again loses the block, and the model is then asked to recite the refusal.
BlockedRunStops ==
  \A r \in Runs :
    run[r] # Idle /\ run[r].alone /\ run[r].flagged => run[r].stage \in Stopped

\* A block stops the run it was made in and no other: a clean message is
\* refused only in a session where a flagged run broke off, or two ran at once.
CleanIsServed ==
  \A r \in Runs :
    run[r].stage = "refused" /\ ~run[r].flagged => run[r].session \in troubled

\* identity.audit (app/identity.py:108): row and span come "from a single call
\* site", which "keeps them from drifting apart", and the row shares the
\* transaction of what it records. Wherever calls break off: what took effect has
\* its row; what has a row took effect, if it was to, and has its span; and a
\* call that was audited comes to answer its run only after its row is there.
TrailTellsEffects ==
  \A n \in DOMAIN trail :
    /\ "effect" \in trail[n].done => "row" \in trail[n].done
    /\ "row" \in trail[n].done =>
         trail[n].traced /\ (trail[n].kind = "write" => "effect" \in trail[n].done)
    /\ trail[n].traced /\ trail[n].answered => "row" \in trail[n].done
=============================================================================
