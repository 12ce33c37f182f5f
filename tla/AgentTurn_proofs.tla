-------------------------- MODULE AgentTurn_proofs --------------------------
(***************************************************************************)
(* Proofs about AgentTurn, for any number of sessions, runs and messages,  *)
(* whatever the screens flag and whatever the session service stores.      *)
(*                                                                         *)
(* That nothing unscreened reaches a model rests on the text alone: a run  *)
(* holds one that no screen let pass only while it is about to be          *)
(* screened. That blocked runs stop, and no others, rests on where a block *)
(* can be: in the copy of the run it was made in, between two callbacks,   *)
(* and in the session only as long as that run is there to take it out.    *)
(***************************************************************************)
EXTENDS AgentTurn, TLAPS

Clear(T) == T \cap (Prompts \cup Results) \subseteq passed

\* What was screened is clear; what was not is still in its run's hands.
TextInv ==
  /\ \A s \in Sessions : Clear(stored[s].texts)
  /\ \A r \in Runs : Clear(context[r])
  /\ Clear(memory)
  /\ \A r \in Runs :
       /\ run[r].stage = "received" => run[r].text = run[r].prompt
       /\ run[r].stage = "returned" => run[r].text \in Results
       /\ run[r].stage \notin {"idle", "received", "returned"} => Clear({run[r].text})

\* What a run may hold, and how far it may be.
Placed(R) ==
  /\ ~R.alone => R.session \in troubled
  /\ R.alone /\ R.flagged => R.stage \in Stopped
  /\ R.alone /\ R.flagged /\ R.stage \in {"screened", "appended"} => R.blocked
  /\ R.stage = "received" => ~R.flagged
  /\ R.blocked => R.flagged \/ R.session \in troubled
  /\ R.blocked /\ R.stage \notin {"received", "screened", "appended"} => R.session \in troubled
  /\ R.stage = "refused" => R.flagged \/ R.session \in troubled

\* Where blocks are.
BlockInv ==
  /\ ~SavesState => \A s \in Sessions : ~stored[s].blocked
  /\ \A r \in Runs : run[r] # Idle => Placed(run[r])
  /\ \A s \in Sessions : stored[s].blocked =>
       \/ s \in troubled
       \/ \E r \in Runs : /\ run[r] # Idle /\ run[r].session = s /\ run[r].flagged
                          /\ run[r].stage \in {"appended", "refused"}

UnderWay == {"calling", "audited", "committed"}

\* How far the call c of run R is: nothing of it is done before its commit, and
\* what its transaction then holds is the row, and the effect if there is one.
Progress(R, c) ==
  /\ ~c.answered
  /\ R.stage \in {"calling", "audited"} => c.done = {}
  /\ R.stage = "calling" => ~c.traced
  /\ R.stage = "audited" =>
       c.traced /\ "row" \in R.open /\ (c.kind = "write" => "effect" \in R.open)
  /\ R.stage = "committed" => "row" \in c.done

\* A call under way is on the trail, and its run's own.
CallInv ==
  \A r \in Runs : run[r].stage \in UnderWay =>
    /\ run[r].call \in DOMAIN trail
    /\ \A q \in Runs \ {r} : run[q].stage \in UnderWay => run[q].call # run[r].call
    /\ Progress(run[r], trail[run[r].call])

TurnInv == TypeOK /\ TextInv /\ BlockInv /\ CallInv /\ TrailTellsEffects

----------------------------------------------------------------------------

LEMMA IdleIsNoRun == Idle \notin Run /\ \A R \in Run : R.stage # "idle"
  BY DEF Idle, Run, Stopped, Going

LEMMA NoticesAreTexts ==
  \A k \in Said : Notice[k] \in Texts /\ Notice[k] \notin Prompts \cup Results
  BY TurnAssumption DEF Texts

LEMMA RunningIsRun ==
  ASSUME TypeOK, NEW r \in Runs, run[r].stage # "idle"
  PROVE  run[r] \in Run
  BY DEF TypeOK, Idle

\* Only run r moves on, by changes that its stage allows.
LEMMA TypeKept ==
  ASSUME TypeOK, NEW r \in Runs, NEW new \in Run \cup {Idle}, Becomes(r, new)
  PROVE  /\ run' \in [Runs -> Run \cup {Idle}]
         /\ run'[r] = new
         /\ \A q \in Runs \ {r} : run'[q] = run[q]
  BY DEF TypeOK, Becomes

LEMMA AppendEventStep ==
  ASSUME TurnInv, NEW r \in Runs, NEW stage \in Stopped \cup Going, AppendEvent(r, stage),
         run[r].stage \notin {"idle", "received", "returned"},
         <<run[r].stage, stage>> \in {<<"screened", "appended">>, <<"refused", "ended">>,
                                     <<"told", "thinking">>, <<"asked", "answered">>}
  PROVE  TurnInv'
  <1> DEFINE s == run[r].session
             saved == IF SavesState THEN run[r].blocked ELSE stored[s].blocked
  <1>1. TypeOK /\ run[r] \in Run /\ s \in Sessions
    BY RunningIsRun DEF TurnInv, Run
  <1>2. PICK b \in {run[r].blocked, saved, stored[s].blocked} :
          /\ run[r].alone => b = run[r].blocked
          /\ Becomes(r, [run[r] EXCEPT !.stage = stage, !.blocked = b,
                                       !.text = Notice["reply"]])
    BY DEF AppendEvent
  <1> DEFINE new == [run[r] EXCEPT !.stage = stage, !.blocked = b, !.text = Notice["reply"]]
  <1>3. stored[s] \in [texts : SUBSET Texts, blocked : BOOLEAN] /\ saved \in BOOLEAN /\ b \in BOOLEAN
    BY <1>1, <1>2 DEF TypeOK, Run
  <1>4. /\ new \in Run
        /\ new.stage = stage /\ new.blocked = b /\ new.text = Notice["reply"]
        /\ new.session = s /\ new.flagged = run[r].flagged
        /\ new.alone = run[r].alone
    BY <1>1, <1>3, NoticesAreTexts DEF Run, Said
  <1>5. /\ run' \in [Runs -> Run \cup {Idle}] /\ run'[r] = new
        /\ \A q \in Runs \ {r} : run'[q] = run[q]
    <2> HIDE DEF new
    <2>1. Becomes(r, new)
      BY <1>2 DEF new
    <2> QED BY <1>1, <1>4, <2>1, TypeKept
  <1> HIDE DEF new
  <1>6. /\ UNCHANGED <<memory, trail, received, context, passed, troubled>>
        /\ stored' = [stored EXCEPT ![s] = [texts   |-> stored[s].texts \cup {run[r].text},
                                          blocked |-> saved]]
    BY DEF AppendEvent, history
  <1>7. TypeOK'
    <2>1. run[r].text \in Texts
      BY <1>1 DEF Run
    <2> QED BY <1>1, <1>3, <1>5, <1>6, <2>1 DEF TypeOK
  <1>8. /\ \A t \in Sessions \ {s} : stored'[t] = stored[t]
        /\ stored'[s].texts = stored[s].texts \cup {run[r].text}
        /\ stored'[s].blocked = saved
    BY <1>1, <1>6 DEF TypeOK
  <1>9. TextInv'
    BY <1>1, <1>4, <1>5, <1>6, <1>8, NoticesAreTexts DEF TurnInv, TextInv, Clear, Said
  <1>10. BlockInv'
    BY <1>1, <1>2, <1>4, <1>5, <1>6, <1>8, IdleIsNoRun DEF TurnInv, BlockInv, Placed, Stopped, Going
  <1>11. CallInv' /\ TrailTellsEffects'
    BY <1>4, <1>5, <1>6 DEF TurnInv, CallInv, UnderWay, Progress, TrailTellsEffects
  <1> QED BY <1>7, <1>9, <1>10, <1>11 DEF TurnInv

LEMMA ReceiveStep ==
  ASSUME TurnInv, NEW r \in Runs, NEW s \in Sessions, NEW p \in Prompts,
         NEW x \in build_screen, Receive(r, s, p, x)
  PROVE  TurnInv'
  <1> DEFINE new == [stage |-> "received", session |-> s, screen |-> x,
                     prompt |-> p, text |-> p, blocked |-> stored[s].blocked,
                     flagged |-> FALSE, alone |-> Mates(s) = {}, call |-> 0, open |-> {}]
  <1>1. TypeOK /\ run[r] = Idle
    BY DEF TurnInv, Receive
  <1>2. new \in Run
    <2>1. stored[s].blocked \in BOOLEAN /\ p \in Texts /\ 0 \in 0..MaxCalls
      BY <1>1, TurnAssumption DEF TypeOK, Texts
    <2> QED BY <2>1 DEF Run, Stopped
  <1>3. ASSUME NEW q \in Runs \ {r}
        PROVE  \/ run'[q] = run[q] /\ (run[q] = Idle \/ run[q].session # s)
               \/ /\ run[q] \in Run /\ run[q].session = s
                  /\ run'[q] = [run[q] EXCEPT !.alone = FALSE]
    BY <1>1 DEF Receive, Mates, TypeOK
  <1>4. run'[r] = new
    BY DEF Receive
  <1>5. ASSUME NEW q \in Runs \ {r}, run[q] \in Run
        PROVE  /\ run'[q] \in Run
               /\ run'[q].stage = run[q].stage /\ run'[q].session = run[q].session
               /\ run'[q].prompt = run[q].prompt /\ run'[q].flagged = run[q].flagged
               /\ run'[q].text = run[q].text /\ run'[q].blocked = run[q].blocked
               /\ run'[q].call = run[q].call /\ run'[q].open = run[q].open
               /\ run'[q].alone => run[q].alone
               /\ ~run'[q].alone => ~run[q].alone \/ run[q].session = s
    <2>1. CASE run'[q] = run[q] /\ (run[q] = Idle \/ run[q].session # s)
      BY <1>5, <2>1, IdleIsNoRun
    <2>2. CASE run[q].session = s /\ run'[q] = [run[q] EXCEPT !.alone = FALSE]
      <3>1. run'[q] \in Run
        BY <1>5, <2>2 DEF Run
      <3> QED BY <1>5, <2>2, <3>1 DEF Run
    <2> QED BY <1>3, <2>1, <2>2
  <1>6. \A q \in Runs \ {r} : run[q] = Idle => run'[q] = Idle
    BY <1>3, IdleIsNoRun
  <1>7. DOMAIN run' = Runs /\ \A q \in Runs \ {r} : run[q] = Idle \/ run[q] \in Run
    BY <1>1 DEF Receive, TypeOK
  <1>8. /\ UNCHANGED <<stored, memory, trail, passed>>
        /\ received' = received + 1 /\ received < MaxMessages
        /\ context' = [context EXCEPT ![r] = {}]
        /\ troubled' = IF Mates(s) = {} THEN troubled ELSE troubled \cup {s}
    BY DEF Receive
  <1> HIDE DEF new
  <1>9. TypeOK'
    <2>1. run' \in [Runs -> Run \cup {Idle}]
      <3>1. \A q \in Runs : run'[q] \in Run \cup {Idle}
        BY <1>2, <1>4, <1>5, <1>6, <1>7
      <3>2. run' = [q \in Runs |-> run'[q]]
        BY DEF Receive
      <3> QED BY <3>1, <3>2
    <2>2. context' \in [Runs -> SUBSET Texts] /\ troubled' \in SUBSET Sessions
      BY <1>1, <1>8 DEF TypeOK
    <2>3. received' \in 0..MaxMessages
      BY <1>1, <1>8, TurnAssumption DEF TypeOK
    <2> QED BY <1>1, <1>8, <2>1, <2>2, <2>3 DEF TypeOK
  <1>10. /\ new.stage = "received" /\ new.session = s /\ new.prompt = p /\ new.text = p
         /\ new.blocked = stored[s].blocked /\ new.flagged = FALSE
         /\ new.alone = (Mates(s) = {})
    BY DEF new
  <1>11. TextInv'
    BY <1>1, <1>4, <1>5, <1>6, <1>7, <1>8, <1>10 DEF TurnInv, TypeOK, TextInv, Clear, Idle
  <1>12. BlockInv'
    <2>1. \A q \in Runs \ {r} : run[q] # Idle /\ run[q].session = s => s \in troubled'
      BY <1>8 DEF Mates
    <2>2. stored[s].blocked => s \in troubled'
      BY <1>1, <1>8, <2>1 DEF TurnInv, BlockInv
    <2>3. troubled \subseteq troubled'
      BY <1>8
    <2>4. Mates(s) # {} => s \in troubled'
      BY <1>8
    <2>5. ASSUME NEW q \in Runs \ {r}, run'[q] # Idle PROVE Placed(run[q])'
      <3>1. run[q] \in Run /\ run[q] # Idle
        BY <1>6, <1>7, <2>5
      <3>2. Placed(run[q])
        BY <3>1 DEF TurnInv, BlockInv
      <3> QED BY <1>5, <2>1, <2>3, <3>1, <3>2 DEF Placed
    <2>6. Placed(run[r])'
      BY <1>4, <1>10, <2>2, <2>4 DEF Placed, Stopped
    <2>7. ASSUME NEW t \in Sessions, stored'[t].blocked, t \notin troubled'
          PROVE  \E q \in Runs : /\ run'[q] # Idle /\ run'[q].session = t /\ run'[q].flagged
                                /\ run'[q].stage \in {"appended", "refused"}
      <3>1. PICK q \in Runs : /\ run[q] # Idle /\ run[q].session = t /\ run[q].flagged
                              /\ run[q].stage \in {"appended", "refused"}
        BY <1>8, <2>3, <2>7 DEF TurnInv, BlockInv
      <3>2. q # r /\ run[q] \in Run
        BY <1>1, <1>7, <3>1
      <3> QED BY <1>5, <3>1, <3>2, IdleIsNoRun
    <2>8. \A q \in Runs : run'[q] # Idle => Placed(run[q])'
      BY <2>5, <2>6
    <2>9. ~SavesState => \A t \in Sessions : ~stored'[t].blocked
      BY <1>8 DEF TurnInv, BlockInv
    <2> QED BY <2>7, <2>8, <2>9 DEF BlockInv
  <1>13. CallInv' /\ TrailTellsEffects'
    <2>1. TrailTellsEffects'
      BY <1>8 DEF TurnInv, TrailTellsEffects
    <2>2. \A q \in Runs : run'[q].stage \in UnderWay =>
            /\ q # r /\ run[q].stage \in UnderWay
            /\ run'[q].stage = run[q].stage /\ run'[q].call = run[q].call
            /\ run'[q].open = run[q].open
      BY <1>4, <1>5, <1>6, <1>7, <1>10 DEF Idle, UnderWay
    <2>3. CallInv'
      BY <1>8, <2>2 DEF TurnInv, CallInv, Progress
    <2> QED BY <2>1, <2>3
  <1> QED BY <1>9, <1>11, <1>12, <1>13 DEF TurnInv

\* The steps in which run r alone moves on and no session or block changes hands.
LEMMA BlocksKept ==
  ASSUME TurnInv, NEW r \in Runs, run[r] \in Run, NEW new \in Run, Becomes(r, new),
         new.session = run[r].session, run[r].flagged => new.flagged,
         UNCHANGED <<stored, troubled>>, Placed(new),
         new.flagged /\ run[r].stage \in {"appended", "refused"} =>
           new.stage \in {"appended", "refused"} \/ new.session \in troubled
  PROVE  BlockInv'
  <1>1. /\ run'[r] = new /\ \A q \in Runs \ {r} : run'[q] = run[q]
        /\ new # Idle
    BY TypeKept, IdleIsNoRun DEF TurnInv
  <1>2. \A q \in Runs : run'[q] # Idle => Placed(run[q])'
    BY <1>1 DEF TurnInv, BlockInv, Placed
  <1>3. ASSUME NEW t \in Sessions, stored'[t].blocked, t \notin troubled'
        PROVE  \E q \in Runs : /\ run'[q] # Idle /\ run'[q].session = t /\ run'[q].flagged
                              /\ run'[q].stage \in {"appended", "refused"}
    <2>1. PICK q \in Runs : /\ run[q] # Idle /\ run[q].session = t /\ run[q].flagged
                            /\ run[q].stage \in {"appended", "refused"}
      BY <1>3 DEF TurnInv, BlockInv
    <2> QED BY <1>1, <1>3, <2>1
  <1> QED BY <1>2, <1>3 DEF TurnInv, BlockInv

LEMMA ScreenPromptStep ==
  ASSUME TurnInv, NEW r \in Runs, ScreenPrompt(r)
  PROVE  TurnInv'
  <1>1. run[r].stage = "received" /\ TypeOK /\ run[r] \in Run
    BY RunningIsRun DEF ScreenPrompt, TurnInv
  <1>2. UNCHANGED <<stored, memory, trail, received, context, troubled>>
    BY DEF ScreenPrompt
  <1>3. PICK flagged \in scan_prompt(r) :
          /\ Becomes(r, [run[r] EXCEPT !.stage = "screened", !.flagged = flagged,
                                       !.blocked = run[r].blocked \/ flagged,
                                       !.text = IF flagged THEN Notice["removed"]
                                                           ELSE run[r].text])
          /\ passed' = IF flagged THEN passed ELSE passed \cup {run[r].prompt}
    BY DEF ScreenPrompt
  <1>4. flagged \in BOOLEAN
    BY DEF scan_prompt, Verdicts
  <1>5. PICK new \in Run :
          /\ Becomes(r, new) /\ new.stage = "screened" /\ new.flagged = flagged
          /\ new.blocked = (run[r].blocked \/ flagged)
          /\ new.text = IF flagged THEN Notice["removed"] ELSE run[r].text
          /\ new.session = run[r].session /\ new.alone = run[r].alone
    <2> DEFINE text == IF flagged THEN Notice["removed"] ELSE run[r].text
               blocked == run[r].blocked \/ flagged
               new == [run[r] EXCEPT !.stage = "screened", !.flagged = flagged,
                                     !.blocked = blocked, !.text = text]
    <2>1. text \in Texts /\ blocked \in BOOLEAN
      BY <1>1, NoticesAreTexts DEF Said, Run
    <2>2. Becomes(r, new)
      BY <1>3
    <2> HIDE DEF text, blocked
    <2>3. /\ new \in Run /\ new.stage = "screened" /\ new.flagged = flagged
          /\ new.blocked = blocked /\ new.text = text
          /\ new.session = run[r].session /\ new.alone = run[r].alone
      BY <1>1, <1>4, <2>1 DEF Run, Stopped
    <2> HIDE DEF new
    <2> QED BY <2>2, <2>3 DEF text, blocked
  <1>6. passed' = IF flagged THEN passed ELSE passed \cup {run[r].prompt}
    BY <1>3
  <1>7. /\ run' \in [Runs -> Run \cup {Idle}] /\ run'[r] = new
        /\ \A q \in Runs \ {r} : run'[q] = run[q]
    BY <1>1, <1>5, <1>6, TypeKept
  <1>8. TypeOK'
    BY <1>1, <1>2, <1>6, <1>7 DEF TypeOK, Run
  <1>9. TextInv'
    <2>1. Clear({new.text})'
      <3>1. CASE flagged
        BY <1>5, <3>1, NoticesAreTexts DEF Clear, Said
      <3>2. CASE ~flagged
        <4>1. new.text = run[r].prompt
          BY <1>1, <1>5, <3>2 DEF TurnInv, TextInv
        <4> QED BY <1>6, <3>2, <4>1 DEF Clear
      <3> QED BY <3>1, <3>2
    <2>2. passed \subseteq passed'
      BY <1>6
    <2>3. new.stage = "screened"
      BY <1>5
    <2>4. TextInv
      BY DEF TurnInv
    <2> QED BY <1>2, <1>7, <2>1, <2>2, <2>3, <2>4 DEF TextInv, Clear
  <1>10. BlockInv'
    <2>1. Placed(run[r])
      BY <1>1, IdleIsNoRun DEF TurnInv, BlockInv
    <2>2. Placed(new) /\ ~run[r].flagged
      BY <1>1, <1>4, <1>5, <2>1 DEF Placed, Stopped
    <2> QED BY <1>1, <1>2, <1>5, <1>6, <2>2, BlocksKept
  <1>11. CallInv' /\ TrailTellsEffects'
    BY <1>2, <1>5, <1>7 DEF TurnInv, CallInv, UnderWay, Progress, TrailTellsEffects
  <1> QED BY <1>8, <1>9, <1>10, <1>11 DEF TurnInv

\* A run that changes hold of nothing but its own record, its call and, perhaps,
\* what the models and the memory were given.
LEMMA MoveStep ==
  ASSUME TurnInv, NEW r \in Runs, run[r] \in Run, NEW new \in Run, Becomes(r, new),
         UNCHANGED <<stored, received, troubled>>,
         new.session = run[r].session, run[r].flagged => new.flagged, Placed(new),
         new.stage # "received",
         IF new.stage = "returned" THEN new.text \in Results ELSE Clear({new.text})',
         new.flagged /\ run[r].stage \in {"appended", "refused"} =>
           new.stage \in {"appended", "refused"} \/ new.session \in troubled,
         passed \subseteq passed', passed' \in SUBSET (Prompts \cup Results),
         memory' \in SUBSET Texts, Clear(memory)',
         context' \in [Runs -> SUBSET Texts], \A q \in Runs : Clear(context[q])',
         trail' \in Seq(Call), Len(trail') <= MaxCalls, TrailTellsEffects', CallInv'
  PROVE  TurnInv'
  <1>1. /\ run' \in [Runs -> Run \cup {Idle}] /\ run'[r] = new
        /\ \A q \in Runs \ {r} : run'[q] = run[q]
    BY TypeKept DEF TurnInv
  <1>2. TypeOK'
    BY <1>1 DEF TurnInv, TypeOK
  <1>3. TextInv'
    BY <1>1 DEF TurnInv, TextInv, Clear
  <1>4. BlockInv'
    BY BlocksKept
  <1> QED BY <1>2, <1>3, <1>4 DEF TurnInv

\* Steps that leave the tool calls alone keep what is known of them.
LEMMA CallsKept ==
  ASSUME TurnInv, NEW r \in Runs, NEW new \in Run, Becomes(r, new), UNCHANGED trail,
         new.stage \notin UnderWay
  PROVE  CallInv' /\ TrailTellsEffects' /\ trail' \in Seq(Call) /\ Len(trail') <= MaxCalls
  <1>1. run'[r] = new /\ \A q \in Runs \ {r} : run'[q] = run[q]
    BY TypeKept DEF TurnInv
  <1>2. CallInv'
    BY <1>1 DEF TurnInv, CallInv, Progress
  <1>3. TrailTellsEffects' /\ trail' \in Seq(Call) /\ Len(trail') <= MaxCalls
    BY DEF TurnInv, TypeOK, TrailTellsEffects
  <1> QED BY <1>2, <1>3

LEMMA BeforeRunStep ==
  ASSUME TurnInv, NEW r \in Runs, BeforeRun(r)
  PROVE  TurnInv'
  <1>1. run[r].stage = "appended" /\ TypeOK /\ run[r] \in Run
    BY RunningIsRun DEF BeforeRun, TurnInv
  <1>2. UNCHANGED <<stored, memory, trail, received, context, passed, troubled>>
    BY DEF BeforeRun, history
  <1>3. PICK new \in Run :
          /\ Becomes(r, new)
          /\ new.session = run[r].session /\ new.flagged = run[r].flagged
          /\ new.alone = run[r].alone
          /\ new.blocked = FALSE
          /\ new.text \in {run[r].text, Notice["refusal"]}
          /\ new.stage = IF run[r].blocked THEN "refused" ELSE "thinking"
    <2>1. CASE run[r].blocked
      <3> DEFINE new == [run[r] EXCEPT !.stage = "refused", !.blocked = FALSE,
                                       !.text = Notice["refusal"]]
      <3>1. /\ new \in Run /\ new.stage = "refused" /\ new.blocked = FALSE
            /\ new.text = Notice["refusal"]
            /\ new.session = run[r].session /\ new.flagged = run[r].flagged
            /\ new.alone = run[r].alone
        BY <1>1, NoticesAreTexts DEF Run, Said, Stopped
      <3>2. Becomes(r, new)
        BY <2>1 DEF BeforeRun
      <3> HIDE DEF new
      <3> QED BY <2>1, <3>1, <3>2
    <2>2. CASE ~run[r].blocked
      <3> DEFINE new == [run[r] EXCEPT !.stage = "thinking"]
      <3>1. /\ new \in Run /\ new.stage = "thinking" /\ new.blocked = run[r].blocked
            /\ new.text = run[r].text
            /\ new.session = run[r].session /\ new.flagged = run[r].flagged
            /\ new.alone = run[r].alone
        BY <1>1 DEF Run, Going
      <3>2. Becomes(r, new)
        BY <2>2 DEF BeforeRun, Goes
      <3>3. run[r].blocked = FALSE
        BY <1>1, <2>2 DEF Run
      <3> HIDE DEF new
      <3> QED BY <2>2, <3>1, <3>2, <3>3
    <2> QED BY <2>1, <2>2
  <1>4. Placed(run[r])
    BY <1>1, IdleIsNoRun DEF TurnInv, BlockInv
  <1>5. Placed(new) /\ (run[r].flagged => new.flagged)
    BY <1>1, <1>3, <1>4 DEF Placed, Stopped
  <1>6. new.flagged => new.stage = "refused" \/ new.session \in troubled
    BY <1>1, <1>3, <1>4 DEF Placed
  <1>7. Clear({new.text})'
    BY <1>1, <1>2, <1>3, NoticesAreTexts DEF TurnInv, TextInv, Clear, Said
  <1>8. new.stage \notin UnderWay \cup {"received"}
    BY <1>3 DEF UnderWay
  <1>9. /\ \A q \in Runs : Clear(context[q])' /\ Clear(memory)'
        /\ passed' \in SUBSET (Prompts \cup Results) /\ memory' \in SUBSET Texts
        /\ context' \in [Runs -> SUBSET Texts] /\ passed \subseteq passed'
    BY <1>2 DEF TurnInv, TextInv, TypeOK, Clear
  <1> QED BY <1>1, <1>2, <1>3, <1>5, <1>6, <1>7, <1>8, <1>9, MoveStep, CallsKept

LEMMA LeaveStep ==
  ASSUME TurnInv, NEW r \in Runs, run[r] \in Run, Becomes(r, Idle),
         UNCHANGED <<stored, memory, trail, received, context, passed>>,
         troubled \subseteq troubled', troubled' \in SUBSET Sessions,
         run[r].flagged /\ run[r].stage # "ended" => run[r].session \in troubled'
  PROVE  TurnInv'
  <1>1. /\ run' \in [Runs -> Run \cup {Idle}] /\ run'[r] = Idle
        /\ \A q \in Runs \ {r} : run'[q] = run[q]
    BY TypeKept DEF TurnInv
  <1>2. TypeOK'
    BY <1>1 DEF TurnInv, TypeOK
  <1>3. TextInv'
    BY <1>1 DEF TurnInv, TextInv, Clear, Idle
  <1>4. BlockInv'
    <2>1. \A q \in Runs : run'[q] # Idle => Placed(run[q])'
      BY <1>1 DEF TurnInv, BlockInv, Placed
    <2>2. ASSUME NEW t \in Sessions, stored'[t].blocked, t \notin troubled'
          PROVE  \E q \in Runs : /\ run'[q] # Idle /\ run'[q].session = t /\ run'[q].flagged
                                /\ run'[q].stage \in {"appended", "refused"}
      <3>1. PICK q \in Runs : /\ run[q] # Idle /\ run[q].session = t /\ run[q].flagged
                              /\ run[q].stage \in {"appended", "refused"}
        BY <2>2 DEF TurnInv, BlockInv
      <3> QED BY <1>1, <2>2, <3>1
    <2> QED BY <2>1, <2>2 DEF TurnInv, BlockInv
  <1>5. CallInv' /\ TrailTellsEffects'
    BY <1>1 DEF TurnInv, CallInv, UnderWay, Progress, TrailTellsEffects, Idle
  <1> QED BY <1>2, <1>3, <1>4, <1>5 DEF TurnInv

LEMMA EndStep ==
  ASSUME TurnInv, NEW r \in Runs, End(r)
  PROVE  TurnInv'
  <1>1. run[r] \in Run
    BY RunningIsRun DEF End, TurnInv
  <1> QED BY <1>1, LeaveStep DEF End, history, TurnInv, TypeOK

LEMMA EndsStep ==
  ASSUME TurnInv, NEW r \in Runs, ScanRaises(r) \/ BreakOff(r)
  PROVE  TurnInv'
  <1>1. run[r] \in Run /\ Ends(r)
    BY RunningIsRun DEF ScanRaises, BreakOff, TurnInv
  <1>2. troubled \subseteq troubled' /\ troubled' \in SUBSET Sessions
    BY <1>1 DEF Ends, TurnInv, TypeOK, Run
  <1> QED BY <1>1, <1>2, LeaveStep DEF Ends

Alike(R, S) ==
  /\ R.session = S.session /\ R.flagged = S.flagged
  /\ R.alone = S.alone /\ R.blocked = S.blocked

\* A run that got past its callbacks goes on as it was.
LEMMA GoingOn ==
  ASSUME TurnInv, NEW r \in Runs, run[r].stage \in Going, NEW new \in Run,
         Alike(new, run[r]), new.stage \in Going \cup {"ended"}
  PROVE  /\ run[r] \in Run
         /\ new.session = run[r].session
         /\ run[r].flagged => new.flagged
         /\ Placed(new)
         /\ ~(run[r].stage \in {"appended", "refused"})
         /\ new.stage # "received"
  <1>1. run[r] \in Run
    BY RunningIsRun DEF TurnInv, Going
  <1>2. Placed(run[r])
    BY <1>1, IdleIsNoRun DEF TurnInv, BlockInv
  <1> QED BY <1>1, <1>2 DEF Placed, Alike, Going, Stopped

LEMMA GoesAlike ==
  ASSUME NEW r \in Runs, run[r] \in Run, NEW stage \in Stopped \cup Going, Goes(r, stage)
  PROVE  \E new \in Run :
           /\ Becomes(r, new) /\ Alike(new, run[r]) /\ new.stage = stage
           /\ new.text = run[r].text /\ new.call = run[r].call
  <1> DEFINE new == [run[r] EXCEPT !.stage = stage]
  <1>1. /\ new \in Run /\ new.stage = stage /\ new.text = run[r].text
        /\ new.call = run[r].call /\ Alike(new, run[r])
    BY DEF Run, Alike
  <1>2. Becomes(r, new)
    BY DEF Goes
  <1> HIDE DEF new
  <1> QED BY <1>1, <1>2

LEMMA AskModelStep ==
  ASSUME TurnInv, NEW r \in Runs, AskModel(r)
  PROVE  TurnInv'
  <1>1. run[r].stage = "thinking" /\ TypeOK /\ run[r] \in Run
    BY RunningIsRun DEF AskModel, TurnInv
  <1>2. /\ UNCHANGED <<stored, memory, trail, received, passed, troubled>>
        /\ context' = [context EXCEPT ![r] = context[r] \cup stored[run[r].session].texts
                                                        \cup memory]
    BY DEF AskModel
  <1>3. PICK new \in Run : /\ Becomes(r, new) /\ Alike(new, run[r])
                           /\ new.stage = "asked" /\ new.text = run[r].text
    BY <1>1, GoesAlike DEF AskModel, Going
  <1>4. run[r].session \in Sessions
    BY <1>1 DEF Run
  <1>5. context' \in [Runs -> SUBSET Texts] /\ \A q \in Runs : Clear(context[q])'
    BY <1>1, <1>2, <1>4 DEF TurnInv, TypeOK, TextInv, Clear
  <1>6. /\ Clear({new.text})' /\ Clear(memory)' /\ memory' \in SUBSET Texts
        /\ passed' \in SUBSET (Prompts \cup Results) /\ passed \subseteq passed'
    BY <1>1, <1>2, <1>3 DEF TurnInv, TypeOK, TextInv, Clear
  <1>7. CallInv' /\ TrailTellsEffects' /\ trail' \in Seq(Call) /\ Len(trail') <= MaxCalls
    BY <1>2, <1>3, CallsKept DEF UnderWay
  <1>8. new.stage \in Going /\ run[r].stage \in Going
    BY <1>1, <1>3 DEF Going
  <1> QED BY <1>2, <1>3, <1>5, <1>6, <1>7, <1>8, GoingOn, MoveStep

LEMMA StoreMemoriesStep ==
  ASSUME TurnInv, NEW r \in Runs, NEW works \in BOOLEAN, StoreMemories(r, works)
  PROVE  TurnInv'
  <1>1. run[r].stage = "answered" /\ TypeOK /\ run[r] \in Run
    BY RunningIsRun DEF StoreMemories, TurnInv
  <1>2. /\ UNCHANGED <<stored, trail, received, context, passed, troubled>>
        /\ memory' \in {memory, memory \cup stored[run[r].session].texts}
    BY DEF StoreMemories, history
  <1>3. PICK new \in Run : /\ Becomes(r, new) /\ Alike(new, run[r])
                           /\ new.stage = "ended" /\ new.text = run[r].text
    BY <1>1, GoesAlike DEF StoreMemories, Stopped
  <1>4. run[r].session \in Sessions
    BY <1>1 DEF Run
  <1>5. memory' \in SUBSET Texts /\ Clear(memory)'
    BY <1>1, <1>2, <1>4 DEF TurnInv, TypeOK, TextInv, Clear
  <1>6. /\ Clear({new.text})' /\ context' \in [Runs -> SUBSET Texts]
        /\ \A q \in Runs : Clear(context[q])'
        /\ passed' \in SUBSET (Prompts \cup Results) /\ passed \subseteq passed'
    BY <1>1, <1>2, <1>3 DEF TurnInv, TypeOK, TextInv, Clear
  <1>7. CallInv' /\ TrailTellsEffects' /\ trail' \in Seq(Call) /\ Len(trail') <= MaxCalls
    BY <1>2, <1>3, CallsKept DEF UnderWay
  <1>8. new.stage \in Going \cup {"ended"} /\ run[r].stage \in Going
    BY <1>1, <1>3 DEF Going
  <1> QED BY <1>2, <1>3, <1>5, <1>6, <1>7, <1>8, GoingOn, MoveStep

LEMMA ScreenResultStep ==
  ASSUME TurnInv, NEW r \in Runs, ScreenResult(r)
  PROVE  TurnInv'
  <1>1. run[r].stage = "returned" /\ TypeOK /\ run[r] \in Run /\ run[r].text \in Results
    BY RunningIsRun DEF ScreenResult, TurnInv, TextInv
  <1>2. UNCHANGED <<stored, memory, trail, received, context, troubled>>
    BY DEF ScreenResult
  <1>3. PICK flagged \in scan_output(r) :
          /\ Becomes(r, [run[r] EXCEPT !.stage = "told", !.text = Withheld(r, flagged)])
          /\ passed' = IF flagged THEN passed ELSE passed \cup {run[r].text}
    BY DEF ScreenResult
  <1>4. flagged \in BOOLEAN
    BY DEF scan_output, Verdicts
  <1>5. PICK new \in Run : /\ Becomes(r, new) /\ Alike(new, run[r])
                           /\ new.stage = "told" /\ new.text = Withheld(r, flagged)
    <2> DEFINE new == [run[r] EXCEPT !.stage = "told", !.text = Withheld(r, flagged)]
    <2>1. Withheld(r, flagged) \in Texts
      BY <1>1, <1>4, NoticesAreTexts DEF Withheld, Run, Said
    <2>2. /\ new \in Run /\ Alike(new, run[r]) /\ new.stage = "told"
          /\ new.text = Withheld(r, flagged)
      BY <1>1, <2>1 DEF Run, Alike, Going
    <2>3. Becomes(r, new)
      BY <1>3
    <2> HIDE DEF new
    <2> QED BY <2>2, <2>3
  <1>6. /\ passed \subseteq passed' /\ passed' \in SUBSET (Prompts \cup Results)
    BY <1>1, <1>3 DEF TypeOK
  <1>7. Clear({new.text})'
    <2>1. flagged => new.text \notin Prompts \cup Results
      BY <1>5, NoticesAreTexts DEF Withheld, Said
    <2>2. ~flagged => new.text \in passed'
      BY <1>3, <1>5 DEF Withheld
    <2> QED BY <2>1, <2>2 DEF Clear
  <1>8. /\ context' \in [Runs -> SUBSET Texts] /\ memory' \in SUBSET Texts
        /\ Clear(memory)' /\ \A q \in Runs : Clear(context[q])'
    BY <1>1, <1>2, <1>6 DEF TurnInv, TypeOK, TextInv, Clear
  <1>9. CallInv' /\ TrailTellsEffects' /\ trail' \in Seq(Call) /\ Len(trail') <= MaxCalls
    BY <1>2, <1>5, CallsKept DEF UnderWay
  <1>10. new.stage \in Going /\ run[r].stage \in Going
    BY <1>1, <1>5 DEF Going
  <1> QED BY <1>2, <1>5, <1>6, <1>7, <1>8, <1>9, <1>10, GoingOn, MoveStep

\* The texts when only a run and the trail change.
LEMMA TextsKept ==
  ASSUME TurnInv, UNCHANGED <<memory, context, passed>>
  PROVE  /\ context' \in [Runs -> SUBSET Texts] /\ memory' \in SUBSET Texts
         /\ passed' \in SUBSET (Prompts \cup Results) /\ passed \subseteq passed'
         /\ Clear(memory)' /\ \A q \in Runs : Clear(context[q])'
  BY DEF TurnInv, TypeOK, TextInv, Clear

LEMMA CallToolStep ==
  ASSUME TurnInv, NEW r \in Runs, NEW kind \in Kinds, CallTool(r, kind)
  PROVE  TurnInv'
  <1>1. run[r].stage = "asked" /\ TypeOK /\ run[r] \in Run
    BY RunningIsRun DEF CallTool, TurnInv
  <1>2. UNCHANGED <<stored, memory, received, context, passed, troubled>>
    BY DEF CallTool, history
  <1> DEFINE n == Len(trail) + 1
             call == [kind |-> kind, traced |-> FALSE, done |-> {}, answered |-> FALSE]
  <1>3. PICK new \in Run : /\ Becomes(r, new) /\ Alike(new, run[r])
                           /\ new.stage = "calling" /\ new.text = run[r].text /\ new.call = n
    <2> DEFINE new == [run[r] EXCEPT !.stage = "calling", !.call = n]
    <2>1. n \in 0..MaxCalls
      BY <1>1, TurnAssumption DEF CallTool, TypeOK
    <2>2. /\ new \in Run /\ Alike(new, run[r]) /\ new.stage = "calling"
          /\ new.text = run[r].text /\ new.call = n
      BY <1>1, <2>1 DEF Run, Alike, Going
    <2>3. Becomes(r, new)
      BY DEF CallTool
    <2> HIDE DEF new
    <2> QED BY <2>2, <2>3
  <1>4. /\ trail' \in Seq(Call) /\ Len(trail') = n /\ trail'[n] = call
        /\ \A m \in DOMAIN trail : trail'[m] = trail[m] /\ m \in DOMAIN trail' /\ m # n
        /\ \A m \in DOMAIN trail' : m \in DOMAIN trail \/ m = n
        /\ n \in DOMAIN trail' /\ Len(trail') <= MaxCalls
    <2>1. trail' = Append(trail, call) /\ trail \in Seq(Call) /\ call \in Call
      BY <1>1 DEF CallTool, TypeOK, Call
    <2>2. Len(trail) \in Nat /\ Len(trail) < MaxCalls
      BY <2>1 DEF CallTool
    <2> HIDE DEF call
    <2> QED BY <2>1, <2>2, TurnAssumption
  <1>5. TrailTellsEffects'
    <2>1. trail'[n].done = {} /\ ~trail'[n].answered
      BY <1>4
    <2> HIDE DEF n, call
    <2> QED BY <1>4, <2>1 DEF TurnInv, TrailTellsEffects
  <1>6. CallInv'
    <2>1. run'[r] = new /\ \A q \in Runs \ {r} : run'[q] = run[q]
      BY <1>1, <1>3, TypeKept
    <2>2. Progress(new, call)
      BY <1>3 DEF Progress
    <2> HIDE DEF n, call
    <2> QED BY <1>3, <1>4, <2>1, <2>2 DEF TurnInv, CallInv, Progress
  <1>7. Clear({new.text})'
    BY <1>1, <1>2, <1>3 DEF TurnInv, TextInv, Clear
  <1>8. new.stage \in Going /\ run[r].stage \in Going /\ new.stage # "returned"
    BY <1>1, <1>3 DEF Going
  <1> QED BY <1>2, <1>3, <1>4, <1>5, <1>6, <1>7, <1>8, GoingOn, MoveStep, TextsKept

\* A step of run r's own call: the call becomes c, the run becomes R.
LEMMA CallStep ==
  ASSUME TurnInv, NEW r \in Runs, run[r] \in Run, run[r].stage \in UnderWay,
         NEW R \in Run, Becomes(r, R), NEW c \in Call,
         trail' = [trail EXCEPT ![run[r].call] = c],
         UNCHANGED <<stored, memory, received, context, passed, troubled>>,
         Alike(R, run[r]), R.stage \in Going,
         IF R.stage = "returned" THEN R.text \in Results ELSE R.text = run[r].text,
         R.stage \in UnderWay => R.call = run[r].call /\ Progress(R, c),
         "effect" \in c.done => "row" \in c.done,
         "row" \in c.done => c.traced /\ (c.kind = "write" => "effect" \in c.done),
         c.traced /\ c.answered => "row" \in c.done
  PROVE  TurnInv'
  <1>1. PICK n \in DOMAIN trail : n = run[r].call
    BY DEF TurnInv, CallInv
  <1>2. /\ trail' \in Seq(Call) /\ Len(trail') <= MaxCalls
        /\ DOMAIN trail' = DOMAIN trail /\ trail'[n] = c
        /\ \A m \in DOMAIN trail : m # n => trail'[m] = trail[m]
    BY <1>1 DEF TurnInv, TypeOK
  <1>3. TrailTellsEffects'
    BY <1>2 DEF TurnInv, TrailTellsEffects
  <1>4. CallInv'
    <2>1. run'[r] = R /\ \A q \in Runs \ {r} : run'[q] = run[q]
      BY TypeKept DEF TurnInv
    <2>2. \A q \in Runs \ {r} : run[q].stage \in UnderWay =>
            run[q].call \in DOMAIN trail /\ run[q].call # n
      BY <1>1 DEF TurnInv, CallInv
    <2> QED BY <1>1, <1>2, <2>1, <2>2 DEF TurnInv, CallInv, Progress
  <1>5. run[r].stage \in Going /\ run[r].stage \notin {"idle", "received", "returned"}
    BY DEF UnderWay, Going
  <1>6. IF R.stage = "returned" THEN R.text \in Results ELSE Clear({R.text})'
    BY <1>5 DEF TurnInv, TextInv, Clear
  <1> QED BY <1>2, <1>3, <1>4, <1>5, <1>6, GoingOn, MoveStep, TextsKept

\* What is known of the call of a run.
LEMMA CallKnown ==
  ASSUME TurnInv, NEW r \in Runs, run[r].stage \in UnderWay
  PROVE  /\ run[r] \in Run
         /\ run[r].call \in DOMAIN trail /\ trail[run[r].call] \in Call
         /\ Progress(run[r], trail[run[r].call])
  <1>1. run[r] \in Run
    BY RunningIsRun DEF TurnInv, UnderWay
  <1> QED BY <1>1 DEF TurnInv, CallInv, TypeOK

LEMMA ActStep ==
  ASSUME TurnInv, NEW r \in Runs, Act(r)
  PROVE  TurnInv'
  <1> DEFINE c == trail[run[r].call]
             R == [run[r] EXCEPT !.open = {"effect"}]
  <1>1. /\ run[r].stage = "calling" /\ run[r].stage \in UnderWay
        /\ UNCHANGED <<stored, memory, trail, received, context, passed, troubled>>
        /\ Becomes(r, R)
    BY DEF Act, UnderWay, history
  <1>2. run[r] \in Run /\ c \in Call /\ Progress(run[r], c)
    BY <1>1, CallKnown
  <1>3. /\ R \in Run /\ Alike(R, run[r]) /\ R.stage = "calling"
        /\ R.text = run[r].text /\ R.call = run[r].call
    BY <1>1, <1>2 DEF Run, Alike
  <1>4. trail' = [trail EXCEPT ![run[r].call] = c]
    BY <1>1 DEF TurnInv, TypeOK
  <1>5. Progress(R, c)
    BY <1>1, <1>2, <1>3 DEF Progress
  <1>6. c.done = {} /\ ~c.answered
    BY <1>1, <1>2 DEF Progress
  <1>7. R.stage \in Going /\ R.stage # "returned"
    BY <1>3 DEF Going
  <1> HIDE DEF c, R
  <1> QED BY <1>1, <1>2, <1>3, <1>4, <1>5, <1>6, <1>7, CallStep

LEMMA AuditStep ==
  ASSUME TurnInv, NEW r \in Runs, Audit(r)
  PROVE  TurnInv'
  <1> DEFINE b == trail[run[r].call]
             c == [b EXCEPT !.traced = TRUE]
             R == [run[r] EXCEPT !.stage = "audited", !.open = @ \cup {"row"}]
  <1>1. /\ run[r].stage = "calling" /\ run[r].stage \in UnderWay
        /\ UNCHANGED <<stored, memory, received, context, passed, troubled>>
        /\ Becomes(r, R)
        /\ trail' = [trail EXCEPT ![run[r].call] = c]
        /\ b.kind = "write" => "effect" \in run[r].open
    BY DEF Audit, UnderWay, history
  <1>2. run[r] \in Run /\ b \in Call /\ Progress(run[r], b)
    BY <1>1, CallKnown
  <1>3. /\ R \in Run /\ Alike(R, run[r]) /\ R.stage = "audited"
        /\ R.text = run[r].text /\ R.call = run[r].call
        /\ R.open = run[r].open \cup {"row"}
    BY <1>1, <1>2 DEF Run, Alike, Going
  <1>4. /\ c \in Call /\ c.traced = TRUE /\ c.kind = b.kind /\ c.done = b.done
        /\ c.answered = b.answered
    BY <1>2 DEF Call
  <1>5. b.done = {} /\ ~b.answered
    BY <1>1, <1>2 DEF Progress
  <1>6. R.stage \in Going /\ R.stage # "returned"
    BY <1>3 DEF Going
  <1> HIDE DEF b, c, R
  <1>7. Progress(R, c)
    BY <1>1, <1>3, <1>4, <1>5 DEF Progress
  <1> QED BY <1>1, <1>2, <1>3, <1>4, <1>5, <1>6, <1>7, CallStep

\* The transaction of a call commits its effect and its audit row together.
LEMMA CommitCallStep ==
  ASSUME TurnInv, NEW r \in Runs, CommitCall(r)
  PROVE  TurnInv'
  <1> DEFINE b == trail[run[r].call]
             c == [b EXCEPT !.done = @ \cup run[r].open]
             R == [run[r] EXCEPT !.stage = "committed", !.open = {}]
  <1>1. /\ run[r].stage = "audited" /\ run[r].stage \in UnderWay
        /\ UNCHANGED <<stored, memory, received, context, passed, troubled>>
        /\ Becomes(r, R)
        /\ trail' = [trail EXCEPT ![run[r].call] = c]
    BY DEF CommitCall, UnderWay, history
  <1>2. run[r] \in Run /\ b \in Call /\ Progress(run[r], b)
    BY <1>1, CallKnown
  <1>3. /\ R \in Run /\ Alike(R, run[r]) /\ R.stage = "committed"
        /\ R.text = run[r].text /\ R.call = run[r].call
    BY <1>1, <1>2 DEF Run, Alike, Going
  <1>4. /\ c \in Call /\ c.traced = b.traced /\ c.kind = b.kind
        /\ c.done = b.done \cup run[r].open /\ c.answered = b.answered
    <2>1. b.done \cup run[r].open \in SUBSET {"effect", "row"}
      BY <1>2 DEF Call, Run
    <2> QED BY <1>2, <2>1 DEF Call
  <1>5. /\ b.traced /\ ~b.answered /\ "row" \in run[r].open
        /\ b.kind = "write" => "effect" \in run[r].open
    BY <1>1, <1>2 DEF Progress
  <1>6. R.stage \in Going /\ R.stage # "returned"
    BY <1>3 DEF Going
  <1> HIDE DEF b, c, R
  <1>7. Progress(R, c)
    BY <1>3, <1>4, <1>5 DEF Progress
  <1> QED BY <1>1, <1>2, <1>3, <1>4, <1>5, <1>6, <1>7, CallStep

LEMMA ReturnsStep ==
  ASSUME TurnInv, NEW r \in Runs, NEW result \in Results,
         ReturnQuietly(r, result) \/ ReturnCall(r, result)
  PROVE  TurnInv'
  <1> DEFINE b == trail[run[r].call]
             c == [b EXCEPT !.answered = TRUE]
             R == [run[r] EXCEPT !.stage = "returned", !.text = result, !.call = 0]
  <1>1. /\ run[r].stage \in {"calling", "committed"} /\ run[r].stage \in UnderWay
        /\ UNCHANGED <<stored, memory, received, context, passed, troubled>>
        /\ Becomes(r, R)
        /\ trail' = [trail EXCEPT ![run[r].call] = c]
    BY DEF ReturnQuietly, ReturnCall, Returns, UnderWay, history
  <1>2. run[r] \in Run /\ b \in Call /\ Progress(run[r], b)
    BY <1>1, CallKnown
  <1>3. R \in Run /\ Alike(R, run[r]) /\ R.stage = "returned" /\ R.text = result
    <2>1. result \in Texts /\ 0 \in 0..MaxCalls
      BY TurnAssumption DEF Texts
    <2> QED BY <1>2, <2>1 DEF Run, Alike, Going
  <1>4. c \in Call /\ c.traced = b.traced /\ c.kind = b.kind /\ c.done = b.done
    BY <1>2 DEF Call
  <1>5. b.traced => "row" \in b.done
    BY <1>1, <1>2 DEF Progress
  <1>6. /\ "effect" \in b.done => "row" \in b.done
        /\ "row" \in b.done => b.traced /\ (b.kind = "write" => "effect" \in b.done)
    BY <1>1, CallKnown DEF TurnInv, TrailTellsEffects
  <1>7. R.stage \in Going /\ ~(R.stage \in UnderWay)
    BY <1>3 DEF Going, UnderWay
  <1> HIDE DEF b, c, R
  <1> QED BY <1>1, <1>2, <1>3, <1>4, <1>5, <1>6, <1>7, CallStep

----------------------------------------------------------------------------

LEMMA TurnStep == TurnInv /\ [Next]_vars => TurnInv'
  <1> SUFFICES ASSUME TurnInv, [Next]_vars PROVE TurnInv'
    OBVIOUS
  <1>1. CASE UNCHANGED vars
    BY <1>1 DEF vars, history, TurnInv, TypeOK, TextInv, Clear, BlockInv, Placed,
                CallInv, UnderWay, Progress, TrailTellsEffects
  <1>2. ASSUME NEW r \in Runs, AppendMessage(r) \/ Refuse(r) \/ AppendResult(r) \/ Answer(r)
        PROVE  TurnInv'
    <2>1. CASE AppendMessage(r)
      BY <2>1, AppendEventStep DEF AppendMessage, Stopped
    <2>2. CASE Refuse(r)
      BY <2>2, AppendEventStep DEF Refuse, Stopped
    <2>3. CASE AppendResult(r)
      BY <2>3, AppendEventStep DEF AppendResult, Going
    <2>4. CASE Answer(r)
      BY <2>4, AppendEventStep DEF Answer, Going
    <2> QED BY <1>2, <2>1, <2>2, <2>3, <2>4
  <1> QED BY <1>1, <1>2, ReceiveStep, ScreenPromptStep, BeforeRunStep, AskModelStep,
             CallToolStep, ActStep, AuditStep, CommitCallStep, ReturnsStep, ScreenResultStep,
             StoreMemoriesStep, EndStep, EndsStep DEF Next

LEMMA TurnInvariant == Spec => []TurnInv
  <1>1. ASSUME Init PROVE TurnInv
    <2>1. TypeOK
      BY <1>1, TurnAssumption DEF Init, TypeOK
    <2>2. TextInv /\ CallInv /\ TrailTellsEffects
      BY <1>1 DEF Init, TextInv, Clear, CallInv, UnderWay, TrailTellsEffects, Idle
    <2>3. BlockInv
      BY <1>1 DEF Init, BlockInv
    <2> QED BY <2>1, <2>2, <2>3 DEF TurnInv
  <1> QED BY <1>1, TurnStep, PTL DEF Spec

----------------------------------------------------------------------------
(* What the guardrails and the trail guarantee.                            *)

\* Every reachable state of sessions, runs, memory and trail is well typed.
THEOREM TurnTypeCorrect == Spec => []TypeOK
  <1>1. TurnInv => TypeOK
    BY DEF TurnInv
  <1> QED BY <1>1, TurnInvariant, PTL

\* No model is given a message that no screen let pass, in its own run or in a
\* later one, through the session or the memory (guardrails.py).
THEOREM NoInjectionReaches == Spec => []InjectionReachesNoModel
  <1>1. TurnInv => InjectionReachesNoModel
    BY DEF TurnInv, TextInv, Clear, InjectionReachesNoModel, Reached
  <1> QED BY <1>1, TurnInvariant, PTL

\* Nor the result of a tool that no screen let pass (after_tool_callback).
THEOREM NoLeakReaches == Spec => []LeakReachesNoModel
  <1>1. TurnInv => LeakReachesNoModel
    BY DEF TurnInv, TextInv, Clear, LeakReachesNoModel, Reached
  <1> QED BY <1>1, TurnInvariant, PTL

\* A run whose message was flagged ends without its model being asked, while
\* it has its session to itself (before_run_callback).
THEOREM BlockedRunsStop == Spec => []BlockedRunStops
  <1>1. TurnInv => BlockedRunStops
    BY DEF TurnInv, BlockInv, Placed, BlockedRunStops
  <1> QED BY <1>1, TurnInvariant, PTL

\* A clean message is refused only where a flagged run was cut off or two runs
\* shared the session: the block is popped before anybody else can read it.
THEOREM CleanRunsServed == Spec => []CleanIsServed
  <1>1. ASSUME TurnInv PROVE CleanIsServed
    <2> SUFFICES ASSUME NEW r \in Runs, run[r].stage = "refused", ~run[r].flagged
                 PROVE  run[r].session \in troubled
      BY DEF CleanIsServed
    <2>1. run[r] # Idle
      BY DEF Idle
    <2> QED BY <1>1, <2>1 DEF TurnInv, BlockInv, Placed
  <1> QED BY <1>1, TurnInvariant, PTL

\* Whatever took effect has its audit row and its span, and what has a row took
\* effect; no result of an audited call comes back before its row is there,
\* wherever calls break off (session_scope, identity.audit).
THEOREM TrailIsTrue == Spec => []TrailTellsEffects
  <1>1. TurnInv => TrailTellsEffects
    BY DEF TurnInv
  <1> QED BY <1>1, TurnInvariant, PTL
=============================================================================
