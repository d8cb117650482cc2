-------------------------- MODULE AgentLoopProofs ---------------------------
(***************************************************************************)
(* Proofs about AgentLoop for every set of configurations, actions, limits *)
(* and answers: what is carried out was confirmed, belongs to a step begun *)
(* before the stop, and is in the trace.                                   *)
(***************************************************************************)
EXTENDS AgentLoop, FiniteSetTheorems, TLAPS

-----------------------------------------------------------------------------
(* The invariant.  In a step, the phases before its delivery have no entry  *)
(* of that step in log or trace; the one after it, verify, has the entry of *)
(* the log last, and none in the trace.                                     *)

Deciding == {"act", "confirm", "deliver"}
Under == Deciding \cup {"model", "verify"}

(* The step of each entry, and what the step under way is about. *)
Placed ==
  /\ phase \in Under => frame \in Frames
  /\ phase \in Deciding \cup {"verify"} => action \in Actions
  /\ \A i \in DOMAIN log : /\ log[i].step <= step
                           /\ phase \in Deciding \cup {"model"} => log[i].step < step
                           /\ phase = "verify" /\ i # Len(log) => log[i].step < step
  /\ \A j \in DOMAIN trace : trace[j].step <= step /\ (phase \in Under => trace[j].step < step)
  /\ phase = "verify" => /\ log # <<>> /\ RetrySafe(action)
                         /\ log[Len(log)].step = step /\ log[Len(log)].action = action

(* What was carried out is in the trace, the step under way excepted.      *)
Recounted(i) ==
  \E j \in DOMAIN trace : /\ trace[j].step = log[i].step /\ trace[j].action = log[i].action
                          /\ classify_result(trace[j].result) # "rejected"
Told ==
  /\ \A i, j \in DOMAIN trace : i < j => trace[i].step < trace[j].step
  /\ \A i \in DOMAIN log : (phase = "verify" /\ i = Len(log)) \/ Recounted(i)
  /\ \A j \in DOMAIN trace : classify_result(trace[j].result) = "rejected" =>
       \A i \in DOMAIN log : log[i].step # trace[j].step

(* Delivery of a high-risk action follows its confirmation.                *)
Confirmed == phase = "deliver" /\ is_high_risk(action) => confirmed

(* No step begins after a stop.                                            *)
Stopped == (stop <=> stopAt # None) /\ (stop => stopAt = step)

(* The run ends at the limit of the stall counter.                         *)
Unstalled == phase # "finished" => stall.count < StallLimit

LoopInv == TypeOK /\ Placed /\ Told /\ Confirmed /\ HighRiskIsConfirmed /\ Stopped

Entries == [step : Nat, action : Actions, confirmed : BOOLEAN, times : Nat, raised : BOOLEAN, unfocused : BOOLEAN]
Records == [step : Nat, action : Actions, result : Results]
Notes == [count : 0..StallLimit, sig : Actions \cup {None}, frame : Frames \cup {None}]

-----------------------------------------------------------------------------
(* Sequences. *)

LEMMA Grown ==
  ASSUME NEW S, NEW s \in Seq(S), NEW e \in S, NEW t, t = Append(s, e)
  PROVE  /\ t \in Seq(S) /\ Len(t) = Len(s) + 1 /\ Len(s) \in Nat /\ DOMAIN t = 1..Len(s) + 1 /\ DOMAIN s = 1..Len(s)
         /\ \A i \in DOMAIN s : i \in DOMAIN t /\ t[i] = s[i]
         /\ \A i \in DOMAIN t : i \in DOMAIN s \/ i = Len(s) + 1
         /\ t[Len(s) + 1] = e
OBVIOUS

LEMMA Shortened ==
  ASSUME NEW S, NEW s \in Seq(S), s # <<>>
  PROVE  Head(s) \in S /\ Tail(s) \in Seq(S)
OBVIOUS

LEMMA StepTypes ==
  ASSUME TypeOK
  PROVE  /\ step \in Nat /\ log \in Seq(Entries) /\ trace \in Seq(Records)
         /\ \A i \in DOMAIN log : log[i] \in Entries /\ log[i].step \in Nat
         /\ \A j \in DOMAIN trace : trace[j] \in Records /\ trace[j].step \in Nat
<1>1. step \in Nat /\ log \in Seq(Entries) /\ trace \in Seq(Records)
  BY LoopConstants DEF TypeOK, Entries, Records
<1>2. (\A i \in DOMAIN log : log[i] \in Entries) /\ \A j \in DOMAIN trace : trace[j] \in Records
  BY <1>1
<1> QED BY <1>1, <1>2 DEF Entries, Records

-----------------------------------------------------------------------------
(* What follows when a step changes neither what was done nor what is       *)
(* recorded, and when it records something.                                 *)

Moves == UNCHANGED <<log, trace, step, frame, stop, stopAt>>

LEMMA Quiet ==
  ASSUME TypeOK, Placed, Told, HighRiskIsConfirmed, Stopped, Moves, phase # "verify", phase' # "verify",
         phase' \in Deciding => action' \in Actions,
         phase' \in Under => phase \in Under,
         phase' = "deliver" /\ is_high_risk(action') => confirmed'
  PROVE  (Placed /\ Told /\ Confirmed /\ HighRiskIsConfirmed /\ Stopped)'
<1>1. Placed'
  BY DEF Placed, Moves, Deciding, Under
<1>2. Told'
  BY DEF Told, Moves, Recounted
<1> QED BY <1>1, <1>2 DEF Moves, Confirmed, HighRiskIsConfirmed, Stopped

LEMMA Begun ==
  ASSUME TypeOK, LoopInv, step' = step + 1, UNCHANGED <<log, trace, stop, stopAt>>, ~stop, phase = "step", frame' \in Frames,
         phase' \notin {"verify", "deliver"}, phase' \in Deciding => action' \in Actions
  PROVE  (Placed /\ Told /\ Confirmed /\ HighRiskIsConfirmed /\ Stopped)'
<1>0. step \in Nat /\ (\A i \in DOMAIN log : log[i].step \in Nat) /\ \A j \in DOMAIN trace : trace[j].step \in Nat
  BY StepTypes
<1>1. Placed'
  BY <1>0 DEF LoopInv, Placed, Deciding, Under
<1>2. Told'
  BY DEF LoopInv, Told, Recounted
<1> QED BY <1>1, <1>2 DEF LoopInv, Confirmed, HighRiskIsConfirmed, Stopped

(* A step that was decided on is recorded without having been carried out.  *)
LEMMA NotedOnly ==
  ASSUME LoopInv, phase \in {"act", "confirm"}, phase' \in {"step", "finished"},
         UNCHANGED <<log, step, stop, stopAt>>, NEW r \in Results, record_result(r)
  PROVE  /\ trace' \in Seq(Records)
         /\ (Placed /\ Told /\ Confirmed /\ HighRiskIsConfirmed /\ Stopped)'
<1> DEFINE e == [step |-> step, action |-> action, result |-> r]
<1>0. /\ step \in Nat /\ action \in Actions /\ trace \in Seq(Records) /\ e \in Records /\ trace' = Append(trace, e)
      /\ \A j \in DOMAIN trace : trace[j].step \in Nat /\ trace[j].step < step
      /\ \A i \in DOMAIN log : log[i].step \in Nat /\ log[i].step < step
  <2>1. step \in Nat /\ action \in Actions /\ trace \in Seq(Records)
    BY StepTypes DEF LoopInv, Placed, Deciding
  <2>2. (\A i \in DOMAIN log : log[i].step \in Nat) /\ \A j \in DOMAIN trace : trace[j].step \in Nat
    BY StepTypes DEF LoopInv
  <2> QED BY <2>1, <2>2 DEF LoopInv, Placed, Deciding, Under, Records, record_result
<1> HIDE DEF e
<1>1. /\ trace' \in Seq(Records) /\ DOMAIN trace' = 1..Len(trace) + 1 /\ DOMAIN trace = 1..Len(trace) /\ Len(trace) \in Nat
      /\ \A i \in DOMAIN trace : i \in DOMAIN trace' /\ trace'[i] = trace[i]
      /\ \A i \in DOMAIN trace' : i \in DOMAIN trace \/ i = Len(trace) + 1
      /\ trace'[Len(trace) + 1] = e
  BY <1>0, Grown
<1>2. e.step = step
  BY DEF e
<1>3. Placed'
  BY <1>0, <1>1, <1>2 DEF LoopInv, Placed, Deciding, Under
<1>4. Told'
  <2>1. \A i \in DOMAIN log : Recounted(i)'
    BY <1>1 DEF LoopInv, Told, Recounted
  <2>2. \A i, j \in DOMAIN trace' : i < j => trace'[i].step < trace'[j].step
    BY <1>0, <1>1, <1>2 DEF LoopInv, Told
  <2>3. \A j \in DOMAIN trace' : classify_result(trace'[j].result) = "rejected" => \A i \in DOMAIN log : log[i].step # trace'[j].step
    BY <1>0, <1>1, <1>2 DEF LoopInv, Told
  <2> QED BY <2>1, <2>2, <2>3 DEF Told
<1> QED BY <1>1, <1>3, <1>4 DEF LoopInv, Confirmed, HighRiskIsConfirmed, Stopped

-----------------------------------------------------------------------------
(* Types of the parts that many steps touch. *)

Phases == {"start", "step", "model", "act", "confirm", "deliver", "verify", "finished"}
RunOK ==
  /\ phase \in Phases /\ rc \in 0..7 \cup {None} /\ (phase = "finished") = (rc # None)
  /\ step \in 0..cfg.max_steps
Ends == \E code \in 0..7 : Finish(code)
Goes(P) == \E p \in P : Goto(p)
PlanOK(p) == p \in [left : 0..cfg.subtasks, completed : Nat, skipped : Nat] \cup {None}

ViewOK ==
  /\ frame \in Frames \cup {None} /\ targets \subseteq Elements
  /\ refresh \in BOOLEAN /\ boost \in BOOLEAN
  /\ sent \in [frame : Frames, detail : BOOLEAN] \cup {None}
MacroOK == replay \in Seq(Actions) /\ recorder \in Seq(Kept) /\ saved \in Seq(Kept) \cup {None}
DecidedOK ==
  /\ action \in Actions \cup {None} /\ verbatim \in Actions \cup {None}
  /\ attempt \in Nat /\ confirmed \in BOOLEAN
StopOK == cfg \in Configs /\ stop \in BOOLEAN /\ stopAt \in 0..cfg.max_steps \cup {None}
DoneOK == stall \in Notes /\ trace \in Seq(Records) /\ log \in Seq(Entries)

LEMMA TypeParts ==
  ASSUME TypeOK
  PROVE  RunOK /\ ViewOK /\ PlanOK(plan) /\ started \in Nat /\ MacroOK /\ DecidedOK /\ StopOK /\ DoneOK
<1>1. RunOK /\ StopOK
  BY DEF TypeOK, RunOK, Phases, StopOK
<1>2. ViewOK /\ MacroOK /\ DecidedOK
  BY DEF TypeOK, ViewOK, MacroOK, DecidedOK
<1>3. PlanOK(plan) /\ started \in Nat /\ DoneOK
  BY DEF TypeOK, PlanOK, DoneOK, Notes, Records, Entries
<1> QED BY <1>1, <1>2, <1>3

LEMMA Typed ==
  ASSUME RunOK', ViewOK', PlanOK(plan)', started' \in Nat, MacroOK', DecidedOK', StopOK', DoneOK'
  PROVE  TypeOK'
BY DEF RunOK, ViewOK, PlanOK, MacroOK, DecidedOK, StopOK, DoneOK, TypeOK, Phases, Notes, Records, Entries

LEMMA ConfigTypes ==
  ASSUME TypeOK
  PROVE  /\ cfg \in Configs /\ cfg.max_steps \in Nat /\ cfg.subtasks \in Nat /\ cfg.macro \in Seq(Actions)
         /\ None \notin Actions /\ None \notin 0..7 /\ None \notin 0..cfg.max_steps /\ Choices \subseteq Actions
BY LoopConstants DEF TypeOK, Actions

LEMMA RunTypes ==
  ASSUME TypeOK, phase # "finished", cfg' = cfg, Ends \/ Goes(Phases \ {"finished"})
  PROVE  RunOK' /\ step' = step /\ phase' \in Phases /\ (Ends => phase' = "finished")
<1>1. CASE Ends
  BY <1>1, ConfigTypes DEF Ends, Finish, RunOK, TypeOK, Phases
<1>2. CASE Goes(Phases \ {"finished"})
  <2>1. rc = None
    BY DEF TypeOK
  <2> QED BY <1>2, <2>1 DEF Goes, Goto, RunOK, TypeOK, Phases, Ends, Finish
<1> QED BY <1>1, <1>2

-----------------------------------------------------------------------------
(* The steps that neither do nor record anything. *)

LEMMA StartKeeps == ASSUME LoopInv, Start PROVE LoopInv'
<1>0. TypeOK /\ cfg' = cfg /\ phase = "start"
  BY DEF LoopInv, Start
<1>1. UNCHANGED <<stop, frame, targets, refresh, boost, sent, started, recorder, saved, action, verbatim, attempt,
                  confirmed, stall, trace, log, stopAt>>
  BY DEF Start, view, decided
<1>2. Ends \/ Goes({"step"})
  <2>1. PICK b \in {None, 1, 2, 4} : \/ Finish(b) /\ b # None
                                     \/ Finish(7) \/ Goto("step")
    BY DEF Start, Briefed
  <2> QED BY <2>1 DEF Ends, Goes
<1>3. RunOK' /\ step' = step /\ phase' \in {"step", "finished"}
  BY <1>0, <1>2, RunTypes DEF Goes, Goto, Phases, Ends, Finish
<1>4. replay' \in Seq(Actions)
  BY <1>0, ConfigTypes DEF Start
<1>5. PlanOK(plan)'
  BY <1>0, ConfigTypes DEF Start, PlanOK
<1>6. TypeOK'
  BY <1>0, <1>1, <1>3, <1>4, <1>5 DEF TypeOK, RunOK, PlanOK, Phases
<1>7. Moves
  BY <1>1, <1>3 DEF Moves
<1> QED BY <1>0, <1>3, <1>6, <1>7, Quiet DEF LoopInv, Deciding, Under

LEMMA EndKeeps == ASSUME LoopInv, EndOfLoop PROVE LoopInv'
<1>0. TypeOK /\ cfg' = cfg /\ phase = "step"
  BY DEF LoopInv, EndOfLoop
<1>1. UNCHANGED <<stop, frame, targets, refresh, boost, sent, plan, started, replay, recorder, saved, action, verbatim, attempt,
                  confirmed, stall, trace, log, stopAt>>
  BY DEF EndOfLoop, view, decided, macro
<1>2. Ends
  BY DEF EndOfLoop, Ends
<1>3. RunOK' /\ step' = step /\ phase' = "finished"
  BY <1>0, <1>2, RunTypes
<1>6. TypeOK'
  BY <1>0, <1>1, <1>3 DEF TypeOK, RunOK, Phases
<1>7. Moves
  BY <1>1, <1>3 DEF Moves
<1> QED BY <1>0, <1>3, <1>6, <1>7, Quiet DEF LoopInv, Deciding, Under

LEMMA StopKeeps == ASSUME LoopInv, AskToStop PROVE LoopInv'
<1>0. TypeOK /\ cfg' = cfg /\ stop' = TRUE /\ stopAt' = step
  BY DEF LoopInv, AskToStop
<1>1. UNCHANGED <<phase, step, rc, frame, targets, refresh, boost, sent, plan, started, replay, recorder, saved, action, verbatim, attempt,
                  confirmed, stall, trace, log>>
  BY DEF AskToStop, view, decided, macro, run
<1>2. TypeOK'
  BY <1>0, <1>1 DEF TypeOK
<1>3. Placed' /\ Told' /\ Confirmed' /\ HighRiskIsConfirmed'
  BY <1>1 DEF LoopInv, Placed, Told, Recounted, Confirmed, HighRiskIsConfirmed
<1>4. Stopped'
  BY <1>0, <1>1, ConfigTypes DEF Stopped, TypeOK
<1> QED BY <1>2, <1>3, <1>4 DEF LoopInv

LEMMA AnswerKeeps == ASSUME LoopInv, NEW a \in Choices, Answer(a) PROVE LoopInv'
<1>0. TypeOK /\ cfg' = cfg /\ phase = "model" /\ a \in Actions
  BY ConfigTypes DEF LoopInv, Answer
<1>1. UNCHANGED <<stop, frame, targets, plan, started, replay, recorder, saved, verbatim, confirmed, stall, trace, log, stopAt>>
      /\ attempt' = 0
  BY DEF Answer, macro
<1>2. /\ \/ Goto("step") /\ action' = action
         \/ Goto("act") /\ action' = a
      /\ refresh' \in BOOLEAN
  BY DEF Answer
<1>3. RunOK' /\ step' = step /\ phase' \in {"step", "act"}
  BY <1>0, <1>2, RunTypes DEF Goes, Goto, Phases
<1>4. boost' \in BOOLEAN /\ sent' \in [frame : Frames, detail : BOOLEAN] \cup {None}
  <2>1. boost' \in BOOLEAN /\ (sent' = sent \/ sent' = [frame |-> frame, detail |-> boost])
    BY <1>0 DEF Answer, TypeOK
  <2>2. frame \in Frames /\ boost \in BOOLEAN
    BY <1>0 DEF LoopInv, TypeOK, Placed, Under
  <2> QED BY <1>0, <2>1, <2>2 DEF TypeOK
<1>5. action' \in Actions \cup {None} /\ (phase' = "act" => action' \in Actions)
  BY <1>0, <1>2 DEF TypeOK, Goto
<1>6. TypeOK'
  BY <1>0, <1>1, <1>2, <1>3, <1>4, <1>5 DEF TypeOK, RunOK, Phases
<1>7. Moves
  BY <1>1, <1>3 DEF Moves
<1> QED BY <1>0, <1>3, <1>5, <1>6, <1>7, Quiet DEF LoopInv, Deciding, Under

LEMMA ModelFailsKeeps == ASSUME LoopInv, NEW transient, ModelFails(transient) PROVE LoopInv'
<1>0. TypeOK /\ cfg' = cfg /\ phase = "model"
  BY DEF LoopInv, ModelFails
<1>1. UNCHANGED <<stop, frame, targets, refresh, boost, sent, plan, started, replay, recorder, saved, action, verbatim,
                  confirmed, stall, trace, log, stopAt>>
      /\ attempt' = attempt + 1
  BY DEF ModelFails, view, macro
<1>2. Ends \/ Goes({"model"})
  BY DEF ModelFails, Ends, Goes
<1>3. RunOK' /\ step' = step /\ phase' \in {"model", "finished"}
  BY <1>0, <1>2, RunTypes DEF Goes, Goto, Phases, Ends, Finish
<1>6. TypeOK'
  BY <1>0, <1>1, <1>3 DEF TypeOK, RunOK, Phases
<1>7. Moves
  BY <1>1, <1>3 DEF Moves
<1> QED BY <1>0, <1>3, <1>6, <1>7, Quiet DEF LoopInv, Deciding, Under

-----------------------------------------------------------------------------
(* The steps that begin a step of the loop. *)

LEMMA BeginTypes ==
  ASSUME TypeOK, BeginStep
  PROVE  /\ step' = step + 1 /\ step' \in 0..cfg.max_steps /\ frame' \in Frames /\ ~stop /\ phase = "step" /\ rc = None
         /\ UNCHANGED <<cfg, stop, recorder, saved, refresh, boost, sent, stall, trace, log, stopAt>>
         /\ attempt' = 0 /\ confirmed' = FALSE
<1>1. phase = "step" /\ step < cfg.max_steps /\ ~stop /\ step' = step + 1 /\ frame' \in Frames
  BY DEF BeginStep, StopSeen
<1>2. rc = None
  BY <1>1 DEF TypeOK
<1>3. step \in Nat /\ cfg.max_steps \in Nat
  BY ConfigTypes, StepTypes
<1>4. step' \in 0..cfg.max_steps
  BY <1>1, <1>3
<1> QED BY <1>1, <1>2, <1>4 DEF BeginStep

LEMMA SkipKeeps == ASSUME LoopInv, SkipSubtask PROVE LoopInv'
<1>0. TypeOK
  BY DEF LoopInv
<1>1. BeginStep /\ Planned /\ skip_current /\ started' = step + 1 /\ UNCHANGED <<replay, action, verbatim, targets>>
      /\ \/ phase' = "finished" /\ rc' = 3
         \/ UNCHANGED <<phase, rc>>
  BY DEF SkipSubtask
<1>2. PlanOK(plan)'
  <2>1. plan # None /\ plan.left # 0 /\ plan' = [plan EXCEPT !.left = @ - 1, !.skipped = @ + 1]
    BY <1>1 DEF Planned, is_done, skip_current
  <2>2. plan \in [left : 0..cfg.subtasks, completed : Nat, skipped : Nat] /\ cfg' = cfg /\ cfg.subtasks \in Nat
    BY <1>0, <1>1, <2>1, ConfigTypes, BeginTypes DEF TypeOK
  <2>3. plan.left - 1 \in 0..cfg.subtasks /\ plan.skipped + 1 \in Nat
    BY <2>1, <2>2
  <2> QED BY <2>1, <2>2, <2>3 DEF PlanOK
<1>3. TypeOK'
  <2>1. 3 # None /\ started' \in Nat
    BY <1>0, <1>1, ConfigTypes, StepTypes
  <2>2. /\ step' \in 0..cfg.max_steps /\ frame' \in Frames /\ rc = None /\ phase = "step"
        /\ UNCHANGED <<cfg, stop, recorder, saved, refresh, boost, sent, stall, trace, log, stopAt>>
        /\ attempt' = 0 /\ confirmed' = FALSE
    BY <1>0, <1>1, BeginTypes
  <2>3. rc' \in 0..7 \cup {None} /\ (phase' = "finished") = (rc' # None) /\ phase' \in {"step", "finished"}
    BY <1>1, <2>1, <2>2
  <2>4. RunOK'
    BY <2>2, <2>3 DEF RunOK, Phases
  <2>5. ViewOK' /\ MacroOK' /\ DecidedOK'
    BY <1>0, <1>1, <2>2, TypeParts DEF ViewOK, MacroOK, DecidedOK
  <2>6. StopOK' /\ DoneOK'
    BY <1>0, <2>2, TypeParts DEF StopOK, DoneOK, Notes
  <2> QED BY <1>2, <2>1, <2>4, <2>5, <2>6, Typed
<1> QED BY <1>0, <1>1, <1>3, BeginTypes, Begun DEF LoopInv, Deciding

LEMMA ReplayKeeps == ASSUME LoopInv, Replay PROVE LoopInv'
<1>0. TypeOK
  BY DEF LoopInv
<1>1. BeginStep /\ replay # <<>> /\ action' = Head(replay) /\ verbatim' = Head(replay) /\ replay' = Tail(replay)
      /\ phase' = "act" /\ UNCHANGED <<rc, targets, plan, started>>
  BY DEF Replay
<1>2. Head(replay) \in Actions /\ Tail(replay) \in Seq(Actions)
  BY <1>0, <1>1, Shortened DEF TypeOK
<1>3. TypeOK'
  <2>1. /\ step' \in 0..cfg.max_steps /\ frame' \in Frames /\ rc = None /\ phase = "step"
        /\ UNCHANGED <<cfg, stop, recorder, saved, refresh, boost, sent, stall, trace, log, stopAt>>
        /\ attempt' = 0 /\ confirmed' = FALSE
    BY <1>0, <1>1, BeginTypes
  <2>2. RunOK'
    BY <1>0, <1>1, <2>1, ConfigTypes DEF RunOK, Phases
  <2>3. ViewOK' /\ MacroOK'
    BY <1>0, <1>1, <1>2, <2>1, TypeParts DEF ViewOK, MacroOK
  <2>4. DecidedOK'
    BY <1>1, <1>2, <2>1 DEF DecidedOK
  <2>5. StopOK' /\ DoneOK' /\ PlanOK(plan)' /\ started' \in Nat
    BY <1>0, <1>1, <2>1, TypeParts DEF StopOK, DoneOK, Notes, PlanOK
  <2> QED BY <2>2, <2>3, <2>4, <2>5, Typed
<1> QED BY <1>0, <1>1, <1>2, <1>3, BeginTypes, Begun DEF LoopInv, Deciding

LEMMA ObserveKeeps == ASSUME LoopInv, Observe PROVE LoopInv'
<1>0. TypeOK
  BY DEF LoopInv
<1>1. BeginStep /\ replay' = <<>> /\ action' = None /\ verbatim' = None /\ phase' = "model" /\ UNCHANGED <<rc, plan, started>>
      /\ targets' \subseteq Elements
  BY <1>0 DEF Observe, TypeOK, coalesce_element_targets
<1>3. TypeOK'
  <2>1. /\ step' \in 0..cfg.max_steps /\ frame' \in Frames /\ rc = None /\ phase = "step"
        /\ UNCHANGED <<cfg, stop, recorder, saved, refresh, boost, sent, stall, trace, log, stopAt>>
        /\ attempt' = 0 /\ confirmed' = FALSE
    BY <1>0, <1>1, BeginTypes
  <2>2. RunOK'
    BY <1>0, <1>1, <2>1, ConfigTypes DEF RunOK, Phases
  <2>3. ViewOK' /\ MacroOK'
    BY <1>0, <1>1, <2>1, TypeParts DEF ViewOK, MacroOK
  <2>5. DecidedOK'
    BY <1>1, <2>1 DEF DecidedOK
  <2>4. StopOK' /\ DoneOK' /\ PlanOK(plan)' /\ started' \in Nat
    BY <1>0, <1>1, <2>1, TypeParts DEF StopOK, DoneOK, Notes, PlanOK
  <2> QED BY <2>2, <2>3, <2>4, <2>5, Typed
<1> QED BY <1>0, <1>1, <1>3, BeginTypes, Begun DEF LoopInv, Deciding

-----------------------------------------------------------------------------
(* The steps that decide. *)

LEMMA DoneKeeps == ASSUME LoopInv, Done PROVE LoopInv'
<1>0. TypeOK /\ cfg' = cfg /\ phase = "act"
  BY DEF LoopInv, Done, Acting
<1>1. UNCHANGED <<stop, frame, targets, refresh, boost, sent, replay, recorder, action, verbatim, attempt, confirmed, stall, log, stopAt>>
  BY DEF Done, Acting, decided
<1>2. RunOK' /\ step' = step /\ phase' \in {"step", "finished"}
  <2>1. Ends \/ Goes({"step"})
    BY DEF Done, Ends, Goes
  <2> QED BY <1>0, <2>1, RunTypes DEF Goes, Goto, Phases, Ends, Finish
<1>3. PlanOK(plan)' /\ started' \in Nat
  <2>1. started' \in Nat
    BY <1>0, StepTypes DEF Done, TypeOK
  <2>2. CASE UNCHANGED plan
    BY <1>0, <2>1, <2>2 DEF TypeOK, PlanOK
  <2>3. CASE Planned /\ complete_current
    <3>1. plan # None /\ plan.left # 0 /\ plan' = [plan EXCEPT !.left = @ - 1, !.completed = @ + 1]
      BY <2>3 DEF Planned, is_done, complete_current
    <3>2. plan \in [left : 0..cfg.subtasks, completed : Nat, skipped : Nat] /\ cfg' = cfg /\ cfg.subtasks \in Nat
      BY <1>0, <3>1, ConfigTypes DEF TypeOK
    <3>3. plan.left - 1 \in 0..cfg.subtasks /\ plan.completed + 1 \in Nat
      BY <3>1, <3>2
    <3> QED BY <2>1, <3>1, <3>2, <3>3 DEF PlanOK
  <2> QED BY <2>2, <2>3 DEF Done
<1>4. saved' \in Seq(Kept) \cup {None}
  BY <1>0 DEF Done, TypeOK
<1>5. trace' \in Seq(Records) /\ (Placed /\ Told /\ Confirmed /\ HighRiskIsConfirmed /\ Stopped)'
  <2>1. record_result("done") /\ "done" \in Results
    BY DEF Done, Results
  <2> QED BY <1>0, <1>1, <1>2, <2>1, NotedOnly
<1>6. TypeOK'
  BY <1>0, <1>1, <1>2, <1>3, <1>4, <1>5 DEF TypeOK, RunOK, PlanOK, Phases, Records
<1> QED BY <1>5, <1>6 DEF LoopInv

LEMMA LookKeeps == ASSUME LoopInv, Look PROVE LoopInv'
<1>0. TypeOK /\ cfg' = cfg /\ phase = "act" /\ refresh' = TRUE /\ boost' = TRUE /\ record_result("look") /\ Goto("step")
  BY DEF LoopInv, Look, Acting
<1>1. UNCHANGED <<stop, frame, targets, sent, plan, started, replay, recorder, saved, action, verbatim, attempt, confirmed, stall, log, stopAt>>
  BY DEF Look, Acting, decided, macro
<1>2. RunOK' /\ step' = step /\ phase' = "step"
  BY <1>0, RunTypes DEF Goes, Goto, Phases
<1>3. trace' \in Seq(Records) /\ (Placed /\ Told /\ Confirmed /\ HighRiskIsConfirmed /\ Stopped)'
  BY <1>0, <1>1, <1>2, NotedOnly DEF Results
<1>4. TypeOK'
  <2>1. ViewOK' /\ MacroOK' /\ DecidedOK'
    BY <1>0, <1>1, TypeParts DEF ViewOK, MacroOK, DecidedOK
  <2>2. StopOK' /\ DoneOK' /\ PlanOK(plan)' /\ started' \in Nat
    BY <1>0, <1>1, <1>3, TypeParts DEF StopOK, DoneOK, Notes, PlanOK
  <2> QED BY <1>2, <2>1, <2>2, Typed
<1> QED BY <1>3, <1>4 DEF LoopInv

(* What a step in Steady leaves alone. *)
LEMMA SteadyKeeps ==
  ASSUME LoopInv, phase \in {"act", "confirm"}, phase' \in Phases, RunOK', step' = step,
         UNCHANGED <<cfg, stop, frame, targets, refresh, boost, sent, plan, started, replay, recorder, saved, action, verbatim, attempt, log, stopAt>>,
         confirmed' \in BOOLEAN, stall' \in Notes,
         \/ phase' \in {"step", "finished"} /\ \E r \in Results : record_result(r)
         \/ /\ trace' = trace /\ phase' # "verify" /\ (phase' \in Deciding => action \in Actions)
            /\ (phase' = "deliver" /\ is_high_risk(action) => confirmed')
  PROVE  LoopInv'
<1>0. TypeOK
  BY DEF LoopInv
<1>1. trace' \in Seq(Records) /\ (Placed /\ Told /\ Confirmed /\ HighRiskIsConfirmed /\ Stopped)'
  <2>1. CASE phase' \in {"step", "finished"} /\ \E r \in Results : record_result(r)
    BY <2>1, NotedOnly
  <2>2. CASE /\ trace' = trace /\ phase' # "verify" /\ (phase' \in Deciding => action \in Actions)
             /\ (phase' = "deliver" /\ is_high_risk(action) => confirmed')
    <3>1. Moves /\ trace \in Seq(Records) /\ phase \in Under
      BY <1>0, <2>2, StepTypes DEF Moves, Under, Deciding
    <3>2. phase' = "deliver" /\ is_high_risk(action') => confirmed'
      BY <2>2
    <3> QED BY <1>0, <2>2, <3>1, <3>2, Quiet DEF LoopInv
  <2> QED BY <2>1, <2>2
<1>2. ViewOK' /\ MacroOK' /\ DecidedOK'
  BY <1>0, TypeParts DEF ViewOK, MacroOK, DecidedOK
<1>3. StopOK' /\ DoneOK' /\ PlanOK(plan)' /\ started' \in Nat
  BY <1>0, <1>1, TypeParts DEF StopOK, DoneOK, PlanOK
<1> QED BY <1>1, <1>2, <1>3, Typed DEF LoopInv

LEMMA AskKeeps == ASSUME LoopInv, ask_user PROVE LoopInv'
<1>0. TypeOK /\ cfg' = cfg /\ phase = "act" /\ stall' = stall /\ confirmed' = confirmed
  BY DEF LoopInv, ask_user, Acting, Steady, decided
<1>1. UNCHANGED <<cfg, stop, frame, targets, refresh, boost, sent, plan, started, replay, recorder, saved, action, verbatim, attempt, log, stopAt>>
  BY DEF ask_user, Acting, Steady, decided, macro
<1>2. stall' \in Notes /\ confirmed' \in BOOLEAN
  BY <1>0, TypeParts DEF DoneOK, DecidedOK
<1>3. \/ record_result("answered") /\ Goto("step")
      \/ Ends /\ trace' = trace
  BY DEF ask_user, Ends
<1>4. RunOK' /\ step' = step /\ phase' \in {"step", "finished"}
  BY <1>0, <1>3, RunTypes DEF Goes, Goto, Phases, Ends, Finish
<1>5. "answered" \in Results
  BY DEF Results
<1> QED BY <1>0, <1>1, <1>2, <1>3, <1>4, <1>5, SteadyKeeps DEF Phases, Deciding

LEMMA NotRunKeeps == ASSUME LoopInv, NotRun PROVE LoopInv'
<1>0. TypeOK /\ cfg' = cfg /\ phase = "act" /\ stall' = stall /\ confirmed' = confirmed /\ Goto("step")
  BY DEF LoopInv, NotRun, Acting, Steady, decided
<1>1. UNCHANGED <<cfg, stop, frame, targets, refresh, boost, sent, plan, started, replay, recorder, saved, action, verbatim, attempt, log, stopAt>>
  BY DEF NotRun, Acting, Steady, decided, macro
<1>2. stall' \in Notes /\ confirmed' \in BOOLEAN
  BY <1>0, TypeParts DEF DoneOK, DecidedOK
<1>3. \E r \in Results : record_result(r)
  <2>1. \E r \in {"watching", "remembered", "refused", "skipped", "elevation off"} : record_result(r)
    BY DEF NotRun
  <2> QED BY <2>1 DEF Results
<1>4. RunOK' /\ step' = step /\ phase' = "step"
  BY <1>0, RunTypes DEF Goes, Goto, Phases
<1> QED BY <1>0, <1>1, <1>2, <1>3, <1>4, SteadyKeeps DEF Phases

LEMMA CheckKeeps == ASSUME LoopInv, Unstalled, Check PROVE LoopInv'
<1> DEFINE same == stall.sig = action /\ stall.frame = frame
           n == IF same THEN stall.count + 1 ELSE 0
<1>0. TypeOK /\ cfg' = cfg /\ phase = "act" /\ confirmed' = confirmed /\ action \in Actions
  BY DEF LoopInv, Check, Acting, decided, Placed, Deciding
<1>1. UNCHANGED <<cfg, stop, frame, targets, refresh, boost, sent, plan, started, replay, recorder, saved, action, verbatim, attempt, log, stopAt>>
  BY DEF Check, Acting, decided, macro
<1>2. stall' \in Notes /\ confirmed' \in BOOLEAN
  <2>1. stall \in Notes /\ confirmed \in BOOLEAN /\ frame \in Frames \cup {None} /\ StallLimit \in Nat \ {0}
    BY <1>0, TypeParts, LoopConstants DEF DoneOK, DecidedOK, ViewOK
  <2>2. stall.count \in 0..StallLimit /\ stall.count < StallLimit
    BY <1>0, <2>1 DEF Notes, Unstalled
  <2>3. stall' = stall \/ (stall' = Stalled(n))
    BY DEF Check
  <2>4. n \in 0..StallLimit
    BY <2>1, <2>2
  <2> HIDE DEF n
  <2>5. Stalled(n) \in Notes
    BY <1>0, <2>1, <2>4 DEF Notes, Stalled
  <2> QED BY <1>0, <2>1, <2>3, <2>5
<1>3. \/ Ends /\ trace' = trace
      \/ Goto("confirm") /\ trace' = trace
      \/ Goto("deliver") /\ trace' = trace /\ ~needs_confirm(action)
      \/ Goto("step") /\ record_result("refused by plan gate")
  <2> DEFINE pass == IF needs_confirm(action) THEN "confirm" ELSE "deliver"
  <2>1. \/ Finish(6) /\ trace' = trace
        \/ Goto(pass) /\ trace' = trace
        \/ Goto("step") /\ record_result("refused by plan gate")
    BY DEF Check
  <2>2. Finish(6) => Ends
    BY DEF Ends
  <2>3. pass = "confirm" \/ (pass = "deliver" /\ ~needs_confirm(action))
    OBVIOUS
  <2> HIDE DEF pass
  <2> QED BY <2>1, <2>2, <2>3
<1>4. RunOK' /\ step' = step /\ phase' \in {"step", "finished", "confirm", "deliver"}
  BY <1>0, <1>3, RunTypes DEF Goes, Goto, Phases, Ends, Finish
<1>5. "refused by plan gate" \in Results /\ (is_high_risk(action) => needs_confirm(action))
  BY DEF Results, needs_confirm, is_high_risk, Benign
<1>6. \/ phase' \in {"step", "finished"} /\ \E r \in Results : record_result(r)
      \/ /\ trace' = trace /\ phase' # "verify" /\ (phase' \in Deciding => action \in Actions)
         /\ (phase' = "deliver" /\ is_high_risk(action) => confirmed')
  <2>1. CASE Ends /\ trace' = trace
    BY <2>1 DEF Ends, Finish, Deciding
  <2>2. CASE \/ Goto("confirm") /\ trace' = trace
             \/ Goto("deliver") /\ trace' = trace /\ ~needs_confirm(action)
    BY <1>0, <1>5, <2>2 DEF Goto
  <2>3. CASE Goto("step") /\ record_result("refused by plan gate")
    BY <1>5, <2>3 DEF Goto
  <2> QED BY <1>3, <2>1, <2>2, <2>3
<1> QED BY <1>0, <1>1, <1>2, <1>4, <1>6, SteadyKeeps DEF Phases

LEMMA ConfirmKeeps == ASSUME LoopInv, NEW yes \in BOOLEAN, Confirm(yes) PROVE LoopInv'
<1>0. TypeOK /\ cfg' = cfg /\ phase = "confirm" /\ confirmed' = yes /\ stall' = stall /\ action \in Actions
  BY DEF LoopInv, Confirm, Placed, Deciding
<1>1. UNCHANGED <<cfg, stop, frame, targets, refresh, boost, sent, plan, started, replay, recorder, saved, action, verbatim, attempt, log, stopAt>>
  BY DEF Confirm, view, macro
<1>2. stall' \in Notes
  BY <1>0, TypeParts DEF DoneOK
<1>3. \/ Goto("deliver") /\ trace' = trace /\ yes
      \/ Goto("step") /\ record_result("skipped")
  BY DEF Confirm
<1>4. RunOK' /\ step' = step /\ phase' \in {"step", "deliver"}
  BY <1>0, <1>3, RunTypes DEF Goes, Goto, Phases
<1>5. "skipped" \in Results
  BY DEF Results
<1>6. \/ phase' \in {"step", "finished"} /\ \E r \in Results : record_result(r)
      \/ /\ trace' = trace /\ phase' # "verify" /\ (phase' \in Deciding => action \in Actions)
         /\ (phase' = "deliver" /\ is_high_risk(action) => confirmed')
  BY <1>0, <1>3, <1>4, <1>5 DEF Goto
<1> QED BY <1>0, <1>1, <1>2, <1>4, <1>6, SteadyKeeps DEF Phases

-----------------------------------------------------------------------------
(* The steps that carry an action out. *)

(* The macro recorder keeps the recorded step, or what it makes of the      *)
(* action.                                                                  *)
LEMMA EndTypes ==
  ASSUME TypeOK, action \in Actions, NEW ok, NEW r, EndStep(ok, r)
  PROVE  recorder' \in Seq(Kept)
<1>1. Actions \subseteq Kept /\ recorder \in Seq(Kept) /\ verbatim \in Actions \cup {None} /\ Recorded(action) \in Kept
  BY TypeParts DEF Kept, MacroOK, DecidedOK
<1>2. CASE recorder' = recorder
  BY <1>1, <1>2
<1>3. CASE recorder' = Append(recorder, IF verbatim # None THEN verbatim ELSE Recorded(action))
  <2>1. (IF verbatim # None THEN verbatim ELSE Recorded(action)) \in Kept
    BY <1>1
  <2> QED BY <1>1, <1>3, <2>1
<1> QED BY <1>2, <1>3 DEF EndStep

(* What was carried out in the step under way comes last in the log.        *)
Carried ==
  /\ log' \in Seq(Entries) /\ log' # <<>>
  /\ \A i \in DOMAIN log' : i # Len(log') => /\ i \in DOMAIN log /\ log'[i] = log[i] /\ log[i].step < step
                                            /\ ~(phase = "verify" /\ i = Len(log))
  /\ log'[Len(log')].step = step /\ log'[Len(log')].action = action
  /\ is_high_risk(action) => log'[Len(log')].confirmed /\ log'[Len(log')].times = 1

LEMMA CarriedOn ==
  ASSUME LoopInv, Carried, phase \in {"deliver", "verify"}, phase' = "verify", RetrySafe(action),
         UNCHANGED <<trace, step, action, frame, stop, stopAt>>
  PROVE  (Placed /\ Told /\ Confirmed /\ HighRiskIsConfirmed /\ Stopped)'
<1>0. step \in Nat /\ action \in Actions /\ frame \in Frames /\ \A j \in DOMAIN trace : trace[j].step \in Nat /\ trace[j].step < step
  BY StepTypes DEF LoopInv, Placed, Under, Deciding
<1>1. Placed'
  <2>1. /\ \A i \in DOMAIN log' : log'[i].step <= step /\ (i # Len(log') => log'[i].step < step)
        /\ log' # <<>> /\ log'[Len(log')].step = step /\ log'[Len(log')].action = action
    BY <1>0, StepTypes DEF LoopInv, Carried
  <2> QED BY <1>0, <2>1 DEF Placed, Under, Deciding
<1>2. Told'
  <2>1. \A i \in DOMAIN log' : i = Len(log') \/ Recounted(i)'
    BY DEF LoopInv, Told, Recounted, Carried
  <2>2. \A j \in DOMAIN trace, i \in DOMAIN log' : i = Len(log') => log'[i].step # trace[j].step
    BY <1>0 DEF Carried
  <2>3. \A j \in DOMAIN trace : classify_result(trace[j].result) = "rejected" => \A i \in DOMAIN log' : log'[i].step # trace[j].step
    BY <2>2 DEF LoopInv, Told, Carried
  <2> QED BY <2>1, <2>3 DEF LoopInv, Told
<1>3. HighRiskIsConfirmed'
  BY DEF LoopInv, HighRiskIsConfirmed, Carried
<1> QED BY <1>1, <1>2, <1>3 DEF LoopInv, Confirmed, Stopped

LEMMA CarriedOut ==
  ASSUME LoopInv, Carried, phase \in {"deliver", "verify"}, phase' \in {"step", "finished"},
         UNCHANGED <<step, action, stop, stopAt>>, NEW r \in Results, record_result(r), classify_result(r) # "rejected"
  PROVE  /\ trace' \in Seq(Records)
         /\ (Placed /\ Told /\ Confirmed /\ HighRiskIsConfirmed /\ Stopped)'
<1> DEFINE e == [step |-> step, action |-> action, result |-> r]
<1>0. /\ step \in Nat /\ action \in Actions /\ trace \in Seq(Records) /\ e \in Records /\ trace' = Append(trace, e)
      /\ \A j \in DOMAIN trace : trace[j].step \in Nat /\ trace[j].step < step
  <2>1. step \in Nat /\ action \in Actions /\ trace \in Seq(Records)
    BY StepTypes DEF LoopInv, Placed, Deciding
  <2>2. \A j \in DOMAIN trace : trace[j].step \in Nat
    BY StepTypes DEF LoopInv
  <2> QED BY <2>1, <2>2 DEF LoopInv, Placed, Deciding, Under, Records, record_result
<1> HIDE DEF e
<1>1. /\ trace' \in Seq(Records) /\ DOMAIN trace' = 1..Len(trace) + 1 /\ DOMAIN trace = 1..Len(trace) /\ Len(trace) \in Nat
      /\ \A i \in DOMAIN trace : i \in DOMAIN trace' /\ trace'[i] = trace[i]
      /\ \A i \in DOMAIN trace' : i \in DOMAIN trace \/ i = Len(trace) + 1
      /\ trace'[Len(trace) + 1] = e
  BY <1>0, Grown
<1>2. e.step = step /\ e.action = action /\ e.result = r
  BY DEF e
<1>3. Placed'
  <2>1. \A i \in DOMAIN log' : log'[i].step <= step
    BY <1>0, StepTypes DEF LoopInv, Carried
  <2>2. \A j \in DOMAIN trace' : trace'[j].step <= step
    BY <1>0, <1>1, <1>2
  <2> QED BY <2>1, <2>2 DEF Placed, Deciding, Under
<1>4. Told'
  <2>1. \A i \in DOMAIN log' : Recounted(i)'
    <3> SUFFICES ASSUME NEW i \in DOMAIN log' PROVE Recounted(i)'
      OBVIOUS
    <3>1. CASE i = Len(log')
      <4>1. Len(trace) + 1 \in DOMAIN trace'
        BY <1>1
      <4> QED BY <1>1, <1>2, <3>1, <4>1 DEF Recounted, Carried
    <3>2. CASE i # Len(log')
      <4>1. i \in DOMAIN log /\ log'[i] = log[i] /\ Recounted(i)
        BY <3>2 DEF LoopInv, Told, Carried
      <4> QED BY <1>1, <4>1 DEF Recounted
    <3> QED BY <3>1, <3>2
  <2>2. \A i, j \in DOMAIN trace' : i < j => trace'[i].step < trace'[j].step
    BY <1>0, <1>1, <1>2 DEF LoopInv, Told
  <2>3. \A j \in DOMAIN trace' : classify_result(trace'[j].result) = "rejected" => \A i \in DOMAIN log' : log'[i].step # trace'[j].step
    <3> SUFFICES ASSUME NEW j \in DOMAIN trace', classify_result(trace'[j].result) = "rejected", NEW i \in DOMAIN log'
                 PROVE  log'[i].step # trace'[j].step
      OBVIOUS
    <3>1. j \in DOMAIN trace /\ trace'[j] = trace[j]
      BY <1>1, <1>2
    <3>2. CASE i = Len(log')
      BY <1>0, <3>1, <3>2 DEF Carried
    <3>3. CASE i # Len(log')
      BY <3>1, <3>3 DEF LoopInv, Told, Carried
    <3> QED BY <3>2, <3>3
  <2> QED BY <2>1, <2>2, <2>3 DEF Told
<1>5. HighRiskIsConfirmed'
  BY DEF LoopInv, HighRiskIsConfirmed, Carried
<1> QED BY <1>1, <1>3, <1>4, <1>5 DEF LoopInv, Confirmed, Stopped

LEMMA Delivered ==
  ASSUME LoopInv, phase = "deliver", NEW b \in BOOLEAN, NEW f \in BOOLEAN,
         log' = Append(log, [Entry EXCEPT !.raised = b, !.unfocused = f])
  PROVE  Carried
<1> DEFINE e == [Entry EXCEPT !.raised = b, !.unfocused = f]
<1>1. /\ step \in Nat /\ log \in Seq(Entries) /\ action \in Actions /\ confirmed \in BOOLEAN
      /\ \A i \in DOMAIN log : log[i].step < step
  BY StepTypes, TypeParts DEF LoopInv, Placed, Deciding, DecidedOK
<1>2. e \in Entries /\ e.step = step /\ e.action = action /\ e.confirmed = confirmed /\ e.times = 1
  BY <1>1 DEF Entry, Entries
<1> HIDE DEF e
<1>3. log' = Append(log, e)
  BY DEF e
<1>4. /\ log' \in Seq(Entries) /\ Len(log') = Len(log) + 1 /\ Len(log) \in Nat
      /\ DOMAIN log' = 1..Len(log) + 1 /\ DOMAIN log = 1..Len(log)
      /\ \A i \in DOMAIN log : i \in DOMAIN log' /\ log'[i] = log[i]
      /\ \A i \in DOMAIN log' : i \in DOMAIN log \/ i = Len(log) + 1
      /\ log'[Len(log) + 1] = e
  BY <1>1, <1>2, <1>3, Grown
<1>5. is_high_risk(action) => confirmed
  BY DEF LoopInv, Confirmed
<1>6. log' # <<>> /\ log'[Len(log')] = e
  BY <1>4
<1>7. \A i \in DOMAIN log' : i # Len(log') => i \in DOMAIN log /\ log'[i] = log[i] /\ log[i].step < step
  BY <1>1, <1>4
<1> QED BY <1>2, <1>4, <1>5, <1>6, <1>7 DEF Carried

LEMMA LastOf ==
  ASSUME NEW S, NEW s \in Seq(S), s # <<>>
  PROVE  Len(s) \in DOMAIN s /\ s[Len(s)] \in S
OBVIOUS

(* A delivery made again is the same entry, of an action that is no high    *)
(* risk.                                                                    *)
LEMMA Repeated ==
  ASSUME LoopInv, phase = "verify", NEW e \in Entries, e.step = step, e.action = action,
         Again(e)
  PROVE  Carried
<1>1. /\ log \in Seq(Entries) /\ log # <<>> /\ RetrySafe(action)
      /\ \A i \in DOMAIN log : i # Len(log) => log[i].step < step
  BY StepTypes DEF LoopInv, Placed
<1>2. Len(log) \in DOMAIN log
  BY <1>1, LastOf
<1>3. /\ log' \in Seq(Entries) /\ Len(log') = Len(log) /\ DOMAIN log' = DOMAIN log
      /\ \A i \in DOMAIN log : i # Len(log) => log'[i] = log[i]
      /\ log'[Len(log)] = e /\ log' # <<>>
  BY <1>1, <1>2 DEF Again
<1>4. ~is_high_risk(action)
  BY <1>1 DEF is_high_risk, RetrySafe
<1> QED BY <1>1, <1>3, <1>4 DEF Carried

(* The entry under way, while it is verified. *)
LEMMA UnderWay ==
  ASSUME LoopInv, phase = "verify"
  PROVE  /\ Current \in Entries /\ Current.step = step /\ Current.action = action
         /\ RetrySafe(action) /\ log \in Seq(Entries) /\ log # <<>>
<1>1. log \in Seq(Entries) /\ log # <<>>
  BY StepTypes DEF LoopInv, Placed
<1>2. log[Len(log)] \in Entries
  BY <1>1, LastOf
<1> QED BY <1>1, <1>2 DEF LoopInv, Placed, Current

LEMMA Amended ==
  ASSUME NEW x \in Entries, NEW b \in BOOLEAN
  PROVE  /\ [x EXCEPT !.times = @ + 1, !.raised = b] \in Entries
         /\ [x EXCEPT !.times = @ + 1, !.raised = b].step = x.step
         /\ [x EXCEPT !.times = @ + 1, !.raised = b].action = x.action
         /\ [x EXCEPT !.times = @ + 1, !.unfocused = b] \in Entries
         /\ [x EXCEPT !.times = @ + 1, !.unfocused = b].step = x.step
         /\ [x EXCEPT !.times = @ + 1, !.unfocused = b].action = x.action
<1>1. x.times + 1 \in Nat
  BY DEF Entries
<1> QED BY <1>1 DEF Entries

LEMMA DeliverKeeps == ASSUME LoopInv, NEW out, Deliver(out) PROVE LoopInv'
<1>0. TypeOK /\ cfg' = cfg /\ phase = "deliver" /\ action \in Actions
  BY DEF LoopInv, Deliver, Placed, Deciding
<1>1. UNCHANGED <<cfg, stop, frame, targets, refresh, boost, sent, plan, started, replay, saved, action, verbatim, attempt, confirmed, stall, stopAt>>
  BY DEF Deliver, view, decided
<1>2. Carried
  <2>1. (out \in {"error", "not launched"}) \in BOOLEAN /\ (out = "unfocused") \in BOOLEAN
    OBVIOUS
  <2>2. log' = Append(log, [Entry EXCEPT !.raised = (out \in {"error", "not launched"}), !.unfocused = (out = "unfocused")])
    BY DEF Deliver
  <2> QED BY <1>0, <2>1, <2>2, Delivered
<1>3. out \in {"error", "ran", "unfocused", "invoked", "launched", "not launched"}
  BY DEF Deliver, Outcomes
<1>4. out \in Results /\ classify_result(out) # "rejected"
  BY <1>3 DEF Results, classify_result
<1>5. \/ Finish(7) /\ record_result(out) /\ recorder' = recorder
      \/ Goto("verify") /\ RetrySafe(action) /\ UNCHANGED <<recorder, trace>>
      \/ EndStep(out \notin {"error", "not launched"}, out)
  BY DEF Deliver
<1>6. recorder' \in Seq(Kept)
  <2>1. recorder \in Seq(Kept)
    BY <1>0, TypeParts DEF MacroOK
  <2>2. CASE EndStep(out \notin {"error", "not launched"}, out)
    BY <1>0, <2>2, EndTypes
  <2> QED BY <1>5, <2>1, <2>2
<1>7. RunOK' /\ step' = step
  <2>1. Ends \/ Goes({"verify", "step"})
    <3>1. Finish(7) => Ends
      BY DEF Ends
    <3>2. Goto("verify") \/ Goto("step") => Goes({"verify", "step"})
      BY DEF Goes
    <3> QED BY <1>5, <3>1, <3>2 DEF EndStep
  <2> QED BY <1>0, <2>1, RunTypes DEF Goes, Goto, Phases
<1>8. trace' \in Seq(Records) /\ (Placed /\ Told /\ Confirmed /\ HighRiskIsConfirmed /\ Stopped)'
  <2>1. CASE Goto("verify") /\ RetrySafe(action) /\ UNCHANGED <<recorder, trace>>
    <3>1. trace' \in Seq(Records)
      BY <1>0, <2>1, StepTypes
    <3> QED BY <1>0, <1>1, <1>2, <1>7, <2>1, <3>1, CarriedOn DEF Goto
  <2>2. CASE record_result(out) /\ phase' \in {"step", "finished"}
    BY <1>0, <1>1, <1>2, <1>4, <1>7, <2>2, CarriedOut
  <2> QED BY <1>5, <2>1, <2>2 DEF Finish, EndStep, Goto
<1>9. ViewOK' /\ MacroOK' /\ DecidedOK'
  BY <1>0, <1>1, <1>6, TypeParts DEF ViewOK, MacroOK, DecidedOK
<1>10. log' \in Seq(Entries)
  BY <1>2 DEF Carried
<1>11. StopOK' /\ DoneOK' /\ PlanOK(plan)' /\ started' \in Nat
  BY <1>0, <1>1, <1>8, <1>10, TypeParts DEF StopOK, DoneOK, PlanOK, Notes
<1> QED BY <1>7, <1>8, <1>9, <1>11, Typed DEF LoopInv

LEMMA VerifiedKeeps == ASSUME LoopInv, NEW r \in {"ran", "no change", "error on retry"}, Verified(r) PROVE LoopInv'
<1>0. TypeOK /\ cfg' = cfg /\ phase = "verify" /\ action \in Actions /\ EndStep(TRUE, r)
  BY DEF LoopInv, Verified, Placed
<1>1. UNCHANGED <<cfg, stop, frame, targets, refresh, sent, plan, started, replay, saved, action, verbatim, attempt, confirmed, stall, stopAt>>
  BY DEF Verified, decided
<1>2. Carried
  <2>1. \A i \in DOMAIN log : i # Len(log) => log[i].step < step
    BY <1>0 DEF LoopInv, Placed
  <2>2. CASE log' = log
    BY <1>0, <2>1, <2>2, UnderWay DEF Carried, is_high_risk, RetrySafe, Current
  <2>3. CASE Again([Current EXCEPT !.times = @ + 1, !.raised = TRUE])
    <3> QED BY <1>0, <2>3, UnderWay, Amended, Repeated
  <2> QED BY <2>2, <2>3 DEF Verified
<1>4. r \in Results /\ classify_result(r) # "rejected"
  BY DEF Results, classify_result
<1>6. recorder' \in Seq(Kept)
  BY <1>0, EndTypes
<1>7. RunOK' /\ step' = step /\ phase' = "step"
  <2>1. Goto("step")
    BY <1>0 DEF EndStep
  <2>2. "step" \in Phases \ {"finished"}
    BY DEF Phases
  <2>3. Goes(Phases \ {"finished"}) /\ phase' = "step"
    BY <2>1, <2>2 DEF Goes, Goto
  <2> QED BY <1>0, <2>3, RunTypes
<1>8. trace' \in Seq(Records) /\ (Placed /\ Told /\ Confirmed /\ HighRiskIsConfirmed /\ Stopped)'
  BY <1>0, <1>1, <1>2, <1>4, <1>7, CarriedOut DEF EndStep
<1>9. ViewOK' /\ MacroOK' /\ DecidedOK'
  <2>1. boost' \in BOOLEAN
    BY <1>0, TypeParts DEF ViewOK, Verified
  <2> QED BY <1>0, <1>1, <1>6, <2>1, TypeParts DEF ViewOK, MacroOK, DecidedOK
<1>10. log' \in Seq(Entries)
  BY <1>2 DEF Carried
<1>11. StopOK' /\ DoneOK' /\ PlanOK(plan)' /\ started' \in Nat
  BY <1>0, <1>1, <1>8, <1>10, TypeParts DEF StopOK, DoneOK, PlanOK, Notes
<1> QED BY <1>7, <1>8, <1>9, <1>11, Typed DEF LoopInv

LEMMA RetryKeeps == ASSUME LoopInv, NEW focused \in BOOLEAN, Retry(focused) PROVE LoopInv'
<1>0. TypeOK /\ cfg' = cfg /\ phase = "verify" /\ phase' = phase /\ step' = step /\ attempt' = attempt + 1 /\ rc' = rc
      /\ Again([Current EXCEPT !.times = @ + 1, !.unfocused = @ \/ ~focused])
  BY DEF LoopInv, Retry, run
<1>1. UNCHANGED <<cfg, stop, frame, targets, refresh, boost, sent, plan, started, replay, recorder, saved, action, verbatim, confirmed, stall, trace, stopAt>>
  BY DEF Retry, view, macro
<1>2. Carried /\ RetrySafe(action)
  <2>1. (Current.unfocused \/ ~focused) \in BOOLEAN
    OBVIOUS
  <2>2. Again([Current EXCEPT !.times = @ + 1, !.unfocused = (Current.unfocused \/ ~focused)])
    BY <1>0
  <2> QED BY <1>0, <2>1, <2>2, UnderWay, Amended, Repeated
<1>3. RunOK'
  BY <1>0, TypeParts DEF RunOK
<1>8. (Placed /\ Told /\ Confirmed /\ HighRiskIsConfirmed /\ Stopped)'
  BY <1>0, <1>1, <1>2, CarriedOn
<1>9. ViewOK' /\ MacroOK' /\ DecidedOK'
  BY <1>0, <1>1, TypeParts DEF ViewOK, MacroOK, DecidedOK
<1>10. log' \in Seq(Entries)
  BY <1>2 DEF Carried
<1>11. StopOK' /\ DoneOK' /\ PlanOK(plan)' /\ started' \in Nat
  BY <1>0, <1>1, <1>10, TypeParts DEF StopOK, DoneOK, PlanOK, Notes
<1> QED BY <1>3, <1>8, <1>9, <1>11, Typed DEF LoopInv

-----------------------------------------------------------------------------
(* Every step keeps the invariant. *)

LEMMA StepKeeps == ASSUME LoopInv, Unstalled, Next PROVE LoopInv'
BY StartKeeps, EndKeeps, SkipKeeps, ReplayKeeps, ObserveKeeps, StopKeeps, AnswerKeeps, ModelFailsKeeps,
   DoneKeeps, LookKeeps, AskKeeps, NotRunKeeps, CheckKeeps, ConfirmKeeps, DeliverKeeps, VerifiedKeeps, RetryKeeps
   DEF Next

(* Only the check moves the stall counter; at the limit it ends the run.    *)
LEMMA StallKeeps == ASSUME LoopInv, Unstalled, Next PROVE Unstalled'
<1>1. CASE Check
  <2>1. stall \in Notes /\ StallLimit \in Nat \ {0} /\ phase = "act"
    BY <1>1, TypeParts, LoopConstants DEF LoopInv, DoneOK, Check, Acting
  <2>2. stall.count \in 0..StallLimit /\ stall.count < StallLimit
    BY <2>1 DEF Notes, Unstalled
  <2>3. PICK n \in Nat : /\ stall' = IF action.kind \in Benign THEN stall ELSE Stalled(n)
                         /\ action.kind \notin Benign /\ n >= StallLimit => phase' = "finished"
    <3> DEFINE same == stall.sig = action /\ stall.frame = frame
               m == IF same THEN stall.count + 1 ELSE 0
    <3>1. m \in Nat
      BY <2>1, <2>2
    <3>2. /\ stall' = IF action.kind \in Benign THEN stall ELSE Stalled(m)
          /\ action.kind \notin Benign /\ m >= StallLimit => phase' = "finished"
      BY <1>1 DEF Check, Finish
    <3> HIDE DEF m
    <3> QED BY <3>1, <3>2
  <2>4. Stalled(n).count = n
    BY DEF Stalled
  <2> QED BY <2>1, <2>2, <2>3, <2>4 DEF Unstalled
<1>2. CASE ~Check
  <2>1. stall' = stall /\ phase # "finished"
    <3>1. CASE Start \/ EndOfLoop \/ SkipSubtask \/ Replay \/ Observe \/ AskToStop
      BY <3>1 DEF Start, EndOfLoop, SkipSubtask, Replay, Observe, AskToStop, BeginStep
    <3>2. CASE (\E a \in Choices : Answer(a)) \/ (\E transient \in BOOLEAN : ModelFails(transient))
      BY <3>2 DEF Answer, ModelFails
    <3>3. CASE Done \/ Look \/ ask_user \/ NotRun
      BY <3>3 DEF Done, Look, ask_user, NotRun, Acting, Steady
    <3>4. CASE \E yes \in BOOLEAN : Confirm(yes)
      BY <3>4 DEF Confirm
    <3>5. CASE \E out : Deliver(out)
      BY <3>5 DEF Deliver
    <3>6. CASE \E r : Verified(r) \/ Retry(r)
      BY <3>6 DEF Verified, Retry
    <3> QED BY <1>2, <3>1, <3>2, <3>3, <3>4, <3>5, <3>6 DEF Next
  <2> QED BY <2>1 DEF Unstalled
<1> QED BY <1>1, <1>2

LEMMA InitHolds == ASSUME Init PROVE LoopInv /\ Unstalled
<1>1. RunOK /\ StopOK
  <2>1. cfg \in Configs /\ cfg.max_steps \in Nat
    BY LoopConstants DEF Init
  <2>2. phase = "start" /\ rc = None /\ step = 0 /\ stop = FALSE /\ stopAt = None
    BY DEF Init
  <2>3. step \in 0..cfg.max_steps
    BY <2>1, <2>2
  <2>4. phase \in Phases /\ (phase = "finished") = FALSE /\ (rc # None) = FALSE
    BY <2>2 DEF Phases
  <2>5. RunOK
    BY <2>2, <2>3, <2>4 DEF RunOK
  <2>6. StopOK
    BY <2>1, <2>2 DEF StopOK
  <2> QED BY <2>5, <2>6
<1>2. ViewOK /\ PlanOK(plan) /\ started \in Nat /\ MacroOK /\ DecidedOK
  <2>1. ViewOK /\ PlanOK(plan) /\ started \in Nat
    BY DEF Init, ViewOK, PlanOK
  <2>2. replay = <<>> /\ recorder = <<>> /\ saved = None
    BY DEF Init
  <2>3. action = None /\ verbatim = None /\ attempt = 0 /\ confirmed = FALSE
    BY DEF Init
  <2>4. MacroOK
    BY <2>2 DEF MacroOK
  <2>5. DecidedOK
    BY <2>3 DEF DecidedOK
  <2> QED BY <2>1, <2>4, <2>5
<1>3. DoneOK
  BY LoopConstants DEF Init, DoneOK, Notes
<1>4. TypeOK
  BY <1>1, <1>2, <1>3 DEF RunOK, ViewOK, PlanOK, MacroOK, DecidedOK, StopOK, DoneOK, TypeOK, Phases, Notes, Records, Entries
<1>5. Placed /\ Told /\ HighRiskIsConfirmed
  BY DEF Init, Placed, Told, HighRiskIsConfirmed, Deciding, Under
<1>6. Confirmed /\ Stopped /\ Unstalled
  BY LoopConstants DEF Init, Confirmed, Stopped, Unstalled
<1> QED BY <1>4, <1>5, <1>6 DEF LoopInv

-----------------------------------------------------------------------------
(* The theorems. *)

(* In every run the loop is in one of the states TypeOK describes, and the  *)
(* bookkeeping of a step, its entries and its end agree.                    *)
THEOREM Inductive == Spec => [](LoopInv /\ Unstalled)
<1>1. Init => LoopInv /\ Unstalled
  BY InitHolds
<1>2. LoopInv /\ Unstalled /\ [Next]_vars => (LoopInv /\ Unstalled)'
  <2>1. CASE Next
    BY <2>1, StepKeeps, StallKeeps
  <2>2. CASE UNCHANGED vars
    <3>1. UNCHANGED <<cfg, phase, step, rc, stop, stopAt, frame, targets, refresh, boost, sent, plan, started>>
      BY <2>2 DEF vars, run, view
    <3>2. UNCHANGED <<replay, recorder, saved, action, verbatim, attempt, confirmed, stall, trace, log>>
      BY <2>2 DEF vars, macro, decided
    <3>3. TypeOK => TypeOK'
      BY <3>1, <3>2 DEF TypeOK
    <3>4. Placed /\ Told /\ HighRiskIsConfirmed => Placed' /\ Told' /\ HighRiskIsConfirmed'
      BY <3>1, <3>2 DEF Placed, Told, Recounted, HighRiskIsConfirmed
    <3>5. Confirmed /\ Stopped /\ Unstalled => Confirmed' /\ Stopped' /\ Unstalled'
      BY <3>1, <3>2 DEF Confirmed, Stopped, Unstalled
    <3> QED BY <3>3, <3>4, <3>5 DEF LoopInv
  <2> QED BY <2>1, <2>2
<1> QED BY <1>1, <1>2, PTL DEF Spec

(* Types: the states run of loop.py can be in.                              *)
THEOREM TypeCorrect == Spec => []TypeOK
BY Inductive, PTL DEF LoopInv

(* Whatever the mode, the macro or the plan, an `open', `run_elevated' or   *)
(* `save_key' is delivered once for each time the operator confirmed it.    *)
THEOREM HighRiskHolds == Spec => []HighRiskIsConfirmed
BY Inductive, PTL DEF LoopInv

(* After should_stop has become true, nothing is delivered but what the     *)
(* step under way decided.                                                  *)
THEOREM StopHolds == Spec => []StopWithinAStep
<1>1. LoopInv => StopWithinAStep
  BY DEF LoopInv, Stopped, Placed, StopWithinAStep
<1> QED BY Inductive, <1>1, PTL

(* On every way out of the loop the trace has an entry for each delivery,   *)
(* and no delivery is behind an entry that reads as a rejection.            *)
THEOREM TraceHolds == Spec => []TraceTellsAll
<1>1. LoopInv => TraceTellsAll
  BY DEF LoopInv, Told, Recounted, TraceTellsAll
<1> QED BY Inductive, <1>1, PTL

-----------------------------------------------------------------------------
(* The exit code.  A plan's sub-tasks are counted: each completed one has   *)
(* its `done' in the trace.                                                 *)

DoneAt == {j \in DOMAIN trace : trace[j].action.kind = "done"}

Counted ==
  /\ phase = "start" => plan = None /\ trace = <<>>
  /\ phase \in {"confirm", "deliver", "verify"} => action.kind # "done"
  /\ plan # None => /\ plan.left + plan.completed + plan.skipped = cfg.subtasks
                    /\ phase # "finished" => plan.left # 0
                    /\ Cardinality(DoneAt) = plan.completed
  /\ rc = 0 => /\ trace # <<>> /\ trace[Len(trace)].action.kind = "done"
               /\ plan # None => plan.left = 0 /\ plan.skipped = 0

LEMMA DoneFinite == ASSUME TypeOK PROVE IsFiniteSet(DoneAt)
<1>1. Len(trace) \in Nat /\ DOMAIN trace = 1..Len(trace)
  BY StepTypes
<1>2. IsFiniteSet(1..Len(trace))
  BY <1>1, FS_Interval
<1> QED BY <1>1, <1>2, FS_Subset DEF DoneAt

LEMMA DoneGrows ==
  ASSUME TypeOK, action \in Actions, NEW r \in Results, record_result(r)
  PROVE  /\ trace' # <<>> /\ trace'[Len(trace')].action = action
         /\ action.kind # "done" => DoneAt' = DoneAt
         /\ action.kind = "done" => Cardinality(DoneAt') = Cardinality(DoneAt) + 1
<1> DEFINE e == [step |-> step, action |-> action, result |-> r]
<1>1. e \in Records /\ trace \in Seq(Records) /\ trace' = Append(trace, e) /\ e.action = action
  BY StepTypes DEF Records, record_result
<1> HIDE DEF e
<1>2. /\ Len(trace') = Len(trace) + 1 /\ Len(trace) \in Nat /\ DOMAIN trace' = 1..Len(trace) + 1 /\ DOMAIN trace = 1..Len(trace)
      /\ \A i \in DOMAIN trace : i \in DOMAIN trace' /\ trace'[i] = trace[i]
      /\ \A i \in DOMAIN trace' : i \in DOMAIN trace \/ i = Len(trace) + 1
      /\ trace'[Len(trace) + 1] = e
  BY <1>1, Grown
<1>3. trace' # <<>> /\ trace'[Len(trace')].action = action
  BY <1>1, <1>2
<1>4. CASE action.kind # "done"
  <2>1. DoneAt' = DoneAt
    BY <1>1, <1>2, <1>4 DEF DoneAt
  <2> QED BY <1>3, <1>4, <2>1
<1>5. CASE action.kind = "done"
  <2>1. DoneAt' = DoneAt \cup {Len(trace) + 1} /\ Len(trace) + 1 \notin DoneAt
    BY <1>1, <1>2, <1>5 DEF DoneAt
  <2>2. Cardinality(DoneAt') = Cardinality(DoneAt) + 1
    BY <2>1, DoneFinite, FS_AddElement
  <2> QED BY <1>3, <1>5, <2>2
<1> QED BY <1>4, <1>5

(* The steps that leave the plan alone. *)
LEMMA PlanUntouched ==
  ASSUME LoopInv, Counted, phase # "finished", plan' = plan, cfg' = cfg, rc' # 0,
         \/ trace' = trace
         \/ phase # "start" /\ action \in Actions /\ action.kind # "done" /\ \E r \in Results : record_result(r),
         phase' = "start" => phase = "start" /\ trace' = trace,
         phase' \in {"confirm", "deliver", "verify"} => action'.kind # "done"
  PROVE  Counted'
<1>1. DoneAt' = DoneAt
  BY DoneGrows DEF LoopInv, DoneAt
<1> QED BY <1>1 DEF Counted

(* The exit code of a delivery without focus. *)
LEMMA LostFocus == 7 # 0
OBVIOUS

LEMMA Running == ASSUME TypeOK, phase # "finished" PROVE rc = None /\ rc # 0
BY ConfigTypes DEF TypeOK

LEMMA EndCounts == ASSUME LoopInv, Counted, EndOfLoop \/ AskToStop \/ Replay \/ Observe PROVE Counted'
<1>1. phase # "finished" /\ plan' = plan /\ cfg' = cfg /\ trace' = trace
  BY DEF EndOfLoop, AskToStop, Replay, Observe, BeginStep
<1>2. rc' # 0
  <2>1. rc' \in {rc, 3, 5, 4}
    BY DEF EndOfLoop, AskToStop, Replay, Observe, run, Finish
  <2> QED BY <1>1, <2>1, Running DEF LoopInv
<1>3. (phase' = phase /\ action' = action) \/ phase' \in {"finished", "act", "model"}
  BY DEF EndOfLoop, AskToStop, Replay, Observe, run, decided, Finish
<1>4. /\ phase' = "start" => phase = "start"
      /\ phase' \in {"confirm", "deliver", "verify"} => action'.kind # "done"
  BY <1>3 DEF Counted
<1> QED BY <1>1, <1>2, <1>4, PlanUntouched

LEMMA ModelCounts ==
  ASSUME LoopInv, Counted, (\E a \in Choices : Answer(a)) \/ \E transient \in BOOLEAN : ModelFails(transient)
  PROVE  Counted'
<1>1. phase # "finished" /\ plan' = plan /\ cfg' = cfg /\ trace' = trace
  BY DEF Answer, ModelFails
<1>2. rc' # 0 /\ phase' \in {"step", "act", "model", "finished"}
  <2>1. rc' \in {rc, 1, 5} /\ phase' \in {"step", "act", "model", "finished"}
    BY DEF Answer, ModelFails, Finish, Goto
  <2> QED BY <1>1, <2>1, Running DEF LoopInv
<1> QED BY <1>1, <1>2, PlanUntouched

LEMMA ActCounts ==
  ASSUME LoopInv, Counted, Look \/ ask_user \/ NotRun \/ Check \/ \E yes \in BOOLEAN : Confirm(yes)
  PROVE  Counted'
<1>1. /\ phase \in {"act", "confirm"} /\ plan' = plan /\ cfg' = cfg /\ action' = action
      /\ action.kind # "done" /\ action \in Actions
  <2>1. phase \in {"act", "confirm"} /\ plan' = plan /\ cfg' = cfg /\ action' = action
    BY DEF Look, ask_user, NotRun, Check, Confirm, Acting, Steady, decided
  <2>2. action.kind # "done"
    BY DEF Look, ask_user, NotRun, Check, Confirm, Counted
  <2> QED BY <2>1, <2>2 DEF LoopInv, Placed, Deciding
<1>2. rc' # 0 /\ phase' # "start"
  <2>1. rc' \in {rc, 2, 6} /\ phase' # "start"
    BY DEF Look, ask_user, NotRun, Check, Confirm, Finish, Goto
  <2> QED BY <1>1, <2>1, Running DEF LoopInv
<1>3. trace' = trace \/ \E r \in Results : record_result(r)
  <2>1. CASE Look \/ ask_user
    BY <2>1 DEF Look, ask_user, Results
  <2>2. CASE NotRun
    <3>1. \E r \in {"watching", "remembered", "refused", "skipped", "elevation off"} : record_result(r)
      BY <2>2 DEF NotRun
    <3> QED BY <3>1 DEF Results
  <2>3. CASE Check \/ \E yes \in BOOLEAN : Confirm(yes)
    <3>1. trace' = trace \/ \E r \in {"refused by plan gate", "skipped"} : record_result(r)
      BY <2>3 DEF Check, Confirm
    <3> QED BY <3>1 DEF Results
  <2> QED BY <2>1, <2>2, <2>3
<1> QED BY <1>1, <1>2, <1>3, PlanUntouched

LEMMA DeliveryCounts ==
  ASSUME LoopInv, Counted,
         \/ \E out \in {"error", "ran", "unfocused", "invoked", "launched", "not launched"} : Deliver(out)
         \/ \E r \in {"ran", "no change", "error on retry"} : Verified(r)
         \/ \E focused \in BOOLEAN : Retry(focused)
  PROVE  Counted'
<1>1. /\ phase \in {"deliver", "verify"} /\ plan' = plan /\ cfg' = cfg /\ action' = action
      /\ action.kind # "done" /\ action \in Actions
  <2>1. phase \in {"deliver", "verify"} /\ plan' = plan /\ cfg' = cfg /\ action' = action
    BY DEF Deliver, Verified, Retry, decided
  <2> QED BY <2>1 DEF LoopInv, Placed, Deciding, Counted
<1>2. rc' # 0 /\ phase' # "start"
  <2>1. rc' \in {rc, 7} /\ phase' # "start"
    BY <1>1 DEF Deliver, Verified, Retry, EndStep, Finish, Goto, run
  <2>2. phase # "finished" /\ TypeOK
    BY <1>1 DEF LoopInv
  <2>3. rc # 0
    BY <2>2, Running
  <2> QED BY <2>1, <2>3, LostFocus
<1>3. trace' = trace \/ \E r \in Results : record_result(r)
  <2>1. trace' = trace \/ \E r \in {"error", "ran", "unfocused", "invoked", "launched", "not launched", "no change", "error on retry"} : record_result(r)
    BY DEF Deliver, Verified, Retry, EndStep
  <2> QED BY <2>1 DEF Results
<1> QED BY <1>1, <1>2, <1>3, PlanUntouched

LEMMA StartCounts == ASSUME LoopInv, Counted, Start PROVE Counted'
<1>1. /\ phase = "start" /\ trace' = trace /\ trace = <<>> /\ cfg' = cfg /\ cfg.subtasks \in Nat /\ TypeOK
      /\ plan' = None \/ (cfg.subtasks > 0 /\ plan' = [left |-> cfg.subtasks, completed |-> 0, skipped |-> 0])
  BY ConfigTypes DEF Start, Counted, LoopInv
<1>2. phase' \in {"step", "finished"} /\ rc' # 0
  <2>1. phase' \in {"step", "finished"} /\ rc' \in {rc, 1, 2, 4, 7}
    BY DEF Start, Briefed, Finish, Goto
  <2> QED BY <1>1, <2>1, Running
<1>3. DoneAt' = {} /\ Cardinality(DoneAt') = 0
  <2>1. DoneAt' = {}
    BY <1>1 DEF DoneAt
  <2> QED BY <2>1, FS_EmptySet
<1> QED BY <1>1, <1>2, <1>3 DEF Counted

LEMMA PlanCounts ==
  ASSUME LoopInv, Counted, plan # None
  PROVE  /\ plan \in [left : Nat, completed : Nat, skipped : Nat]
         /\ plan.left \in Nat /\ plan.completed \in Nat /\ plan.skipped \in Nat /\ cfg.subtasks \in Nat
<1>1. plan \in [left : 0..cfg.subtasks, completed : Nat, skipped : Nat] /\ cfg.subtasks \in Nat
  BY ConfigTypes DEF LoopInv, TypeOK
<1> QED BY <1>1

LEMMA SkipCounts == ASSUME LoopInv, Counted, SkipSubtask PROVE Counted'
<1>1. /\ phase = "step" /\ plan # None /\ plan.left # 0 /\ plan' = [plan EXCEPT !.left = @ - 1, !.skipped = @ + 1]
      /\ cfg' = cfg /\ trace' = trace /\ (plan.left = 1 => phase' = "finished" /\ rc' = 3)
      /\ (plan.left # 1 => phase' = phase /\ rc' = rc)
  BY DEF SkipSubtask, BeginStep, Planned, is_done, skip_current
<1>2. rc' # 0 /\ phase' \in {"step", "finished"}
  BY <1>1, Running DEF LoopInv
<1>3. /\ plan'.left = plan.left - 1 /\ plan'.completed = plan.completed /\ plan'.skipped = plan.skipped + 1
  BY <1>1, PlanCounts
<1>4. DoneAt' = DoneAt
  BY <1>1 DEF DoneAt
<1> QED BY <1>1, <1>2, <1>3, <1>4, PlanCounts DEF Counted

LEMMA DoneCounts == ASSUME LoopInv, Counted, Done PROVE Counted'
<1>1. /\ phase = "act" /\ cfg' = cfg /\ action \in Actions /\ action.kind = "done" /\ record_result("done") /\ TypeOK
      /\ "done" \in Results
  BY DEF Done, Acting, LoopInv, Placed, Deciding, Results
<1>2. trace' # <<>> /\ trace'[Len(trace')].action.kind = "done" /\ Cardinality(DoneAt') = Cardinality(DoneAt) + 1
  BY <1>1, DoneGrows
<1>3. CASE plan = None
  <2>1. plan' = None /\ phase' = "finished" /\ rc' = 0
    BY <1>3 DEF Done, Planned, Finish
  <2> QED BY <1>2, <2>1 DEF Counted
<1>4. CASE plan # None
  <2>1. plan.left # 0 /\ plan.left + plan.completed + plan.skipped = cfg.subtasks /\ Cardinality(DoneAt) = plan.completed
    BY <1>1, <1>4 DEF Counted
  <2>2. /\ plan' = [plan EXCEPT !.left = @ - 1, !.completed = @ + 1]
        /\ plan.left > 1 => phase' = "step" /\ rc' = rc
        /\ ~(plan.left > 1) => phase' = "finished" /\ rc' = IF plan.skipped = 0 THEN 0 ELSE 3
    BY <1>4, <2>1 DEF Done, Planned, is_done, complete_current, Goto, Finish
  <2>3. plan'.left = plan.left - 1 /\ plan'.completed = plan.completed + 1 /\ plan'.skipped = plan.skipped
    BY <1>4, <2>2, PlanCounts
  <2>4. rc # 0
    BY <1>1, Running
  <2>5. plan.left \in Nat /\ plan.completed \in Nat /\ plan.skipped \in Nat /\ cfg.subtasks \in Nat
    BY <1>4, PlanCounts
  <2>6. /\ plan'.left + plan'.completed + plan'.skipped = cfg.subtasks
        /\ Cardinality(DoneAt') = plan'.completed
    <3>1. (plan.left - 1) + (plan.completed + 1) + plan.skipped = cfg.subtasks
      BY <2>1, <2>5
    <3>2. Cardinality(DoneAt') = plan.completed + 1
      BY <1>2, <2>1
    <3> QED BY <2>3, <3>1, <3>2
  <2>7. CASE plan.left > 1
    BY <1>1, <2>2, <2>3, <2>4, <2>5, <2>6, <2>7 DEF Counted
  <2>8. CASE ~(plan.left > 1)
    <3>1. plan'.left = 0 /\ plan'.skipped = plan.skipped
      BY <2>1, <2>3, <2>5, <2>8
    <3>2. rc' = 0 => plan.skipped = 0
      BY <2>2, <2>8
    <3> QED BY <1>1, <1>2, <2>2, <2>6, <2>8, <3>1, <3>2 DEF Counted
  <2> QED BY <2>7, <2>8
<1> QED BY <1>3, <1>4

(* Exit code 0 is returned only after the model said done, for every        *)
(* sub-task of the plan if there was one: a sub-task that was given up      *)
(* shows in the exit code.                                                  *)
THEOREM ZeroHolds == Spec => []ZeroIsAllDone
<1>1. Init => Counted
  BY Running, InitHolds DEF Init, Counted, LoopInv
<1>2. LoopInv /\ Counted /\ [Next]_vars => Counted'
  <2>1. CASE Next
    BY <2>1, EndCounts, ModelCounts, ActCounts, DeliveryCounts, StartCounts, SkipCounts, DoneCounts DEF Next
  <2>2. CASE UNCHANGED vars
    BY <2>2 DEF vars, run, decided, Counted, DoneAt
  <2> QED BY <2>1, <2>2
<1>3. LoopInv /\ Counted => ZeroIsAllDone
  BY PlanCounts DEF Counted, DoneAt, ZeroIsAllDone
<1> QED BY Inductive, <1>1, <1>2, <1>3, PTL DEF Spec
=============================================================================
