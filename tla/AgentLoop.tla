----------------------------- MODULE AgentLoop ------------------------------
(***************************************************************************)
(* The desktop agent's loop (loop.py, run): frame, model, gates, delivery, *)
(* verification, record - with the plan that a long task is split into     *)
(* (plan.py), the macro replayed and recorded (macro.py) and the execution *)
(* trace (trace.py).  Another thread may ask it to stop at any time.       *)
(*                                                                         *)
(* The model, the operator, the plan gate, the screen and the backend may  *)
(* do anything at every call.  An action has a kind and the target it acts *)
(* on; pixel kinds other than a left click behave like it.  The platform   *)
(* is Windows or Linux (on macOS the image is always the accessibility     *)
(* figure).  Prompts, images and waiting times are left out.               *)
(***************************************************************************)
EXTENDS Integers, Sequences, FiniteSets

CONSTANTS
  None,
  Configs,     \* the AgentConfigs to run with
  Choices,     \* the actions a model may choose
  Frames,      \* what a screenshot may show
  Elements,    \* the elements of the accessibility tree
  Allowed,     \* elevated_allowlist, as targets of run_elevated
  StallLimit, Retries, SubtaskLimit, TransientRetries

(* The actions there are: a model's choice, or a step of a macro.           *)
Actions == Choices \cup UNION {{c.macro[i] : i \in DOMAIN c.macro} : c \in Configs}

ASSUME LoopConstants ==
  /\ None \notin Actions /\ None \notin 0..7 /\ \A c \in Configs : None \notin 0..c.max_steps
  /\ \A c \in Configs : c.max_steps \in Nat /\ c.subtasks \in Nat /\ c.macro \in Seq(Actions)
  /\ StallLimit \in Nat \ {0} /\ Retries \in Nat /\ SubtaskLimit \in Nat /\ TransientRetries \in Nat

VARIABLES
  cfg,
  phase,      \* where in the step the loop is
  step,       \* the steps begun
  rc,         \* the exit code, or None
  stop,       \* should_stop
  frame,      \* raw_png of this step
  targets,    \* last_targets: the listing the model was shown
  refresh, boost,        \* refresh_view, boost_detail
  sent,       \* the frame of the last image sent (last_sent_hash), and whether in detail
  plan,       \* the Plan: sub-tasks left, completed, skipped; or None
  started,    \* subtask_started
  replay,     \* the macro steps left to replay
  recorder,   \* the steps recorded
  saved,      \* the macro file written at the end, or None
  action,     \* the action of this step, or None
  verbatim,   \* the macro step it was replayed from, or None
  attempt,    \* failed model calls, or retries of a delivery
  confirmed,  \* the operator confirmed this step's action
  stall,      \* stall_count, prev_exec_sig and prev_exec_frame
  trace,      \* the execution trace
  log,        \* history: what was delivered, one entry per step
  stopAt      \* history: the step in which stop was asked for, or None

run == <<phase, step, rc>>
view == <<frame, targets, refresh, boost, sent>>
macro == <<replay, recorder, saved>>
decided == <<action, verbatim, attempt, confirmed>>
vars == <<cfg, run, stop, view, plan, started, macro, decided, stall, trace, log, stopAt>>

-----------------------------------------------------------------------------
(* What the kinds are. *)

Benign == {"wait", "look"}
Pixel == {"left_click"}
is_high_risk(a) == a.kind \in {"open", "run_elevated", "save_key"}
is_mutating(a) == a.kind \in {"open", "run_elevated", "save_key", "type"}
RetrySafe(a) == a.kind \in {"left_click", "click_element"}
Listed(a) == a.kind = "click_element" \/ (a.kind = "type" /\ a.target # None)

(* MacroRecorder.record: what is kept of an action.  A field typed into by  *)
(* its reference has no position, so that only the text is kept.            *)
Recorded(a) == [a EXCEPT !.target = IF a.kind = "type" THEN None ELSE @]

(* classify_result: how a step came out, for episodic memory. *)
classify_result(r) ==
  CASE r \in {"refused by plan gate", "skipped", "refused"} -> "rejected"
    [] r \in {"error", "not launched"} -> "failed"
    [] r = "no change" -> "no_change"
    [] OTHER -> "ok"

-----------------------------------------------------------------------------
Init ==
  /\ cfg \in Configs
  /\ phase = "start" /\ step = 0 /\ rc = None
  /\ stop = FALSE /\ stopAt = None
  /\ frame = None /\ targets = {} /\ refresh = TRUE /\ boost = FALSE /\ sent = None
  /\ plan = None /\ started = 1
  /\ replay = <<>> /\ recorder = <<>> /\ saved = None
  /\ action = None /\ verbatim = None /\ attempt = 0 /\ confirmed = FALSE
  /\ stall = [count |-> 0, sig |-> None, frame |-> None]
  /\ trace = <<>> /\ log = <<>>

Finish(code) == phase' = "finished" /\ rc' = code /\ UNCHANGED step
Goto(p) == phase' = p /\ UNCHANGED <<step, rc>>
record_result(r) == trace' = Append(trace, [step |-> step, action |-> action, result |-> r])

(* _run_briefing: the plan is put to the operator, or the model's own words *)
Briefed == IF cfg.gui /\ cfg.confirm_each THEN {None, 1, 2, 4} ELSE {None}

(* run, up to its first step: briefing, macro, plan, initial focus. *)
Start ==
  /\ phase = "start"
  /\ \E b \in Briefed, focus \in BOOLEAN :
       IF b # None THEN Finish(b)
       ELSE IF ~focus /\ cfg.require_focus THEN Finish(7) ELSE Goto("step")
  /\ \E readable \in BOOLEAN : replay' = IF readable /\ ~cfg.watch THEN cfg.macro ELSE <<>>
  /\ \E planned \in BOOLEAN :
       plan' = IF planned /\ cfg.subtasks > 0 /\ ~cfg.watch
               THEN [left |-> cfg.subtasks, completed |-> 0, skipped |-> 0] ELSE None
  /\ UNCHANGED <<cfg, stop, view, started, recorder, saved, decided, stall, trace, log, stopAt>>

is_done == plan.left = 0
Planned == plan # None /\ ~is_done
complete_current == plan' = [plan EXCEPT !.left = @ - 1, !.completed = @ + 1]
skip_currentCompletes == plan' = [plan EXCEPT !.left = @ - 1, !.completed = @ + 1]
skip_current == plan' = [plan EXCEPT !.left = @ - 1, !.skipped = @ + 1]

StopSeenInReplayOnly == stop /\ replay # <<>>
StopSeen == stop

(* The top of the loop, when it ends the run. *)
EndOfLoop ==
  /\ phase = "step"
  /\ IF step = cfg.max_steps THEN Finish(3)
     ELSE IF StopSeen THEN Finish(5)
     ELSE Finish(4)   \* CaptureError
  /\ UNCHANGED <<cfg, stop, view, plan, started, macro, decided, stall, trace, log, stopAt>>

BeginStep ==
  /\ phase = "step" /\ step < cfg.max_steps /\ ~StopSeen
  /\ step' = step + 1
  /\ frame' \in Frames
  /\ attempt' = 0 /\ confirmed' = FALSE
  /\ UNCHANGED <<cfg, stop, recorder, saved, refresh, boost, sent, stall, trace, log, stopAt>>

(* A sub-task over its budget is skipped, which takes a step. *)
SkipSubtask ==
  /\ BeginStep
  /\ Planned /\ step + 1 - started >= SubtaskLimit
  /\ skip_current
  /\ started' = step + 1
  /\ IF plan.left = 1 THEN phase' = "finished" /\ rc' = 3 ELSE UNCHANGED <<phase, rc>>
  /\ UNCHANGED <<replay, action, verbatim, targets>>

WithinBudget == ~(Planned /\ step + 1 - started >= SubtaskLimit)

(* resolve_replay_step: the next macro step, unless its target is gone:     *)
(* then the model decides for the rest of the run.                          *)
Replay ==
  /\ BeginStep /\ WithinBudget
  /\ replay # <<>>
  /\ action' = Head(replay) /\ verbatim' = Head(replay)
  /\ replay' = Tail(replay)
  /\ phase' = "act" /\ UNCHANGED <<rc, targets, plan, started>>

(* The listing the model is shown: the live tree, or the last one known.    *)
coalesce_element_targets(live) == IF live # {} THEN live ELSE targets

Observe ==
  /\ BeginStep /\ WithinBudget
  /\ replay # <<>> => Head(replay).target # None
  /\ replay' = <<>>
  /\ \E live \in {{}, Elements} : targets' = IF cfg.desktop_ax THEN coalesce_element_targets(live) ELSE {}
  /\ action' = None /\ verbatim' = None
  /\ phase' = "model" /\ UNCHANGED <<rc, plan, started>>

(* should_omit_screenshot: the listing is enough, no image is sent.         *)
omit_image == cfg.desktop_ax /\ targets # {} /\ ~refresh /\ ~boost

(* With a listing, the image that was sent last (cached_frame) is sent      *)
(* again, of whatever frame it was.                                         *)
cached == cfg.desktop_ax /\ sent # None /\ targets # {} /\ ~refresh

(* The image of the last frame is sent again when nothing has changed.      *)
screen_unchanged == ~refresh /\ sent # None /\ sent.frame = frame

(* The model answers.  A coordinate of an image it was not shown, or a      *)
(* reference that is not in the listing, goes into its history only.        *)
Answer(a) ==
  /\ phase = "model"
  /\ attempt' = 0
  /\ IF omit_image \/ cached \/ screen_unchanged THEN UNCHANGED <<boost, sent>>
     ELSE sent' = [frame |-> frame, detail |-> boost] /\ boost' = FALSE
  /\ IF omit_image /\ a.kind \in Pixel
     THEN Goto("step") /\ refresh' = TRUE /\ UNCHANGED action
     ELSE IF Listed(a) /\ a.target \notin targets
     THEN Goto("step") /\ refresh' = FALSE /\ UNCHANGED action
     ELSE Goto("act") /\ refresh' = FALSE /\ action' = a
  /\ UNCHANGED <<cfg, stop, frame, targets, plan, started, macro, verbatim, confirmed, stall, trace, log, stopAt>>

(* The call fails: at once, for good, or it is made again after a while.    *)
ModelFails(transient) ==
  /\ phase = "model"
  /\ IF ~transient \/ attempt >= TransientRetries THEN Finish(1)
     ELSE IF stop THEN Finish(5) ELSE Goto("model")
  /\ attempt' = attempt + 1
  /\ UNCHANGED <<cfg, stop, view, plan, started, macro, action, verbatim, confirmed, stall, trace, log, stopAt>>

-----------------------------------------------------------------------------
(* The action is known. *)

Acting == phase = "act" /\ UNCHANGED <<cfg, stop, frame, targets, sent, decided, log, stopAt>>
Steady == UNCHANGED <<refresh, boost, plan, started, macro, stall>>

(* done: the sub-task, or the run; then the macro is saved.                 *)
Done ==
  /\ Acting /\ action.kind = "done"
  /\ IF Planned THEN complete_current /\ started' = step ELSE UNCHANGED <<plan, started>>
  /\ IF Planned /\ plan.left > 1
     THEN Goto("step") /\ UNCHANGED saved
     ELSE /\ Finish(IF plan = None THEN 0 ELSE IF plan.skipped = 0 THEN 0 ELSE 3)
          /\ saved' = IF cfg.macro_path /\ recorder # <<>> THEN recorder ELSE saved
  /\ record_result("done")
  /\ UNCHANGED <<refresh, boost, replay, recorder, stall>>

Look ==
  /\ Acting /\ action.kind = "look"
  /\ refresh' = TRUE /\ boost' = TRUE
  /\ record_result("look") /\ Goto("step")
  /\ UNCHANGED <<plan, started, macro, stall>>

ask_user ==
  /\ Acting /\ action.kind = "ask_user"
  /\ Steady
  /\ \/ record_result("answered") /\ Goto("step")
     \/ Finish(2) /\ UNCHANGED trace

Blocked ==
  \/ cfg.dry_run
  \/ cfg.read_only /\ is_mutating(action)
is_permitted(a) == a.target \in Allowed

(* What is recorded without being carried out. *)
NotRun ==
  /\ Acting /\ Steady /\ Goto("step")
  /\ action.kind \notin {"done", "look", "ask_user"}
  /\ \/ cfg.watch /\ action.kind = "wait" /\ record_result("watching")
     \/ action.kind = "remember" /\ \E r \in {"remembered", "refused"} : record_result(r)
     \/ /\ action.kind # "remember" /\ ~(cfg.watch /\ action.kind = "wait")
        /\ IF Blocked THEN record_result("skipped")
           ELSE /\ action.kind = "run_elevated" /\ ~is_permitted(action)
                /\ record_result(IF Allowed = {} THEN "elevation off" ELSE "refused")

(* The stall check, the plan gate, and whether the operator is asked.       *)
StalledOneMore(n) == [count |-> n + 1, sig |-> action, frame |-> frame]
Stalled(n) == [count |-> n, sig |-> action, frame |-> frame]
needs_confirmUnlessAuto(a) == ~cfg.auto /\ a.kind \notin Benign
needs_confirm(a) ==
  IF cfg.gui /\ ~cfg.confirm_each THEN is_high_risk(a)
  ELSE a.kind \notin Benign /\ (~cfg.auto \/ is_high_risk(a))

Check ==
  LET same == stall.sig = action /\ stall.frame = frame
      n == IF same THEN stall.count + 1 ELSE 0
      pass == IF needs_confirm(action) THEN "confirm" ELSE "deliver"
  IN /\ Acting
     /\ action.kind \notin {"done", "look", "ask_user", "remember"}
     /\ ~(cfg.watch /\ action.kind = "wait") /\ ~Blocked
     /\ action.kind = "run_elevated" => is_permitted(action)
     /\ stall' = IF action.kind \in Benign THEN stall ELSE Stalled(n)
     /\ IF action.kind \notin Benign /\ n >= StallLimit THEN Finish(6) /\ UNCHANGED trace
        ELSE \/ Goto(pass) /\ UNCHANGED trace
             \/ cfg.plan_gate /\ Goto("step") /\ record_result("refused by plan gate")
     /\ UNCHANGED <<refresh, boost, plan, started, macro>>

Confirm(yes) ==
  /\ phase = "confirm"
  /\ confirmed' = yes
  /\ IF yes THEN Goto("deliver") /\ UNCHANGED trace ELSE Goto("step") /\ record_result("skipped")
  /\ UNCHANGED <<cfg, stop, view, plan, started, macro, action, verbatim, attempt, stall, log, stopAt>>

-----------------------------------------------------------------------------
(* Delivery. *)

Entry == [step |-> step, action |-> action, confirmed |-> confirmed, times |-> 1, raised |-> FALSE, unfocused |-> FALSE]

(* The end of a step: the macro recorder, then the trace. *)
EndStep(ok, r) ==
  /\ record_result(r)
  /\ recorder' = IF ok /\ cfg.macro_path
                 THEN Append(recorder, IF verbatim # None THEN verbatim ELSE Recorded(action)) ELSE recorder
  /\ Goto("step")

(* _deliver_action, or run_as_system: out says how it went.  A click by     *)
(* reference that the accessibility API carries out is not verified.        *)
Outcomes(a) ==
  IF a.kind = "run_elevated" THEN {"launched", "not launched"}
  ELSE {"error", "ran"} \cup (IF a.kind \in {"open", "wait"} THEN {} ELSE {"unfocused"})
       \cup (IF Listed(a) /\ verbatim = None THEN {"invoked"} ELSE {})
DeliverUnrecorded(out) ==
  /\ phase = "deliver" /\ out \in Outcomes(action)
  /\ log' = Append(log, [Entry EXCEPT !.raised = (out \in {"error", "not launched"}), !.unfocused = (out = "unfocused")])
  /\ IF out = "unfocused" /\ cfg.require_focus
     THEN Finish(7) /\ UNCHANGED <<recorder, trace>>
     ELSE IF out \in {"ran", "unfocused"} /\ RetrySafe(action)
     THEN Goto("verify") /\ UNCHANGED <<recorder, trace>>
     ELSE EndStep(out \notin {"error", "not launched"}, out)
  /\ UNCHANGED <<cfg, stop, view, plan, started, replay, saved, decided, stall, stopAt>>
Deliver(out) ==
  /\ phase = "deliver" /\ out \in Outcomes(action)
  /\ log' = Append(log, [Entry EXCEPT !.raised = (out \in {"error", "not launched"}), !.unfocused = (out = "unfocused")])
  /\ IF out = "unfocused" /\ cfg.require_focus
     THEN Finish(7) /\ record_result(out) /\ UNCHANGED recorder
     ELSE IF out \in {"ran", "unfocused"} /\ RetrySafe(action)
     THEN Goto("verify") /\ UNCHANGED <<recorder, trace>>
     ELSE EndStep(out \notin {"error", "not launched"}, out)
  /\ UNCHANGED <<cfg, stop, view, plan, started, replay, saved, decided, stall, stopAt>>

(* The entry of the delivery that is verified, amended when it is retried.  *)
Current == log[Len(log)]
Again(e) == log' = [log EXCEPT ![Len(log)] = e]

(* _verify_and_maybe_retry: the screen has changed, or cannot be read; or   *)
(* it has not, after the last retry; or a retry raises.                     *)
Verified(r) ==
  /\ phase = "verify"
  /\ r = "no change" => attempt = Retries
  /\ r = "error on retry" => attempt < Retries
  /\ IF r = "error on retry" THEN Again([Current EXCEPT !.times = @ + 1, !.raised = TRUE]) ELSE UNCHANGED log
  /\ boost' = (boost \/ r = "no change")
  /\ EndStep(TRUE, r)
  /\ UNCHANGED <<cfg, stop, frame, targets, refresh, sent, plan, started, replay, saved, decided, stall, stopAt>>

Retry(focused) ==
  /\ phase = "verify" /\ attempt < Retries
  /\ attempt' = attempt + 1
  /\ Again([Current EXCEPT !.times = @ + 1, !.unfocused = @ \/ ~focused])
  /\ UNCHANGED <<cfg, run, stop, view, plan, started, macro, action, verbatim, confirmed, stall, trace, stopAt>>

-----------------------------------------------------------------------------
(* STOP in the HUD, the node's shutdown, a halted goal. *)
AskToStop ==
  /\ ~stop /\ phase # "finished"
  /\ stop' = TRUE /\ stopAt' = step
  /\ UNCHANGED <<cfg, run, view, plan, started, macro, decided, stall, trace, log>>

Next ==
  \/ Start \/ EndOfLoop \/ SkipSubtask \/ Replay \/ Observe \/ AskToStop
  \/ (\E a \in Choices : Answer(a)) \/ (\E transient \in BOOLEAN : ModelFails(transient))
  \/ Done \/ Look \/ ask_user \/ NotRun \/ Check
  \/ (\E yes \in BOOLEAN : Confirm(yes))
  \/ (\E out \in {"error", "ran", "unfocused", "invoked", "launched", "not launched"} : Deliver(out))
  \/ (\E r \in {"ran", "no change", "error on retry"} : Verified(r))
  \/ (\E focused \in BOOLEAN : Retry(focused))

Spec == Init /\ [][Next]_vars

-----------------------------------------------------------------------------
(* What a macro may hold: an action, or what the recorder keeps of one.     *)
Kept == Actions \cup {Recorded(a) : a \in Actions}
Results == {"done", "look", "answered", "watching", "remembered", "refused", "skipped", "elevation off",
            "refused by plan gate", "launched", "not launched", "error", "ran", "unfocused", "invoked",
            "no change", "error on retry"}

TypeOK ==
  /\ cfg \in Configs
  /\ phase \in {"start", "step", "model", "act", "confirm", "deliver", "verify", "finished"}
  /\ rc \in 0..7 \cup {None} /\ (phase = "finished") = (rc # None)
  /\ step \in 0..cfg.max_steps /\ stop \in BOOLEAN /\ stopAt \in 0..cfg.max_steps \cup {None}
  /\ frame \in Frames \cup {None} /\ targets \subseteq Elements
  /\ refresh \in BOOLEAN /\ boost \in BOOLEAN
  /\ sent \in [frame : Frames, detail : BOOLEAN] \cup {None}
  /\ plan \in [left : 0..cfg.subtasks, completed : Nat, skipped : Nat] \cup {None} /\ started \in Nat
  /\ replay \in Seq(Actions) /\ recorder \in Seq(Kept) /\ saved \in Seq(Kept) \cup {None}
  /\ action \in Actions \cup {None} /\ verbatim \in Actions \cup {None}
  /\ attempt \in Nat /\ confirmed \in BOOLEAN
  /\ stall \in [count : 0..StallLimit, sig : Actions \cup {None}, frame : Frames \cup {None}]
  /\ trace \in Seq([step : Nat, action : Actions, result : Results])
  /\ log \in Seq([step : Nat, action : Actions, confirmed : BOOLEAN, times : Nat, raised : BOOLEAN, unfocused : BOOLEAN])

(* Whatever the mode, the macro or the plan, a high-risk action is carried  *)
(* out once for each time the operator confirmed it, never of its own.      *)
HighRiskIsConfirmed ==
  \A i \in DOMAIN log : is_high_risk(log[i].action) => log[i].confirmed /\ log[i].times = 1

(* Once a stop is asked for, nothing is carried out but what the step under *)
(* way decides - in a replay and between retries of the model too.          *)
StopWithinAStep == stopAt # None => \A i \in DOMAIN log : log[i].step <= stopAt

(* The trace tells what was done: each step carried out has one entry, one  *)
(* that memory does not take for rejected; a rejected step was not carried  *)
(* out.  This holds on every way out of the loop.                           *)
TraceTellsAll ==
  /\ \A i, j \in DOMAIN trace : i < j => trace[i].step < trace[j].step
  /\ phase \in {"step", "finished"} =>
       \A i \in DOMAIN log : \E j \in DOMAIN trace :
          trace[j].step = log[i].step /\ trace[j].action = log[i].action
          /\ classify_result(trace[j].result) # "rejected"
  /\ \A j \in DOMAIN trace : classify_result(trace[j].result) = "rejected" =>
       \A i \in DOMAIN log : log[i].step # trace[j].step

(* Exit code 0 means that the plan, if there is one, was completed, each of *)
(* its sub-tasks by a `done' of the model; one given up shows in the code.  *)
ZeroIsAllDone ==
  rc = 0 => /\ trace[Len(trace)].action.kind = "done"
            /\ plan # None => /\ plan.completed = cfg.subtasks
                              /\ Cardinality({i \in DOMAIN trace : trace[i].action.kind = "done"}) = cfg.subtasks

(* What macro.py says of a replay: it finds the targets of the recording    *)
(* again, or hands over to the model rather than guess.                     *)
MacroKeepsTargets ==
  saved # None => \A i \in DOMAIN saved : \E j \in DOMAIN log : saved[i] = log[j].action

(* What --require-focus says: the run is aborted when an action runs without *)
(* a confirmed focus on the target window.                                   *)
FocusAborts == phase = "step" /\ cfg.require_focus => \A i \in DOMAIN log : ~log[i].unfocused

(* What classify_result says of `failed': the step raised.                  *)
RaisedIsFailed ==
  phase = "step" => \A i \in DOMAIN log, j \in DOMAIN trace :
     trace[j].step = log[i].step /\ log[i].raised => classify_result(trace[j].result) = "failed"

(* What the comment on adaptive resolution says: after an action without a  *)
(* visible change the next image has more detail.                           *)
BoostIsSent == [][phase = "model" /\ boost /\ phase' # "model" => sent'.detail]_vars
=============================================================================
