--------------------------------- MODULE Hud --------------------------------
(***************************************************************************)
(* The operator console of --gui (agent/hud.py): the agent loop runs on a  *)
(* worker thread, Tk on the main thread, and OperatorBridge between them   *)
(* is a queue of events, two threading.Events and one box per question.    *)
(* A question is answered by the operator's click, by Stop, or by nobody   *)
(* until its time is over.  The window's texts and colours are left out:   *)
(* `phase' is the status line, `asking' the question that is on display.   *)
(***************************************************************************)
EXTENDS Integers, Sequences, SequencesExt

CONSTANTS
    Rcs,         \* exit codes the loop may end with
    Timeout,     \* rounds of confirm's wait until its deadline
    MaxAsks,     \* BOUND: questions of a run
    MaxProgress  \* BOUND: progress events of a run

VARIABLES
    stop, finished, events,       \* OperatorBridge: _stop, _finished, events
    boxes,                        \* the questions asked, each [ok, done]
    pc, rounds, progress,         \* the worker
    ending, rc,                   \* the loop's exit code; run_worker's box["rc"]
    pending, shown, phase, root,  \* OperatorHud: _pending, the packed frame, _phase, _root
    exit,                         \* what run_worker returned, None before
    clicked, approved             \* ghosts: boxes allowed by a click; confirms that said yes

workerVars == <<pc, rounds, progress, ending, rc>>
hudVars == <<pending, shown, phase, root>>
ghosts == <<clicked, approved>>
vars == <<stop, finished, events, boxes, workerVars, hudVars, exit, ghosts>>

None == -1
Event(kind, arg) == [kind |-> kind, arg |-> arg]
box == Len(boxes)

\* Without a display _build leaves no window.
_build == root \in {"open", "none"}

Init ==
    /\ stop = FALSE /\ finished = FALSE /\ events = <<>> /\ boxes = <<>>
    /\ pc = "loop" /\ rounds = 0 /\ progress = 0 /\ ending = None /\ rc = 1
    /\ pending = None /\ shown = FALSE /\ phase = "starting"
    /\ _build
    /\ exit = None /\ clicked = {} /\ approved = {}

-----------------------------------------------------------------------------
(* The worker *)

\* The loop reports where it is: start, busy, capture, model, action, result.
emit ==
    /\ pc = "loop" /\ progress < MaxProgress
    /\ progress' = progress + 1
    /\ events' = Append(events, Event("progress", 0))
    /\ UNCHANGED <<stop, finished, boxes, pc, rounds, ending, rc, hudVars, exit, ghosts>>

NewBoxReused == IF box = 0 THEN [ok |-> FALSE, done |-> FALSE] ELSE boxes[box]

\* Every question has a box and a reply of its own.
NewBox == [ok |-> FALSE, done |-> FALSE]

\* approve_plan, approve_action and ask: after a stop the answer is no at once.
confirm ==
    /\ pc = "loop" /\ box < MaxAsks /\ ~stop
    /\ boxes' = Append(boxes, NewBox)
    /\ events' = Append(events, Event("confirm", box + 1))
    /\ pc' = "check" /\ rounds' = 0
    /\ UNCHANGED <<stop, finished, progress, ending, rc, hudVars, exit, ghosts>>

Answered(yes) ==
    /\ pc' = "loop"
    /\ approved' = approved \cup {b \in {box} : yes}
    /\ UNCHANGED <<stop, finished, events, boxes, rounds, progress, ending, rc, hudVars, exit, clicked>>

\* The head of confirm's loop: the deadline, then the stop.
CheckStop ==
    /\ pc = "check"
    /\ IF rounds >= Timeout \/ stop THEN Answered(FALSE)
       ELSE /\ pc' = "wait"
            /\ UNCHANGED <<stop, finished, events, boxes, rounds, progress, ending, rc, hudVars, exit, ghosts>>

\* reply.wait(0.1)
WaitReply ==
    /\ pc = "wait"
    /\ IF boxes[box].done THEN Answered(boxes[box].ok)
       ELSE /\ pc' = "check" /\ rounds' = rounds + 1
            /\ UNCHANGED <<stop, finished, events, boxes, progress, ending, rc, hudVars, exit, ghosts>>

\* The loop ends: its last event tells the console, and only after its finally
\* block its exit code reaches run_worker.
Done(code) ==
    /\ pc = "loop"
    /\ finished' = TRUE /\ ending' = code
    /\ events' = Append(events, Event("finished", code))
    /\ pc' = "returning"
    /\ UNCHANGED <<stop, boxes, rounds, progress, rc, hudVars, exit, ghosts>>

\* It raises: an error is shown, then the end.
Raise ==
    /\ pc = "loop"
    /\ finished' = TRUE /\ ending' = 1
    /\ events' = events \o <<Event("error", 0), Event("finished", 1)>>
    /\ pc' = "returning"
    /\ UNCHANGED <<stop, boxes, rounds, progress, rc, hudVars, exit, ghosts>>

Return ==
    /\ pc = "returning" /\ pc' = "ended" /\ rc' = ending
    /\ UNCHANGED <<stop, finished, events, boxes, rounds, progress, ending, hudVars, exit, ghosts>>

-----------------------------------------------------------------------------
(* The main thread *)

\* _handle: a question replaces the one on display.
HandleKeepsFirst(h, e) ==
    CASE e.kind = "confirm" -> IF h.pending # None THEN h ELSE [pending |-> e.arg, shown |-> TRUE, phase |-> "waiting"]
      [] e.kind = "finished" -> [h EXCEPT !.shown = FALSE, !.phase = "ended"]
      [] e.kind = "stop" -> [h EXCEPT !.phase = "stopping"]
      [] e.kind = "error" -> [h EXCEPT !.phase = "error"]
      [] OTHER -> [h EXCEPT !.phase = "running"]
_handle(h, e) ==
    CASE e.kind = "confirm" -> [pending |-> e.arg, shown |-> TRUE, phase |-> "waiting"]
      [] e.kind = "finished" -> [h EXCEPT !.shown = FALSE, !.phase = "ended"]
      [] e.kind = "stop" -> [h EXCEPT !.phase = "stopping"]
      [] e.kind = "error" -> [h EXCEPT !.phase = "error"]
      [] OTHER -> [h EXCEPT !.phase = "running"]

\* _pump drains the queue; no click comes in between.
_pump ==
    /\ root = "open" /\ events # <<>>
    /\ LET h == FoldLeft(_handle, [pending |-> pending, shown |-> shown, phase |-> phase], events)
       IN pending' = h.pending /\ shown' = h.shown /\ phase' = h.phase
    /\ events' = <<>>
    /\ UNCHANGED <<stop, finished, boxes, workerVars, root, exit, ghosts>>

_answer(ok) ==
    /\ boxes' = IF pending = None THEN boxes ELSE [boxes EXCEPT ![pending] = [ok |-> ok, done |-> TRUE]]
    /\ pending' = None /\ shown' = FALSE

\* The two buttons are on the frame: they can be pressed while it is packed.
Click(ok) ==
    /\ root = "open" /\ shown
    /\ _answer(ok)
    /\ clicked' = clicked \cup {b \in {pending} \ {None} : ok}
    /\ UNCHANGED <<stop, finished, events, workerVars, phase, root, exit, approved>>

request_stop ==
    /\ stop' = TRUE
    /\ events' = IF stop THEN events ELSE Append(events, Event("stop", 0))

\* The stop button, which becomes a close button at the end of the run.
_on_stop ==
    /\ root = "open"
    /\ IF finished
       THEN /\ root' = "closed"
            /\ UNCHANGED <<stop, events, boxes, pending, shown, phase>>
       ELSE /\ request_stop
            /\ IF pending # None THEN _answer(FALSE) ELSE UNCHANGED <<boxes, pending, shown>>
            /\ phase' = "stopping" /\ UNCHANGED root
    /\ UNCHANGED <<finished, workerVars, exit, ghosts>>

_on_close ==
    /\ root = "open" /\ root' = "closed"
    /\ request_stop
    /\ IF pending # None THEN _answer(FALSE) ELSE UNCHANGED <<boxes, pending, shown>>
    /\ UNCHANGED <<finished, workerVars, phase, exit, ghosts>>

\* The mainloop is over: stop the worker and join it, two seconds at most.
\* run_worker returns and the process ends with the thread wherever it is.
Leave ==
    /\ root = "closed" /\ ~stop
    /\ request_stop
    /\ UNCHANGED <<finished, boxes, workerVars, hudVars, exit, ghosts>>

Join ==
    /\ (root = "closed" /\ stop) \/ root = "none"  \* without a window: joined for an hour
    /\ exit = None
    /\ exit' = rc /\ pc' = "ended"
    /\ UNCHANGED <<stop, finished, events, boxes, rounds, progress, rc, ending, hudVars, ghosts>>

-----------------------------------------------------------------------------
Worker ==
    \/ emit \/ confirm \/ CheckStop \/ WaitReply \/ Raise \/ Return
    \/ \E code \in Rcs : Done(code)
Operator == _on_stop \/ _on_close \/ \E ok \in BOOLEAN : Click(ok)
Next == Worker \/ _pump \/ Operator \/ Leave \/ Join

Spec == Init /\ [][Next]_vars

-----------------------------------------------------------------------------
\* An action, a plan or a question is approved only by a click on Allow while
\* that very question was on display: never by an answer to an earlier one,
\* by the end of its time or by a stop (OperatorBridge.confirm).
AllowIsClicked == approved \subseteq clicked

\* The operator can always answer what the worker waits for: a question that
\* is neither answered nor still in the queue is the one on display, even
\* when the one before it timed out unanswered (OperatorHud._handle).
WaitedIsShown ==
    pc \in {"check", "wait"} /\ ~boxes[box].done /\ root = "open"
       /\ Event("confirm", box) \notin ToSet(events)
    => shown /\ pending = box

\* run_worker returns the exit code of the run.
ExitIsTheRuns == exit # None => finished /\ exit = ending
=============================================================================
