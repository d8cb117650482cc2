---------------------------- MODULE Supervisor ----------------------------
(***************************************************************************)
(* The supervised node's goal runner: citadel/secdogie_citadel/            *)
(* supervisor.py (Supervisor, agent_run_task), run.py (RunRecorder),       *)
(* recovery.py, goals.py (GoalTree), and the threads that drive it in      *)
(* node/secdogie_node/node.py (the worker and on_control) or in the `run`  *)
(* command of citadel/secdogie_citadel/cli.py.                             *)
(*                                                                         *)
(* All durable state is folded from the journal, so it is kept folded: the *)
(* goal tree's statuses, the control sets, the number of result events and *)
(* the run entities with their steps.  Every journal append is a step of   *)
(* its own; a crash may fall between any two.  The agent loop is reduced   *)
(* to its turns: look at should_stop, act on the desktop, record the step  *)
(* (its trace entry is written after the action), or end with a code.      *)
(* The production runner records every step in state "executing".          *)
(* The runs are kept by goal; a closed run is never read again, so those   *)
(* of a goal are forgotten when it is settled (all are closed then).       *)
(***************************************************************************)
EXTENDS Integers, Sequences, FiniteSets

CONSTANTS
    Goal,         \* the goal ids, as numbers: lowest ready id first
    Deps,         \* Deps[g]: the dependencies g is added with
    max_attempts,
    MaxActs,      \* bound: turns of one agent run (max_steps)
    MaxCrash,     \* bound: crashes per behaviour
    MaxControl    \* bound: operator requests after the goals were added

ASSUME SupervisorConstants ==
    /\ Goal \subseteq Nat
    /\ Deps \in [Goal -> SUBSET Goal]
    /\ max_attempts \in Nat \ {0} /\ MaxActs \in Nat
    /\ MaxCrash \in Nat /\ MaxControl \in Nat

VARIABLES
    status,     \* status[g] in the goal tree
    stops, paused,  \* _controls(): the goals stopped and the goals paused
    results,    \* results[g]: its result events
    runs,       \* runs[g]: its run entities until it is settled, oldest first
    pc,         \* where the worker thread is; "down" when there is no process
    cur,        \* the goal in run_goal
    prior,      \* the open runs of cur run_goal found and has not closed yet
    code,       \* the task's exit code
    halted,     \* _halted
    crashes, controls,
    late        \* history: actions of this run since a stop or a halt stands

goals == <<status, results, runs>>
asked == <<stops, paused, halted, controls>>
worker == <<pc, cur, prior, code>>
vars == <<goals, asked, worker, crashes, late>>

Statuses == {"absent", "pending", "active", "done", "failed"}
TERMINAL_STATES == {"completed", "failed", "stopped"}
InRun == {"opened", "loop", "turn", "acted", "stepped", "closing", "closed", "resulted"}
Taken == InRun \cup {"picked", "stopped", "active"}

\* acted and cut are history: whether the run acted on the desktop, and
\* whether a crash cut it short while it was open, or after it was closed.
Run == [state : TERMINAL_STATES \cup {"created", "executing", "recovering"},
        steps : Nat, head : Nat, told : BOOLEAN, acted : BOOLEAN,
        cut : {"no", "open", "closed"}]

TypeOK ==
    /\ status \in [Goal -> Statuses]
    /\ stops \subseteq Goal /\ paused \subseteq Goal
    /\ results \in [Goal -> Nat]
    /\ runs \in [Goal -> Seq(Run)]
    /\ pc \in {"down", "recover", "idle", "picked", "stopped", "active"} \cup InRun
    /\ cur \in Goal \cup {-1} /\ (pc \in Taken => cur \in Goal)
    /\ prior # {} => pc = "opened" /\ prior \subseteq DOMAIN runs[cur]
    /\ code \in {0, 1, 5}
    /\ halted \in BOOLEAN
    /\ crashes \in 0 .. MaxCrash /\ controls \in 0 .. MaxControl
    /\ late \in Nat

Init ==
    /\ status = [g \in Goal |-> "absent"]
    /\ stops = {} /\ paused = {}
    /\ results = [g \in Goal |-> 0]
    /\ runs = [g \in Goal |-> << >>]
    /\ pc = "down" /\ cur = -1 /\ prior = {} /\ code = 0
    /\ halted = FALSE
    /\ crashes = 0 /\ controls = 0 /\ late = 0

-----------------------------------------------------------------------------
(* goals.py, recovery.py *)

\* GoalTree.ready
ready == {g \in Goal : status[g] = "pending" /\ \A d \in Deps[g] : status[d] = "done"}

pending_ready == ready \ (stops \cup paused)

SetStatus(g, s) == status' = [status EXCEPT ![g] = IF @ = "absent" THEN @ ELSE s]

\* recovery_for: the last step of an open run decides.
recovery_for(r) ==
    CASE r.state \in TERMINAL_STATES -> "complete"
      [] r.state \notin TERMINAL_STATES /\ r.steps = 0 -> "resume_step"
      [] OTHER -> "reobserve_before_retry"

\* Mutation of _open_runs: only runs that have come to their first step.
OpenAfterPatch(g) == {i \in DOMAIN runs[g] : runs[g][i].state = "executing"}

_open_runs(g) == {i \in DOMAIN runs[g] : runs[g][i].state \notin TERMINAL_STATES}

\* Run i of goal g becomes r; this is the run of the goal under way.
SetRun(g, i, r) == runs' = [runs EXCEPT ![g] = [runs[g] EXCEPT ![i] = r]]
this == Len(runs[cur])
ThisRun == runs[cur][this]

\* check_chain, for a chain nobody tampered with.
verify_run(r) == r.head = 0 \/ r.head = r.steps

-----------------------------------------------------------------------------
(* The operator's side: on_control, in the thread that receives packets, the *)
(* add-goal command, and the revocation callback.                            *)

\* add_goal: replaces a goal of that id, whatever its status was.
add_goal(g) ==
    /\ \/ status[g] = "absent" /\ UNCHANGED controls
       \/ status[g] # "absent" /\ controls < MaxControl /\ controls' = controls + 1
    /\ status' = [status EXCEPT ![g] = "pending"]
    /\ UNCHANGED <<results, runs, stops, paused, halted, worker, crashes, late>>

on_control(g, op) ==
    /\ status[g] # "absent"
    /\ controls < MaxControl /\ controls' = controls + 1
    /\ \/ op = "stop"  /\ stops' = stops \cup {g} /\ UNCHANGED <<paused, late>>
       \/ op = "pause" /\ paused' = paused \cup {g} /\ UNCHANGED <<stops, late>>
       \/ /\ op = "resume" /\ stops' = stops \ {g} /\ paused' = paused \ {g}
          /\ late' = IF g = cur THEN 0 ELSE late
    /\ UNCHANGED <<goals, halted, worker, crashes>>

halt ==
    /\ pc # "down" /\ ~halted
    /\ controls < MaxControl /\ controls' = controls + 1
    /\ halted' = TRUE
    /\ UNCHANGED <<goals, stops, paused, worker, crashes, late>>

-----------------------------------------------------------------------------
(* Start-up and scheduling *)

start ==
    /\ pc = "down"
    /\ pc' = "recover" /\ halted' = FALSE
    /\ UNCHANGED <<goals, stops, paused, controls, cur, prior, code, crashes, late>>

\* Mutation of recover: every goal that is not pending is queued again.
RecoverAll ==
    /\ pc = "recover"
    /\ \/ \E g \in Goal : status[g] \in {"active", "done"} /\ SetStatus(g, "pending") /\ UNCHANGED pc
       \/ pc' = "idle" /\ UNCHANGED status
    /\ UNCHANGED <<results, runs, asked, cur, prior, code, crashes, late>>

\* Supervisor.recover: goals left active are queued again, one append each.
recover ==
    /\ pc = "recover"
    /\ \/ \E g \in Goal : status[g] = "active" /\ SetStatus(g, "pending") /\ UNCHANGED pc
       \/ /\ \A g \in Goal : status[g] # "active"
          /\ pc' = "idle" /\ UNCHANGED status
    /\ UNCHANGED <<results, runs, asked, cur, prior, code, crashes, late>>

\* Supervisor.recover_runs: every open run is moved to `recovering` with its
\* decision; a caller may do this before the worker takes its first goal.
recover_runs ==
    /\ pc = "recover"
    /\ \E g \in Goal : \E i \in DOMAIN runs[g] :
         /\ runs[g][i].state \in {"created", "executing"}
         /\ SetRun(g, i, [runs[g][i] EXCEPT !.state = "recovering"])
    /\ UNCHANGED <<status, results, asked, worker, crashes, late>>

\* Mutation of pick: the goal chosen is not kept.
PickNothing ==
    /\ pc = "idle" /\ ~halted
    /\ pending_ready # {}
    /\ pc' = "picked"
    /\ UNCHANGED <<goals, asked, cur, prior, code, crashes, late>>

\* run_ready, run_ready_once: the lowest ready goal.
pick ==
    /\ pc = "idle" /\ ~halted
    /\ \E g \in pending_ready :
         /\ \A h \in pending_ready : g =< h
         /\ cur' = g
    /\ pc' = "picked"
    /\ UNCHANGED <<goals, asked, prior, code, crashes, late>>

-----------------------------------------------------------------------------
(* run_goal *)

\* run_goal returns; its locals are gone.
Return == pc' = "idle" /\ cur' = -1 /\ prior' = {} /\ code' = 0 /\ late' = 0

\* The controls are read again: a goal paused or stopped since it was picked.
run_goal_paused ==
    /\ pc = "picked" /\ cur \in paused
    /\ Return
    /\ UNCHANGED <<goals, asked, crashes>>

run_goal_stopped ==
    /\ pc = "picked" /\ cur \notin paused /\ cur \in stops
    /\ results' = [results EXCEPT ![cur] = @ + 1]
    /\ pc' = "stopped"
    /\ UNCHANGED <<status, runs, asked, cur, prior, code, crashes, late>>

run_goal_parked ==
    /\ pc = "stopped"
    /\ SetStatus(cur, "pending")
    /\ Return
    /\ UNCHANGED <<results, runs, asked, crashes>>

run_goal_active ==
    /\ pc = "picked" /\ cur \notin paused \cup stops
    /\ SetStatus(cur, "active")
    /\ pc' = "active"
    /\ UNCHANGED <<results, runs, asked, cur, prior, code, crashes, late>>

\* The open runs are read, then start_run appends the new one.
start_run ==
    /\ pc = "active"
    /\ prior' = _open_runs(cur)
    /\ runs' = [runs EXCEPT ![cur] = Append(runs[cur],
          [state |-> "created", steps |-> 0, head |-> 0,
           told |-> \E i \in _open_runs(cur) : recovery_for(runs[cur][i]) = "reobserve_before_retry",
           acted |-> FALSE, cut |-> "no"])]
    /\ pc' = "opened" /\ late' = 0
    /\ UNCHANGED <<status, results, asked, cur, code, crashes>>

\* Mutation of supersede: only one open run is closed.
SupersedeOne ==
    /\ pc = "opened" /\ pc' = "loop"
    /\ \/ \E i \in prior : /\ SetRun(cur, i, [runs[cur][i] EXCEPT !.state = "stopped"])
                           /\ prior' = {}
       \/ prior = {} /\ UNCHANGED <<runs, prior>>
    /\ UNCHANGED <<status, results, asked, cur, code, crashes, late>>

\* The new run supersedes them, in the order of their ids.
supersede ==
    /\ pc = "opened"
    /\ \/ \E i \in prior : /\ SetRun(cur, i, [runs[cur][i] EXCEPT !.state = "stopped"])
                           /\ prior' = prior \ {i} /\ UNCHANGED pc
       \/ prior = {} /\ pc' = "loop" /\ UNCHANGED <<runs, prior>>
    /\ UNCHANGED <<status, results, asked, cur, code, crashes, late>>

should_stop == halted \/ cur \in stops

\* One turn of the agent loop: stop, act, skip, say done, or give up (a declined
\* question, max_steps, a stall, an exception).
turn_stop ==
    /\ pc = "loop" /\ should_stop
    /\ code' = 5 /\ pc' = "closing"
    /\ UNCHANGED <<goals, asked, cur, prior, crashes, late>>

\* Mutation of turn_begin: should_stop is not looked at.
TurnBeginAnyway ==
    /\ pc = "loop" /\ ThisRun.steps < MaxActs
    /\ pc' = "turn"
    /\ UNCHANGED <<goals, asked, cur, prior, code, crashes, late>>

\* The turn has begun when should_stop is looked at; the action falls later.
turn_begin ==
    /\ pc = "loop" /\ ~should_stop /\ ThisRun.steps < MaxActs
    /\ pc' = "turn"
    /\ UNCHANGED <<goals, asked, cur, prior, code, crashes, late>>

turn_act ==
    /\ pc = "turn"
    /\ SetRun(cur, this, [ThisRun EXCEPT !.acted = TRUE])
    /\ late' = IF should_stop THEN late + 1 ELSE late
    /\ code' = 1 /\ pc' = "acted"
    /\ UNCHANGED <<status, results, asked, cur, prior, crashes>>

\* The gate refused the action, the operator declined it, or it was a look or a
\* question: the step is recorded, nothing was done.
turn_skip ==
    /\ pc = "turn"
    /\ code' = 1 /\ pc' = "acted"
    /\ UNCHANGED <<goals, asked, cur, prior, crashes, late>>

turn_done ==
    /\ pc = "turn"
    /\ code' = 0 /\ pc' = "acted"
    /\ UNCHANGED <<goals, asked, cur, prior, crashes, late>>

turn_fail ==
    /\ pc = "turn" \/ (pc = "loop" /\ ~should_stop /\ ThisRun.steps >= MaxActs)
    /\ code' = 1 /\ pc' = "closing"
    /\ UNCHANGED <<goals, asked, cur, prior, crashes, late>>

\* record_step: the step entity, then the run's head.
record_step ==
    /\ pc = "acted"
    /\ SetRun(cur, this, [ThisRun EXCEPT !.steps = @ + 1])
    /\ pc' = "stepped"
    /\ UNCHANGED <<status, results, asked, cur, prior, code, crashes, late>>

\* Mutation of record_head: the head of the step before.
RecordHeadBefore ==
    /\ pc = "stepped"
    /\ SetRun(cur, this, [ThisRun EXCEPT !.head = ThisRun.steps - 1, !.state = "executing"])
    /\ pc' = IF code = 0 THEN "closing" ELSE "loop"
    /\ UNCHANGED <<status, results, asked, cur, prior, code, crashes, late>>

record_head ==
    /\ pc = "stepped"
    /\ SetRun(cur, this, [ThisRun EXCEPT !.head = ThisRun.steps, !.state = "executing"])
    /\ pc' = IF code = 0 THEN "closing" ELSE "loop"
    /\ UNCHANGED <<status, results, asked, cur, prior, code, crashes, late>>

finish_run ==
    /\ pc = "closing"
    /\ SetRun(cur, this, [ThisRun EXCEPT !.state = CASE code = 0 -> "completed"
                                                      [] code = 5 -> "stopped"
                                                      [] OTHER -> "failed"])
    /\ pc' = "closed"
    /\ UNCHANGED <<status, results, asked, cur, prior, code, crashes, late>>

append_result ==
    /\ pc = "closed"
    /\ results' = [results EXCEPT ![cur] = @ + 1]
    /\ pc' = "resulted"
    /\ UNCHANGED <<status, runs, asked, cur, prior, code, crashes, late>>

\* Mutation of settle_goal: a failed attempt with attempts left changes nothing.
SettleNoRetry ==
    /\ pc = "resulted"
    /\ SetStatus(cur, CASE code = 0 -> "done"
                        [] code = 5 -> "pending"
                        [] code = 1 /\ results[cur] >= max_attempts -> "failed"
                        [] OTHER -> status[cur])
    /\ runs' = [runs EXCEPT ![cur] = << >>]
    /\ Return
    /\ UNCHANGED <<results, asked, crashes>>

settle_goal ==
    /\ pc = "resulted"
    /\ SetStatus(cur, CASE code = 0 -> "done"
                        [] code = 5 -> "pending"
                        [] code = 1 /\ results[cur] >= max_attempts -> "failed"
                        [] OTHER -> "pending")
    /\ runs' = [runs EXCEPT ![cur] = << >>]
    /\ Return
    /\ UNCHANGED <<results, asked, crashes>>

Worker ==
    \/ recover \/ pick
    \/ run_goal_paused \/ run_goal_stopped \/ run_goal_parked \/ run_goal_active
    \/ start_run \/ supersede
    \/ turn_stop \/ turn_begin \/ turn_act \/ turn_skip \/ turn_done \/ turn_fail
    \/ record_step \/ record_head \/ finish_run \/ append_result \/ settle_goal

\* The process ends at any point; the journal keeps what was appended.
Crash ==
    /\ pc # "down" /\ crashes < MaxCrash
    /\ crashes' = crashes + 1
    /\ pc' = "down" /\ cur' = -1 /\ prior' = {} /\ code' = 0 /\ late' = 0
    /\ IF pc \notin InRun THEN UNCHANGED runs
       ELSE SetRun(cur, this, [ThisRun EXCEPT !.cut =
                                  IF ThisRun.state \in TERMINAL_STATES THEN "closed" ELSE "open"])
    /\ UNCHANGED <<status, results, asked>>

Next ==
    \/ Worker \/ start \/ Crash \/ recover_runs \/ halt
    \/ \E g \in Goal : add_goal(g)
    \/ \E g \in Goal, op \in {"stop", "pause", "resume"} : on_control(g, op)

Spec == Init /\ [][Next]_vars

\* The worker thread runs, and whoever supervises the node restarts it.
FairSpec == Spec /\ WF_vars(Worker) /\ WF_vars(start)

-----------------------------------------------------------------------------
(* Properties *)

\* While the agent works on a goal its run is the goal's only open run, however
\* many crashes came before, also one in the middle of superseding.
OneOpenRun ==
    pc \in {"loop", "turn", "acted", "stepped", "closing"} => _open_runs(cur) = {this}

\* run_goal: "an `executing` crash means the agent must check before redoing":
\* after a crash in an open run that had recorded a step, the goal's next run is
\* told to check the interrupted action first.
RecordedCrashIsChecked ==
    \A g \in Goal : \A i, j \in DOMAIN runs[g] :
        i = j + 1 /\ runs[g][j].cut = "open" /\ runs[g][j].steps > 0 => runs[g][i].told

\* recover_runs: "so a crash never double-acts": a run that acts without having
\* been told to check does not follow a run that acted and was cut short.
RedoIsChecked ==
    \A g \in Goal : \A i, j \in DOMAIN runs[g] :
        i = j + 1 /\ runs[g][j].cut # "no" /\ runs[g][j].acted /\ runs[g][i].acted
            => runs[g][i].told

\* halt and request_stop: the running goal sees should_stop before its next
\* action, so at most the action already under way still happens.
StopIsPrompt == late =< 1

\* verify_run finds a broken chain only in a run that a crash cut between its
\* two appends (or while they are being made).
OnlyACrashBreaksTheChain ==
    \A g \in Goal : \A i \in DOMAIN runs[g] :
        ~verify_run(runs[g][i]) => runs[g][i].cut = "open" \/ (pc = "stepped" /\ g = cur /\ i = this)

\* "done goals are not re-run": only adding the goal anew changes a done goal.
DoneIsFinal ==
    [][\A g \in Goal : status[g] = "done" =>
          status'[g] = "done" \/ (status'[g] = "pending" /\ controls' = controls + 1)]_vars

Owed(g) == status[g] \in {"pending", "active"} /\ \A d \in Deps[g] : status[d] = "done"
Ended(g) ==
    \/ status[g] \in {"done", "failed"}
    \/ g \in stops \cup paused \/ halted
    \/ \E d \in Deps[g] : status[d] # "done"

\* A goal whose dependencies are done ends, across crashes, retries and other
\* goals, unless the operator parks it, reopens a dependency or halts the node.
Settles == \A g \in Goal : Owed(g) ~> Ended(g)

=============================================================================
