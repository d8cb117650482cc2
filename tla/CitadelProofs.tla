---------------------------- MODULE CitadelProofs ----------------------------
(***************************************************************************)
(* Proofs about the citadel's goal runner, fleet and staged memory.        *)
(*                                                                         *)
(* Supervisor, for every set of goals, every limit and every number of     *)
(* crashes, operator requests and open runs: the goal runner works in its  *)
(* goal's only open run, and what a crash leaves behind is found by the    *)
(* run that follows.                                                       *)
(*                                                                         *)
(* Fleet, for every set of nodes, tasks and connections, all priorities,   *)
(* limits, breaks, pauses and revocations: a running task has a node that  *)
(* is there and will be asked about it, a queued one its place in the      *)
(* order of dispatch.                                                      *)
(*                                                                         *)
(* Memory, for every set of members and rogues, all memories, runs and     *)
(* requests: what a node plans with was confirmed or has the failing runs  *)
(* behind it, and a pass takes back what its runs contradict.              *)
(***************************************************************************)
EXTENDS Supervisor, Fleet, Memory, SequenceTheorems, FiniteSetTheorems, WellFoundedInduction, TLAPS

-----------------------------------------------------------------------------
(* The goal runner: the invariant. *)

Working == {"loop", "turn", "acted", "stepped", "closing"}

\* The run under way is its goal's last; before it works, the others that are
\* open are those run_goal still has to close.
UnderWay ==
    /\ pc \in InRun => this # 0 /\ ThisRun.cut = "no"
    /\ pc = "opened" => this \notin prior /\ _open_runs(cur) = prior \cup {this}
    /\ pc \in Working => _open_runs(cur) = {this}

\* A run cut short while it was open stays open until a later run closes it.
CutIsOpen ==
    \A g \in Goal : runs[g] # << >> /\ runs[g][Len(runs[g])].cut = "open"
                       => runs[g][Len(runs[g])].state \notin TERMINAL_STATES

\* Nothing is done after a stop but the action of the turn under way.
Prompt ==
    /\ late \in {0, 1} /\ (late = 1 => should_stop)
    /\ pc \notin InRun \/ pc = "turn" => late = 0

\* The goal run_goal works on is not settled.
Unsettled == pc \in Taken => status[cur] \in {"pending", "active"}

RunsInv == UnderWay /\ CutIsOpen /\ RecordedCrashIsChecked /\ OnlyACrashBreaksTheChain
RunnerInv == TypeOK /\ RunsInv /\ Prompt /\ Unsettled

-----------------------------------------------------------------------------
(* The runs. *)

\* What SetRun does: one run of one goal is replaced.
LEMMA SetRunFacts ==
    ASSUME TypeOK, NEW g \in Goal, NEW i \in DOMAIN runs[g], NEW r \in Run, SetRun(g, i, r)
    PROVE  /\ runs' \in [Goal -> Seq(Run)]
           /\ \A h \in Goal : Len(runs'[h]) = Len(runs[h]) /\ DOMAIN runs'[h] = DOMAIN runs[h]
           /\ \A h \in Goal : h # g => runs'[h] = runs[h]
           /\ runs'[g][i] = r
           /\ \A k \in DOMAIN runs[g] : k # i => runs'[g][k] = runs[g][k]
  <1> DEFINE s == [runs[g] EXCEPT ![i] = r]
  <1>1. runs \in [Goal -> Seq(Run)]
    BY DEF TypeOK
  <1>2. runs[g] \in Seq(Run) /\ i \in 1 .. Len(runs[g])
    BY <1>1
  <1>3. s \in Seq(Run) /\ Len(s) = Len(runs[g])
        /\ \A k \in 1 .. Len(runs[g]) : s[k] = IF k = i THEN r ELSE runs[g][k]
    BY <1>2, ExceptSeq
  <1>4. runs' = [runs EXCEPT ![g] = s]
    BY DEF SetRun
  <1> HIDE DEF s
  <1>5. runs'[g] = s /\ \A h \in Goal : h # g => runs'[h] = runs[h]
    BY <1>1, <1>4
  <1>6. runs' \in [Goal -> Seq(Run)]
    BY <1>1, <1>3, <1>4
  <1>7. \A h \in Goal : Len(runs'[h]) = Len(runs[h])
    BY <1>3, <1>5
  <1>8. \A h \in Goal : DOMAIN runs'[h] = DOMAIN runs[h]
    BY <1>1, <1>6, <1>7
  <1> QED BY <1>2, <1>3, <1>5, <1>6, <1>7, <1>8

\* What start_run's append does.
LEMMA AddRunFacts ==
    ASSUME TypeOK, NEW g \in Goal, NEW r \in Run, runs' = [runs EXCEPT ![g] = Append(runs[g], r)]
    PROVE  /\ runs' \in [Goal -> Seq(Run)]
           /\ \A h \in Goal : h # g => runs'[h] = runs[h]
           /\ Len(runs'[g]) = Len(runs[g]) + 1
           /\ DOMAIN runs'[g] = DOMAIN runs[g] \cup {Len(runs[g]) + 1}
           /\ runs'[g][Len(runs[g]) + 1] = r
           /\ \A k \in DOMAIN runs[g] : runs'[g][k] = runs[g][k]
  <1> DEFINE s == Append(runs[g], r)
  <1>1. runs \in [Goal -> Seq(Run)] /\ runs[g] \in Seq(Run)
    BY DEF TypeOK
  <1>2. /\ s \in Seq(Run) /\ Len(s) = Len(runs[g]) + 1 /\ s[Len(runs[g]) + 1] = r
        /\ \A k \in 1 .. Len(runs[g]) : s[k] = runs[g][k]
    BY <1>1, AppendProperties
  <1> HIDE DEF s
  <1>3. runs' \in [Goal -> Seq(Run)] /\ runs'[g] = s /\ \A h \in Goal : h # g => runs'[h] = runs[h]
    BY <1>1, <1>2 DEF s
  <1>4. Len(runs[g]) \in Nat /\ DOMAIN runs[g] = 1 .. Len(runs[g]) /\ DOMAIN s = 1 .. Len(s)
    BY <1>1, <1>2
  <1>5. DOMAIN s = DOMAIN runs[g] \cup {Len(runs[g]) + 1}
    BY <1>2, <1>4
  <1> QED BY <1>2, <1>3, <1>4, <1>5

\* A goal's runs and their places.
LEMMA RunPlaces ==
    ASSUME TypeOK, NEW g \in Goal
    PROVE  /\ Len(runs[g]) \in Nat /\ DOMAIN runs[g] = 1 .. Len(runs[g])
           /\ runs[g] # << >> <=> Len(runs[g]) # 0
           /\ Len(runs[g]) # 0 => Len(runs[g]) \in DOMAIN runs[g]
           /\ \A i \in DOMAIN runs[g] : runs[g][i] \in Run /\ i \in Nat /\ i =< Len(runs[g])
  <1>1. runs[g] \in Seq(Run)
    BY DEF TypeOK
  <1>2. Len(runs[g]) \in Nat /\ DOMAIN runs[g] = 1 .. Len(runs[g])
    BY <1>1
  <1>3. runs[g] # << >> <=> Len(runs[g]) # 0
    BY <1>1, EmptySeq
  <1>4. \A i \in DOMAIN runs[g] : runs[g][i] \in Run
    BY <1>1, <1>2
  <1> QED BY <1>2, <1>3, <1>4

\* The goal under way and its run.
LEMMA TheRun ==
    ASSUME TypeOK, UnderWay, pc \in InRun
    PROVE  /\ cur \in Goal /\ this \in DOMAIN runs[cur] /\ ThisRun \in Run
           /\ ThisRun = runs[cur][this] /\ ThisRun.cut = "no"
           /\ pc \in Working => ThisRun.state \notin TERMINAL_STATES
  <1>1. cur \in Goal /\ this # 0 /\ ThisRun.cut = "no"
    BY DEF TypeOK, UnderWay, Taken
  <1>2. this \in DOMAIN runs[cur] /\ ThisRun \in Run
    BY <1>1, RunPlaces DEF this, ThisRun
  <1>3. pc \in Working => ThisRun.state \notin TERMINAL_STATES
    BY DEF UnderWay, _open_runs, ThisRun
  <1> QED BY <1>1, <1>2, <1>3 DEF ThisRun

-----------------------------------------------------------------------------
(* What one replaced run keeps. *)

\* The first run that follows one cut short is told so for good, if the run
\* replaced is the goal's last or keeps its steps and its cut.
LEMMA ChecksKept ==
    ASSUME TypeOK, CutIsOpen, RecordedCrashIsChecked,
           NEW g \in Goal, NEW i \in DOMAIN runs[g], NEW r \in Run, SetRun(g, i, r),
           r.told = runs[g][i].told,
           i = Len(runs[g]) => r.cut # "open" \/ r.state \notin TERMINAL_STATES,
           i # Len(runs[g]) => r.cut = runs[g][i].cut /\ r.steps = runs[g][i].steps
    PROVE  CutIsOpen' /\ RecordedCrashIsChecked'
  <1>1. /\ \A h \in Goal : Len(runs'[h]) = Len(runs[h]) /\ DOMAIN runs'[h] = DOMAIN runs[h]
        /\ \A h \in Goal : h # g => runs'[h] = runs[h]
        /\ runs'[g][i] = r
        /\ \A k \in DOMAIN runs[g] : k # i => runs'[g][k] = runs[g][k]
        /\ runs' \in [Goal -> Seq(Run)]
    BY SetRunFacts
  <1>2. ASSUME NEW h \in Goal, runs'[h] # << >>, runs'[h][Len(runs'[h])].cut = "open"
        PROVE  runs'[h][Len(runs'[h])].state \notin TERMINAL_STATES
    <2>1. runs[h] # << >> /\ Len(runs[h]) \in DOMAIN runs[h]
      <3>1. runs'[h] \in Seq(Run) /\ Len(runs'[h]) # 0
        BY <1>1, <1>2, EmptySeq
      <3> QED BY <1>1, <3>1, RunPlaces
    <2>2. CASE h = g /\ i = Len(runs[h])
      BY <1>1, <1>2, <2>2
    <2>3. CASE ~(h = g /\ i = Len(runs[h]))
      <3>1. runs'[h][Len(runs'[h])] = runs[h][Len(runs[h])]
        BY <1>1, <2>1, <2>3
      <3> QED BY <1>2, <2>1, <3>1 DEF CutIsOpen
    <2> QED BY <2>2, <2>3
  <1>3. ASSUME NEW h \in Goal, NEW m \in DOMAIN runs[h], NEW n \in DOMAIN runs[h], m = n + 1,
               runs'[h][n].cut = "open", runs'[h][n].steps > 0
        PROVE  runs'[h][m].told
    <2>1. n \in Nat /\ m =< Len(runs[h]) /\ n # Len(runs[h])
      BY <1>3, RunPlaces
    <2>2. runs[h][n].cut = runs'[h][n].cut /\ runs[h][n].steps = runs'[h][n].steps
      BY <1>1, <2>1
    <2>3. runs[h][m].told = runs'[h][m].told
      BY <1>1
    <2> QED BY <1>3, <2>2, <2>3 DEF RecordedCrashIsChecked
  <1>4. CutIsOpen'
    BY <1>2 DEF CutIsOpen
  <1>5. RecordedCrashIsChecked'
    BY <1>1, <1>3 DEF RecordedCrashIsChecked
  <1> QED BY <1>4, <1>5

LEMMA ChecksQuiet ==
    ASSUME CutIsOpen, RecordedCrashIsChecked, runs' = runs
    PROVE  CutIsOpen' /\ RecordedCrashIsChecked'
  BY DEF CutIsOpen, RecordedCrashIsChecked

\* The chains of the other runs are as they were, if this step neither begins
\* nor ends the recording of a step, or ends it well.
LEMMA ChainsKept ==
    ASSUME TypeOK, OnlyACrashBreaksTheChain,
           NEW g \in Goal, NEW i \in DOMAIN runs[g], NEW r \in Run, SetRun(g, i, r),
           pc = "stepped" => g = cur /\ i = this,
           ~verify_run(r) => r.cut = "open" \/ (pc' = "stepped" /\ g = cur' /\ i = this')
    PROVE  OnlyACrashBreaksTheChain'
  <1>1. /\ \A h \in Goal : DOMAIN runs'[h] = DOMAIN runs[h]
        /\ \A h \in Goal : h # g => runs'[h] = runs[h]
        /\ runs'[g][i] = r
        /\ \A k \in DOMAIN runs[g] : k # i => runs'[g][k] = runs[g][k]
    BY SetRunFacts
  <1>2. ASSUME NEW h \in Goal, NEW k \in DOMAIN runs[h], ~verify_run(runs'[h][k])
        PROVE  runs'[h][k].cut = "open" \/ (pc' = "stepped" /\ h = cur' /\ k = this')
    <2>1. CASE h = g /\ k = i
      BY <1>1, <1>2, <2>1
    <2>2. CASE ~(h = g /\ k = i)
      <3>1. runs'[h][k] = runs[h][k]
        BY <1>1, <2>2
      <3>2. ~verify_run(runs[h][k])
        BY <1>2, <3>1
      <3> QED BY <2>2, <3>1, <3>2 DEF OnlyACrashBreaksTheChain
    <2> QED BY <2>1, <2>2
  <1>3. \A h \in Goal : \A k \in DOMAIN runs'[h] :
          ~verify_run(runs'[h][k]) => runs'[h][k].cut = "open" \/ (pc' = "stepped" /\ h = cur' /\ k = this')
    BY <1>1, <1>2
  <1> QED BY <1>3 DEF OnlyACrashBreaksTheChain, verify_run

LEMMA ChainsQuiet ==
    ASSUME OnlyACrashBreaksTheChain, runs' = runs, pc = "stepped" => pc' = pc /\ cur' = cur
    PROVE  OnlyACrashBreaksTheChain'
  BY DEF OnlyACrashBreaksTheChain, verify_run, this

\* What is open after one run was replaced.
LEMMA OpenAfter ==
    ASSUME TypeOK, NEW g \in Goal, NEW i \in DOMAIN runs[g], NEW r \in Run, SetRun(g, i, r)
    PROVE  _open_runs(g)' = IF r.state \in TERMINAL_STATES THEN _open_runs(g) \ {i}
                            ELSE _open_runs(g) \cup {i}
  <1>1. /\ DOMAIN runs'[g] = DOMAIN runs[g] /\ runs'[g][i] = r
        /\ \A k \in DOMAIN runs[g] : k # i => runs'[g][k] = runs[g][k]
    BY SetRunFacts
  <1>2. _open_runs(g)' = {k \in DOMAIN runs[g] : runs'[g][k].state \notin TERMINAL_STATES}
    BY <1>1 DEF _open_runs, TERMINAL_STATES
  <1>3. ASSUME NEW k \in DOMAIN runs[g], k # i
        PROVE  k \in _open_runs(g)' <=> k \in _open_runs(g)
    BY <1>1, <1>2, <1>3 DEF _open_runs
  <1>4. i \in _open_runs(g)' <=> r.state \notin TERMINAL_STATES
    BY <1>1, <1>2
  <1>5. _open_runs(g)' \subseteq DOMAIN runs[g] /\ _open_runs(g) \subseteq DOMAIN runs[g]
    BY <1>2 DEF _open_runs
  <1> QED BY <1>3, <1>4, <1>5

LEMMA UnderWayQuiet ==
    ASSUME UnderWay, runs' = runs, cur' = cur, prior' = prior,
           pc' \in InRun => pc \in InRun, pc' # "opened", pc' \in Working => pc \in Working
    PROVE  UnderWay'
  BY DEF UnderWay, this, ThisRun, _open_runs, TERMINAL_STATES, InRun, Working

LEMMA UnderWayAway == pc' \notin InRun => UnderWay'
  BY DEF UnderWay, InRun, Working

\* The run under way is replaced and stays uncut; until it is closed it stays open.
LEMMA UnderWayHere ==
    ASSUME TypeOK, UnderWay, pc \in Working, cur' = cur, pc' \in InRun \ {"opened"},
           NEW r \in Run, SetRun(cur, this, r), r.cut = "no",
           pc' \in Working => r.state \notin TERMINAL_STATES
    PROVE  UnderWay'
  <1>1. cur \in Goal /\ this \in DOMAIN runs[cur]
    BY TheRun DEF Working, InRun
  <1>2. this' = this
    BY <1>1, SetRunFacts DEF this
  <1>3. ThisRun' = r
    BY <1>1, <1>2, SetRunFacts DEF ThisRun
  <1>4. this # 0
    BY DEF UnderWay, Working, InRun
  <1>5. _open_runs(cur)' = IF r.state \in TERMINAL_STATES THEN _open_runs(cur) \ {this}
                           ELSE _open_runs(cur) \cup {this}
    BY <1>1, OpenAfter
  <1>6. pc' \in Working => _open_runs(cur)' = {this}
    BY <1>5 DEF UnderWay
  <1> QED BY <1>2, <1>3, <1>4, <1>6 DEF UnderWay

-----------------------------------------------------------------------------
(* The operator and the start of the process. *)

LEMMA OperatorKeeps ==
    ASSUME RunnerInv,
           \/ \E g \in Goal : add_goal(g)
           \/ \E g \in Goal, op \in {"stop", "pause", "resume"} : on_control(g, op)
           \/ halt
    PROVE  RunnerInv'
  <1> USE SupervisorConstants
  <1>1. UNCHANGED <<runs, results, worker, crashes>>
    BY DEF add_goal, on_control, halt, goals
  <1>2. TypeOK /\ UnderWay /\ CutIsOpen /\ RecordedCrashIsChecked /\ OnlyACrashBreaksTheChain
        /\ Prompt /\ Unsettled
    BY DEF RunnerInv, RunsInv
  <1>3. TypeOK'
    <2>1. status' \in [Goal -> Statuses] /\ stops' \subseteq Goal /\ paused' \subseteq Goal
          /\ halted' \in BOOLEAN /\ controls' \in 0 .. MaxControl /\ late' \in Nat
      <3>1. CASE \E g \in Goal : add_goal(g)
        BY <1>2, <3>1 DEF TypeOK, add_goal, Statuses
      <3>2. CASE \E g \in Goal, op \in {"stop", "pause", "resume"} : on_control(g, op)
        <4>1. PICK g \in Goal, op \in {"stop", "pause", "resume"} : on_control(g, op)
          BY <3>2
        <4>2. /\ UNCHANGED <<status, halted>> /\ stops' \in {stops, stops \cup {g}, stops \ {g}}
              /\ paused' \in {paused, paused \cup {g}, paused \ {g}} /\ late' \in {late, 0}
              /\ controls < MaxControl /\ controls' = controls + 1
          BY <4>1 DEF on_control, goals
        <4> QED BY <1>2, <4>2 DEF TypeOK
      <3>3. CASE halt
        BY <1>2, <3>3 DEF TypeOK, halt, goals
      <3> QED BY <3>1, <3>2, <3>3
    <2> QED BY <1>1, <1>2, <2>1 DEF TypeOK, worker
  <1>4. UnderWay'
    BY <1>1, <1>2 DEF UnderWay, worker, this, ThisRun, _open_runs, TERMINAL_STATES
  <1>5. CutIsOpen' /\ RecordedCrashIsChecked' /\ OnlyACrashBreaksTheChain'
    BY <1>1, <1>2, ChecksQuiet, ChainsQuiet DEF worker
  <1>6. Prompt'
    <2>1. CASE UNCHANGED late /\ (should_stop => should_stop')
      BY <1>1, <1>2, <2>1 DEF Prompt, worker
    <2>2. CASE late' = 0
      BY <2>2 DEF Prompt
    <2>3. (UNCHANGED late /\ (should_stop => should_stop')) \/ late' = 0
      BY <1>1 DEF add_goal, on_control, halt, should_stop, worker, goals
    <2> QED BY <2>1, <2>2, <2>3
  <1>7. Unsettled'
    <2>1. \A g \in Goal : status'[g] = status[g] \/ status'[g] = "pending"
      BY <1>2 DEF TypeOK, add_goal, on_control, halt, goals
    <2>2. pc \in Taken => cur \in Goal
      BY <1>2 DEF TypeOK
    <2> QED BY <1>1, <1>2, <2>1, <2>2 DEF Unsettled, worker
  <1> QED BY <1>3, <1>4, <1>5, <1>6, <1>7 DEF RunnerInv, RunsInv

\* Start-up, the choice of a goal and what run_goal does before it opens a run.
LEMMA SchedulerKeeps ==
    ASSUME RunnerInv,
           \/ start \/ recover \/ pick
           \/ run_goal_paused \/ run_goal_stopped \/ run_goal_parked \/ run_goal_active
    PROVE  RunnerInv'
  <1> USE SupervisorConstants
  <1>1. runs' = runs /\ pc \notin InRun /\ pc' \notin InRun /\ crashes' = crashes
    BY DEF start, recover, pick, run_goal_paused, run_goal_stopped, run_goal_parked, run_goal_active,
           InRun, goals, Return
  <1>2. TypeOK /\ UnderWay /\ CutIsOpen /\ RecordedCrashIsChecked /\ OnlyACrashBreaksTheChain
        /\ Prompt /\ Unsettled
    BY DEF RunnerInv, RunsInv
  <1>3. prior = {} /\ prior' = {} /\ late = 0 /\ late' = 0
    <2>1. prior = {} /\ late = 0
      BY <1>1, <1>2 DEF TypeOK, Prompt, InRun
    <2> QED BY <2>1 DEF start, recover, pick, run_goal_paused, run_goal_stopped, run_goal_parked,
                        run_goal_active, Return
  <1>4. UNCHANGED <<stops, paused, controls>> /\ halted' \in {halted, FALSE}
    BY DEF start, recover, pick, run_goal_paused, run_goal_stopped, run_goal_parked, run_goal_active, asked
  <1>5. status' \in [Goal -> Statuses] /\ results' \in [Goal -> Nat]
    <2>1. pc \in Taken => cur \in Goal
      BY <1>2 DEF TypeOK
    <2>2. CASE recover
      BY <1>2, <2>2 DEF TypeOK, recover, SetStatus, Statuses
    <2>3. CASE start \/ pick \/ run_goal_paused
      BY <1>2, <2>3 DEF TypeOK, start, pick, run_goal_paused, goals
    <2>4. CASE run_goal_stopped \/ run_goal_parked \/ run_goal_active
      BY <1>2, <2>1, <2>4 DEF TypeOK, run_goal_stopped, run_goal_parked, run_goal_active, SetStatus,
                              Statuses, Taken
    <2> QED BY <2>2, <2>3, <2>4
  <1>6. /\ pc' \in {"recover", "idle", "picked", "stopped", "active"} /\ cur' \in Goal \cup {-1}
        /\ (pc' \in Taken => cur' \in Goal) /\ code' \in {0, 1, 5}
    BY <1>2 DEF TypeOK, start, recover, pick, run_goal_paused, run_goal_stopped, run_goal_parked,
                run_goal_active, Return, Taken, InRun, pending_ready, ready
  <1>7. TypeOK'
    BY <1>1, <1>2, <1>3, <1>4, <1>5, <1>6 DEF TypeOK
  <1>8. CutIsOpen' /\ RecordedCrashIsChecked' /\ OnlyACrashBreaksTheChain' /\ UnderWay'
    BY <1>1, <1>2, ChecksQuiet, ChainsQuiet, UnderWayAway DEF InRun
  <1>9. Prompt'
    BY <1>3 DEF Prompt
  <1>10. Unsettled'
    <2>1. CASE pick
      BY <2>1 DEF pick, pending_ready, ready, Unsettled, goals
    <2>2. CASE run_goal_stopped
      BY <1>2, <2>2 DEF run_goal_stopped, Unsettled, Taken, InRun
    <2>3. CASE run_goal_active
      <3>1. cur \in Goal /\ status[cur] \in {"pending", "active"}
        BY <1>2, <2>3 DEF run_goal_active, TypeOK, Unsettled, Taken
      <3>2. status'[cur] = "active"
        BY <1>2, <2>3, <3>1 DEF run_goal_active, SetStatus, TypeOK
      <3> QED BY <2>3, <3>2 DEF Unsettled, run_goal_active
    <2>4. CASE start \/ recover \/ run_goal_paused \/ run_goal_parked
      BY <2>4 DEF start, recover, run_goal_paused, run_goal_parked, Return, Unsettled, Taken, InRun
    <2> QED BY <2>1, <2>2, <2>3, <2>4
  <1> QED BY <1>7, <1>8, <1>9, <1>10 DEF RunnerInv, RunsInv

\* recover_runs moves an open run on; it stays open.
LEMMA RecoverRunsKeeps == ASSUME RunnerInv, recover_runs PROVE RunnerInv'
  <1>1. TypeOK /\ UnderWay /\ CutIsOpen /\ RecordedCrashIsChecked /\ OnlyACrashBreaksTheChain
        /\ Prompt /\ Unsettled
    BY DEF RunnerInv, RunsInv
  <1>2. pc = "recover" /\ UNCHANGED <<status, results, asked, worker, crashes, late>>
    BY DEF recover_runs
  <1>3. PICK g \in Goal : \E i \in DOMAIN runs[g] :
              SetRun(g, i, [runs[g][i] EXCEPT !.state = "recovering"])
    BY DEF recover_runs
  <1>4. PICK i \in DOMAIN runs[g] : SetRun(g, i, [runs[g][i] EXCEPT !.state = "recovering"])
    BY <1>3
  <1>5. PICK r : r = [runs[g][i] EXCEPT !.state = "recovering"]
    OBVIOUS
  <1>6. runs[g][i] \in Run
    BY <1>1, RunPlaces
  <1>7. /\ r \in Run /\ r.state = "recovering" /\ r.told = runs[g][i].told /\ r.cut = runs[g][i].cut
        /\ r.steps = runs[g][i].steps /\ r.head = runs[g][i].head
    BY <1>5, <1>6 DEF Run
  <1>8. SetRun(g, i, r)
    BY <1>4, <1>5
  <1>9. prior = {}
    BY <1>1, <1>2 DEF TypeOK
  <1>10. TypeOK'
    <2>1. runs' \in [Goal -> Seq(Run)]
      BY <1>1, <1>7, <1>8, SetRunFacts
    <2> QED BY <1>1, <1>2, <1>9, <2>1 DEF TypeOK, asked, worker
  <1>11. CutIsOpen' /\ RecordedCrashIsChecked'
    BY <1>1, <1>7, <1>8, ChecksKept DEF TERMINAL_STATES
  <1>12. OnlyACrashBreaksTheChain'
    <2>1. ~verify_run(r) => r.cut = "open"
      BY <1>1, <1>2, <1>7 DEF OnlyACrashBreaksTheChain, verify_run
    <2> QED BY <1>1, <1>2, <1>7, <1>8, <2>1, ChainsKept
  <1>13. UnderWay'
    BY <1>2, UnderWayAway DEF worker, InRun
  <1>14. Prompt' /\ Unsettled'
    BY <1>1, <1>2 DEF Prompt, Unsettled, should_stop, asked, worker
  <1> QED BY <1>10, <1>11, <1>12, <1>13, <1>14 DEF RunnerInv, RunsInv

-----------------------------------------------------------------------------
(* The run of the goal. *)

\* The new run knows of the open ones, and of what their recovery asks for.
LEMMA StartRunKeeps == ASSUME RunnerInv, start_run PROVE RunnerInv'
  <1>1. TypeOK /\ UnderWay /\ CutIsOpen /\ RecordedCrashIsChecked /\ OnlyACrashBreaksTheChain
        /\ Prompt /\ Unsettled
    BY DEF RunnerInv, RunsInv
  <1>2. /\ pc = "active" /\ pc' = "opened" /\ late' = 0 /\ cur' = cur /\ prior' = _open_runs(cur)
        /\ UNCHANGED <<status, results, asked, code, crashes>>
    BY DEF start_run
  <1>3. cur \in Goal
    BY <1>1, <1>2 DEF TypeOK, Taken
  <1>4. PICK r : r = [state |-> "created", steps |-> 0, head |-> 0,
                      told |-> \E i \in _open_runs(cur) : recovery_for(runs[cur][i]) = "reobserve_before_retry",
                      acted |-> FALSE, cut |-> "no"]
    OBVIOUS
  <1>5. /\ r \in Run /\ r.state = "created" /\ r.head = 0 /\ r.cut = "no"
        /\ r.told <=> \E i \in _open_runs(cur) : recovery_for(runs[cur][i]) = "reobserve_before_retry"
    BY <1>4 DEF Run
  <1>6. runs' = [runs EXCEPT ![cur] = Append(runs[cur], r)]
    BY <1>4 DEF start_run
  <1>7. PICK n : n = Len(runs[cur]) + 1
    OBVIOUS
  <1>8. /\ runs' \in [Goal -> Seq(Run)]
        /\ \A h \in Goal : h # cur => runs'[h] = runs[h]
        /\ Len(runs'[cur]) = n /\ DOMAIN runs'[cur] = DOMAIN runs[cur] \cup {n}
        /\ runs'[cur][n] = r
        /\ \A k \in DOMAIN runs[cur] : runs'[cur][k] = runs[cur][k]
    BY <1>1, <1>3, <1>5, <1>6, <1>7, AddRunFacts
  <1>9. n \in Nat \ {0} /\ n \notin DOMAIN runs[cur] /\ Len(runs[cur]) = n - 1
    BY <1>1, <1>3, <1>7, RunPlaces
  <1>10. TypeOK'
    <2>1. prior' \subseteq DOMAIN runs'[cur]
      BY <1>2, <1>8 DEF _open_runs
    <2> QED BY <1>1, <1>2, <1>3, <1>8, <2>1 DEF TypeOK, asked, InRun
  <1>11. UnderWay'
    <2>1. this' = n /\ ThisRun' = r
      BY <1>2, <1>8 DEF this, ThisRun
    <2>2. _open_runs(cur)' = _open_runs(cur) \cup {n}
      <3>1. _open_runs(cur)' = {k \in DOMAIN runs[cur] \cup {n} : runs'[cur][k].state \notin TERMINAL_STATES}
        BY <1>2, <1>8 DEF _open_runs, TERMINAL_STATES
      <3>2. r.state \notin TERMINAL_STATES
        BY <1>5 DEF TERMINAL_STATES
      <3> QED BY <1>8, <1>9, <3>1, <3>2 DEF _open_runs
    <2>3. n \notin prior'
      BY <1>2, <1>9 DEF _open_runs
    <2> QED BY <1>2, <1>5, <1>9, <2>1, <2>2, <2>3 DEF UnderWay, Working
  <1>12. CutIsOpen'
    <2>1. ASSUME NEW h \in Goal, runs'[h] # << >>, runs'[h][Len(runs'[h])].cut = "open"
          PROVE  runs'[h][Len(runs'[h])].state \notin TERMINAL_STATES
      <3>1. h # cur
        BY <1>5, <1>8, <2>1
      <3> QED BY <1>1, <1>8, <2>1, <3>1 DEF CutIsOpen
    <2> QED BY <2>1 DEF CutIsOpen
  <1>13. RecordedCrashIsChecked'
    <2>1. ASSUME NEW h \in Goal, NEW i \in DOMAIN runs'[h], NEW j \in DOMAIN runs'[h], i = j + 1,
                 runs'[h][j].cut = "open", runs'[h][j].steps > 0
          PROVE  runs'[h][i].told
      <3>1. CASE h # cur
        BY <1>1, <1>8, <2>1, <3>1 DEF RecordedCrashIsChecked
      <3>2. CASE h = cur /\ i # n
        <4>1. i \in DOMAIN runs[cur] /\ i =< Len(runs[cur]) /\ i \in Nat
          BY <1>1, <1>3, <1>8, <3>2, RunPlaces
        <4>2. j # n
          BY <1>5, <1>8, <2>1, <3>2
        <4>3. j \in DOMAIN runs[cur]
          BY <1>8, <3>2, <4>2
        <4> QED BY <1>1, <1>3, <1>8, <2>1, <3>2, <4>1, <4>3 DEF RecordedCrashIsChecked
      <3>3. CASE h = cur /\ i = n
        <4>1. j # n /\ j \in DOMAIN runs[cur]
          BY <1>8, <1>9, <2>1, <3>3
        <4>2. j \in Nat
          BY <1>1, <1>3, <4>1, RunPlaces
        <4>3. j = Len(runs[cur]) /\ runs[cur] # << >>
          BY <1>1, <1>3, <1>9, <2>1, <3>3, <4>1, <4>2, RunPlaces
        <4>4. runs[cur][j].cut = "open" /\ runs[cur][j].steps > 0
          BY <1>8, <2>1, <3>3, <4>1
        <4>5. runs[cur][j].state \notin TERMINAL_STATES
          BY <1>1, <1>3, <4>3, <4>4 DEF CutIsOpen
        <4>6. recovery_for(runs[cur][j]) = "reobserve_before_retry"
          BY <4>4, <4>5 DEF recovery_for
        <4> QED BY <1>5, <1>8, <3>3, <4>1, <4>5, <4>6 DEF _open_runs
      <3> QED BY <3>1, <3>2, <3>3
    <2> QED BY <2>1 DEF RecordedCrashIsChecked
  <1>14. OnlyACrashBreaksTheChain'
    <2>1. ASSUME NEW h \in Goal, NEW k \in DOMAIN runs'[h], ~verify_run(runs'[h][k])
          PROVE  runs'[h][k].cut = "open"
      <3>1. CASE h = cur /\ k = n
        BY <1>5, <1>8, <2>1, <3>1 DEF verify_run
      <3>2. CASE ~(h = cur /\ k = n)
        <4>1. k \in DOMAIN runs[h] /\ runs'[h][k] = runs[h][k]
          BY <1>8, <3>2
        <4> QED BY <1>1, <1>2, <2>1, <4>1 DEF OnlyACrashBreaksTheChain
      <3> QED BY <3>1, <3>2
    <2> QED BY <2>1 DEF OnlyACrashBreaksTheChain, verify_run
  <1>15. Prompt' /\ Unsettled'
    BY <1>1, <1>2 DEF Prompt, Unsettled, Taken
  <1> QED BY <1>10, <1>11, <1>12, <1>13, <1>14, <1>15 DEF RunnerInv, RunsInv

\* The open runs found are closed one by one; they are not the goal's last.
LEMMA SupersedeKeeps == ASSUME RunnerInv, supersede PROVE RunnerInv'
  <1>1. TypeOK /\ UnderWay /\ CutIsOpen /\ RecordedCrashIsChecked /\ OnlyACrashBreaksTheChain
        /\ Prompt /\ Unsettled
    BY DEF RunnerInv, RunsInv
  <1>2. /\ pc = "opened" /\ UNCHANGED <<status, results, asked, cur, code, crashes, late>>
    BY DEF supersede
  <1>3. cur \in Goal /\ prior \subseteq DOMAIN runs[cur]
    BY <1>1, <1>2 DEF TypeOK, Taken, InRun
  <1>4. this # 0 /\ ThisRun.cut = "no" /\ this \notin prior /\ _open_runs(cur) = prior \cup {this}
    BY <1>1, <1>2 DEF UnderWay, InRun
  <1>5. CASE prior = {} /\ pc' = "loop" /\ UNCHANGED <<runs, prior>>
    <2>1. TypeOK'
      BY <1>1, <1>2, <1>5 DEF TypeOK, asked, InRun, Taken
    <2>2. UnderWay'
      BY <1>2, <1>4, <1>5 DEF UnderWay, Working, this, ThisRun, _open_runs, TERMINAL_STATES
    <2>3. CutIsOpen' /\ RecordedCrashIsChecked' /\ OnlyACrashBreaksTheChain'
      BY <1>1, <1>2, <1>5, ChecksQuiet, ChainsQuiet
    <2>4. Prompt' /\ Unsettled'
      BY <1>1, <1>2, <1>5 DEF Prompt, Unsettled, should_stop, asked, InRun, Taken
    <2> QED BY <2>1, <2>2, <2>3, <2>4 DEF RunnerInv, RunsInv
  <1>6. CASE \E i \in prior : /\ SetRun(cur, i, [runs[cur][i] EXCEPT !.state = "stopped"])
                              /\ prior' = prior \ {i} /\ UNCHANGED pc
    <2>1. PICK i \in prior : /\ SetRun(cur, i, [runs[cur][i] EXCEPT !.state = "stopped"])
                             /\ prior' = prior \ {i} /\ UNCHANGED pc
      BY <1>6
    <2>2. PICK r : r = [runs[cur][i] EXCEPT !.state = "stopped"]
      OBVIOUS
    <2>3. i \in DOMAIN runs[cur] /\ runs[cur][i] \in Run /\ i # this
      BY <1>1, <1>3, <1>4, RunPlaces
    <2>4. /\ r \in Run /\ r.state \in TERMINAL_STATES /\ r.told = runs[cur][i].told
          /\ r.cut = runs[cur][i].cut /\ r.steps = runs[cur][i].steps /\ r.head = runs[cur][i].head
      BY <2>2, <2>3 DEF Run, TERMINAL_STATES
    <2>5. SetRun(cur, i, r)
      BY <2>1, <2>2
    <2>6. /\ runs' \in [Goal -> Seq(Run)]
          /\ \A h \in Goal : Len(runs'[h]) = Len(runs[h]) /\ DOMAIN runs'[h] = DOMAIN runs[h]
          /\ \A k \in DOMAIN runs[cur] : k # i => runs'[cur][k] = runs[cur][k]
      BY <1>1, <1>3, <2>3, <2>4, <2>5, SetRunFacts
    <2>7. this' = this /\ this \in DOMAIN runs[cur]
      BY <1>1, <1>2, <1>3, <1>4, <2>6, RunPlaces DEF this
    <2>8. ThisRun' = ThisRun
      BY <1>2, <2>3, <2>6, <2>7 DEF ThisRun
    <2>9. _open_runs(cur)' = _open_runs(cur) \ {i}
      BY <1>1, <1>2, <1>3, <2>3, <2>4, <2>5, OpenAfter
    <2>10. TypeOK'
      BY <1>1, <1>2, <1>3, <2>1, <2>6 DEF TypeOK, asked
    <2>11. UnderWay'
      BY <1>2, <1>4, <2>1, <2>3, <2>7, <2>8, <2>9 DEF UnderWay, Working
    <2>12. i # Len(runs[cur])
      BY <2>3 DEF this
    <2>13. CutIsOpen' /\ RecordedCrashIsChecked'
      BY <1>1, <1>3, <2>3, <2>4, <2>5, <2>12, ChecksKept
    <2>14. ~verify_run(r) => r.cut = "open"
      BY <1>1, <1>2, <1>3, <2>3, <2>4 DEF OnlyACrashBreaksTheChain, verify_run
    <2>15. OnlyACrashBreaksTheChain'
      BY <1>1, <1>2, <1>3, <2>3, <2>4, <2>5, <2>14, ChainsKept
    <2>16. Prompt' /\ Unsettled'
      BY <1>1, <1>2, <2>1 DEF Prompt, Unsettled, should_stop, asked
    <2> QED BY <2>10, <2>11, <2>13, <2>15, <2>16 DEF RunnerInv, RunsInv
  <1> QED BY <1>5, <1>6 DEF supersede

\* Turns of the agent loop that write nothing, and the result event.
LEMMA TurnKeeps ==
    ASSUME RunnerInv,
           turn_stop \/ turn_begin \/ turn_skip \/ turn_done \/ turn_fail \/ append_result
    PROVE  RunnerInv'
  <1>1. TypeOK /\ UnderWay /\ CutIsOpen /\ RecordedCrashIsChecked /\ OnlyACrashBreaksTheChain
        /\ Prompt /\ Unsettled
    BY DEF RunnerInv, RunsInv
  <1>2. /\ UNCHANGED <<status, runs, asked, cur, prior, crashes, late>> /\ code' \in {code, 0, 1, 5}
        /\ \/ pc \in {"loop", "turn"} /\ pc' \in {"turn", "acted", "closing"} /\ UNCHANGED results
           \/ pc = "closed" /\ pc' = "resulted" /\ results' = [results EXCEPT ![cur] = @ + 1]
    BY DEF turn_stop, turn_begin, turn_skip, turn_done, turn_fail, append_result, goals
  <1>3. pc' = "turn" => ~should_stop
    BY DEF turn_stop, turn_begin, turn_skip, turn_done, turn_fail, append_result
  <1>4. cur \in Goal /\ prior = {}
    BY <1>1, <1>2 DEF TypeOK, Taken, InRun
  <1>5. TypeOK'
    <2>1. results \in [Goal -> Nat] /\ (results' = results \/ results' = [results EXCEPT ![cur] = @ + 1])
      BY <1>1, <1>2 DEF TypeOK
    <2>2. results' \in [Goal -> Nat]
      BY <1>4, <2>1
    <2>3. pc' \in InRun /\ code' \in {0, 1, 5}
      BY <1>1, <1>2 DEF TypeOK, InRun
    <2> QED BY <1>1, <1>2, <1>4, <2>2, <2>3 DEF TypeOK, asked
  <1>6. UnderWay'
    BY <1>1, <1>2, UnderWayQuiet DEF InRun, Working
  <1>7. CutIsOpen' /\ RecordedCrashIsChecked' /\ OnlyACrashBreaksTheChain'
    BY <1>1, <1>2, ChecksQuiet, ChainsQuiet
  <1>8. Prompt'
    <2>1. should_stop' <=> should_stop
      BY <1>2 DEF should_stop, asked
    <2> QED BY <1>1, <1>2, <1>3, <2>1 DEF Prompt, InRun
  <1>9. Unsettled'
    BY <1>1, <1>2 DEF Unsettled, Taken, InRun
  <1> QED BY <1>5, <1>6, <1>7, <1>8, <1>9 DEF RunnerInv, RunsInv

\* What an action, the recording of a step and the end of a run write.
LEMMA RecordKeeps ==
    ASSUME RunnerInv, turn_act \/ record_step \/ record_head \/ finish_run
    PROVE  RunnerInv'
  <1>1. TypeOK /\ UnderWay /\ CutIsOpen /\ RecordedCrashIsChecked /\ OnlyACrashBreaksTheChain
        /\ Prompt /\ Unsettled
    BY DEF RunnerInv, RunsInv
  <1>2. /\ pc \in {"turn", "acted", "stepped", "closing"}
        /\ pc' \in {"acted", "stepped", "loop", "closing", "closed"}
        /\ pc' = "closed" <=> pc = "closing"
        /\ UNCHANGED <<status, results, asked, cur, prior, crashes>> /\ code' \in {code, 1}
    BY DEF turn_act, record_step, record_head, finish_run
  <1>3. cur \in Goal /\ this \in DOMAIN runs[cur] /\ ThisRun \in Run /\ ThisRun = runs[cur][this]
        /\ ThisRun.cut = "no" /\ ThisRun.state \notin TERMINAL_STATES
    BY <1>1, <1>2, TheRun DEF InRun, Working
  <1>4. prior = {}
    BY <1>1, <1>2 DEF TypeOK
  <1>5. pc # "stepped" => verify_run(ThisRun)
    BY <1>1, <1>3 DEF OnlyACrashBreaksTheChain
  <1>6. \E r \in Run : /\ SetRun(cur, this, r) /\ r.told = ThisRun.told /\ r.cut = "no"
                       /\ pc' # "closed" => r.state \notin TERMINAL_STATES
                       /\ verify_run(r) \/ pc' = "stepped"
    <2>1. CASE turn_act
      <3>1. PICK r : r = [ThisRun EXCEPT !.acted = TRUE]
        OBVIOUS
      <3>2. /\ r \in Run /\ r.told = ThisRun.told /\ r.cut = "no" /\ r.state = ThisRun.state
            /\ r.head = ThisRun.head /\ r.steps = ThisRun.steps
        BY <1>3, <3>1 DEF Run
      <3>3. SetRun(cur, this, r) /\ pc # "stepped"
        BY <2>1, <3>1 DEF turn_act
      <3> QED BY <1>3, <1>5, <3>2, <3>3 DEF verify_run
    <2>2. CASE record_step
      <3>1. PICK r : r = [ThisRun EXCEPT !.steps = @ + 1]
        OBVIOUS
      <3>2. r \in Run /\ r.told = ThisRun.told /\ r.cut = "no" /\ r.state = ThisRun.state
        BY <1>3, <3>1 DEF Run
      <3>3. SetRun(cur, this, r) /\ pc' = "stepped"
        BY <2>2, <3>1 DEF record_step
      <3> QED BY <1>3, <3>2, <3>3
    <2>3. CASE record_head
      <3>1. PICK r : r = [ThisRun EXCEPT !.head = ThisRun.steps, !.state = "executing"]
        OBVIOUS
      <3>2. r \in Run /\ r.told = ThisRun.told /\ r.cut = "no" /\ r.state = "executing" /\ r.head = r.steps
        BY <1>3, <3>1 DEF Run
      <3>3. SetRun(cur, this, r)
        BY <2>3, <3>1 DEF record_head
      <3> QED BY <3>2, <3>3 DEF verify_run, TERMINAL_STATES
    <2>4. CASE finish_run
      <3>1. PICK s : s = CASE code = 0 -> "completed" [] code = 5 -> "stopped" [] OTHER -> "failed"
        OBVIOUS
      <3>2. s \in TERMINAL_STATES
        BY <3>1 DEF TERMINAL_STATES
      <3>3. PICK r : r = [ThisRun EXCEPT !.state = s]
        OBVIOUS
      <3>4. /\ r \in Run /\ r.told = ThisRun.told /\ r.cut = "no"
            /\ r.head = ThisRun.head /\ r.steps = ThisRun.steps
        BY <1>3, <3>2, <3>3 DEF Run
      <3>5. SetRun(cur, this, r) /\ pc # "stepped" /\ pc' = "closed"
        BY <2>4, <3>1, <3>3 DEF finish_run
      <3> QED BY <1>5, <3>4, <3>5 DEF verify_run
    <2> QED BY <2>1, <2>2, <2>3, <2>4
  <1>7. PICK r \in Run : /\ SetRun(cur, this, r) /\ r.told = ThisRun.told /\ r.cut = "no"
                         /\ pc' # "closed" => r.state \notin TERMINAL_STATES
                         /\ verify_run(r) \/ pc' = "stepped"
    BY <1>6
  <1>8. runs' \in [Goal -> Seq(Run)] /\ Len(runs'[cur]) = Len(runs[cur])
    BY <1>1, <1>3, <1>7, SetRunFacts
  <1>9. TypeOK'
    <2>1. late' \in Nat
      BY <1>1 DEF TypeOK, turn_act, record_step, record_head, finish_run
    <2> QED BY <1>1, <1>2, <1>3, <1>4, <1>8, <2>1 DEF TypeOK, asked, InRun
  <1>10. UnderWay'
    BY <1>1, <1>2, <1>7, UnderWayHere DEF Working, InRun
  <1>11. CutIsOpen' /\ RecordedCrashIsChecked'
    BY <1>1, <1>3, <1>7, ChecksKept DEF this
  <1>12. OnlyACrashBreaksTheChain'
    <2>1. cur' = cur /\ this' = this
      BY <1>2, <1>8 DEF this
    <2> QED BY <1>1, <1>3, <1>7, <2>1, ChainsKept
  <1>13. Prompt'
    <2>1. should_stop' <=> should_stop
      BY <1>2 DEF should_stop, asked
    <2>2. pc' \in InRun \ {"turn"}
      BY <1>2 DEF InRun
    <2>3. late' = late \/ (pc = "turn" /\ late' = IF should_stop THEN late + 1 ELSE late)
      BY DEF turn_act, record_step, record_head, finish_run
    <2> QED BY <1>1, <2>1, <2>2, <2>3 DEF Prompt
  <1>14. Unsettled'
    BY <1>1, <1>2 DEF Unsettled, Taken, InRun
  <1> QED BY <1>9, <1>10, <1>11, <1>12, <1>13, <1>14 DEF RunnerInv, RunsInv

\* A settled goal's runs are all closed and are not looked at again.
LEMMA SettleKeeps == ASSUME RunnerInv, settle_goal PROVE RunnerInv'
  <1>1. TypeOK /\ UnderWay /\ CutIsOpen /\ RecordedCrashIsChecked /\ OnlyACrashBreaksTheChain
        /\ Prompt /\ Unsettled
    BY DEF RunnerInv, RunsInv
  <1>2. /\ pc = "resulted" /\ pc' = "idle" /\ cur' = -1 /\ prior' = {} /\ code' = 0 /\ late' = 0
        /\ UNCHANGED <<results, asked, crashes>> /\ runs' = [runs EXCEPT ![cur] = << >>]
    BY DEF settle_goal, Return
  <1>3. cur \in Goal
    BY <1>1, <1>2 DEF TypeOK, Taken, InRun
  <1>4. /\ runs' \in [Goal -> Seq(Run)] /\ runs'[cur] = << >>
        /\ \A h \in Goal : h # cur => runs'[h] = runs[h]
    BY <1>1, <1>2, <1>3 DEF TypeOK
  <1>5. TypeOK'
    <2>1. status' \in [Goal -> Statuses]
      BY <1>1, <1>3 DEF settle_goal, SetStatus, TypeOK, Statuses
    <2> QED BY <1>1, <1>2, <1>4, <2>1 DEF TypeOK, asked, Taken, InRun
  <1>6. UnderWay'
    BY <1>2, UnderWayAway DEF InRun
  <1>7. CutIsOpen'
    BY <1>1, <1>4 DEF CutIsOpen, TERMINAL_STATES
  <1>8. DOMAIN runs'[cur] = {}
    BY <1>4
  <1>9. RecordedCrashIsChecked'
    BY <1>1, <1>4, <1>8 DEF RecordedCrashIsChecked
  <1>10. OnlyACrashBreaksTheChain'
    BY <1>1, <1>2, <1>4, <1>8 DEF OnlyACrashBreaksTheChain, verify_run
  <1>11. Prompt' /\ Unsettled'
    BY <1>2 DEF Prompt, Unsettled, Taken, InRun
  <1> QED BY <1>5, <1>6, <1>7, <1>9, <1>10, <1>11 DEF RunnerInv, RunsInv

\* A crash marks the run it cuts; the run stays as open as it was.
LEMMA CrashKeeps == ASSUME RunnerInv, Crash PROVE RunnerInv'
  <1> USE SupervisorConstants
  <1>1. TypeOK /\ UnderWay /\ CutIsOpen /\ RecordedCrashIsChecked /\ OnlyACrashBreaksTheChain
        /\ Prompt /\ Unsettled
    BY DEF RunnerInv, RunsInv
  <1>2. /\ pc' = "down" /\ cur' = -1 /\ prior' = {} /\ code' = 0 /\ late' = 0
        /\ UNCHANGED <<status, results, asked>> /\ crashes < MaxCrash /\ crashes' = crashes + 1
    BY DEF Crash
  <1>3. UnderWay' /\ Prompt' /\ Unsettled'
    BY <1>2 DEF UnderWay, Prompt, Unsettled, Taken, InRun, Working
  <1>4. runs' \in [Goal -> Seq(Run)] => TypeOK'
    BY <1>1, <1>2 DEF TypeOK, asked, Taken, InRun
  <1>5. CASE pc \notin InRun
    <2>1. runs' = runs /\ pc # "stepped"
      BY <1>5 DEF Crash, InRun
    <2>2. CutIsOpen' /\ RecordedCrashIsChecked' /\ OnlyACrashBreaksTheChain'
      BY <1>1, <2>1, ChecksQuiet, ChainsQuiet
    <2>3. runs' \in [Goal -> Seq(Run)]
      BY <1>1, <2>1 DEF TypeOK
    <2> QED BY <1>3, <1>4, <2>2, <2>3 DEF RunnerInv, RunsInv
  <1>6. CASE pc \in InRun
    <2>1. /\ cur \in Goal /\ this \in DOMAIN runs[cur] /\ ThisRun \in Run /\ ThisRun = runs[cur][this]
          /\ ThisRun.cut = "no" /\ (pc \in Working => ThisRun.state \notin TERMINAL_STATES)
      BY <1>1, <1>6, TheRun
    <2>2. PICK c : c = IF ThisRun.state \in TERMINAL_STATES THEN "closed" ELSE "open"
      OBVIOUS
    <2>3. PICK r : r = [ThisRun EXCEPT !.cut = c]
      OBVIOUS
    <2>4. /\ r \in Run /\ r.told = ThisRun.told /\ r.cut = c /\ r.state = ThisRun.state
          /\ r.steps = ThisRun.steps /\ r.head = ThisRun.head
      BY <2>1, <2>2, <2>3 DEF Run
    <2>5. SetRun(cur, this, r)
      BY <1>6, <2>2, <2>3 DEF Crash
    <2>6. r.cut # "open" \/ r.state \notin TERMINAL_STATES
      BY <2>2, <2>4
    <2>7. CutIsOpen' /\ RecordedCrashIsChecked'
      BY <1>1, <2>1, <2>4, <2>5, <2>6, ChecksKept DEF this
    <2>8. ~verify_run(r) => r.cut = "open"
      <3>1. ~verify_run(r) => ~verify_run(ThisRun)
        BY <2>4 DEF verify_run
      <3>2. ~verify_run(ThisRun) => pc = "stepped"
        BY <1>1, <2>1 DEF OnlyACrashBreaksTheChain
      <3> QED BY <2>1, <2>2, <2>4, <3>1, <3>2 DEF Working
    <2>9. OnlyACrashBreaksTheChain'
      BY <1>1, <2>1, <2>4, <2>5, <2>8, ChainsKept
    <2>10. runs' \in [Goal -> Seq(Run)]
      BY <1>1, <2>1, <2>4, <2>5, SetRunFacts
    <2> QED BY <1>3, <1>4, <2>7, <2>9, <2>10 DEF RunnerInv, RunsInv
  <1> QED BY <1>5, <1>6

-----------------------------------------------------------------------------
(* The theorems. *)

LEMMA InitHolds == Init => RunnerInv
  <1> SUFFICES ASSUME Init PROVE RunnerInv
    OBVIOUS
  <1>1. TypeOK
    <2>1. << >> \in Seq(Run)
      OBVIOUS
    <2>2. runs \in [Goal -> Seq(Run)]
      BY <2>1 DEF Init
    <2>3. status \in [Goal -> Statuses] /\ results \in [Goal -> Nat]
      BY DEF Init, Statuses
    <2>4. crashes \in 0 .. MaxCrash /\ controls \in 0 .. MaxControl
      BY SupervisorConstants DEF Init
    <2>5. pc \notin Taken /\ prior = {}
      BY DEF Init, Taken, InRun
    <2> QED BY <2>2, <2>3, <2>4, <2>5 DEF Init, TypeOK
  <1>2. \A g \in Goal : runs[g] = << >> /\ DOMAIN runs[g] = {}
    BY DEF Init
  <1>3. RunsInv
    BY <1>2 DEF Init, RunsInv, UnderWay, CutIsOpen, RecordedCrashIsChecked, OnlyACrashBreaksTheChain,
                InRun, Working
  <1>4. Prompt /\ Unsettled
    BY DEF Init, Prompt, Unsettled, Taken, InRun
  <1> QED BY <1>1, <1>3, <1>4 DEF RunnerInv

LEMMA StepHolds == RunnerInv /\ [Next]_vars => RunnerInv'
  <1> SUFFICES ASSUME RunnerInv, [Next]_vars PROVE RunnerInv'
    OBVIOUS
  <1>1. CASE UNCHANGED vars
    <2>1. TypeOK'
      BY <1>1 DEF RunnerInv, TypeOK, vars, goals, asked, worker
    <2>2. UnderWay'
      BY <1>1 DEF RunnerInv, RunsInv, UnderWay, vars, goals, worker, this, ThisRun, _open_runs, TERMINAL_STATES
    <2>3. CutIsOpen' /\ RecordedCrashIsChecked' /\ OnlyACrashBreaksTheChain'
      BY <1>1, ChecksQuiet, ChainsQuiet DEF RunnerInv, RunsInv, vars, goals, worker
    <2>4. Prompt' /\ Unsettled'
      BY <1>1 DEF RunnerInv, Prompt, Unsettled, should_stop, vars, goals, asked, worker
    <2> QED BY <2>1, <2>2, <2>3, <2>4 DEF RunnerInv, RunsInv
  <1>2. CASE Worker
    BY <1>2, SchedulerKeeps, StartRunKeeps, SupersedeKeeps, TurnKeeps, RecordKeeps, SettleKeeps DEF Worker
  <1>3. CASE start \/ Crash \/ recover_runs \/ halt
    BY <1>3, SchedulerKeeps, CrashKeeps, RecoverRunsKeeps, OperatorKeeps
  <1>4. CASE \/ \E g \in Goal : add_goal(g)
             \/ \E g \in Goal, op \in {"stop", "pause", "resume"} : on_control(g, op)
    BY <1>4, OperatorKeeps
  <1> QED BY <1>1, <1>2, <1>3, <1>4 DEF Next

THEOREM RunnerHolds == Spec => []RunnerInv
  BY InitHolds, StepHolds, PTL DEF Spec

\* Every variable keeps its type.
THEOREM TypeCorrect == Spec => []TypeOK
  BY RunnerHolds, PTL DEF RunnerInv

\* However many crashes there were, also in the middle of recovering or of
\* superseding, the agent works in the only open run of its goal (run_goal,
\* RunRecorder.start_run, recover_runs).
THEOREM WorksInOneRun == Spec => []OneOpenRun
  <1>1. RunnerInv => OneOpenRun
    BY DEF RunnerInv, RunsInv, UnderWay, OneOpenRun, Working
  <1> QED BY <1>1, RunnerHolds, PTL

\* The run after one that a crash cut short while it was open and had recorded
\* a step is told to check before redoing (run_goal, recovery_for).
THEOREM CrashIsToldOf == Spec => []RecordedCrashIsChecked
  BY RunnerHolds, PTL DEF RunnerInv, RunsInv

\* A run whose chain does not verify was cut by a crash between its two appends
\* (RunRecorder.record_step, verify_run).
THEOREM ChainsVerify == Spec => []OnlyACrashBreaksTheChain
  BY RunnerHolds, PTL DEF RunnerInv, RunsInv

\* After a stop or a halt only the action under way still happens, in every run
\* and for any number of requests (Supervisor.halt, should_stop).
THEOREM StopsPromptly == Spec => []StopIsPrompt
  <1>1. RunnerInv => StopIsPrompt
    BY DEF RunnerInv, Prompt, StopIsPrompt
  <1> QED BY <1>1, RunnerHolds, PTL

\* Only adding a done goal anew changes its status; neither recovery nor a late
\* settlement does (Supervisor.recover, run_goal).
THEOREM DoneStaysDone == Spec => DoneIsFinal
  <1>1. ASSUME RunnerInv, [Next]_vars
        PROVE  [\A g \in Goal : status[g] = "done" =>
                  status'[g] = "done" \/ (status'[g] = "pending" /\ controls' = controls + 1)]_vars
    <2>1. TypeOK /\ Unsettled
      BY <1>1 DEF RunnerInv
    <2>2. pc \in Taken => cur \in Goal /\ status[cur] # "done"
      BY <2>1 DEF TypeOK, Unsettled
    <2> SUFFICES ASSUME NEW g \in Goal, status[g] = "done"
                 PROVE  status'[g] = "done" \/ (status'[g] = "pending" /\ controls' = controls + 1)
      OBVIOUS
    <2>3. CASE status' = status
      BY <2>3
    <2>4. CASE \E h \in Goal : add_goal(h)
      BY <2>1, <2>4 DEF add_goal, TypeOK
    <2>5. CASE recover
      BY <2>1, <2>5 DEF recover, SetStatus, TypeOK
    <2>6. CASE run_goal_parked \/ run_goal_active \/ settle_goal
      <3>1. pc \in Taken
        BY <2>6 DEF run_goal_parked, run_goal_active, settle_goal, Taken, InRun
      <3>2. \E s \in Statuses : SetStatus(cur, s)
        BY <2>6 DEF run_goal_parked, run_goal_active, settle_goal, Statuses
      <3> QED BY <2>1, <2>2, <3>1, <3>2 DEF SetStatus, TypeOK
    <2>7. status' = status \/ (\E h \in Goal : add_goal(h)) \/ recover
          \/ run_goal_parked \/ run_goal_active \/ settle_goal
      BY <1>1 DEF Next, Worker, vars, goals, start, pick, run_goal_paused, run_goal_stopped, start_run,
           supersede, turn_stop, turn_begin, turn_act, turn_skip, turn_done, turn_fail, record_step,
           record_head, finish_run, append_result, Crash, recover_runs, halt, on_control
    <2> QED BY <2>3, <2>4, <2>5, <2>6, <2>7
  <1> QED BY <1>1, RunnerHolds, PTL DEF Spec, DoneIsFinal

-----------------------------------------------------------------------------
(* The lists of the coordinator. *)

Distinct(s) == \A i, j \in DOMAIN s : i # j => s[i] # s[j]

Ranked(o) == \A i, j \in DOMAIN o : i < j => o[i] # o[j] /\ Prio[o[i]] >= Prio[o[j]]

\* A non-empty set of numbers has a least one.
LEMMA LeastFacts ==
    ASSUME NEW S \in SUBSET Nat, S # {}
    PROVE  Min(S) \in S /\ \A n \in S : Min(S) =< n
<1>1. PICK m \in S : \A n \in S : ~ (<<n, m>> \in OpToRel(<, Nat))
  BY NatLessThanWellFounded, WFMin
<1>2. \A n \in S : ~ (n < m)
  BY <1>1 DEF OpToRel
<1>3. \A n \in S : m =< n
  BY <1>2
<1> QED BY <1>3 DEF Min

\* What is in a list is at one of its places.
LEMMA PlaceFacts ==
    ASSUME NEW T, NEW s \in Seq(T), NEW x
    PROVE  Contains(s, x) <=> \E i \in DOMAIN s : s[i] = x
BY DEF Contains

\* RemoveAt closes the gap.
LEMMA RemoveAtFacts ==
    ASSUME NEW T, NEW s \in Seq(T), NEW k \in 1 .. Len(s)
    PROVE  /\ RemoveAt(s, k) \in Seq(T)
           /\ Len(RemoveAt(s, k)) = Len(s) - 1
           /\ \A i \in 1 .. k - 1 : RemoveAt(s, k)[i] = s[i]
           /\ \A i \in k .. Len(s) - 1 : RemoveAt(s, k)[i] = s[i + 1]
<1> DEFINE a == SubSeq(s, 1, k - 1)
           b == SubSeq(s, k + 1, Len(s))
<1>1. /\ a \in Seq(T) /\ Len(a) = k - 1
      /\ \A i \in 1 .. k - 1 : a[i] = s[i]
  BY SubSeqProperties
<1>2. /\ b \in Seq(T) /\ Len(b) = Len(s) - k
      /\ \A i \in 1 .. Len(s) - k : b[i] = s[k + i]
  BY SubSeqProperties
<1>3. RemoveAt(s, k) = a \o b
  BY DEF RemoveAt
<1> HIDE DEF a, b
<1>4. /\ a \o b \in Seq(T) /\ Len(a \o b) = Len(s) - 1
      /\ \A i \in 1 .. Len(s) - 1 : (a \o b)[i] = IF i =< k - 1 THEN a[i] ELSE b[i - (k - 1)]
  <2>1. /\ a \o b \in Seq(T) /\ Len(a \o b) = Len(a) + Len(b)
        /\ \A i \in 1 .. Len(a) + Len(b) : (a \o b)[i] = IF i <= Len(a) THEN a[i] ELSE b[i - Len(a)]
    BY <1>1, <1>2, ConcatProperties
  <2> QED BY <1>1, <1>2, <2>1
<1>5. /\ RemoveAt(s, k) \in Seq(T) /\ Len(RemoveAt(s, k)) = Len(s) - 1
      /\ \A i \in 1 .. k - 1 : RemoveAt(s, k)[i] = a[i]
      /\ \A i \in k .. Len(s) - 1 : RemoveAt(s, k)[i] = b[i - (k - 1)]
  <2>1. ASSUME NEW i \in 1 .. k - 1 PROVE (a \o b)[i] = a[i]
    <3>1. i \in 1 .. Len(s) - 1 /\ i =< k - 1
      OBVIOUS
    <3> QED BY <1>4, <3>1
  <2>2. ASSUME NEW i \in k .. Len(s) - 1 PROVE (a \o b)[i] = b[i - (k - 1)]
    <3>1. i \in 1 .. Len(s) - 1 /\ ~ (i =< k - 1)
      OBVIOUS
    <3> QED BY <1>4, <3>1
  <2> QED BY <1>3, <1>4, <2>1, <2>2
<1>6. \A i \in k .. Len(s) - 1 : b[i - (k - 1)] = s[i + 1]
  <2>1. ASSUME NEW i \in k .. Len(s) - 1
        PROVE  i - (k - 1) \in 1 .. Len(s) - k /\ k + (i - (k - 1)) = i + 1
    OBVIOUS
  <2> QED BY <1>2, <2>1
<1> QED BY <1>1, <1>5, <1>6

\* InsertAt makes room.
LEMMA InsertAtFacts ==
    ASSUME NEW T, NEW s \in Seq(T), NEW k \in 1 .. Len(s) + 1, NEW x \in T
    PROVE  /\ InsertAt(s, k, x) \in Seq(T)
           /\ Len(InsertAt(s, k, x)) = Len(s) + 1
           /\ \A i \in 1 .. k - 1 : InsertAt(s, k, x)[i] = s[i]
           /\ InsertAt(s, k, x)[k] = x
           /\ \A i \in k + 1 .. Len(s) + 1 : InsertAt(s, k, x)[i] = s[i - 1]
<1> DEFINE a == SubSeq(s, 1, k - 1)
           b == SubSeq(s, k, Len(s))
           c == <<x>>
<1>1. /\ a \in Seq(T) /\ Len(a) = k - 1
      /\ \A i \in 1 .. k - 1 : a[i] = s[i]
  BY SubSeqProperties
<1>2. /\ b \in Seq(T) /\ Len(b) = Len(s) - k + 1
      /\ \A i \in 1 .. Len(s) - k + 1 : b[i] = s[k + i - 1]
  BY SubSeqProperties
<1>3. c \in Seq(T) /\ Len(c) = 1 /\ c[1] = x
  OBVIOUS
<1>4. InsertAt(s, k, x) = (a \o c) \o b
  BY DEF InsertAt
<1> HIDE DEF a, b, c
<1>5. /\ a \o c \in Seq(T) /\ Len(a \o c) = k
      /\ \A i \in 1 .. k : (a \o c)[i] = IF i =< k - 1 THEN a[i] ELSE c[i - (k - 1)]
  <2>1. /\ a \o c \in Seq(T) /\ Len(a \o c) = Len(a) + Len(c)
        /\ \A i \in 1 .. Len(a) + Len(c) : (a \o c)[i] = IF i <= Len(a) THEN a[i] ELSE c[i - Len(a)]
    BY <1>1, <1>3, ConcatProperties
  <2> QED BY <1>1, <1>3, <2>1
<1> DEFINE d == a \o c
<1>6. d \in Seq(T) /\ Len(d) = k /\ \A i \in 1 .. k : d[i] = IF i =< k - 1 THEN a[i] ELSE c[i - (k - 1)]
  BY <1>5
<1> HIDE DEF d
<1>7. /\ d \o b \in Seq(T) /\ Len(d \o b) = Len(d) + Len(b)
      /\ \A i \in 1 .. Len(d) + Len(b) : (d \o b)[i] = IF i <= Len(d) THEN d[i] ELSE b[i - Len(d)]
  BY <1>2, <1>6, ConcatProperties
<1>8. InsertAt(s, k, x) = d \o b
  BY <1>4 DEF d
<1> QED BY <1>1, <1>2, <1>3, <1>6, <1>7, <1>8

\* What is left after list.remove or dict.pop is in its place and in its order.
LEMMA RemoveFirstFacts ==
    ASSUME NEW T, NEW s \in Seq(T), NEW x
    PROVE  /\ RemoveFirst(s, x) \in Seq(T)
           /\ \A y : y # x => (Contains(RemoveFirst(s, x), y) <=> Contains(s, y))
           /\ Distinct(s) => Distinct(RemoveFirst(s, x)) /\ ~ Contains(RemoveFirst(s, x), x)
           /\ Ranked(s) => Ranked(RemoveFirst(s, x))
<1>1. CASE ~ Contains(s, x)
  BY <1>1 DEF RemoveFirst, Contains
<1>2. CASE Contains(s, x)
  <2> DEFINE I == {i \in 1 .. Len(s) : s[i] = x}
             k == Min(I)
             w == RemoveAt(s, k)
  <2>1. I \in SUBSET Nat /\ I # {} /\ I \subseteq 1 .. Len(s)
    BY <1>2 DEF Contains
  <2>2. k \in I
    BY <2>1, LeastFacts
  <2>3. k \in 1 .. Len(s) /\ s[k] = x
    BY <2>1, <2>2
  <2>4. w = RemoveFirst(s, x)
    <3>1. \E i \in 1 .. Len(s) : s[i] = x
      BY <2>1
    <3> QED BY <2>1, <3>1 DEF RemoveFirst, SelectInSeq
  <2> HIDE DEF k, I
  <2>5. /\ w \in Seq(T) /\ Len(w) = Len(s) - 1
        /\ \A i \in 1 .. k - 1 : w[i] = s[i]
        /\ \A i \in k .. Len(s) - 1 : w[i] = s[i + 1]
    BY <2>3, RemoveAtFacts
  <2> HIDE DEF w
  <2>6. DOMAIN w = 1 .. Len(s) - 1 /\ DOMAIN s = 1 .. Len(s)
    BY <2>5
  <2>7. ASSUME NEW y, y # x PROVE Contains(w, y) <=> Contains(s, y)
    <3>1. ASSUME NEW i \in DOMAIN w, w[i] = y PROVE \E j \in DOMAIN s : s[j] = y
      BY <2>3, <2>5, <2>6, <3>1
    <3>2. ASSUME NEW j \in DOMAIN s, s[j] = y PROVE \E i \in DOMAIN w : w[i] = y
      <4>1. CASE j < k
        BY <2>3, <2>5, <2>6, <3>2, <4>1
      <4>2. CASE j > k
        <5>1. j - 1 \in DOMAIN w /\ w[j - 1] = s[j]
          BY <2>3, <2>5, <2>6, <4>2
        <5> QED BY <3>2, <5>1
      <4> QED BY <2>3, <2>6, <2>7, <3>2, <4>1, <4>2
    <3> QED BY <2>5, <3>1, <3>2, PlaceFacts
  <2>8. ASSUME NEW i \in DOMAIN w, NEW j \in DOMAIN w, i < j
        PROVE  \E m, n \in DOMAIN s : m < n /\ w[i] = s[m] /\ w[j] = s[n] /\ m # k /\ n # k
    <3>1. CASE j < k
      <4>1. j \in DOMAIN s /\ w[j] = s[j] /\ i \in DOMAIN s /\ w[i] = s[i] /\ i # k /\ j # k
        BY <2>3, <2>5, <2>6, <2>8, <3>1
      <4> QED BY <2>8, <4>1
    <3>2. CASE i < k /\ ~ (j < k)
      <4>1. j + 1 \in DOMAIN s /\ w[j] = s[j + 1] /\ i \in DOMAIN s /\ w[i] = s[i]
        BY <2>3, <2>5, <2>6, <3>2
      <4> QED BY <2>3, <2>6, <3>2, <4>1
    <3>3. CASE ~ (i < k)
      <4>1. j + 1 \in DOMAIN s /\ w[j] = s[j + 1] /\ i + 1 \in DOMAIN s /\ w[i] = s[i + 1]
        BY <2>3, <2>5, <2>6, <2>8, <3>3
      <4> QED BY <2>3, <2>6, <2>8, <3>3, <4>1
    <3> QED BY <2>3, <2>6, <2>8, <3>1, <3>2, <3>3
  <2>9. ASSUME Distinct(s) PROVE Distinct(w) /\ ~ Contains(w, x)
    <3>1. Distinct(w)
      <4> SUFFICES ASSUME NEW i \in DOMAIN w, NEW j \in DOMAIN w, i # j PROVE w[i] # w[j]
        BY DEF Distinct
      <4>1. i < j \/ j < i
        BY <2>6
      <4> QED BY <2>8, <2>9, <4>1, <2>6 DEF Distinct
    <3>2. ASSUME NEW i \in DOMAIN w PROVE w[i] # x
      <4>1. \E m \in DOMAIN s : m # k /\ w[i] = s[m]
        <5>1. CASE i < k
          <6>1. i \in DOMAIN s /\ w[i] = s[i] /\ i # k
            BY <2>3, <2>5, <2>6, <5>1
          <6> QED BY <6>1
        <5>2. CASE ~ (i < k)
          <6>1. i + 1 \in DOMAIN s /\ w[i] = s[i + 1] /\ i + 1 # k
            BY <2>3, <2>5, <2>6, <5>2
          <6> QED BY <6>1
        <5> QED BY <5>1, <5>2
      <4> QED BY <2>3, <2>6, <2>9, <4>1 DEF Distinct
    <3> QED BY <2>5, <3>1, <3>2, PlaceFacts
  <2>10. ASSUME Ranked(s) PROVE Ranked(w)
    BY <2>6, <2>8, <2>10 DEF Ranked
  <2> QED BY <2>4, <2>5, <2>7, <2>9, <2>10
<1> QED BY <1>1, <1>2

\* _enqueue puts a task before the first of lower priority.
LEMMA EnqueueFacts ==
    ASSUME NEW o \in Seq(Task), NEW t \in Task
    PROVE  /\ _enqueue(o, t) \in Seq(Task)
           /\ \A y : Contains(_enqueue(o, t), y) <=> Contains(o, y) \/ y = t
           /\ Ranked(o) => Ranked(_enqueue(o, t))
<1>1. CASE Contains(o, t)
  BY <1>1 DEF _enqueue
<1>2. CASE ~ Contains(o, t)
  <2> DEFINE below == {i \in DOMAIN o : Prio[o[i]] < Prio[t]}
             k == IF below = {} THEN Len(o) + 1 ELSE Min(below)
             w == InsertAt(o, k, t)
  <2>1. k \in 1 .. Len(o) + 1 /\ (\A i \in below : k =< i) /\ (k # Len(o) + 1 => k \in below)
    <3>1. CASE below = {}
      BY <3>1
    <3>2. CASE below # {}
      <4>1. below \in SUBSET Nat
        OBVIOUS
      <4>2. Min(below) \in below /\ \A i \in below : Min(below) =< i
        BY <3>2, <4>1, LeastFacts
      <4> QED BY <3>2, <4>2
    <3> QED BY <3>1, <3>2
  <2>2. w = _enqueue(o, t)
    BY <1>2 DEF _enqueue
  <2> HIDE DEF k
  <2>3. /\ \A i \in DOMAIN o : i < k => Prio[o[i]] >= Prio[t]
        /\ k # Len(o) + 1 => Prio[o[k]] < Prio[t]
    <3>1. Prio[t] \in Int /\ \A i \in DOMAIN o : Prio[o[i]] \in Int
      BY FleetConstants
    <3>2. ASSUME NEW i \in DOMAIN o, i < k PROVE Prio[o[i]] >= Prio[t]
      <4>1. i \in Int /\ k \in Int
        BY <2>1
      <4>2. ~ (k =< i)
        BY <3>2, <4>1
      <4>3. i \notin below
        BY <2>1, <4>2
      <4>4. ~ (Prio[o[i]] < Prio[t])
        BY <4>3
      <4> QED BY <3>1, <4>4
    <3>3. k \in below => Prio[o[k]] < Prio[t]
      OBVIOUS
    <3> QED BY <2>1, <3>2, <3>3
  <2> HIDE DEF below
  <2>4. /\ w \in Seq(Task) /\ Len(w) = Len(o) + 1 /\ w[k] = t
        /\ \A i \in 1 .. k - 1 : w[i] = o[i]
        /\ \A i \in k + 1 .. Len(o) + 1 : w[i] = o[i - 1]
    BY <2>1, InsertAtFacts
  <2> HIDE DEF w
  <2>5. DOMAIN w = 1 .. Len(o) + 1 /\ DOMAIN o = 1 .. Len(o)
    BY <2>4
  <2>6. ASSUME NEW y PROVE Contains(w, y) <=> Contains(o, y) \/ y = t
    <3>1. ASSUME NEW i \in DOMAIN w, w[i] = y, y # t PROVE \E j \in DOMAIN o : o[j] = y
      <4>1. CASE i < k
        BY <2>1, <2>4, <2>5, <3>1, <4>1
      <4>2. CASE i > k
        <5>1. i - 1 \in DOMAIN o /\ o[i - 1] = w[i]
          BY <2>1, <2>4, <2>5, <4>2
        <5> QED BY <3>1, <5>1
      <4> QED BY <2>1, <2>4, <2>5, <3>1, <4>1, <4>2
    <3>2. ASSUME NEW j \in DOMAIN o, o[j] = y PROVE \E i \in DOMAIN w : w[i] = y
      <4>1. CASE j < k
        BY <2>1, <2>4, <2>5, <3>2, <4>1
      <4>2. CASE ~ (j < k)
        <5>1. j + 1 \in DOMAIN w /\ w[j + 1] = o[j]
          BY <2>1, <2>4, <2>5, <4>2
        <5> QED BY <3>2, <5>1
      <4> QED BY <4>1, <4>2
    <3>3. \E i \in DOMAIN w : w[i] = t
      BY <2>1, <2>4, <2>5
    <3> QED BY <2>4, <3>1, <3>2, <3>3, PlaceFacts
  <2>7. ASSUME Ranked(o) PROVE Ranked(w)
    <3> SUFFICES ASSUME NEW i \in DOMAIN w, NEW j \in DOMAIN w, i < j
                 PROVE  w[i] # w[j] /\ Prio[w[i]] >= Prio[w[j]]
      BY DEF Ranked
    <3>1. \A m \in DOMAIN o : o[m] # t /\ o[m] \in Task /\ Prio[o[m]] \in Int
      BY <1>2, PlaceFacts, FleetConstants
    <3>2. Prio[t] \in Int
      BY FleetConstants
    <3>3. CASE j < k
      BY <2>1, <2>4, <2>5, <2>7, <3>3 DEF Ranked
    <3>4. CASE j = k
      BY <2>1, <2>3, <2>4, <2>5, <3>1, <3>2, <3>4
    <3>5. CASE i < k /\ k < j
      <4>1. j - 1 \in DOMAIN o /\ w[j] = o[j - 1] /\ i \in DOMAIN o /\ w[i] = o[i] /\ i < j - 1
        BY <2>1, <2>4, <2>5, <3>5
      <4> QED BY <2>7, <4>1 DEF Ranked
    <3>6. CASE i = k
      <4>1. j - 1 \in DOMAIN o /\ w[j] = o[j - 1] /\ w[i] = t /\ k =< j - 1 /\ k # Len(o) + 1
        BY <2>1, <2>4, <2>5, <3>6
      <4>2. k \in DOMAIN o /\ Prio[o[k]] < Prio[t]
        BY <2>1, <2>3, <2>5, <4>1
      <4>3. k = j - 1 \/ Prio[o[k]] >= Prio[o[j - 1]]
        BY <2>1, <2>5, <2>7, <4>1, <4>2 DEF Ranked
      <4> QED BY <3>1, <3>2, <4>1, <4>2, <4>3
    <3>7. CASE k < i
      <4>1. /\ j - 1 \in DOMAIN o /\ w[j] = o[j - 1]
            /\ i - 1 \in DOMAIN o /\ w[i] = o[i - 1] /\ i - 1 < j - 1
        BY <2>1, <2>4, <2>5, <3>7
      <4> QED BY <2>7, <4>1 DEF Ranked
    <3> QED BY <2>1, <2>5, <3>3, <3>4, <3>5, <3>6, <3>7
  <2> QED BY <2>2, <2>4, <2>6, <2>7
<1> QED BY <1>1, <1>2

\* A newcomer goes last.
LEMMA AppendFacts ==
    ASSUME NEW T, NEW s \in Seq(T), NEW n \in T, Distinct(s)
    PROVE  LET w == IF Contains(s, n) THEN s ELSE Append(s, n)
           IN  /\ w \in Seq(T) /\ Distinct(w)
               /\ \A m : Contains(w, m) <=> Contains(s, m) \/ m = n
<1>1. CASE Contains(s, n)
  BY <1>1
<1>2. CASE ~ Contains(s, n)
  <2> DEFINE w == Append(s, n)
  <2>1. w \in Seq(T) /\ Len(w) = Len(s) + 1 /\ DOMAIN w = 1 .. Len(s) + 1 /\ DOMAIN s = 1 .. Len(s)
    OBVIOUS
  <2>2. w[Len(s) + 1] = n /\ \A i \in DOMAIN s : w[i] = s[i] /\ s[i] # n
    BY <1>2, PlaceFacts
  <2> HIDE DEF w
  <2>3. Distinct(w)
    BY <2>1, <2>2 DEF Distinct
  <2>4. \A m : Contains(w, m) <=> Contains(s, m) \/ m = n
    <3>1. ASSUME NEW m, NEW i \in DOMAIN w, w[i] = m, m # n PROVE \E j \in DOMAIN s : s[j] = m
      BY <2>1, <2>2, <3>1
    <3>2. ASSUME NEW m, NEW j \in DOMAIN s, s[j] = m PROVE \E i \in DOMAIN w : w[i] = m
      BY <2>1, <2>2, <3>2
    <3>3. \E i \in DOMAIN w : w[i] = n
      BY <2>1, <2>2
    <3> QED BY <2>1, <3>1, <3>2, <3>3, PlaceFacts
  <2> QED BY <1>2, <2>1, <2>3, <2>4 DEF w
<1> QED BY <1>1, <1>2

-----------------------------------------------------------------------------
(* The fleet: the inductive invariant. *)

\* FleetTypeOK, in the parts that the steps change apart.
TasksOK ==
    /\ state \in [Task -> States] /\ holder \in [Task -> Node \cup {None}]
    /\ attempts \in [Task -> Nat] /\ tried \in [Task -> SUBSET Node]
    /\ pausing \in [Task -> BOOLEAN] /\ order \in Seq(Task)
NodesOK ==
    /\ nodes \in Seq(Node) /\ held \in [Node -> Task \cup {None}]
    /\ conns \in [Node -> Conn \cup {0}]
WiresOK ==
    /\ owner \in [Conn -> Node \cup {None}] /\ near \in [Conn -> BOOLEAN]
    /\ far \in [Conn -> {"none", "open", "shut", "done"}]
    /\ up \in [Conn -> Seq(Line)] /\ down \in [Conn -> Seq(Line)]
DesksOK ==
    /\ current \in [Conn -> Task \cup {None}] /\ stop \in [Conn -> BOOLEAN]
    /\ work \subseteq [conn : Conn, task : Task, code : Codes \cup {"run"}]
    /\ revoked \subseteq Node /\ ended \subseteq Node /\ passed \subseteq Conn
    /\ cuts \in 0 .. MaxCut

\* A connection that was dialled has a node; the coordinator's table leads every node to
\* its own connection, and every registered node to one.
Placed ==
    /\ \A c \in Conn : far[c] # "none" => owner[c] \in Node
    /\ \A n \in Node : conns[n] # 0 => owner[conns[n]] = n
    /\ Distinct(nodes)
    /\ \A n \in Node : Contains(nodes, n) => conns[n] # 0

\* An attempt costs at most one of max_attempts, or one resume of a task the operator
\* paused; a task that may be offered again has one left.
Spare(t) ==
    \/ state[t] \in {"absent", "queued", "paused"}
    \/ state[t] = "running" /\ pausing[t]
    \/ \E i \in DOMAIN calls : calls[i] = [op |-> "pause", task |-> t]
Tries ==
    /\ ops \in 0 .. MaxOps
    /\ \A t \in Task : /\ attempts[t] =< max_task_attempts + ops
                       /\ Spare(t) => attempts[t] < max_task_attempts + ops

\* The offers of a pump are all that is left to do.
Phases ==
    /\ calls \in Seq(Call)
    /\ \A i, j \in DOMAIN calls : calls[i].op = "offer" => calls[j].op = "offer"

FleetInv ==
    /\ TasksOK /\ NodesOK /\ WiresOK /\ DesksOK
    /\ Placed /\ RunningIsHeld /\ QueueIsComplete /\ Tries /\ Phases

LEMMA QueueFacts ==
    QueueIsComplete <=> Ranked(order) /\ \A t \in Task : state[t] = "queued" => Contains(order, t)
BY DEF QueueIsComplete, Ranked

\* The invariant implies the type invariant.
LEMMA InvGivesType == ASSUME FleetInv PROVE FleetTypeOK
<1>1. ASSUME NEW t \in Task PROVE attempts[t] \in 0 .. max_task_attempts + MaxOps
  BY FleetConstants DEF FleetInv, TasksOK, Tries
<1>2. attempts \in [Task -> 0 .. max_task_attempts + MaxOps]
  BY <1>1 DEF FleetInv, TasksOK
<1> QED BY <1>2 DEF FleetInv, TasksOK, NodesOK, WiresOK, DesksOK, Tries, Phases, FleetTypeOK

LEMMA FleetInitHolds == ASSUME FleetInit PROVE FleetInv
<1>1. TasksOK /\ NodesOK /\ WiresOK /\ DesksOK
  BY FleetConstants, FleetInit DEF FleetInit, TasksOK, NodesOK, WiresOK, DesksOK, States
<1>2. Placed /\ RunningIsHeld
  BY FleetConstants DEF FleetInit, Placed, RunningIsHeld, Distinct, Contains
<1>3. QueueIsComplete /\ Tries /\ Phases
  BY FleetConstants DEF FleetInit, QueueIsComplete, Tries, Phases
<1> QED BY <1>1, <1>2, <1>3 DEF FleetInv

-----------------------------------------------------------------------------
(* The steps that leave the coordinator alone. *)

AloneVars == <<brain, conns, calls, ops>>

LEMMA AloneKeeps ==
    ASSUME FleetInv, UNCHANGED AloneVars
    PROVE  TasksOK' /\ NodesOK' /\ RunningIsHeld' /\ QueueIsComplete' /\ Tries' /\ Phases'
<1>1. TasksOK' /\ NodesOK'
  BY DEF FleetInv, AloneVars, brain, TasksOK, NodesOK
<1>2. RunningIsHeld'
  BY DEF FleetInv, AloneVars, brain, RunningIsHeld
<1>3. QueueIsComplete'
  BY DEF FleetInv, AloneVars, brain, QueueIsComplete
<1>4. Tries' /\ Phases'
  BY DEF FleetInv, AloneVars, brain, Tries, Spare, Phases
<1> QED BY <1>1, <1>2, <1>3, <1>4

\* Lines and workers.
LEMMA LineFacts ==
    ASSUME NEW t \in Task, NEW how \in Codes
    PROVE  /\ [kind |-> "hello"] \in Line
           /\ [kind |-> "result", task |-> t, code |-> how] \in Line
           /\ [kind |-> "assign", task |-> t] \in Line /\ [kind |-> "stop", task |-> t] \in Line
BY DEF Line

LEMMA HeadIsLine ==
    ASSUME NEW s \in Seq(Line), s # << >>
    PROVE  /\ Tail(s) \in Seq(Line) /\ Head(s) \in Line
           /\ Head(s).kind \in {"result", "assign", "stop"} => Head(s).task \in Task
           /\ Head(s).kind = "result" => Head(s).code \in Codes
<1>1. Tail(s) \in Seq(Line) /\ Head(s) \in Line
  OBVIOUS
<1> QED BY <1>1 DEF Line

LEMMA DesksKeep ==
    ASSUME FleetInv, UNCHANGED AloneVars, NEW c \in Conn,
           reject(c) \/ Desk(c) \/ WorkerOf(c) \/ Cut(c) \/ Die(c)
    PROVE  FleetInv'
<1>1. UNCHANGED <<owner, far>>
  BY DEF reject, Desk, _start, _request_stop, leave, WorkerOf, _run, _run_report, Cut, Die, wires
<1>2. Placed'
  BY <1>1 DEF FleetInv, Placed, AloneVars, brain
<1>3. WiresOK' /\ DesksOK'
  <2> USE DEF FleetInv, WiresOK, DesksOK
  <2>1. CASE reject(c)
    BY <2>1, HeadIsLine DEF reject, desks, faults
  <2>2. CASE _start(c)
    <3>1. PICK t \in Task : t = Head(down[c]).task /\ Tail(down[c]) \in Seq(Line)
      BY <2>2, HeadIsLine DEF _start
    <3>2. [kind |-> "result", task |-> t, code |-> "error"] \in Line
      BY <3>1, LineFacts DEF Codes
    <3>3. /\ down' = [down EXCEPT ![c] = Tail(down[c])] /\ owner' = owner /\ near' = near
          /\ far' = far /\ UNCHANGED faults
      BY <2>2 DEF _start
    <3>4. CASE current[c] # None
      <4>1. UNCHANGED desks
            /\ up' = [up EXCEPT ![c] = Append(up[c], [kind |-> "result", task |-> t, code |-> "error"])]
        BY <2>2, <3>1, <3>4 DEF _start
      <4> QED BY <3>1, <3>2, <3>3, <4>1 DEF desks, faults
    <3>5. CASE current[c] = None
      <4>1. /\ up' = up /\ current' = [current EXCEPT ![c] = t]
            /\ stop' = [stop EXCEPT ![c] = FALSE]
            /\ work' = work \cup {[conn |-> c, task |-> t, code |-> "run"]}
        BY <2>2, <3>1, <3>5 DEF _start
      <4> QED BY <3>1, <3>3, <4>1 DEF faults
    <3> QED BY <3>4, <3>5
  <2>3. CASE _request_stop(c)
    <3>1. Tail(down[c]) \in Seq(Line)
      BY <2>3, HeadIsLine DEF _request_stop
    <3> QED BY <2>3, <3>1 DEF _request_stop, faults
  <2>4. CASE leave(c)
    BY <2>4 DEF leave, desks, faults
  <2>5. CASE WorkerOf(c)
    <3>1. PICK w \in work, how \in Codes : w.conn = c /\ (_run(w, how) \/ _run_report(w))
      BY <2>5 DEF WorkerOf
    <3>2. /\ w \in [conn : Conn, task : Task, code : Codes \cup {"run"}]
          /\ [w EXCEPT !.code = how] \in [conn : Conn, task : Task, code : Codes \cup {"run"}]
      OBVIOUS
    <3>3. CASE _run(w, how)
      BY <3>2, <3>3 DEF _run, wires, faults
    <3>4. CASE _run_report(w)
      <4>1. [kind |-> "result", task |-> w.task, code |-> w.code] \in Line
        BY <3>2, <3>4, LineFacts DEF _run_report
      <4>2. up' \in [Conn -> Seq(Line)]
        BY <3>2, <3>4, <4>1 DEF _run_report
      <4> QED BY <3>4, <4>2 DEF _run_report, faults
    <3> QED BY <3>1, <3>3, <3>4
  <2>6. CASE Cut(c)
    <3>1. up' \in [Conn -> Seq(Line)]
      <4>1. PICK k \in 0 .. Len(up[c]) : up' = [up EXCEPT ![c] = SubSeq(up[c], 1, k)]
        BY <2>6 DEF Cut
      <4>2. SubSeq(up[c], 1, k) \in Seq(Line)
        BY <4>1, SubSeqProperties
      <4> QED BY <4>1, <4>2
    <3>2. cuts' \in 0 .. MaxCut
      BY <2>6, FleetConstants DEF Cut
    <3> QED BY <2>6, <3>1, <3>2 DEF Cut, desks
  <2>7. CASE Die(c)
    <3>1. cuts' \in 0 .. MaxCut
      BY <2>7, FleetConstants DEF Die
    <3> QED BY <2>7, <3>1 DEF Die
  <2> QED BY <2>1, <2>2, <2>3, <2>4, <2>5, <2>6, <2>7 DEF Desk
<1> QED BY <1>2, <1>3, AloneKeeps DEF FleetInv

LEMMA NodesKeep ==
    ASSUME FleetInv, UNCHANGED AloneVars, NEW n \in Node, dial(n) \/ drop_revoked(n) \/ halt_node(n)
    PROVE  FleetInv'
<1> USE DEF FleetInv
<1>1. CASE dial(n)
  <2>1. PICK c \in Conn : /\ owner[c] = None /\ owner' = [owner EXCEPT ![c] = n]
                          /\ near' = [near EXCEPT ![c] = TRUE]
                          /\ far' = [far EXCEPT ![c] = "open"]
                          /\ up' = [up EXCEPT ![c] = << [kind |-> "hello"] >>]
    BY <1>1 DEF dial
  <2>2. [kind |-> "hello"] \in Line
    BY DEF Line
  <2>3. WiresOK'
    BY <1>1, <2>1, <2>2 DEF dial, WiresOK
  <2>4. DesksOK'
    BY <1>1 DEF dial, DesksOK, desks, faults
  <2>5. conns' = conns /\ nodes' = nodes
    BY DEF AloneVars, brain
  <2>6. \A d \in Conn : far'[d] # "none" => owner'[d] \in Node
    BY <2>1 DEF Placed, WiresOK
  <2>7. \A m \in Node : conns'[m] # 0 => owner'[conns'[m]] = m
    BY <2>1, <2>5, FleetConstants DEF Placed, WiresOK, NodesOK
  <2>8. Placed'
    BY <2>5, <2>6, <2>7 DEF Placed
  <2> QED BY <2>3, <2>4, <2>8, AloneKeeps
<1>2. CASE drop_revoked(n)
  <2>1. conns[n] # 0 => conns[n] \in Conn /\ owner[conns[n]] = n
    BY DEF Placed, NodesOK
  <2>2. far' \in [Conn -> {"none", "open", "shut", "done"}]
    BY <1>2, <2>1 DEF drop_revoked, WiresOK
  <2>3. WiresOK' /\ DesksOK'
    BY <1>2, <2>2 DEF drop_revoked, WiresOK, DesksOK, wires, desks
  <2>4. Placed'
    BY <1>2, <2>1, <2>2 DEF drop_revoked, Placed, WiresOK, wires, brain
  <2> QED BY <2>3, <2>4, AloneKeeps
<1>3. CASE halt_node(n)
  <2>1. WiresOK' /\ DesksOK'
    BY <1>3 DEF halt_node, WiresOK, DesksOK, wires
  <2>2. Placed'
    BY <1>3 DEF halt_node, Placed, wires, brain
  <2> QED BY <2>1, <2>2, AloneKeeps
<1> QED BY <1>1, <1>2, <1>3

-----------------------------------------------------------------------------
(* The loop of pump, and the list of pauses. *)

\* What keeps the attempts within their bound: the steps that count none, and make none
\* possible that was not.
LEMMA TriesKept ==
    ASSUME FleetInv, attempts' = attempts, ops' \in 0 .. MaxOps, ops =< ops',
           \A t \in Task : Spare(t)' => Spare(t) \/ attempts[t] < max_task_attempts
    PROVE  Tries'
BY FleetConstants DEF FleetInv, Tries, TasksOK

LEMMA TailFacts ==
    ASSUME FleetInv, calls # << >>
    PROVE  /\ Head(calls) \in Call /\ Tail(calls) \in Seq(Call) /\ 1 \in DOMAIN calls
           /\ Head(calls) = calls[1]
           /\ \A i \in DOMAIN Tail(calls) : i + 1 \in DOMAIN calls /\ Tail(calls)[i] = calls[i + 1]
           /\ Head(calls).op \in {"pause", "offer"} =>
                 /\ Head(calls).task \in Task
                 /\ Head(calls) = [op |-> Head(calls).op, task |-> Head(calls).task]
<1>1. calls \in Seq(Call)
  BY DEF FleetInv, Phases
<1>2. /\ Head(calls) \in Call /\ Tail(calls) \in Seq(Call) /\ 1 \in DOMAIN calls
      /\ Head(calls) = calls[1]
      /\ \A i \in DOMAIN Tail(calls) : i + 1 \in DOMAIN calls /\ Tail(calls)[i] = calls[i + 1]
  BY <1>1
<1>3. Head(calls).op \in {"pause", "offer"} =>
        /\ Head(calls).task \in Task
        /\ Head(calls) = [op |-> Head(calls).op, task |-> Head(calls).task]
  <2>1. Head(calls) \in [op : {"pause", "offer"}, task : Task] \/ Head(calls) \in [op : {"pump"}]
    BY <1>2 DEF Call
  <2>2. ASSUME Head(calls) \in [op : {"pump"}] PROVE Head(calls).op = "pump"
    BY <2>2
  <2> QED BY <2>1, <2>2
<1> QED BY <1>2, <1>3

\* The first call is made: what is left was there.
LEMMA TailKeeps ==
    ASSUME FleetInv, calls # << >>, calls' = Tail(calls)
    PROVE  /\ Phases'
           /\ \A t \in Task, i \in DOMAIN calls' : calls'[i] = [op |-> "pause", task |-> t] =>
                 \E j \in DOMAIN calls : calls[j] = [op |-> "pause", task |-> t]
<1>1. Phases'
  BY TailFacts DEF FleetInv, Phases
<1> QED BY <1>1, TailFacts

LEMMA PumpFacts ==
    ASSUME calls' = PumpCall
    PROVE  Phases' /\ \A t \in Task, i \in DOMAIN calls' : calls'[i] # [op |-> "pause", task |-> t]
<1>1. PumpCall \in Seq(Call) /\ DOMAIN PumpCall = {1} /\ PumpCall[1] = [op |-> "pump"]
  BY DEF PumpCall, Call
<1>2. \A t \in Task : [op |-> "pump"] # [op |-> "pause", task |-> t]
  <2>1. ASSUME NEW t \in Task, [op |-> "pump"] = [op |-> "pause", task |-> t] PROVE FALSE
    <3>1. [op |-> "pump"].op = [op |-> "pause", task |-> t].op
      BY <2>1
    <3> QED BY <3>1
  <2> QED BY <2>1
<1> QED BY <1>1, <1>2 DEF Phases

LEMMA PumpKeeps ==
    ASSUME FleetInv, pump \/ offer_skip
    PROVE  FleetInv'
<1> USE DEF FleetInv
<1>1. UNCHANGED <<brain, conns, far, wires, desks, faults>> /\ calls # << >>
  BY DEF pump, offer_skip
<1>2. TasksOK' /\ NodesOK' /\ WiresOK' /\ DesksOK'
  BY <1>1 DEF brain, wires, desks, faults, TasksOK, NodesOK, WiresOK, DesksOK
<1>3. Placed' /\ RunningIsHeld' /\ QueueIsComplete'
  BY <1>1 DEF brain, wires, Placed, RunningIsHeld, QueueIsComplete
<1>4. Phases' /\ \A t \in Task, i \in DOMAIN calls' : calls'[i] = [op |-> "pause", task |-> t] =>
                    \E j \in DOMAIN calls : calls[j] = [op |-> "pause", task |-> t]
  <2>1. CASE pump
    <3> DEFINE c == [i \in DOMAIN order |-> [op |-> "offer", task |-> order[i]]]
    <3>1. c \in Seq(Call) /\ \A i \in DOMAIN c : c[i].op = "offer"
      BY DEF TasksOK, Call
    <3>2. calls' = c
      BY <2>1 DEF pump
    <3> HIDE DEF c
    <3>3. \A t \in Task, i \in DOMAIN calls' : calls'[i] # [op |-> "pause", task |-> t]
      BY <3>1, <3>2
    <3> QED BY <3>1, <3>2, <3>3 DEF Phases
  <2>2. CASE calls' = Tail(calls)
    BY <1>1, <2>2, TailKeeps
  <2>3. CASE calls' = << >>
    BY <2>3 DEF Phases
  <2> QED BY <2>1, <2>2, <2>3 DEF offer_skip
<1>5. Tries'
  <2>1. \A t \in Task : Spare(t)' => Spare(t)
    BY <1>1, <1>4 DEF Spare, brain
  <2>2. ops' = ops /\ ops \in 0 .. MaxOps
    BY <1>1 DEF Tries, faults
  <2> QED BY <1>1, <2>1, <2>2, FleetConstants, TriesKept DEF brain
<1> QED BY <1>2, <1>3, <1>4, <1>5

LEMMA PauseKeeps ==
    ASSUME FleetInv, NEW S \in SUBSET Task, pause(S)
    PROVE  FleetInv'
<1> USE DEF FleetInv
<1>1. UNCHANGED <<brain, conns, far, wires, desks, revoked, ended, passed, cuts>> /\ ops' = ops + 1
      /\ ops < MaxOps
  BY DEF pause
<1>2. TasksOK' /\ NodesOK' /\ WiresOK' /\ DesksOK'
  BY <1>1 DEF brain, wires, desks, TasksOK, NodesOK, WiresOK, DesksOK
<1>3. Placed' /\ RunningIsHeld' /\ QueueIsComplete'
  BY <1>1 DEF brain, wires, Placed, RunningIsHeld, QueueIsComplete
<1>4. Tries'
  <2>1. ops' \in 0 .. MaxOps
    BY <1>1, FleetConstants DEF Tries
  <2> QED BY <1>1, <2>1, FleetConstants DEF Tries, TasksOK, brain
<1>5. Phases'
  <2>1. PICK s \in SetToSeqs(S) :
            calls' = [i \in DOMAIN s |-> [op |-> "pause", task |-> s[i]]] \o PumpCall
    BY DEF pause
  <2>2. s \in Seq(Task)
    <3>1. Cardinality(S) \in Nat
      BY FleetConstants, FS_Subset, FS_CardinalityType
    <3>2. s \in [1 .. Cardinality(S) -> S]
      BY <2>1 DEF SetToSeqs
    <3> QED BY <3>1, <3>2
  <2> DEFINE c == [i \in DOMAIN s |-> [op |-> "pause", task |-> s[i]]]
  <2>3. c \in Seq(Call) /\ \A i \in DOMAIN c : c[i].op = "pause"
    BY <2>2 DEF Call
  <2>4. PumpCall \in Seq(Call) /\ \A i \in DOMAIN PumpCall : PumpCall[i].op = "pump"
    BY DEF PumpCall, Call
  <2> HIDE DEF c
  <2>5. /\ c \o PumpCall \in Seq(Call) /\ Len(c \o PumpCall) = Len(c) + Len(PumpCall)
        /\ \A i \in 1 .. Len(c) + Len(PumpCall) :
              (c \o PumpCall)[i] = IF i <= Len(c) THEN c[i] ELSE PumpCall[i - Len(c)]
    BY <2>3, <2>4, ConcatProperties
  <2>6. ASSUME NEW i \in DOMAIN (c \o PumpCall) PROVE (c \o PumpCall)[i].op # "offer"
    <3>1. i \in 1 .. Len(c) + Len(PumpCall)
      BY <2>5
    <3>2. CASE i =< Len(c)
      BY <2>3, <2>5, <3>1, <3>2
    <3>3. CASE ~ (i =< Len(c))
      <4>1. i - Len(c) \in DOMAIN PumpCall
        BY <2>3, <2>4, <3>1, <3>3
      <4> QED BY <2>4, <2>5, <3>1, <3>3, <4>1
    <3> QED BY <3>2, <3>3
  <2>7. calls' = c \o PumpCall
    BY <2>1 DEF c
  <2> QED BY <2>5, <2>6, <2>7 DEF Phases
<1> QED BY <1>2, <1>3, <1>4, <1>5

-----------------------------------------------------------------------------
(* The coordinator's helpers. *)

\* Only tasks that ran run on, where they were.
LEMMA RunsKept ==
    ASSUME FleetInv, UNCHANGED <<nodes, held, conns>>,
           \A u \in Task : state'[u] = "running" => state[u] = "running" /\ holder'[u] = holder[u]
    PROVE  RunningIsHeld'
BY DEF FleetInv, RunningIsHeld

\* No task may be offered, or can be paused, that has no attempt left.
LEMMA SpareKept ==
    ASSUME FleetInv, attempts' = attempts, ops' \in 0 .. MaxOps, ops =< ops',
           \A u \in Task : state'[u] \in {"absent", "queued", "paused"} =>
                              Spare(u) \/ attempts[u] < max_task_attempts,
           \A u \in Task : state'[u] = "running" /\ pausing'[u] => Spare(u),
           \A u \in Task, i \in DOMAIN calls' : calls'[i] = [op |-> "pause", task |-> u] =>
              \E j \in DOMAIN calls : calls[j] = [op |-> "pause", task |-> u]
    PROVE  Tries'
<1>1. ASSUME NEW u \in Task, Spare(u)' PROVE Spare(u) \/ attempts[u] < max_task_attempts
  <2>1. CASE \E i \in DOMAIN calls' : calls'[i] = [op |-> "pause", task |-> u]
    BY <2>1 DEF Spare
  <2> QED BY <1>1, <2>1 DEF Spare
<1> QED BY <1>1, TriesKept

\* _requeue makes no task run, and queues what has an attempt left.
LEMMA RequeueFacts ==
    ASSUME FleetInv, NEW t \in Task \cup {None}, _requeue(t, Used(t))
    PROVE  /\ state' \in [Task -> States] /\ holder' \in [Task -> Node \cup {None}]
           /\ pausing' \in [Task -> BOOLEAN] /\ order' \in Seq(Task)
           /\ QueueIsComplete'
           /\ \A u \in Task : state'[u] = "running" =>
                 u # t /\ state[u] = "running" /\ holder'[u] = holder[u] /\ pausing'[u] = pausing[u]
           /\ \A u \in Task : state'[u] \in {"absent", "queued", "paused"} =>
                 Spare(u) \/ attempts[u] < max_task_attempts
<1> USE DEF FleetInv, TasksOK
<1>1. CASE t = None \/ (t # None /\ state[t] \in SETTLED)
  <2>1. UNCHANGED <<state, holder, pausing, order>>
    BY <1>1 DEF _requeue
  <2> QED BY <1>1, <2>1, FleetConstants DEF QueueIsComplete, Spare, SETTLED
<1>2. CASE t \in Task /\ state[t] \notin SETTLED
  <2> DEFINE last == attempts[t] >= max_task_attempts
  <2>1. /\ state' = [state EXCEPT ![t] = IF last THEN "failed" ELSE "queued"]
        /\ holder' = [holder EXCEPT ![t] = None] /\ pausing' = [pausing EXCEPT ![t] = FALSE]
        /\ order' = IF last THEN order ELSE _enqueue(order, t)
    BY <1>2, FleetConstants DEF _requeue, Used
  <2>2. /\ order' \in Seq(Task) /\ Ranked(order')
        /\ \A u \in Task : Contains(order, u) \/ (u = t /\ ~ last) => Contains(order', u)
    BY <1>2, <2>1, EnqueueFacts, QueueFacts
  <2>3. /\ state' \in [Task -> States] /\ holder' \in [Task -> Node \cup {None}]
        /\ pausing' \in [Task -> BOOLEAN]
    BY <2>1 DEF States
  <2>4. \A u \in Task : state'[u] = "queued" => Contains(order', u)
    BY <1>2, <2>1, <2>2, QueueFacts
  <2>5. QueueIsComplete'
    BY <2>2, <2>4 DEF QueueIsComplete, Ranked
  <2>6. \A u \in Task : state'[u] = "running" =>
            u # t /\ state[u] = "running" /\ holder'[u] = holder[u] /\ pausing'[u] = pausing[u]
    BY <1>2, <2>1
  <2>7. \A u \in Task : state'[u] \in {"absent", "queued", "paused"} =>
            Spare(u) \/ attempts[u] < max_task_attempts
    BY <1>2, <2>1, FleetConstants DEF Spare
  <2> QED BY <2>2, <2>3, <2>5, <2>6, <2>7
<1> QED BY <1>1, <1>2

\* A node that is dropped has nothing left, and what it ran does not run.
LEMMA LostFacts ==
    ASSUME FleetInv, NEW n \in Node, on_node_lost(n), conns' = [conns EXCEPT ![n] = 0]
    PROVE  /\ TasksOK' /\ NodesOK' /\ RunningIsHeld' /\ QueueIsComplete' /\ attempts' = attempts
           /\ Distinct(nodes') /\ \A m \in Node : Contains(nodes', m) => conns'[m] # 0
           /\ \A u \in Task : state'[u] = "running" => state[u] = "running" /\ pausing'[u] = pausing[u]
           /\ \A u \in Task : state'[u] \in {"absent", "queued", "paused"} =>
                 Spare(u) \/ attempts[u] < max_task_attempts
<1> USE DEF FleetInv
<1>1. CASE ~ Contains(nodes, n)
  <2>1. UNCHANGED brain
    BY <1>1 DEF on_node_lost
  <2>2. TasksOK' /\ NodesOK' /\ QueueIsComplete' /\ attempts' = attempts
    BY <2>1 DEF brain, TasksOK, NodesOK, QueueIsComplete
  <2>3. RunningIsHeld'
    BY <1>1, <2>1 DEF brain, RunningIsHeld, TasksOK, NodesOK
  <2>4. Distinct(nodes') /\ \A m \in Node : Contains(nodes', m) => conns'[m] # 0
    BY <1>1, <2>1 DEF brain, Placed, NodesOK
  <2>5. \A u \in Task : state'[u] = state[u] /\ pausing'[u] = pausing[u]
    BY <2>1 DEF brain
  <2> QED BY <2>2, <2>3, <2>4, <2>5 DEF Spare
<1>2. CASE Contains(nodes, n)
  <2>1. /\ nodes' = RemoveFirst(nodes, n) /\ held' = [held EXCEPT ![n] = None]
        /\ _requeue(held[n], Used(held[n])) /\ UNCHANGED <<attempts, tried>>
        /\ held[n] \in Task \cup {None}
    BY <1>2 DEF on_node_lost, NodesOK
  <2>2. /\ nodes' \in Seq(Node) /\ Distinct(nodes') /\ ~ Contains(nodes', n)
        /\ \A m : m # n => (Contains(nodes', m) <=> Contains(nodes, m))
    BY <2>1, RemoveFirstFacts DEF NodesOK, Placed
  <2>3. /\ state' \in [Task -> States] /\ holder' \in [Task -> Node \cup {None}]
        /\ pausing' \in [Task -> BOOLEAN] /\ order' \in Seq(Task)
        /\ QueueIsComplete'
        /\ \A u \in Task : state'[u] = "running" =>
              u # held[n] /\ state[u] = "running" /\ holder'[u] = holder[u] /\ pausing'[u] = pausing[u]
        /\ \A u \in Task : state'[u] \in {"absent", "queued", "paused"} =>
              Spare(u) \/ attempts[u] < max_task_attempts
    BY <2>1, RequeueFacts
  <2>4. TasksOK' /\ NodesOK'
    BY <2>1, <2>2, <2>3 DEF TasksOK, NodesOK
  <2>5. RunningIsHeld'
    <3> SUFFICES ASSUME NEW u \in Task, state'[u] = "running"
                 PROVE  /\ holder'[u] # None /\ Contains(nodes', holder'[u])
                        /\ held'[holder'[u]] = u /\ conns'[holder'[u]] # 0
      BY DEF RunningIsHeld
    <3>1. /\ holder[u] \in Node /\ Contains(nodes, holder[u]) /\ held[holder[u]] = u
          /\ conns[holder[u]] # 0
      BY <2>3 DEF RunningIsHeld, TasksOK
    <3>2. holder[u] # n /\ holder'[u] = holder[u]
      BY <2>3, <3>1
    <3> QED BY <2>1, <2>2, <3>1, <3>2, FleetConstants DEF NodesOK
  <2>6. \A m \in Node : Contains(nodes', m) => conns'[m] # 0
    BY <2>2 DEF Placed, NodesOK
  <2> QED BY <2>1, <2>2, <2>3, <2>4, <2>5, <2>6
<1> QED BY <1>1, <1>2

\* A line on its way to a node.
LEMMA ReachesFacts ==
    ASSUME FleetInv, NEW n \in Node, conns[n] # 0, NEW line \in Line, Reaches(n, line)
    PROVE  down' \in [Conn -> Seq(Line)] /\ conns' = conns
<1>1. conns[n] \in Conn
  BY DEF FleetInv, NodesOK
<1> QED BY <1>1 DEF Reaches, FleetInv, WiresOK

\* The node that is chosen is registered and idle.
LEMMA IdleFacts ==
    ASSUME FleetInv, idle # {}, NEW t \in Task
    PROVE  /\ _idle_node(t) \in Node /\ Contains(nodes, _idle_node(t))
           /\ held[_idle_node(t)] = None
<1> DEFINE fresh == {i \in idle : nodes[i] \notin tried[t]}
           S == IF fresh # {} THEN fresh ELSE idle
<1>1. S \in SUBSET Nat /\ S # {} /\ S \subseteq idle
  BY DEF FleetInv, NodesOK, idle
<1>2. Min(S) \in idle
  BY <1>1, LeastFacts
<1>3. _idle_node(t) = nodes[Min(S)]
  BY DEF _idle_node
<1> HIDE DEF S
<1>4. _idle_node(t) \in Node /\ held[_idle_node(t)] = None
  BY <1>2, <1>3 DEF idle, FleetInv, NodesOK
<1>5. \E i \in DOMAIN nodes : nodes[i] = _idle_node(t)
  BY <1>2, <1>3 DEF idle
<1>6. Contains(nodes, _idle_node(t))
  BY <1>5, PlaceFacts DEF FleetInv, NodesOK
<1> QED BY <1>4, <1>6

-----------------------------------------------------------------------------
(* The coordinator's operations. *)

LEMMA QueuedKeeps ==
    ASSUME FleetInv, NEW t \in Task, submit(t) \/ resume(t)
    PROVE  FleetInv'
<1> USE DEF FleetInv
<1>1. /\ UNCHANGED <<attempts, tried, nodes, held, conns, far, wires, desks, faults>>
      /\ state[t] \in {"absent", "paused"} /\ state' = [state EXCEPT ![t] = "queued"]
      /\ order' = _enqueue(order, t) /\ calls' = PumpCall
      /\ \/ UNCHANGED <<holder, pausing>>
         \/ holder' = [holder EXCEPT ![t] = None] /\ pausing' = [pausing EXCEPT ![t] = FALSE]
  BY DEF submit, resume
<1>2. /\ order' \in Seq(Task) /\ Ranked(order')
      /\ \A u \in Task : Contains(order, u) \/ u = t => Contains(order', u)
  BY <1>1, EnqueueFacts, QueueFacts DEF TasksOK
<1>3. TasksOK' /\ NodesOK' /\ WiresOK' /\ DesksOK'
  <2>1. state' \in [Task -> States]
    BY <1>1 DEF TasksOK, States
  <2>2. holder' \in [Task -> Node \cup {None}] /\ pausing' \in [Task -> BOOLEAN]
    BY <1>1 DEF TasksOK
  <2>3. TasksOK'
    BY <1>1, <1>2, <2>1, <2>2 DEF TasksOK
  <2>4. NodesOK'
    BY <1>1 DEF NodesOK
  <2> QED BY <1>1, <2>3, <2>4 DEF wires, desks, faults, WiresOK, DesksOK
<1>4. Placed'
  BY <1>1 DEF wires, Placed
<1>5. QueueIsComplete'
  <2>1. \A u \in Task : state'[u] = "queued" => Contains(order', u)
    BY <1>1, <1>2, QueueFacts DEF TasksOK
  <2> QED BY <1>2, <2>1 DEF QueueIsComplete, Ranked
<1>6. \A u \in Task : state'[u] = "running" =>
        state[u] = "running" /\ holder'[u] = holder[u] /\ pausing'[u] = pausing[u]
  BY <1>1 DEF TasksOK
<1>7. RunningIsHeld'
  BY <1>1, <1>6, RunsKept
<1>8. \A u \in Task : state'[u] \in {"absent", "queued", "paused"} => Spare(u)
  BY <1>1 DEF TasksOK, Spare
<1>9. \A u \in Task : state'[u] = "running" /\ pausing'[u] => Spare(u)
  BY <1>6 DEF Spare
<1>10. ops' = ops /\ ops \in 0 .. MaxOps
  BY <1>1 DEF faults, Tries
<1>11. Phases' /\ \A u \in Task, i \in DOMAIN calls' : calls'[i] # [op |-> "pause", task |-> u]
  BY <1>1, PumpFacts
<1>12. Tries'
  BY <1>1, <1>8, <1>9, <1>10, <1>11, FleetConstants, SpareKept
<1> QED BY <1>3, <1>4, <1>5, <1>7, <1>11, <1>12

LEMMA OfferKeeps ==
    ASSUME FleetInv, offer
    PROVE  FleetInv'
<1> USE DEF FleetInv
<1>1. /\ UNCHANGED <<far, owner, near, up, desks, faults>>
      /\ calls # << >> /\ Head(calls).op = "offer" /\ calls' = Tail(calls)
      /\ state[Head(calls).task] = "queued" /\ idle # {}
  BY DEF offer
<1>2. PICK t \in Task : t = Head(calls).task
  BY <1>1, TailFacts
<1>3. PICK n \in Node : n = _idle_node(t) /\ Contains(nodes, n) /\ held[n] = None
  BY <1>1, IdleFacts
<1>try. /\ attempts' = [attempts EXCEPT ![t] = attempts[t] + 1]
      /\ tried' = [tried EXCEPT ![t] = tried[t] \cup {n}]
  BY <1>2, <1>3 DEF offer
<1>4. conns[n] # 0
  BY <1>3 DEF Placed
<1>5. attempts' \in [Task -> Nat] /\ tried' \in [Task -> SUBSET Node]
  BY <1>try DEF TasksOK
<1>6. /\ RemoveFirst(order, t) \in Seq(Task) /\ Ranked(RemoveFirst(order, t))
      /\ \A u \in Task : u # t /\ Contains(order, u) => Contains(RemoveFirst(order, t), u)
  BY <1>2, RemoveFirstFacts, QueueFacts DEF TasksOK
<1>7. attempts[t] \in Nat /\ attempts[t] < max_task_attempts + ops
  BY <1>1, <1>2 DEF TasksOK, Tries, Spare
<1>8. Phases' /\ \A u \in Task, i \in DOMAIN calls' : calls'[i] # [op |-> "pause", task |-> u]
  <2>1. calls' \in Seq(Call) /\ \A i \in DOMAIN calls' : calls'[i].op = "offer"
    BY <1>1, TailFacts DEF Phases
  <2> QED BY <2>1 DEF Phases
<1>9. ops' = ops /\ ops \in 0 .. MaxOps
  BY <1>1 DEF faults, Tries
<1>10. CASE Reaches(n, [kind |-> "assign", task |-> t])
            /\ state' = [state EXCEPT ![t] = "running"] /\ holder' = [holder EXCEPT ![t] = n]
            /\ pausing' = [pausing EXCEPT ![t] = FALSE] /\ order' = RemoveFirst(order, t)
            /\ held' = [held EXCEPT ![n] = t] /\ UNCHANGED nodes
  <2>1. [kind |-> "assign", task |-> t] \in Line
    BY <1>2 DEF Line
  <2>2. down' \in [Conn -> Seq(Line)] /\ conns' = conns
    BY <1>3, <1>4, <1>10, <2>1, ReachesFacts
  <2>3. TasksOK'
    BY <1>2, <1>3, <1>5, <1>6, <1>10 DEF TasksOK, States
  <2>4. NodesOK'
    BY <1>2, <1>3, <1>10, <2>2 DEF NodesOK
  <2>5. WiresOK' /\ DesksOK'
    BY <1>1, <2>2 DEF WiresOK, DesksOK, desks, faults
  <2>6. Placed'
    BY <1>1, <1>10, <2>2 DEF Placed
  <2>7. RunningIsHeld'
    <3>1. ASSUME NEW u \in Task, state'[u] = "running", u # t
          PROVE  /\ holder'[u] # None /\ Contains(nodes', holder'[u])
                 /\ held'[holder'[u]] = u /\ conns'[holder'[u]] # 0
      <4>1. state[u] = "running" /\ holder'[u] = holder[u] /\ holder[u] \in Node
        BY <1>2, <1>10, <3>1 DEF TasksOK, RunningIsHeld
      <4>2. held[holder[u]] = u /\ holder[u] # n
        BY <1>3, <4>1, FleetConstants DEF RunningIsHeld
      <4> QED BY <1>10, <2>2, <4>1, <4>2 DEF RunningIsHeld, NodesOK
    <3>2. /\ holder'[t] = n /\ n # None /\ Contains(nodes', n) /\ held'[n] = t /\ conns'[n] # 0
      BY <1>2, <1>3, <1>4, <1>10, <2>2, FleetConstants DEF TasksOK, NodesOK
    <3> QED BY <1>2, <3>1, <3>2 DEF RunningIsHeld
  <2>8. QueueIsComplete'
    <3>1. \A u \in Task : state'[u] = "queued" => Contains(order', u)
      BY <1>2, <1>6, <1>10, QueueFacts DEF TasksOK
    <3> QED BY <1>6, <1>10, <3>1 DEF QueueIsComplete, Ranked
  <2>9. Tries'
    <3>1. attempts'[t] =< max_task_attempts + ops' /\ ~ Spare(t)'
      <4>1. attempts'[t] = attempts[t] + 1
        BY <1>try, <1>2 DEF TasksOK
      <4>2. state'[t] = "running" /\ ~ pausing'[t]
        BY <1>2, <1>10 DEF TasksOK
      <4>3. ~ \E i \in DOMAIN calls' : calls'[i] = [op |-> "pause", task |-> t]
        BY <1>2, <1>8
      <4>4. ~ Spare(t)'
        BY <4>2, <4>3 DEF Spare
      <4> QED BY <1>7, <1>9, <4>1, <4>4, FleetConstants
    <3>2. ASSUME NEW u \in Task, u # t
          PROVE  attempts'[u] = attempts[u] /\ (Spare(u)' => Spare(u))
      BY <1>try, <1>8, <1>10, <3>2 DEF TasksOK, Spare
    <3>3. ASSUME NEW u \in Task, u # t
          PROVE  /\ attempts'[u] =< max_task_attempts + ops'
                 /\ Spare(u)' => attempts'[u] < max_task_attempts + ops'
      BY <1>9, <3>2, <3>3 DEF Tries
    <3>4. ops' \in 0 .. MaxOps
      BY <1>9
    <3> QED BY <3>1, <3>3, <3>4 DEF Tries
  <2> QED BY <1>8, <2>3, <2>4, <2>5, <2>6, <2>7, <2>8, <2>9
<1>11. CASE /\ SendRaises(n) /\ nodes' = RemoveFirst(nodes, n)
            /\ state' = [state EXCEPT ![t] =
                            IF attempts[t] + 1 >= max_task_attempts THEN "failed" ELSE "queued"]
            /\ order' = IF attempts[t] + 1 >= max_task_attempts THEN RemoveFirst(order, t)
                        ELSE _enqueue(RemoveFirst(order, t), t)
            /\ UNCHANGED <<holder, pausing, held>>
  <2>1. conns' = [conns EXCEPT ![n] = 0] /\ down' = down
    BY <1>11 DEF SendRaises
  <2>2. /\ nodes' \in Seq(Node) /\ Distinct(nodes') /\ ~ Contains(nodes', n)
        /\ \A m : m # n => (Contains(nodes', m) <=> Contains(nodes, m))
    BY <1>11, RemoveFirstFacts DEF NodesOK, Placed
  <2> DEFINE last == attempts[t] + 1 >= max_task_attempts
             rest == RemoveFirst(order, t)
  <2>3. /\ _enqueue(rest, t) \in Seq(Task) /\ Ranked(_enqueue(rest, t))
        /\ \A u \in Task : Contains(rest, u) \/ u = t => Contains(_enqueue(rest, t), u)
    BY <1>2, <1>6, EnqueueFacts
  <2>4. /\ order' \in Seq(Task) /\ Ranked(order')
        /\ \A u \in Task : Contains(order, u) /\ u # t => Contains(order', u)
        /\ ~ last => Contains(order', t)
    <3>1. CASE last
      BY <1>6, <1>11, <3>1
    <3>2. CASE ~ last
      BY <1>2, <1>6, <1>11, <2>3, <3>2
    <3> QED BY <3>1, <3>2
  <2>5. TasksOK'
    BY <1>2, <1>5, <1>11, <2>4 DEF TasksOK, States
  <2>6. NodesOK'
    BY <1>3, <1>11, <2>1, <2>2 DEF NodesOK
  <2>7. WiresOK' /\ DesksOK'
    BY <1>1, <2>1 DEF WiresOK, DesksOK, desks, faults
  <2>8. Placed'
    BY <1>1, <1>3, <2>1, <2>2 DEF Placed, NodesOK
  <2>9. RunningIsHeld'
    <3> SUFFICES ASSUME NEW u \in Task, state'[u] = "running"
                 PROVE  /\ holder'[u] # None /\ Contains(nodes', holder'[u])
                        /\ held'[holder'[u]] = u /\ conns'[holder'[u]] # 0
      BY DEF RunningIsHeld
    <3>1. state[u] = "running" /\ holder'[u] = holder[u] /\ holder[u] \in Node
      BY <1>2, <1>11 DEF TasksOK, RunningIsHeld
    <3>2. held[holder[u]] = u /\ holder[u] # n
      BY <1>3, <3>1, FleetConstants DEF RunningIsHeld
    <3> QED BY <1>11, <2>1, <2>2, <3>1, <3>2 DEF RunningIsHeld, NodesOK
  <2>10. QueueIsComplete'
    <3>1. \A u \in Task : state'[u] = "queued" => Contains(order', u)
      BY <1>2, <1>11, <2>4, QueueFacts DEF TasksOK
    <3> QED BY <2>4, <3>1 DEF QueueIsComplete, Ranked
  <2>11. Tries'
    <3>1. /\ attempts'[t] =< max_task_attempts + ops'
          /\ Spare(t)' => attempts'[t] < max_task_attempts + ops'
      <4>1. attempts'[t] = attempts[t] + 1
        BY <1>try, <1>2 DEF TasksOK
      <4>2. state'[t] = IF last THEN "failed" ELSE "queued"
        BY <1>2, <1>11 DEF TasksOK
      <4>3. ~ \E i \in DOMAIN calls' : calls'[i] = [op |-> "pause", task |-> t]
        BY <1>2, <1>8
      <4>4. state'[t] # "running"
        BY <4>2
      <4>5. Spare(t)' => state'[t] \in {"absent", "queued", "paused"}
        BY <4>3, <4>4 DEF Spare
      <4>6. Spare(t)' => ~ last
        BY <4>2, <4>5
      <4> QED BY <1>7, <1>9, <4>1, <4>6, FleetConstants
    <3>2. ASSUME NEW u \in Task, u # t
          PROVE  attempts'[u] = attempts[u] /\ (Spare(u)' => Spare(u))
      BY <1>try, <1>8, <1>11, <3>2 DEF TasksOK, Spare
    <3>3. ASSUME NEW u \in Task, u # t
          PROVE  /\ attempts'[u] =< max_task_attempts + ops'
                 /\ Spare(u)' => attempts'[u] < max_task_attempts + ops'
      BY <1>9, <3>2, <3>3 DEF Tries
    <3>4. ops' \in 0 .. MaxOps
      BY <1>9
    <3> QED BY <3>1, <3>3, <3>4 DEF Tries
  <2> QED BY <1>8, <2>5, <2>6, <2>7, <2>8, <2>9, <2>10, <2>11
<1> QED BY <1>2, <1>3, <1>10, <1>11 DEF offer

\* What dropping a node for a failed send does to the invariant.
LEMMA DropKeeps ==
    ASSUME FleetInv, NEW n \in Node, SendRaises(n), on_node_lost(n),
           UNCHANGED <<far, owner, near, up, desks, revoked, ended, passed, cuts>>,
           Phases', ops' \in 0 .. MaxOps, ops =< ops',
           \A u \in Task, i \in DOMAIN calls' : calls'[i] = [op |-> "pause", task |-> u] =>
              \E j \in DOMAIN calls : calls[j] = [op |-> "pause", task |-> u]
    PROVE  FleetInv'
<1> USE DEF FleetInv
<1>1. conns' = [conns EXCEPT ![n] = 0] /\ down' = down
  BY DEF SendRaises
<1>2. /\ TasksOK' /\ NodesOK' /\ RunningIsHeld' /\ QueueIsComplete' /\ attempts' = attempts
      /\ Distinct(nodes') /\ \A m \in Node : Contains(nodes', m) => conns'[m] # 0
      /\ \A u \in Task : state'[u] = "running" => state[u] = "running" /\ pausing'[u] = pausing[u]
      /\ \A u \in Task : state'[u] \in {"absent", "queued", "paused"} =>
            Spare(u) \/ attempts[u] < max_task_attempts
  BY <1>1, LostFacts
<1>3. WiresOK' /\ DesksOK'
  BY <1>1 DEF WiresOK, DesksOK, desks
<1>4. Placed'
  BY <1>1, <1>2 DEF Placed, NodesOK
<1>5. \A u \in Task : state'[u] = "running" /\ pausing'[u] => Spare(u)
  BY <1>2 DEF Spare
<1>6. Tries'
  BY <1>2, <1>5, SpareKept
<1> QED BY <1>2, <1>3, <1>4, <1>6

LEMMA StopKeeps ==
    ASSUME FleetInv, NEW t \in Task, stop_task(t)
    PROVE  FleetInv'
<1> USE DEF FleetInv
<1>1. /\ UNCHANGED <<calls, far, owner, near, up, desks, revoked, ended, passed, cuts>>
      /\ ops' = ops + 1 /\ ops < MaxOps /\ state[t] = "running"
  BY DEF stop_task
<1>2. PICK n \in Node : n = holder[t] /\ conns[n] # 0
  BY <1>1 DEF RunningIsHeld, TasksOK
<1>3. Phases' /\ ops' \in 0 .. MaxOps /\ ops =< ops'
  BY <1>1, FleetConstants DEF Phases, Tries
<1>4. CASE Reaches(n, [kind |-> "stop", task |-> t]) /\ UNCHANGED brain
  <2>1. [kind |-> "stop", task |-> t] \in Line
    BY DEF Line
  <2>2. down' \in [Conn -> Seq(Line)] /\ conns' = conns
    BY <1>2, <1>4, <2>1, ReachesFacts
  <2>3. TasksOK' /\ NodesOK' /\ WiresOK' /\ DesksOK'
    BY <1>1, <1>4, <2>2 DEF brain, desks, TasksOK, NodesOK, WiresOK, DesksOK
  <2>4. Placed' /\ RunningIsHeld' /\ QueueIsComplete'
    BY <1>1, <1>4, <2>2 DEF brain, Placed, RunningIsHeld, QueueIsComplete
  <2>5. \A u \in Task : Spare(u)' => Spare(u)
    BY <1>1, <1>4 DEF Spare, brain
  <2>6. Tries'
    BY <1>3, <1>4, <2>5, TriesKept DEF brain
  <2> QED BY <1>3, <2>3, <2>4, <2>6
<1>5. CASE SendRaises(n) /\ on_node_lost(n)
  BY <1>1, <1>3, <1>5, DropKeeps
<1> QED BY <1>2, <1>4, <1>5 DEF stop_task

LEMMA PauseOneKeeps ==
    ASSUME FleetInv, pause_one
    PROVE  FleetInv'
<1> USE DEF FleetInv
<1>1. /\ UNCHANGED <<attempts, tried, far, owner, near, up, desks, faults>>
      /\ calls # << >> /\ Head(calls).op = "pause" /\ calls' = Tail(calls)
  BY DEF pause_one
<1>2. PICK t \in Task : t = Head(calls).task
  BY <1>1, TailFacts
<1>3. Spare(t)
  <2>1. 1 \in DOMAIN calls /\ calls[1] = [op |-> "pause", task |-> t]
    BY <1>1, <1>2, TailFacts
  <2> QED BY <2>1 DEF Spare
<1>4. /\ Phases'
      /\ \A u \in Task, i \in DOMAIN calls' : calls'[i] = [op |-> "pause", task |-> u] =>
            \E j \in DOMAIN calls : calls[j] = [op |-> "pause", task |-> u]
  BY <1>1, TailKeeps
<1>5. ops' = ops /\ ops \in 0 .. MaxOps /\ ops =< ops' /\ UNCHANGED <<revoked, ended, passed, cuts>>
  BY <1>1, FleetConstants DEF faults, Tries
<1>6. CASE /\ state[t] = "queued" /\ state' = [state EXCEPT ![t] = "paused"]
           /\ pausing' = [pausing EXCEPT ![t] = TRUE] /\ order' = RemoveFirst(order, t)
           /\ UNCHANGED <<holder, nodes, held, conns, down>>
  <2>1. /\ order' \in Seq(Task) /\ Ranked(order')
        /\ \A u \in Task : u # t /\ Contains(order, u) => Contains(order', u)
    BY <1>6, RemoveFirstFacts, QueueFacts DEF TasksOK
  <2>2. TasksOK'
    BY <1>1, <1>6, <2>1 DEF TasksOK, States
  <2>3. NodesOK' /\ WiresOK' /\ DesksOK'
    BY <1>1, <1>5, <1>6 DEF desks, NodesOK, WiresOK, DesksOK
  <2>4. Placed'
    BY <1>1, <1>6 DEF Placed
  <2>5. \A u \in Task : state'[u] = "running" =>
            state[u] = "running" /\ holder'[u] = holder[u] /\ pausing'[u] = pausing[u]
    BY <1>6 DEF TasksOK
  <2>6. RunningIsHeld'
    BY <1>6, <2>5, RunsKept
  <2>7. QueueIsComplete'
    <3>1. \A u \in Task : state'[u] = "queued" => Contains(order', u)
      BY <1>6, <2>1, QueueFacts DEF TasksOK
    <3> QED BY <2>1, <3>1 DEF QueueIsComplete, Ranked
  <2>8. \A u \in Task : state'[u] \in {"absent", "queued", "paused"} => Spare(u)
    BY <1>3, <1>6 DEF TasksOK, Spare
  <2>9. \A u \in Task : state'[u] = "running" /\ pausing'[u] => Spare(u)
    BY <2>5 DEF Spare
  <2>10. Tries'
    BY <1>1, <1>4, <1>5, <2>8, <2>9, SpareKept
  <2> QED BY <1>4, <2>2, <2>3, <2>4, <2>6, <2>7, <2>10
<1>7. CASE /\ state[t] = "running" /\ Reaches(holder[t], [kind |-> "stop", task |-> t])
           /\ pausing' = [pausing EXCEPT ![t] = TRUE]
           /\ UNCHANGED <<state, holder, order, nodes, held>>
  <2>1. PICK n \in Node : n = holder[t] /\ conns[n] # 0
    BY <1>7 DEF RunningIsHeld, TasksOK
  <2>2. [kind |-> "stop", task |-> t] \in Line
    BY DEF Line
  <2>3. down' \in [Conn -> Seq(Line)] /\ conns' = conns
    BY <1>7, <2>1, <2>2, ReachesFacts
  <2>4. TasksOK'
    BY <1>1, <1>7 DEF TasksOK
  <2>5. NodesOK' /\ WiresOK' /\ DesksOK'
    BY <1>1, <1>5, <1>7, <2>3 DEF desks, NodesOK, WiresOK, DesksOK
  <2>6. Placed' /\ RunningIsHeld' /\ QueueIsComplete'
    BY <1>1, <1>7, <2>3 DEF Placed, RunningIsHeld, QueueIsComplete
  <2>7. \A u \in Task : state'[u] \in {"absent", "queued", "paused"} => Spare(u)
    BY <1>7 DEF Spare
  <2>8. \A u \in Task : state'[u] = "running" /\ pausing'[u] => Spare(u)
    BY <1>3, <1>7 DEF TasksOK, Spare
  <2>9. Tries'
    BY <1>1, <1>4, <1>5, <2>7, <2>8, SpareKept
  <2> QED BY <1>4, <2>4, <2>5, <2>6, <2>9
<1>8. CASE /\ state[t] = "running" /\ SendRaises(holder[t])
           /\ nodes' = RemoveFirst(nodes, holder[t])
           /\ held' = [held EXCEPT ![holder[t]] = None]
           /\ _requeue(t, attempts[t])
  <2>1. PICK n \in Node : n = holder[t] /\ Contains(nodes, n) /\ held[n] = t
    BY <1>8 DEF RunningIsHeld, TasksOK
  <2>2. t # None
    BY FleetConstants
  <2>3. on_node_lost(n)
    BY <1>1, <1>8, <2>1, <2>2 DEF on_node_lost, Used
  <2> QED BY <1>1, <1>4, <1>5, <1>8, <2>1, <2>3, DropKeeps
<1>9. CASE UNCHANGED <<state, holder, pausing, order, nodes, held, conns, down>>
  <2>1. TasksOK' /\ NodesOK' /\ WiresOK' /\ DesksOK'
    BY <1>1, <1>5, <1>9 DEF desks, TasksOK, NodesOK, WiresOK, DesksOK
  <2>2. Placed' /\ RunningIsHeld' /\ QueueIsComplete'
    BY <1>1, <1>9 DEF Placed, RunningIsHeld, QueueIsComplete
  <2>3. \A u \in Task : Spare(u)' => Spare(u)
    BY <1>4, <1>9 DEF Spare
  <2>4. Tries'
    BY <1>1, <1>5, <2>3, TriesKept
  <2> QED BY <1>4, <2>1, <2>2, <2>4
<1> QED BY <1>2, <1>6, <1>7, <1>8, <1>9 DEF pause_one

LEMMA EndKeeps ==
    ASSUME FleetInv, NEW c \in Conn, serve_end(c)
    PROVE  FleetInv'
<1> USE DEF FleetInv
<1>1. /\ far[c] # "none" /\ far' = [far EXCEPT ![c] = "done"] /\ near' = [near EXCEPT ![c] = FALSE]
      /\ UNCHANGED <<owner, up, down, desks, faults>> /\ calls = << >>
  BY DEF serve_end
<1>2. PICK n \in Node : n = owner[c]
  BY <1>1 DEF Placed
<1>3. WiresOK' /\ DesksOK'
  BY <1>1 DEF WiresOK, DesksOK, desks, faults
<1>4. ops' = ops /\ ops \in 0 .. MaxOps /\ ops =< ops'
  BY <1>1, FleetConstants DEF faults, Tries
<1>5. \A d \in Conn : far'[d] # "none" => owner'[d] \in Node
  BY <1>1, <1>2 DEF Placed, WiresOK
<1>6. CASE conns' = [conns EXCEPT ![n] = 0] /\ on_node_lost(n) /\ calls' = PumpCall
  <2>1. /\ TasksOK' /\ NodesOK' /\ RunningIsHeld' /\ QueueIsComplete' /\ attempts' = attempts
        /\ Distinct(nodes') /\ \A m \in Node : Contains(nodes', m) => conns'[m] # 0
        /\ \A u \in Task : state'[u] = "running" => state[u] = "running" /\ pausing'[u] = pausing[u]
        /\ \A u \in Task : state'[u] \in {"absent", "queued", "paused"} =>
              Spare(u) \/ attempts[u] < max_task_attempts
    BY <1>6, LostFacts
  <2>2. Placed'
    BY <1>1, <1>5, <1>6, <2>1 DEF Placed, NodesOK
  <2>3. Phases' /\ \A u \in Task, i \in DOMAIN calls' : calls'[i] # [op |-> "pause", task |-> u]
    BY <1>6, PumpFacts
  <2>4. \A u \in Task : state'[u] = "running" /\ pausing'[u] => Spare(u)
    BY <2>1 DEF Spare
  <2>5. Tries'
    BY <1>4, <2>1, <2>3, <2>4, SpareKept
  <2> QED BY <1>3, <2>1, <2>2, <2>3, <2>5
<1>7. CASE UNCHANGED <<conns, brain, calls>>
  <2>1. Placed'
    BY <1>1, <1>5, <1>7 DEF Placed, brain
  <2>2. UNCHANGED AloneVars
    BY <1>4, <1>7 DEF AloneVars
  <2> QED BY <1>3, <2>1, <2>2, AloneKeeps
<1> QED BY <1>2, <1>6, <1>7 DEF serve_end

LEMMA ReturnKeeps ==
    ASSUME FleetInv, NEW c \in Conn, on_hello(c)
    PROVE  FleetInv'
<1> USE DEF FleetInv
<1>1. /\ UNCHANGED <<attempts, tried, far, owner, near, down, desks, revoked, ended, cuts, ops>>
      /\ passed' \subseteq passed
      /\ far[c] # "none" /\ up[c] # << >> /\ up' = [up EXCEPT ![c] = Tail(up[c])]
      /\ calls' = PumpCall
  BY DEF on_hello, Reading
<1>2. PICK n \in Node : n = owner[c]
  BY <1>1 DEF Placed
<1>3. /\ conns' = [conns EXCEPT ![n] = c] /\ held' = [held EXCEPT ![n] = None]
      /\ nodes' = IF Contains(nodes, n) THEN nodes ELSE Append(nodes, n)
      /\ _requeue(held[n], Used(held[n])) /\ held[n] \in Task \cup {None}
  BY <1>2 DEF on_hello, NodesOK
<1>4. /\ state' \in [Task -> States] /\ holder' \in [Task -> Node \cup {None}]
      /\ pausing' \in [Task -> BOOLEAN] /\ order' \in Seq(Task)
      /\ QueueIsComplete'
      /\ \A u \in Task : state'[u] = "running" =>
            u # held[n] /\ state[u] = "running" /\ holder'[u] = holder[u] /\ pausing'[u] = pausing[u]
      /\ \A u \in Task : state'[u] \in {"absent", "queued", "paused"} =>
            Spare(u) \/ attempts[u] < max_task_attempts
  BY <1>3, RequeueFacts
<1>5. /\ nodes' \in Seq(Node) /\ Distinct(nodes')
      /\ \A m : Contains(nodes', m) <=> Contains(nodes, m) \/ m = n
  BY <1>3, AppendFacts DEF NodesOK, Placed
<1>6. c # 0
  BY FleetConstants
<1>7. TasksOK' /\ NodesOK'
  BY <1>1, <1>3, <1>4, <1>5 DEF TasksOK, NodesOK
<1>8. WiresOK' /\ DesksOK'
  <2>1. Tail(up[c]) \in Seq(Line)
    BY <1>1, HeadIsLine DEF WiresOK
  <2> QED BY <1>1, <2>1 DEF WiresOK, DesksOK, desks, faults
<1>9. Placed'
  BY <1>1, <1>2, <1>3, <1>5, <1>6 DEF Placed, NodesOK
<1>10. RunningIsHeld'
  <2> SUFFICES ASSUME NEW u \in Task, state'[u] = "running"
               PROVE  /\ holder'[u] # None /\ Contains(nodes', holder'[u])
                      /\ held'[holder'[u]] = u /\ conns'[holder'[u]] # 0
    BY DEF RunningIsHeld
  <2>1. /\ holder[u] \in Node /\ Contains(nodes, holder[u]) /\ held[holder[u]] = u
        /\ conns[holder[u]] # 0
    BY <1>4 DEF RunningIsHeld, TasksOK
  <2>2. holder[u] # n /\ holder'[u] = holder[u]
    BY <1>4, <2>1
  <2> QED BY <1>3, <1>5, <2>1, <2>2, FleetConstants DEF NodesOK
<1>11. Phases' /\ \A u \in Task, i \in DOMAIN calls' : calls'[i] # [op |-> "pause", task |-> u]
  BY <1>1, PumpFacts
<1>12. Tries'
  <2>1. \A u \in Task : state'[u] = "running" /\ pausing'[u] => Spare(u)
    BY <1>4 DEF Spare
  <2>2. ops' = ops /\ ops \in 0 .. MaxOps /\ ops =< ops'
    BY <1>1, FleetConstants DEF faults, Tries
  <2> QED BY <1>1, <1>4, <1>11, <2>1, <2>2, SpareKept
<1> QED BY <1>4, <1>7, <1>8, <1>9, <1>10, <1>11, <1>12

\* A result ends the run, and queues the task only if it has an attempt left.
LEMMA OutcomeFacts ==
    ASSUME NEW t \in Task, NEW how \in Codes
    PROVE  /\ Outcome(t, how) \in {"paused", "done", "failed", "queued"}
           /\ Outcome(t, how) = "paused" => pausing[t]
           /\ Outcome(t, how) = "queued" => ~ (attempts[t] >= max_task_attempts)
BY DEF Outcome, Codes

LEMMA ResultKeeps ==
    ASSUME FleetInv, NEW c \in Conn, on_result(c)
    PROVE  FleetInv'
<1> USE DEF FleetInv
<1>1. /\ UNCHANGED <<attempts, tried, nodes, conns, far, owner, near, down, desks, revoked, ended, cuts,
                      ops>>
      /\ passed' \subseteq passed
      /\ far[c] # "none" /\ up[c] # << >> /\ up' = [up EXCEPT ![c] = Tail(up[c])]
      /\ calls' = PumpCall /\ Head(up[c]).kind = "result"
  BY DEF on_result, Reading
<1>2. PICK n \in Node : n = owner[c]
  BY <1>1 DEF Placed
<1>3. PICK t \in Task, how \in Codes : t = Head(up[c]).task /\ how = Head(up[c]).code
  BY <1>1, HeadIsLine DEF WiresOK
<1>4. held' = IF held[n] = t THEN [held EXCEPT ![n] = None] ELSE held
  BY <1>2, <1>3 DEF on_result
<1>5. WiresOK' /\ DesksOK'
  <2>1. Tail(up[c]) \in Seq(Line)
    BY <1>1, HeadIsLine DEF WiresOK
  <2> QED BY <1>1, <2>1 DEF WiresOK, DesksOK, desks, faults
<1>6. Placed' /\ NodesOK'
  BY <1>1, <1>4 DEF Placed, NodesOK
<1>7. Phases' /\ \A u \in Task, i \in DOMAIN calls' : calls'[i] # [op |-> "pause", task |-> u]
  BY <1>1, PumpFacts
<1>8. /\ TasksOK' /\ QueueIsComplete'
      /\ \A u \in Task : state'[u] = "running" =>
            u # t /\ state[u] = "running" /\ holder'[u] = holder[u] /\ pausing'[u] = pausing[u]
      /\ \A u \in Task : state'[u] \in {"absent", "queued", "paused"} =>
            Spare(u) \/ attempts[u] < max_task_attempts
  <2>1. CASE state[t] \in SETTLED
    <3>1. UNCHANGED <<state, holder, pausing, order>>
      BY <1>3, <2>1 DEF on_result
    <3>2. TasksOK' /\ QueueIsComplete'
      BY <1>1, <3>1 DEF TasksOK, QueueIsComplete
    <3> QED BY <2>1, <3>1, <3>2 DEF Spare, SETTLED
  <2>2. CASE state[t] \notin SETTLED
    <3>1. PICK s : /\ s = Outcome(t, how) /\ state' = [state EXCEPT ![t] = s]
                   /\ holder' = [holder EXCEPT ![t] = None]
                   /\ pausing' = [pausing EXCEPT ![t] = s = "paused"]
                   /\ order' = IF s = "queued" THEN _enqueue(order, t) ELSE order
      BY <1>3, <2>2 DEF on_result
    <3>2. /\ s \in {"paused", "done", "failed", "queued"} /\ (s = "paused" => pausing[t])
          /\ s = "queued" => attempts[t] < max_task_attempts
      BY <3>1, OutcomeFacts, FleetConstants DEF TasksOK
    <3>3. /\ order' \in Seq(Task) /\ Ranked(order')
          /\ \A u \in Task : Contains(order, u) \/ (u = t /\ s = "queued") => Contains(order', u)
      BY <3>1, EnqueueFacts, QueueFacts DEF TasksOK
    <3>4. (s = "paused") \in BOOLEAN
      OBVIOUS
    <3>5. TasksOK'
      BY <1>1, <3>1, <3>2, <3>3, <3>4 DEF TasksOK, States
    <3>6. \A u \in Task : state'[u] = "queued" => Contains(order', u)
      BY <3>1, <3>3, QueueFacts DEF TasksOK
    <3>7. QueueIsComplete'
      BY <3>3, <3>6 DEF QueueIsComplete, Ranked
    <3>8. \A u \in Task : state'[u] = "running" =>
              u # t /\ state[u] = "running" /\ holder'[u] = holder[u] /\ pausing'[u] = pausing[u]
      BY <3>1, <3>2 DEF TasksOK
    <3>9. \A u \in Task : state'[u] \in {"absent", "queued", "paused"} =>
              Spare(u) \/ attempts[u] < max_task_attempts
      <4>1. s = "paused" => Spare(t)
        BY <2>2, <3>2 DEF Spare, SETTLED, TasksOK, States
      <4>2. s # "absent"
        BY <3>2
      <4>3. state'[t] = s
        BY <3>1 DEF TasksOK
      <4>4. state'[t] \in {"absent", "queued", "paused"} =>
                Spare(t) \/ attempts[t] < max_task_attempts
        BY <3>2, <4>1, <4>2, <4>3
      <4>5. \A u \in Task : u # t => state'[u] = state[u]
        BY <3>1 DEF TasksOK
      <4> QED BY <4>4, <4>5 DEF Spare
    <3> QED BY <3>5, <3>7, <3>8, <3>9
  <2> QED BY <2>1, <2>2
<1>9. RunningIsHeld'
  <2> SUFFICES ASSUME NEW u \in Task, state'[u] = "running"
               PROVE  /\ holder'[u] # None /\ Contains(nodes', holder'[u])
                      /\ held'[holder'[u]] = u /\ conns'[holder'[u]] # 0
    BY DEF RunningIsHeld
  <2>1. /\ holder[u] \in Node /\ Contains(nodes, holder[u]) /\ held[holder[u]] = u
        /\ conns[holder[u]] # 0 /\ holder[u] # None
    BY <1>8, FleetConstants DEF RunningIsHeld, TasksOK
  <2>2. holder'[u] = holder[u] /\ u # t
    BY <1>8
  <2>3. held'[holder[u]] = u
    BY <1>4, <2>1, <2>2 DEF NodesOK
  <2> QED BY <1>1, <2>1, <2>2, <2>3
<1>10. Tries'
  <2>1. \A u \in Task : state'[u] = "running" /\ pausing'[u] => Spare(u)
    BY <1>8 DEF Spare
  <2>2. ops' = ops /\ ops \in 0 .. MaxOps /\ ops =< ops'
    BY <1>1, FleetConstants DEF faults, Tries
  <2> QED BY <1>1, <1>7, <1>8, <2>1, <2>2, SpareKept
<1> QED BY <1>5, <1>6, <1>7, <1>8, <1>9, <1>10

-----------------------------------------------------------------------------
(* The fleet: the theorems. *)

LEMMA FleetStepHolds == ASSUME FleetInv, [FleetNext]_fleetVars PROVE FleetInv'
<1>1. CASE UNCHANGED fleetVars
  <2>1. UNCHANGED AloneVars /\ UNCHANGED <<far, wires, desks, faults>>
    BY <1>1 DEF fleetVars, AloneVars, faults
  <2>2. WiresOK' /\ DesksOK' /\ Placed'
    BY <2>1 DEF FleetInv, WiresOK, DesksOK, Placed, AloneVars, brain, wires, desks, faults
  <2> QED BY <2>1, <2>2, AloneKeeps DEF FleetInv
<1>2. CASE Lock
  BY <1>2, PumpKeeps, OfferKeeps, PauseOneKeeps DEF Lock
<1>3. ASSUME NEW t \in Task, submit(t) \/ resume(t) \/ stop_task(t) PROVE FleetInv'
  BY <1>3, QueuedKeeps, StopKeeps
<1>4. ASSUME NEW S \in SUBSET Task, pause(S) PROVE FleetInv'
  BY <1>4, PauseKeeps
<1>5. ASSUME NEW c \in Conn, Thread(c) \/ Desk(c) \/ WorkerOf(c) \/ Cut(c) \/ Die(c) PROVE FleetInv'
  <2>1. CASE reject(c) \/ Desk(c) \/ WorkerOf(c) \/ Cut(c) \/ Die(c)
    <3>1. UNCHANGED AloneVars
      BY <2>1 DEF AloneVars, reject, Desk, _start, _request_stop, leave, WorkerOf, _run, _run_report,
                  Cut, Die, faults
    <3> QED BY <2>1, <3>1, DesksKeep
  <2>2. CASE on_hello(c) \/ on_result(c) \/ serve_end(c)
    BY <2>2, ReturnKeeps, ResultKeeps, EndKeeps
  <2> QED BY <1>5, <2>1, <2>2 DEF Thread
<1>6. ASSUME NEW n \in Node, dial(n) \/ drop_revoked(n) \/ halt_node(n) PROVE FleetInv'
  <2>1. UNCHANGED AloneVars
    BY <1>6 DEF AloneVars, dial, drop_revoked, halt_node, faults
  <2> QED BY <1>6, <2>1, NodesKeep
<1> QED BY <1>1, <1>2, <1>3, <1>4, <1>5, <1>6 DEF FleetNext

THEOREM FleetInvariance == FleetSpec => []FleetInv
BY FleetInitHolds, FleetStepHolds, PTL DEF FleetSpec

\* Every variable keeps its type: a task is sent to nodes at most max_attempts times,
\* and once more for every time the operator paused and resumed it (pump, _requeue).
THEOREM FleetTypeCorrect == FleetSpec => []FleetTypeOK
<1>1. FleetInv => FleetTypeOK
  BY InvGivesType
<1> QED BY <1>1, FleetInvariance, PTL

\* No task runs on nobody: a running task's holder is registered, is connected and has
\* the task in its record, however many nodes, connections, losses, results of superseded
\* runs and failing sends there are (on_hello, on_result, on_node_lost, _send_to).
THEOREM RunsOnItsHolder == FleetSpec => []RunningIsHeld
<1>1. FleetInv => RunningIsHeld
  BY DEF FleetInv
<1> QED BY <1>1, FleetInvariance, PTL

\* No queued task is forgotten, and none is there twice or ahead of a more urgent one
\* (_enqueue, _requeue, resume_task).
THEOREM QueueStaysComplete == FleetSpec => []QueueIsComplete
<1>1. FleetInv => QueueIsComplete
  BY DEF FleetInv
<1> QED BY <1>1, FleetInvariance, PTL

-----------------------------------------------------------------------------
(* The staged memory: the invariant. *)

\* A confirmation in the journal is the App's own or another member's.
Confirmations == signed \cup {Nothing} \cup [signer : Members, mem : Memories, subject : Members]
MemoryEvents ==
    [author : Members, lamport : Nat, op : {"assert", "retract"}, mem : Memories,
     basis : {"evidence", "operator", "none"}, evidence : BOOLEAN, conf : Confirmations]

StoresOK ==
    /\ store = [n \in Members |-> store[n]]
    /\ \A n \in Members : /\ store[n] \subseteq Memories \ Secrets
                          /\ IsFiniteSet(store[n]) /\ Cardinality(store[n]) <= MaxItems

EpisodesOK == episodes = [n \in Members |-> episodes[n]] /\ \A n \in Members : IsFiniteSet(episodes[n])

\* An author holds what it wrote, and its clock tells its events apart.
LedgerOK ==
    /\ events \in [Members -> SUBSET MemoryEvents]
    /\ \A n \in Members :
        /\ IsFiniteSet(events[n])
        /\ \E b \in Nat : \A e \in events[n] : e.lamport <= b
        /\ \A e \in events[n] : e \in events[e.author]
        /\ \A e, f \in events[n] : e.author = f.author /\ e.lamport = f.lamport => e = f

\* Wherever an honest member's caution is read, its author has the failing runs.
Earned ==
    \A n \in Members : \A e \in events[n] :
        e.basis = "evidence" /\ e.author \in Honest =>
            Cardinality(tally(episodes[e.author], e.mem.key, FAILURE_OUTCOMES)) >= MinRuns

\* A pass works from what its node has, which only grows.
PassesOK ==
    /\ pass = [n \in Members |-> pass[n]]
    /\ \A n \in Members : pass[n] # Nothing =>
        /\ pass[n].view \subseteq events[n]
        /\ \A k \in Keys : pass[n].tallies[k].fail \subseteq tally(episodes[n], k, FAILURE_OUTCOMES)

\* What the App offers is no credential; what a request carries it signed.
AppOK ==
    /\ distrusted \subseteq Rogues \cup {App}
    /\ memories \subseteq Memories \ Secrets /\ offered \subseteq Memories \ Secrets
    /\ requests \in Seq({"sent", "accepted", "refused", "undelivered"})
    /\ \A p \in toApp : p.kind = "offer" => p.mem \in Memories \ Secrets
    /\ \A p \in toNode : p.mem \in Memories /\ p.conf \in signed \cup {Nothing}
    /\ signed \subseteq [signer : {App}, mem : Memories, subject : Members]

MemoryInv == StoresOK /\ EpisodesOK /\ LedgerOK /\ Earned /\ PassesOK /\ AppOK

-----------------------------------------------------------------------------
(* Clocks, and the order of a pass. *)

\* A nonempty set of naturals with an upper bound has a largest element.
LEMMA LargestExists ==
    ASSUME NEW S \in SUBSET Nat, S # {}, NEW b \in Nat, \A s \in S : s <= b
    PROVE  \E m \in S : \A s \in S : s <= m
<1> DEFINE U == {u \in Nat : \A s \in S : s <= u}
<1>1. U # {} /\ U \subseteq Nat
  OBVIOUS
<1>2. PICK m \in U : \A u \in U : ~(<<u, m>> \in OpToRel(<, Nat))
  BY <1>1, NatLessThanWellFounded, WFMin
<1>3. \A u \in U : ~(u < m)
  BY <1>1, <1>2 DEF OpToRel
<1>4. ASSUME m \notin S PROVE FALSE
  <2>1. \A s \in S : s \in Nat /\ s <= m /\ s # m
    BY <1>4
  <2>2. PICK s \in S : TRUE
    OBVIOUS
  <2>3. m - 1 \in U
    BY <2>1, <2>2
  <2> QED BY <1>3, <2>1, <2>2, <2>3
<1> QED BY <1>4

\* The journal's clock is no less than that of any event in it.
LEMMA LamportFacts ==
    ASSUME NEW E, \A e \in E : e.lamport \in Nat, NEW b \in Nat, \A e \in E : e.lamport <= b
    PROVE  Lamport(E) \in Nat /\ \A e \in E : e.lamport <= Lamport(E)
<1> DEFINE L == {0} \cup {e.lamport : e \in E}
<1>1. L \in SUBSET Nat /\ L # {} /\ \A l \in L : l <= b
  OBVIOUS
<1>2. \E m \in L : \A l \in L : l <= m
  <2> HIDE DEF L
  <2> QED BY <1>1, LargestExists
<1>3. PICK m \in L : \A l \in L : m >= l
  BY <1>1, <1>2
<1>4. Max(L) \in L /\ \A l \in L : Max(L) >= l
  <2> HIDE DEF L
  <2> QED BY <1>3 DEF Max
<1>5. Lamport(E) = Max(L)
  BY DEF Lamport
<1> QED BY <1>1, <1>4, <1>5

LEMMA EventFacts ==
    ASSUME LedgerOK, NEW n \in Members, NEW e \in events[n]
    PROVE  e \in MemoryEvents /\ e.author \in Members /\ e.lamport \in Nat /\ e.mem \in Memories
<1>1. e \in MemoryEvents
  BY DEF LedgerOK
<1> QED BY <1>1 DEF MemoryEvents

LEMMA ClockFacts ==
    ASSUME LedgerOK, NEW n \in Members
    PROVE  Lamport(events[n]) \in Nat /\ \A e \in events[n] : e.lamport <= Lamport(events[n])
<1>1. PICK b \in Nat : \A e \in events[n] : e.lamport <= b
  BY DEF LedgerOK
<1>2. \A e \in events[n] : e.lamport \in Nat
  BY EventFacts
<1> QED BY <1>1, <1>2, LamportFacts

\* What a pass writes about M has places of its own.
LEMMA OrderFacts ==
    ASSUME NEW M, IsFiniteSet(M), NEW o \in Orders(M)
    PROVE  /\ Cardinality(M) \in Nat
           /\ \A m \in M : o[m] \in 1 .. Cardinality(M)
           /\ \A m, k \in M : o[m] = o[k] => m = k
BY FS_CardinalityType DEF Orders, Injection, IsInjective

-----------------------------------------------------------------------------
(* The quarantine. *)

LEMMA UpsertFacts ==
    ASSUME NEW S, NEW C, IsFiniteSet(S), IsFiniteSet(C), NEW T \in upsert(S, C)
    PROVE  T \subseteq S \cup C /\ IsFiniteSet(T) /\ Cardinality(T) <= MaxItems
<1>1. IsFiniteSet(S \cup C)
  BY FS_Union
<1>2. T \subseteq S \cup C /\ IsFiniteSet(T) /\ Cardinality(S \cup C) \in Nat /\ Cardinality(T) \in Nat
  BY <1>1, FS_Subset, FS_CardinalityType DEF upsert, _make_room
<1>3. Cardinality(T) <= MaxItems
  BY <1>2, MemoryConstants DEF upsert, _make_room
<1> QED BY <1>2, <1>3

\* Cautions come from runs: there are finitely many, and none is a credential.
LEMMA CautionFacts ==
    ASSUME NEW R, IsFiniteSet(R)
    PROVE  IsFiniteSet(extract_cautions(Tallies(R))) /\ extract_cautions(Tallies(R)) \subseteq Memories \ Secrets
<1> DEFINE C == extract_cautions(Tallies(R))
<1>1. \A k \in Keys : CautionOf(k) \in Memories /\ Caution(CautionOf(k))
  BY DEF Keys, CautionOf
<1>2. \A k \in Keys : Tallies(R)[k].fail # {} => \E r \in R : r.key = k
  BY DEF Tallies, tally
<1>3. C \subseteq {CautionOf(r.key) : r \in R}
  BY <1>2 DEF extract_cautions
<1>4. IsFiniteSet({CautionOf(r.key) : r \in R})
  <2> DEFINE f == [r \in R |-> CautionOf(r.key)]
  <2>1. f \in Surjection(R, {CautionOf(r.key) : r \in R})
    BY DEF Surjection
  <2> QED BY <2>1, FS_Surjection
<1>5. IsFiniteSet(C)
  BY <1>3, <1>4, FS_Subset
<1>6. C \subseteq Memories \ Secrets
  BY <1>1, MemoryConstants DEF extract_cautions, Caution
<1> QED BY <1>5, <1>6

\* More runs, more of each kind.
LEMMA TallyGrows ==
    ASSUME NEW R, NEW Q, R \subseteq Q, IsFiniteSet(Q), NEW k, NEW O
    PROVE  /\ tally(R, k, O) \subseteq tally(Q, k, O)
           /\ Cardinality(tally(R, k, O)) \in Nat /\ Cardinality(tally(Q, k, O)) \in Nat
           /\ Cardinality(tally(R, k, O)) <= Cardinality(tally(Q, k, O))
<1>1. tally(R, k, O) \subseteq tally(Q, k, O) /\ tally(Q, k, O) \subseteq Q
  BY DEF tally
<1> QED BY <1>1, FS_Subset, FS_CardinalityType

-----------------------------------------------------------------------------
(* The journal. *)

\* n writes the events F, later than all it has.
Writes(n, F) ==
    /\ events' = [events EXCEPT ![n] = @ \cup F]
    /\ IsFiniteSet(F)
    /\ \E b \in Nat : \A e \in F : e.lamport <= b
    /\ \A e \in F : e.author = n /\ e.lamport > Lamport(events[n])
    /\ \A e, f \in F : e.lamport = f.lamport => e = f

LEMMA WriteKeeps ==
    ASSUME LedgerOK, NEW n \in Members, NEW F, Writes(n, F), F \subseteq MemoryEvents',
           signed \subseteq signed'
    PROVE  LedgerOK'
<1>1. MemoryEvents \subseteq MemoryEvents'
  BY DEF MemoryEvents, Confirmations
<1>2. events' \in [Members -> SUBSET MemoryEvents']
  <2>1. events \in [Members -> SUBSET MemoryEvents]
    BY DEF LedgerOK
  <2> HIDE DEF MemoryEvents
  <2> QED BY <1>1, <2>1 DEF Writes
<1>3. /\ events'[n] = events[n] \cup F
      /\ \A k \in Members \ {n} : events'[k] = events[k]
      /\ \A k \in Members : events[k] \subseteq events'[k]
  BY DEF Writes, LedgerOK
<1>4. Lamport(events[n]) \in Nat /\ \A e \in events[n] : e.lamport <= Lamport(events[n])
  BY ClockFacts
<1>5. ASSUME NEW k \in Members
      PROVE  /\ IsFiniteSet(events'[k])
             /\ \E b \in Nat : \A e \in events'[k] : e.lamport <= b
  <2>1. IsFiniteSet(events[k]) /\ \E b \in Nat : \A e \in events[k] : e.lamport <= b
    BY DEF LedgerOK
  <2>2. CASE k = n
    <3>1. PICK b \in Nat : \A e \in F : e.lamport <= b
      BY DEF Writes
    <3>2. \A e \in F : e.lamport \in Nat
      BY DEF MemoryEvents
    <3>3. \A e \in events[n] : e.lamport \in Nat
      BY EventFacts
    <3>4. Lamport(events[n]) + b \in Nat /\ \A e \in events'[n] : e.lamport <= Lamport(events[n]) + b
      BY <1>3, <1>4, <3>1, <3>2, <3>3
    <3>5. IsFiniteSet(events[n]) /\ IsFiniteSet(F)
      BY <2>1, <2>2 DEF Writes
    <3>6. IsFiniteSet(events[n] \cup F)
      BY <3>5, FS_Union
    <3> QED BY <1>3, <2>2, <3>4, <3>6
  <2> QED BY <1>3, <2>1, <2>2
<1>6. ASSUME NEW k \in Members, NEW e \in events'[k]
      PROVE  e \in events'[e.author]
  <2>1. CASE e \in events[k]
    BY <1>3, <2>1, EventFacts DEF LedgerOK
  <2>2. CASE e \in F /\ k = n
    BY <1>3, <2>2 DEF Writes
  <2> QED BY <1>3, <2>1, <2>2
<1>7. ASSUME NEW k \in Members, NEW e \in events'[k], NEW f \in events'[k],
             e.author = f.author, e.lamport = f.lamport
      PROVE  e = f
  <2>1. CASE e \in events[k] /\ f \in events[k]
    BY <1>7, <2>1 DEF LedgerOK
  <2>2. CASE k = n /\ e \in F /\ f \in F
    BY <1>7, <2>2 DEF Writes
  <2>3. ASSUME NEW g \in events[n], NEW h \in F PROVE g.lamport # h.lamport
    <3>1. g.lamport \in Nat /\ g.lamport <= Lamport(events[n])
      BY <1>4, EventFacts
    <3>2. h.lamport \in Nat /\ h.lamport > Lamport(events[n])
      BY DEF Writes, MemoryEvents
    <3> QED BY <1>4, <3>1, <3>2
  <2> QED BY <1>3, <1>7, <2>1, <2>2, <2>3
<1> QED BY <1>2, <1>5, <1>6, <1>7 DEF LedgerOK

\* n reads what m holds.
LEMMA SyncKeeps ==
    ASSUME MemoryInv, NEW n \in Members, NEW m \in Members, sync(n, m)
    PROVE  LedgerOK' /\ EpisodesOK' /\ Earned' /\ PassesOK'
<1> DEFINE from(S) == {e \in S : e.author \notin distrusted}
<1>1. /\ events' = [events EXCEPT ![n] = @ \cup from(events[m])]
      /\ episodes' = [episodes EXCEPT ![n] = @ \cup from(episodes[m])]
      /\ UNCHANGED <<store, pass, distrusted, signed>>
  BY DEF sync, appVars
<1>2. /\ events'[n] = events[n] \cup from(events[m])
      /\ \A k \in Members \ {n} : events'[k] = events[k]
      /\ \A k \in Members : events[k] \subseteq events'[k]
  BY <1>1 DEF MemoryInv, LedgerOK
<1>3. /\ episodes'[n] = episodes[n] \cup from(episodes[m])
      /\ episodes' = [k \in Members |-> episodes'[k]]
      /\ \A k \in Members \ {n} : episodes'[k] = episodes[k]
      /\ \A k \in Members : episodes[k] \subseteq episodes'[k]
  BY <1>1 DEF MemoryInv, EpisodesOK
<1>4. \A k \in Members : IsFiniteSet(episodes'[k])
  <2>1. IsFiniteSet(from(episodes[m])) /\ IsFiniteSet(episodes[n])
    BY FS_Subset DEF MemoryInv, EpisodesOK
  <2>2. IsFiniteSet(episodes[n] \cup from(episodes[m]))
    <3> HIDE DEF from
    <3> QED BY <2>1, FS_Union
  <2> QED BY <1>3, <2>2 DEF MemoryInv, EpisodesOK
<1>5. events' \in [Members -> SUBSET MemoryEvents']
  <2>1. events \in [Members -> SUBSET MemoryEvents] /\ MemoryEvents' = MemoryEvents
    BY <1>1 DEF MemoryInv, LedgerOK, MemoryEvents, Confirmations
  <2> HIDE DEF MemoryEvents
  <2> QED BY <1>1, <2>1
<1>6. \A k \in Members : \A e \in events'[k] : \E i \in Members : e \in events[i] /\ (k # n => i = k)
  BY <1>2
<1>7. \A k, i \in Members : \A e \in events[k], f \in events[i] :
          e.author = f.author /\ e.lamport = f.lamport => e = f
  <2>1. \A k \in Members : \A e \in events[k] : e.author \in Members /\ e \in events[e.author]
    BY EventFacts DEF MemoryInv, LedgerOK
  <2> QED BY <2>1 DEF MemoryInv, LedgerOK
<1>8. ASSUME NEW k \in Members
      PROVE  /\ IsFiniteSet(events'[k])
             /\ \E b \in Nat : \A e \in events'[k] : e.lamport <= b
  <2>1. \A i \in Members : /\ IsFiniteSet(events[i])
                            /\ \E b \in Nat : \A e \in events[i] : e.lamport <= b
    BY DEF MemoryInv, LedgerOK
  <2>2. CASE k = n
    <3>1. PICK b \in Nat : \A e \in events[n] : e.lamport <= b
      BY <2>1
    <3>2. PICK c \in Nat : \A e \in events[m] : e.lamport <= c
      BY <2>1
    <3>3. \A i \in Members : \A e \in events[i] : e.lamport \in Nat
      BY EventFacts DEF MemoryInv
    <3>4. b + c \in Nat /\ \A e \in events'[n] : e.lamport <= b + c
      BY <1>2, <3>1, <3>2, <3>3
    <3>5. IsFiniteSet(events'[n])
      BY <1>2, <2>1, FS_Union, FS_Subset
    <3> QED BY <2>2, <3>4, <3>5
  <2> QED BY <1>2, <2>1, <2>2
<1>9. LedgerOK'
  <2>1. \A k \in Members : \A e \in events'[k] : e \in events'[e.author]
    BY <1>2, <1>6, EventFacts DEF MemoryInv, LedgerOK
  <2>2. \A k \in Members : \A e, f \in events'[k] :
            e.author = f.author /\ e.lamport = f.lamport => e = f
    BY <1>6, <1>7
  <2> QED BY <1>5, <1>8, <2>1, <2>2 DEF LedgerOK
<1>10. Earned'
  <2> SUFFICES ASSUME NEW k \in Members, NEW e \in events'[k], e.basis = "evidence", e.author \in Honest
               PROVE  Cardinality(tally(episodes'[e.author], e.mem.key, FAILURE_OUTCOMES)) >= MinRuns
    BY DEF Earned
  <2>1. Cardinality(tally(episodes[e.author], e.mem.key, FAILURE_OUTCOMES)) >= MinRuns
    BY <1>6 DEF MemoryInv, Earned
  <2>2. e.author \in Members
    BY DEF Honest
  <2>3. episodes[e.author] \subseteq episodes'[e.author] /\ IsFiniteSet(episodes'[e.author])
    BY <1>3, <1>4, <2>2
  <2> DEFINE a == Cardinality(tally(episodes[e.author], e.mem.key, FAILURE_OUTCOMES))
             c == Cardinality(tally(episodes'[e.author], e.mem.key, FAILURE_OUTCOMES))
  <2>4. a \in Nat /\ c \in Nat /\ a <= c
    BY <2>3, TallyGrows
  <2>5. a >= MinRuns
    BY <2>1
  <2> HIDE DEF a, c
  <2>6. c >= MinRuns
    BY <2>4, <2>5, MemoryConstants
  <2> QED BY <2>6 DEF c
<1>11. PassesOK'
  <2>1. \A k \in Members, j \in Keys :
            tally(episodes[k], j, FAILURE_OUTCOMES) \subseteq tally(episodes'[k], j, FAILURE_OUTCOMES)
    BY <1>3 DEF tally
  <2> QED BY <1>1, <1>2, <2>1 DEF MemoryInv, PassesOK
<1> QED BY <1>3, <1>4, <1>9, <1>10, <1>11 DEF EpisodesOK

\* The others' cautions and passes are as they were.
LEMMA WriteEarns ==
    ASSUME MemoryInv, NEW n \in Members, NEW F, Writes(n, F), UNCHANGED episodes,
           \A e \in F : e.basis = "evidence" /\ n \in Honest =>
               Cardinality(tally(episodes[n], e.mem.key, FAILURE_OUTCOMES)) >= MinRuns
    PROVE  Earned'
<1>1. /\ events'[n] = events[n] \cup F
      /\ \A k \in Members \ {n} : events'[k] = events[k]
      /\ \A e \in F : e.author = n
  BY DEF MemoryInv, LedgerOK, Writes
<1> SUFFICES ASSUME NEW k \in Members, NEW e \in events'[k], e.basis = "evidence", e.author \in Honest
             PROVE  Cardinality(tally(episodes[e.author], e.mem.key, FAILURE_OUTCOMES)) >= MinRuns
  BY DEF Earned
<1>2. CASE e \in events[k]
  BY <1>2 DEF MemoryInv, Earned
<1>3. CASE e \in F
  BY <1>1, <1>3
<1> QED BY <1>1, <1>2, <1>3

LEMMA WritePasses ==
    ASSUME MemoryInv, NEW n \in Members, NEW F, Writes(n, F), UNCHANGED <<episodes, pass>>
    PROVE  PassesOK'
<1>1. \A k \in Members : events[k] \subseteq events'[k]
  BY DEF MemoryInv, LedgerOK, Writes
<1> QED BY <1>1 DEF MemoryInv, PassesOK

\* One event.
LEMMA AppendWrites ==
    ASSUME LedgerOK, NEW n \in Members, NEW e, e.author = n, e.lamport = Lamport(events[n]) + 1,
           events' = [events EXCEPT ![n] = @ \cup {e}]
    PROVE  Writes(n, {e})
<1>1. PICK t \in Nat : t = Lamport(events[n])
  BY ClockFacts
<1>2. t + 1 \in Nat /\ \A f \in {e} : f.lamport <= t + 1
  BY <1>1
<1>3. \A f \in {e} : f.author = n /\ f.lamport > Lamport(events[n])
  BY <1>1
<1>4. IsFiniteSet({e})
  BY FS_Singleton
<1>5. \E b \in Nat : \A f \in {e} : f.lamport <= b
  BY <1>2
<1>6. \A f, g \in {e} : f.lamport = g.lamport => f = g
  OBVIOUS
<1> QED BY <1>3, <1>4, <1>5, <1>6 DEF Writes

\* An event that promotes nothing on evidence.
LEMMA AppendKeeps ==
    ASSUME MemoryInv, NEW n \in Members, NEW op \in {"assert", "retract"}, NEW m \in Memories,
           NEW basis \in {"evidence", "operator", "none"}, NEW evidence \in BOOLEAN,
           NEW conf \in Confirmations, append(n, op, m, basis, evidence, conf),
           basis = "evidence" => n \notin Honest, UNCHANGED <<episodes, pass, signed>>
    PROVE  LedgerOK' /\ Earned' /\ PassesOK'
<1>1. PICK t \in Nat : t = Lamport(events[n])
  BY ClockFacts DEF MemoryInv
<1> DEFINE e == Event(n, t + 1, op, m, basis, evidence, conf)
<1>2. e \in MemoryEvents'
  <2>1. t + 1 \in Nat /\ conf \in Confirmations'
    BY DEF Confirmations
  <2> QED BY <2>1 DEF Event, MemoryEvents
<1>3. e.basis = basis /\ e.author = n /\ e.lamport = t + 1
  BY DEF Event
<1>4. events' = [events EXCEPT ![n] = @ \cup {e}]
  BY <1>1 DEF append, MemoryInv, LedgerOK
<1> HIDE DEF e
<1>5. Writes(n, {e})
  <2>1. LedgerOK /\ e.lamport = Lamport(events[n]) + 1
    BY <1>1, <1>3 DEF MemoryInv
  <2> QED BY <1>3, <1>4, <2>1, AppendWrites
<1>6. LedgerOK'
  BY <1>2, <1>5, WriteKeeps DEF MemoryInv
<1>7. Earned'
  <2>1. \A f \in {e} : f.basis = "evidence" /\ n \in Honest =>
            Cardinality(tally(episodes[n], f.mem.key, FAILURE_OUTCOMES)) >= MinRuns
    BY <1>3
  <2> QED BY <1>5, <2>1, WriteEarns
<1>8. PassesOK'
  BY <1>5, WritePasses
<1> QED BY <1>6, <1>7, <1>8

-----------------------------------------------------------------------------
(* The steps. *)

\* Steps that leave the journal, the runs and the passes alone.
LEMMA JournalQuiet ==
    ASSUME MemoryInv, UNCHANGED <<episodes, events, pass, signed>>
    PROVE  EpisodesOK' /\ LedgerOK' /\ Earned' /\ PassesOK'
<1>1. MemoryEvents' = MemoryEvents
  BY DEF MemoryEvents, Confirmations
<1>2. LedgerOK'
  BY <1>1 DEF MemoryInv, LedgerOK
<1> QED BY <1>2 DEF MemoryInv, EpisodesOK, Earned, PassesOK

LEMMA NoteKeeps ==
    ASSUME MemoryInv, NEW n \in Members, NEW m \in Memories, note(n, m)
    PROVE  MemoryInv'
<1>1. StoresOK'
  <2>1. CASE validate(m)
    <3>1. PICK S \in upsert(store[n], {m}) : store' = [store EXCEPT ![n] = S]
      BY <2>1 DEF note
    <3>2. IsFiniteSet(store[n]) /\ IsFiniteSet({m}) /\ store[n] \subseteq Memories \ Secrets
      BY FS_Singleton DEF MemoryInv, StoresOK
    <3>3. S \subseteq Memories \ Secrets /\ IsFiniteSet(S) /\ Cardinality(S) <= MaxItems
      BY <2>1, <3>2, UpsertFacts DEF validate
    <3> QED BY <3>1, <3>3 DEF MemoryInv, StoresOK
  <2>2. CASE ~validate(m)
    BY <2>2 DEF note, MemoryInv, StoresOK
  <2> QED BY <2>1, <2>2
<1>2. EpisodesOK' /\ LedgerOK' /\ Earned' /\ PassesOK'
  BY JournalQuiet DEF note, appVars
<1> QED BY <1>1, <1>2 DEF MemoryInv, AppOK, note, appVars

LEMMA RunKeeps ==
    ASSUME MemoryInv, NEW n \in Members, NEW kind, run_ends(n, kind)
    PROVE  MemoryInv'
<1> DEFINE run == [id |-> Cardinality({r \in episodes[n] : r.author = n}), author |-> n,
                   key |-> kind.key, outcome |-> kind.outcome, usable |-> kind.usable]
           R == episodes[n] \cup {run}
<1>1. /\ episodes' = [episodes EXCEPT ![n] = R]
      /\ \E S \in upsert(store[n], extract_cautions(Tallies(R))) : store' = [store EXCEPT ![n] = S]
      /\ pass' = [pass EXCEPT ![n] = [tallies |-> Tallies(R), view |-> memory_view(n)]]
      /\ UNCHANGED <<events, distrusted, appVars>>
  BY DEF run_ends, MemoryInv, EpisodesOK
<1>2. IsFiniteSet(R) /\ episodes[n] \subseteq R
  BY FS_AddElement DEF MemoryInv, EpisodesOK
<1> HIDE DEF R
<1>3. StoresOK'
  <2>1. PICK S \in upsert(store[n], extract_cautions(Tallies(R))) : store' = [store EXCEPT ![n] = S]
    BY <1>1
  <2>2. IsFiniteSet(store[n]) /\ store[n] \subseteq Memories \ Secrets
    BY DEF MemoryInv, StoresOK
  <2>3. S \subseteq Memories \ Secrets /\ IsFiniteSet(S) /\ Cardinality(S) <= MaxItems
    BY <1>2, <2>2, UpsertFacts, CautionFacts
  <2> QED BY <2>1, <2>3 DEF MemoryInv, StoresOK
<1>4. /\ \A k \in Members : episodes[k] \subseteq episodes'[k] /\ IsFiniteSet(episodes'[k])
      /\ episodes' = [k \in Members |-> episodes'[k]] /\ episodes'[n] = R
  BY <1>1, <1>2 DEF MemoryInv, EpisodesOK
<1>5. LedgerOK'
  <2>1. MemoryEvents' = MemoryEvents
    BY <1>1 DEF MemoryEvents, Confirmations, appVars
  <2> QED BY <1>1, <2>1 DEF MemoryInv, LedgerOK
<1>6. Earned'
  <2> SUFFICES ASSUME NEW k \in Members, NEW e \in events'[k], e.basis = "evidence", e.author \in Honest
               PROVE  Cardinality(tally(episodes'[e.author], e.mem.key, FAILURE_OUTCOMES)) >= MinRuns
    BY DEF Earned
  <2>1. Cardinality(tally(episodes[e.author], e.mem.key, FAILURE_OUTCOMES)) >= MinRuns
    BY <1>1 DEF MemoryInv, Earned
  <2>2. e.author \in Members
    BY DEF Honest
  <2>3. episodes[e.author] \subseteq episodes'[e.author] /\ IsFiniteSet(episodes'[e.author])
    BY <1>4, <2>2
  <2> DEFINE a == Cardinality(tally(episodes[e.author], e.mem.key, FAILURE_OUTCOMES))
             c == Cardinality(tally(episodes'[e.author], e.mem.key, FAILURE_OUTCOMES))
  <2>4. a \in Nat /\ c \in Nat /\ a <= c
    BY <2>3, TallyGrows
  <2>5. a >= MinRuns
    BY <2>1
  <2> HIDE DEF a, c
  <2>6. c >= MinRuns
    BY <2>4, <2>5, MemoryConstants
  <2> QED BY <2>6 DEF c
<1>7. PassesOK'
  <2>1. \A j \in Keys, k \in Members :
            tally(episodes[k], j, FAILURE_OUTCOMES) \subseteq tally(episodes'[k], j, FAILURE_OUTCOMES)
    BY <1>4 DEF tally
  <2>2. \A j \in Keys : Tallies(R)[j].fail = tally(episodes'[n], j, FAILURE_OUTCOMES)
    BY <1>4 DEF Tallies
  <2>3. memory_view(n) \subseteq events[n]
    BY DEF memory_view, build_memory
  <2>4. /\ pass' = [k \in Members |-> pass'[k]]
        /\ pass'[n].tallies = Tallies(R) /\ pass'[n].view = memory_view(n)
        /\ \A k \in Members \ {n} : pass'[k] = pass[k]
    BY <1>1 DEF MemoryInv, PassesOK
  <2> QED BY <1>1, <2>1, <2>2, <2>3, <2>4 DEF MemoryInv, PassesOK
<1> QED BY <1>1, <1>3, <1>4, <1>5, <1>6, <1>7 DEF MemoryInv, EpisodesOK, AppOK, appVars

\* What a pass writes: assertions that are earned, and a retraction of all it
\* takes back.
LEMMA PassWrites ==
    ASSUME MemoryInv, NEW n \in Honest, consolidate(n)
    PROVE  \E F : /\ Writes(n, F) /\ F \subseteq MemoryEvents'
                  /\ \A e \in F : e.basis = "evidence" =>
                         Cardinality(tally(episodes[n], e.mem.key, FAILURE_OUTCOMES)) >= MinRuns
                  /\ \A m \in TakenBack(pass[n]) : \E f \in F : f.op = "retract" /\ f.mem = m
<1> DEFINE P == Promoted(pass[n], store[n])
           T == TakenBack(pass[n])
           t == Lamport(events[n])
<1>1. n \in Members /\ pass[n] # Nothing
  BY DEF Honest, consolidate
<1>2. t \in Nat
  BY <1>1, ClockFacts DEF MemoryInv
<1>3. IsFiniteSet(P) /\ P \subseteq Memories
  <2>1. P \subseteq store[n]
    BY DEF Promoted, Candidates
  <2>2. IsFiniteSet(store[n]) /\ store[n] \subseteq Memories
    BY <1>1 DEF MemoryInv, StoresOK
  <2> QED BY <2>1, <2>2, FS_Subset
<1>4. IsFiniteSet(T) /\ T \subseteq Memories
  <2> DEFINE V == {r \in pass[n].view : /\ Caution(r.mem) /\ r.basis = "evidence"
                                        /\ Contradicted(pass[n].tallies[r.mem.key])}
             f == [r \in V |-> r.mem]
  <2>1. V \subseteq events[n] /\ IsFiniteSet(events[n])
    BY <1>1 DEF MemoryInv, PassesOK, LedgerOK
  <2>2. T = {r.mem : r \in V}
    BY DEF TakenBack
  <2>3. IsFiniteSet(V)
    BY <2>1, FS_Subset
  <2>4. f \in Surjection(V, T)
    BY <2>2 DEF Surjection
  <2>5. IsFiniteSet(T)
    <3> HIDE DEF f, V, T
    <3> QED BY <2>3, <2>4, FS_Surjection
  <2>6. \A r \in V : r.mem \in Memories
    BY <1>1, <2>1, EventFacts DEF MemoryInv
  <2> QED BY <2>2, <2>5, <2>6
<1>5. ASSUME NEW m \in P
      PROVE  Cardinality(tally(episodes[n], m.key, FAILURE_OUTCOMES)) >= MinRuns
  <2>1. m.key \in Keys /\ Cardinality(pass[n].tallies[m.key].fail) >= MinRuns
    BY <1>3 DEF Promoted, Candidates, Promotes, Keys
  <2>2. pass[n].tallies[m.key].fail \subseteq tally(episodes[n], m.key, FAILURE_OUTCOMES)
    BY <1>1, <2>1 DEF MemoryInv, PassesOK
  <2>3. IsFiniteSet(tally(episodes[n], m.key, FAILURE_OUTCOMES))
    <3>1. IsFiniteSet(episodes[n]) /\ tally(episodes[n], m.key, FAILURE_OUTCOMES) \subseteq episodes[n]
      BY <1>1 DEF MemoryInv, EpisodesOK, tally
    <3> QED BY <3>1, FS_Subset
  <2> DEFINE a == pass[n].tallies[m.key].fail
             c == tally(episodes[n], m.key, FAILURE_OUTCOMES)
  <2>4. Cardinality(a) <= Cardinality(c) /\ Cardinality(a) \in Nat /\ Cardinality(c) \in Nat
    <3> HIDE DEF a, c
    <3>1. a \subseteq c /\ IsFiniteSet(c)
      BY <2>2, <2>3 DEF a, c
    <3> QED BY <3>1, FS_Subset, FS_CardinalityType
  <2> QED BY <2>1, <2>4, MemoryConstants
<1>6. PICK o \in Orders(P), u \in Orders(T) :
          events' = [events EXCEPT ![n] = @
              \cup {Event(n, t + o[m], "assert", m, "evidence", TRUE, Nothing) : m \in P}
              \cup {Event(n, t + Cardinality(P) + u[m], "retract", m, "none", FALSE, Nothing) : m \in T}]
  BY DEF consolidate
<1> HIDE DEF P, T, t
<1>7. PICK c \in Nat : c = Cardinality(P)
  BY <1>3, FS_CardinalityType
<1>8. PICK d \in Nat : d = Cardinality(T)
  BY <1>4, FS_CardinalityType
<1>9. /\ \A m \in P : o[m] \in 1 .. c
      /\ \A m, k \in P : o[m] = o[k] => m = k
  BY <1>3, <1>7, OrderFacts
<1>10. /\ \A m \in T : u[m] \in 1 .. d
       /\ \A m, k \in T : u[m] = u[k] => m = k
  BY <1>4, <1>8, OrderFacts
<1> DEFINE a(m) == Event(n, t + o[m], "assert", m, "evidence", TRUE, Nothing)
           r(m) == Event(n, t + c + u[m], "retract", m, "none", FALSE, Nothing)
           A == {a(m) : m \in P}
           B == {r(m) : m \in T}
<1>11. events' = [events EXCEPT ![n] = @ \cup (A \cup B)]
  <2>1. events' = [events EXCEPT ![n] = @ \cup A \cup B]
    BY <1>6, <1>7
  <2> HIDE DEF A, B
  <2> QED BY <2>1
<1>12. \A m \in P : /\ a(m).author = n /\ a(m).lamport = t + o[m] /\ a(m).mem = m
                     /\ a(m).basis = "evidence" /\ t + o[m] \in Nat
                     /\ t < t + o[m] /\ t + o[m] <= t + c
  BY <1>2, <1>9 DEF Event
<1>13. \A m \in T : /\ r(m).author = n /\ r(m).lamport = t + c + u[m] /\ r(m).mem = m
                     /\ r(m).basis = "none" /\ r(m).op = "retract" /\ t + c + u[m] \in Nat
                     /\ t + c < t + c + u[m] /\ t + c + u[m] <= t + c + d
  BY <1>2, <1>10 DEF Event
<1>14. A \cup B \subseteq MemoryEvents'
  <2>1. \A m \in P : a(m) \in MemoryEvents'
    BY <1>1, <1>3, <1>12 DEF Event, MemoryEvents, Confirmations
  <2>2. \A m \in T : r(m) \in MemoryEvents'
    BY <1>1, <1>4, <1>13 DEF Event, MemoryEvents, Confirmations
  <2> QED BY <2>1, <2>2
<1>15. IsFiniteSet(A \cup B)
  <2>1. IsFiniteSet(A)
    <3> DEFINE g == [m \in P |-> a(m)]
    <3>1. g \in Surjection(P, A)
      BY DEF Surjection
    <3> HIDE DEF g, A
    <3> QED BY <1>3, <3>1, FS_Surjection
  <2>2. IsFiniteSet(B)
    <3> DEFINE g == [m \in T |-> r(m)]
    <3>1. g \in Surjection(T, B)
      BY DEF Surjection
    <3> HIDE DEF g, B
    <3> QED BY <1>4, <3>1, FS_Surjection
  <2> HIDE DEF A, B
  <2> QED BY <2>1, <2>2, FS_Union
<1> HIDE DEF a, r
<1>16. \A e \in A \cup B : e.author = n /\ e.lamport > t /\ e.lamport <= t + c + d
  BY <1>2, <1>12, <1>13
<1>17. \A e, f \in A \cup B : e.lamport = f.lamport => e = f
  <2>1. \A e, f \in A : e.lamport = f.lamport => e = f
    <3> SUFFICES ASSUME NEW m \in P, NEW k \in P, a(m).lamport = a(k).lamport PROVE m = k
      OBVIOUS
    <3>1. t + o[m] = t + o[k]
      BY <1>12
    <3> QED BY <1>2, <1>9, <3>1
  <2>2. \A e, f \in B : e.lamport = f.lamport => e = f
    <3> SUFFICES ASSUME NEW m \in T, NEW k \in T, r(m).lamport = r(k).lamport PROVE m = k
      OBVIOUS
    <3>1. t + c + u[m] = t + c + u[k]
      BY <1>13
    <3> QED BY <1>2, <1>10, <3>1
  <2>3. \A e \in A, f \in B : e.lamport # f.lamport
    <3> SUFFICES ASSUME NEW m \in P, NEW k \in T PROVE a(m).lamport # r(k).lamport
      OBVIOUS
    <3> QED BY <1>2, <1>12, <1>13
  <2> QED BY <2>1, <2>2, <2>3
<1>18. Writes(n, A \cup B)
  <2>1. \E b \in Nat : \A e \in A \cup B : e.lamport <= b
    <3>1. t + c + d \in Nat
      BY <1>2
    <3> QED BY <1>16, <3>1
  <2> HIDE DEF A, B
  <2> QED BY <1>11, <1>15, <1>16, <1>17, <2>1 DEF Writes, t
<1>19. \A e \in A \cup B : e.basis = "evidence" =>
           Cardinality(tally(episodes[n], e.mem.key, FAILURE_OUTCOMES)) >= MinRuns
  BY <1>5, <1>12, <1>13
<1>20. \A m \in T : \E f \in A \cup B : f.op = "retract" /\ f.mem = m
  BY <1>13
<1> QED BY <1>14, <1>18, <1>19, <1>20 DEF T

LEMMA PassKeeps ==
    ASSUME MemoryInv, NEW n \in Honest, consolidate(n)
    PROVE  MemoryInv'
<1>1. n \in Members /\ UNCHANGED <<episodes, distrusted, memories, requests, toNode, signed>>
  BY DEF Honest, consolidate
<1>2. PICK F : /\ Writes(n, F) /\ F \subseteq MemoryEvents'
               /\ \A e \in F : e.basis = "evidence" =>
                      Cardinality(tally(episodes[n], e.mem.key, FAILURE_OUTCOMES)) >= MinRuns
  BY PassWrites
<1>3. LedgerOK'
  BY <1>1, <1>2, WriteKeeps DEF MemoryInv
<1>4. Earned'
  BY <1>1, <1>2, WriteEarns
<1>5. PassesOK'
  <2>1. \A k \in Members : events[k] \subseteq events'[k]
    BY <1>2 DEF MemoryInv, LedgerOK, Writes
  <2>2. pass' = [pass EXCEPT ![n] = Nothing]
    BY DEF consolidate
  <2> QED BY <1>1, <2>1, <2>2 DEF MemoryInv, PassesOK
<1>6. StoresOK'
  <2>1. store' = [store EXCEPT ![n] = Held(pass[n], store[n])]
    BY DEF consolidate, MemoryInv, StoresOK
  <2>2. IsFiniteSet(store[n]) /\ store[n] \subseteq Memories \ Secrets /\ Cardinality(store[n]) <= MaxItems
    BY <1>1 DEF MemoryInv, StoresOK
  <2>3. Held(pass[n], store[n]) \subseteq store[n]
    BY DEF Held
  <2> DEFINE H == Held(pass[n], store[n])
  <2>4. IsFiniteSet(H) /\ Cardinality(H) <= MaxItems /\ H \subseteq Memories \ Secrets
    <3> HIDE DEF H
    <3>1. H \subseteq store[n]
      BY <2>3 DEF H
    <3>2. IsFiniteSet(H) /\ Cardinality(H) <= Cardinality(store[n])
      BY <2>2, <3>1, FS_Subset
    <3>3. Cardinality(H) \in Nat /\ Cardinality(store[n]) \in Nat
      BY <2>2, <3>2, FS_CardinalityType
    <3> QED BY <2>2, <3>1, <3>2, <3>3, MemoryConstants
  <2> HIDE DEF H
  <2>5. store' = [store EXCEPT ![n] = H]
    BY <2>1 DEF H
  <2> QED BY <2>4, <2>5 DEF MemoryInv, StoresOK
<1>7. AppOK'
  <2>1. \A m \in store'[n] : m \in Memories \ Secrets
    BY <1>1, <1>6 DEF StoresOK
  <2>2. _offer_memories(n, store'[n])
    BY DEF consolidate
  <2>3. offered' \subseteq Memories \ Secrets
    BY <2>1, <2>2 DEF _offer_memories, MemoryInv, AppOK
  <2>4. \A p \in toApp' : p.kind = "offer" => p.mem \in Memories \ Secrets
    BY <2>1, <2>2 DEF _offer_memories, MemoryInv, AppOK
  <2> QED BY <1>1, <2>3, <2>4 DEF MemoryInv, AppOK
<1>8. EpisodesOK'
  BY <1>1 DEF MemoryInv, EpisodesOK
<1> QED BY <1>3, <1>4, <1>5, <1>6, <1>7, <1>8 DEF MemoryInv

\* A request of the operator reaches the node.
LEMMA RequestKeeps == ASSUME MemoryInv, on_request PROVE MemoryInv'
<1>1. PICK p \in toNode :
          /\ toNode' = toNode \ {p}
          /\ (p.op = "confirm_memory" /\ on_confirm(p)) \/ (p.op = "retract_memory" /\ on_retract(p))
          /\ UNCHANGED <<episodes, pass, distrusted, offered, memories, requests, signed>>
  BY DEF on_request
<1>2. Home \in Members /\ p.mem \in Memories /\ p.conf \in Confirmations /\ Nothing \in Confirmations
  BY MemoryConstants DEF MemoryInv, AppOK, Confirmations
<1>3. \E ok : Reply(p, ok)
  BY <1>1 DEF on_confirm, on_retract
<1>4. AppOK'
  <2>1. \A q \in toApp' : q.kind = "offer" => q \in toApp
    BY <1>3 DEF Reply
  <2> QED BY <1>1, <2>1 DEF MemoryInv, AppOK
<1>5. /\ \/ append(Home, "assert", p.mem, "operator", FALSE, p.conf)
         \/ append(Home, "retract", p.mem, "none", FALSE, Nothing)
         \/ UNCHANGED events
      /\ store' = [store EXCEPT ![Home] = @ \ {p.mem}] \/ UNCHANGED store
  BY <1>1 DEF on_confirm, on_retract
<1>6. EpisodesOK' /\ LedgerOK' /\ Earned' /\ PassesOK'
  <2>1. EpisodesOK'
    BY <1>1 DEF MemoryInv, EpisodesOK
  <2>2. CASE append(Home, "assert", p.mem, "operator", FALSE, p.conf)
    BY <1>1, <1>2, <2>1, <2>2, AppendKeeps
  <2>3. CASE append(Home, "retract", p.mem, "none", FALSE, Nothing)
    BY <1>1, <1>2, <2>1, <2>3, AppendKeeps
  <2>4. CASE UNCHANGED events
    BY <1>1, <2>4, JournalQuiet
  <2> QED BY <1>5, <2>2, <2>3, <2>4
<1>7. StoresOK'
  <2>1. CASE store' = [store EXCEPT ![Home] = @ \ {p.mem}]
    <3> DEFINE H == store[Home] \ {p.mem}
    <3>1. IsFiniteSet(store[Home]) /\ store[Home] \subseteq Memories \ Secrets /\ Cardinality(store[Home]) <= MaxItems
      BY <1>2 DEF MemoryInv, StoresOK
    <3>2. H \subseteq store[Home] /\ store' = [store EXCEPT ![Home] = H]
      BY <2>1 DEF MemoryInv, StoresOK
    <3> HIDE DEF H
    <3>3. IsFiniteSet(H) /\ Cardinality(H) <= Cardinality(store[Home])
      BY <3>1, <3>2, FS_Subset
    <3>4. Cardinality(H) \in Nat /\ Cardinality(store[Home]) \in Nat
      BY <3>1, <3>3, FS_CardinalityType
    <3>5. Cardinality(H) <= MaxItems /\ H \subseteq Memories \ Secrets
      BY <3>1, <3>2, <3>3, <3>4, MemoryConstants
    <3> QED BY <3>2, <3>3, <3>5 DEF MemoryInv, StoresOK
  <2>2. CASE UNCHANGED store
    BY <2>2 DEF MemoryInv, StoresOK
  <2> QED BY <1>5, <2>1, <2>2
<1> QED BY <1>4, <1>6, <1>7 DEF MemoryInv

\* The App's own steps and those of the link.
LEMMA AppKeeps ==
    ASSUME MemoryInv,
           \/ on_offer \/ dismiss_memory \/ on_status \/ on_undeliverable \/ _accept
           \/ \E m \in Memories : retract_memory(m)
    PROVE  MemoryInv'
<1>1. UNCHANGED <<episodes, events, store, pass, distrusted, signed>>
  BY DEF on_offer, dismiss_memory, on_status, on_undeliverable, _accept, retract_memory, _request
<1>2. EpisodesOK' /\ LedgerOK' /\ Earned' /\ PassesOK'
  BY <1>1, JournalQuiet
<1>3. StoresOK'
  BY <1>1 DEF MemoryInv, StoresOK
<1>4. AppOK'
  <2> DEFINE Outcomes == {"sent", "accepted", "refused", "undelivered"}
  <2>1. requests \in Seq(Outcomes)
    BY DEF MemoryInv, AppOK
  <2>2. \A i, r : r \in Outcomes => [requests EXCEPT ![i] = r] \in Seq(Outcomes)
    <3> SUFFICES ASSUME NEW i, NEW r \in Outcomes PROVE [requests EXCEPT ![i] = r] \in Seq(Outcomes)
      OBVIOUS
    <3> HIDE DEF Outcomes
    <3>1. CASE i \in 1 .. Len(requests)
      BY <2>1, <3>1, ExceptSeq
    <3>2. CASE i \notin 1 .. Len(requests)
      <4>1. [requests EXCEPT ![i] = r] = requests
        BY <2>1, <3>2, LenProperties
      <4> QED BY <2>1, <4>1
    <3> QED BY <3>1, <3>2
  <2>3. CASE on_offer
    BY <1>1, <2>3 DEF on_offer, MemoryInv, AppOK
  <2>4. CASE dismiss_memory
    BY <1>1, <2>4 DEF dismiss_memory, MemoryInv, AppOK
  <2>5. CASE on_status
    <3>1. requests' \in Seq(Outcomes)
      BY <2>2, <2>5 DEF on_status
    <3> QED BY <1>1, <2>5, <3>1 DEF on_status, MemoryInv, AppOK
  <2>6. CASE on_undeliverable
    <3>1. requests' \in Seq(Outcomes)
      BY <2>1, <2>2, <2>6 DEF on_undeliverable
    <3> QED BY <1>1, <2>6, <3>1 DEF on_undeliverable, MemoryInv, AppOK
  <2>7. CASE _accept
    <3>1. store[Home] \subseteq Memories \ Secrets
      BY MemoryConstants DEF MemoryInv, StoresOK
    <3> QED BY <1>1, <2>7, <3>1 DEF _accept, MemoryInv, AppOK
  <2>8. ASSUME NEW m \in Memories, retract_memory(m) PROVE AppOK'
    <3>1. requests' \in Seq(Outcomes)
      BY <2>1, <2>8, AppendProperties DEF retract_memory, _request
    <3> QED BY <1>1, <2>8, <3>1 DEF retract_memory, _request, MemoryInv, AppOK
  <2> QED BY <2>3, <2>4, <2>5, <2>6, <2>7, <2>8
<1> QED BY <1>2, <1>3, <1>4 DEF MemoryInv

\* The operator signs.
LEMMA ConfirmKeeps == ASSUME MemoryInv, confirm_memory PROVE MemoryInv'
<1>1. PICK m \in memories :
          /\ memories' = memories \ {m}
          /\ signed' = signed \cup {[signer |-> App, mem |-> m, subject |-> Home]}
          /\ _request("confirm_memory", m, [signer |-> App, mem |-> m, subject |-> Home])
          /\ UNCHANGED <<episodes, events, store, pass, distrusted, offered, toApp, withdrawn>>
  BY DEF confirm_memory
<1>2. m \in Memories /\ Home \in Members
  BY MemoryConstants DEF MemoryInv, AppOK
<1>3. MemoryEvents \subseteq MemoryEvents'
  BY <1>1 DEF MemoryEvents, Confirmations
<1>4. LedgerOK'
  <2>1. events' \in [Members -> SUBSET MemoryEvents']
    <3>1. events \in [Members -> SUBSET MemoryEvents]
      BY DEF MemoryInv, LedgerOK
    <3> HIDE DEF MemoryEvents
    <3> QED BY <1>1, <1>3, <3>1
  <2> QED BY <1>1, <2>1 DEF MemoryInv, LedgerOK
<1>5. AppOK'
  <2>1. requests' \in Seq({"sent", "accepted", "refused", "undelivered"})
    BY <1>1, AppendProperties DEF _request, MemoryInv, AppOK
  <2>2. signed' \subseteq [signer : {App}, mem : Memories, subject : Members]
    BY <1>1, <1>2 DEF MemoryInv, AppOK
  <2>3. \A p \in toNode' : p.mem \in Memories /\ p.conf \in signed' \cup {Nothing}
    BY <1>1, <1>2 DEF _request, MemoryInv, AppOK
  <2> QED BY <1>1, <2>1, <2>2, <2>3 DEF MemoryInv, AppOK
<1> QED BY <1>1, <1>4, <1>5 DEF MemoryInv, StoresOK, EpisodesOK, Earned, PassesOK

\* A rogue member writes.
LEMMA RogueKeeps ==
    ASSUME MemoryInv, NEW n \in Rogues, NEW m \in Memories, rogue(n, m)
    PROVE  MemoryInv'
<1>1. n \in Members /\ n \notin Honest
  BY MemoryConstants DEF Honest
<1>2. UNCHANGED <<episodes, store, pass, distrusted, appVars>>
  BY DEF rogue
<1>3. LedgerOK' /\ Earned' /\ PassesOK'
  <2>1. Nothing \in Confirmations /\ [signer |-> n, mem |-> m, subject |-> n] \in Confirmations
    BY <1>1 DEF Confirmations
  <2>2. UNCHANGED <<episodes, pass, signed>>
    BY <1>2 DEF appVars
  <2>3. CASE append(n, "retract", m, "none", FALSE, Nothing)
    BY <1>1, <2>1, <2>2, <2>3, AppendKeeps
  <2>4. ASSUME NEW evidence \in BOOLEAN, append(n, "assert", m, "evidence", evidence, Nothing)
        PROVE  LedgerOK' /\ Earned' /\ PassesOK'
    BY <1>1, <2>1, <2>2, <2>4, AppendKeeps
  <2>5. ASSUME NEW conf \in signed \cup {Nothing, [signer |-> n, mem |-> m, subject |-> n]},
               append(n, "assert", m, "operator", FALSE, conf)
        PROVE  LedgerOK' /\ Earned' /\ PassesOK'
    <3>1. conf \in Confirmations
      BY <2>1 DEF Confirmations
    <3> QED BY <1>1, <2>2, <2>5, <3>1, AppendKeeps
  <2> QED BY <2>3, <2>4, <2>5 DEF rogue
<1> QED BY <1>2, <1>3 DEF MemoryInv, StoresOK, EpisodesOK, AppOK, appVars

LEMMA RevokeKeeps ==
    ASSUME MemoryInv, NEW i \in Rogues \cup {App}, revoke(i)
    PROVE  MemoryInv'
<1>1. EpisodesOK' /\ LedgerOK' /\ Earned' /\ PassesOK'
  BY JournalQuiet DEF revoke, appVars
<1>2. AppOK'
  BY DEF revoke, appVars, MemoryInv, AppOK
<1> QED BY <1>1, <1>2 DEF revoke, MemoryInv, StoresOK

-----------------------------------------------------------------------------
(* The staged memory: the theorems. *)

LEMMA MemoryInitHolds == MemoryInit => MemoryInv
<1> SUFFICES ASSUME MemoryInit PROVE MemoryInv
  OBVIOUS
<1>1. IsFiniteSet({}) /\ Cardinality({}) = 0
  BY FS_EmptySet
<1>2. StoresOK /\ EpisodesOK /\ PassesOK
  BY <1>1, MemoryConstants DEF MemoryInit, StoresOK, EpisodesOK, PassesOK
<1>3. LedgerOK
  <2>1. 0 \in Nat
    OBVIOUS
  <2> QED BY <1>1, <2>1 DEF MemoryInit, LedgerOK
<1>4. Earned /\ AppOK
  BY DEF MemoryInit, Earned, AppOK
<1> QED BY <1>2, <1>3, <1>4 DEF MemoryInv

LEMMA MemoryStepHolds == MemoryInv /\ [MemoryNext]_memoryVars => MemoryInv'
<1> SUFFICES ASSUME MemoryInv, [MemoryNext]_memoryVars PROVE MemoryInv'
  OBVIOUS
<1>1. \A n \in Members \ Rogues : n \in Members /\ n \in Honest
  BY DEF Honest
<1>2. ASSUME NEW n \in Members \ Rogues, NEW m \in Memories, note(n, m) PROVE MemoryInv'
  BY <1>1, <1>2, NoteKeeps
<1>3. ASSUME NEW n \in Members \ Rogues, NEW kind \in RunKinds, run_ends(n, kind) PROVE MemoryInv'
  BY <1>1, <1>3, RunKeeps
<1>4. ASSUME NEW n \in Members \ Rogues, consolidate(n) PROVE MemoryInv'
  BY <1>1, <1>4, PassKeeps
<1>5. CASE \/ on_offer \/ dismiss_memory \/ on_status \/ on_undeliverable \/ _accept
           \/ \E m \in Memories : retract_memory(m)
  BY <1>5, AppKeeps
<1>6. CASE confirm_memory
  BY <1>6, ConfirmKeeps
<1>7. CASE on_request
  BY <1>7, RequestKeeps
<1>8. ASSUME NEW n \in Members, NEW m \in Members, sync(n, m) PROVE MemoryInv'
  <2>1. UNCHANGED <<store, pass, distrusted, appVars>>
    BY <1>8 DEF sync
  <2>2. LedgerOK' /\ EpisodesOK' /\ Earned' /\ PassesOK'
    BY <1>8, SyncKeeps
  <2> QED BY <2>1, <2>2 DEF MemoryInv, StoresOK, AppOK, appVars
<1>9. ASSUME NEW n \in Members \cap Rogues, NEW m \in Memories, rogue(n, m) PROVE MemoryInv'
  BY <1>9, RogueKeeps
<1>10. ASSUME NEW i \in Rogues \cup {App}, revoke(i) PROVE MemoryInv'
  BY <1>10, RevokeKeeps
<1>11. CASE UNCHANGED memoryVars
  <2>1. EpisodesOK' /\ LedgerOK' /\ Earned' /\ PassesOK'
    BY <1>11, JournalQuiet DEF memoryVars, appVars
  <2> QED BY <1>11, <2>1 DEF memoryVars, appVars, MemoryInv, StoresOK, AppOK
<1> QED BY <1>2, <1>3, <1>4, <1>5, <1>6, <1>7, <1>8, <1>9, <1>10, <1>11 DEF MemoryNext, Steps

LEMMA MemoryHolds == MemorySpec => []MemoryInv
BY MemoryInitHolds, MemoryStepHolds, PTL DEF MemorySpec

\* What is in force is heard, admitted and the author's own.
LEMMA FactsHold == ASSUME MemoryInv PROVE FactsAreConfirmed
<1> SUFFICES ASSUME NEW n \in Honest, NEW r \in memory_view(n)
             PROVE  /\ r.mem \notin Secrets
                    /\ ~Caution(r.mem) =>
                           /\ App \notin distrusted
                           /\ [signer |-> App, mem |-> r.mem, subject |-> r.author] \in signed
  BY DEF FactsAreConfirmed
<1>1. n \in Members /\ r \in events[n] /\ _admit(r)
  BY DEF Honest, memory_view, build_memory, Admitted
<1>2. r \in MemoryEvents
  BY <1>1, EventFacts DEF MemoryInv
<1>3. r.mem \notin Secrets
  BY <1>1 DEF _admit, validate
<1>4. ASSUME ~Caution(r.mem)
      PROVE  App \notin distrusted /\ [signer |-> App, mem |-> r.mem, subject |-> r.author] \in signed
  <2>1. /\ r.conf # Nothing /\ r.conf.signer = App /\ App \notin distrusted
        /\ r.conf.mem = r.mem /\ r.conf.subject = r.author
    BY <1>1, <1>4 DEF _admit, verify_confirmation
  <2>2. r.conf \in Confirmations
    BY <1>2 DEF MemoryEvents
  <2>3. r.conf \in signed
    BY <2>1, <2>2, MemoryConstants DEF Confirmations
  <2>4. r.conf \in [signer : {App}, mem : Memories, subject : Members]
    BY <2>3 DEF MemoryInv, AppOK
  <2>5. r.conf = [signer |-> App, mem |-> r.mem, subject |-> r.author]
    BY <2>1, <2>4
  <2> QED BY <2>1, <2>3, <2>5
<1> QED BY <1>3, <1>4

\* The quarantine is bounded and holds no credential, an author's clock tells
\* its events apart, and nothing the App offers is a credential.
THEOREM MemoryTypeCorrect == MemorySpec => []MemoryTypeOK
<1>1. MemoryInv => MemoryTypeOK
  <2> SUFFICES ASSUME MemoryInv PROVE MemoryTypeOK
    OBVIOUS
  <2>1. \A i \in 1 .. Len(requests) : requests[i] \in {"sent", "accepted", "refused", "undelivered"}
    BY ElementOfSeq DEF MemoryInv, AppOK
  <2> QED BY <2>1 DEF MemoryInv, AppOK, StoresOK, LedgerOK, MemoryTypeOK
<1> QED BY <1>1, MemoryHolds, PTL

\* For every set of members, rogues among them, memories and runs: a fact in an
\* honest node's view was confirmed by the operator, still trusted, for that
\* content and its author; a caution asserted on evidence has its failing runs
\* (verify_confirmation, build_memory, review_candidate).
THEOREM MemoryStaysEarned == MemorySpec => []MemoryIsEarned
<1>1. MemoryInv => FactsAreConfirmed /\ CautionsAreEarned
  <2>1. MemoryInv => FactsAreConfirmed
    BY FactsHold
  <2>2. MemoryInv => CautionsAreEarned
    BY DEF MemoryInv, Earned, CautionsAreEarned, Honest
  <2> QED BY <2>1, <2>2
<1> QED BY <1>1, MemoryHolds, MemoryTypeCorrect, PTL DEF MemoryIsEarned

\* A step that ends a pass leaves no caution in force that its view held and
\* its runs contradict.
LEMMA PassTakesBack == ASSUME MemoryInv, [MemoryNext]_memoryVars PROVE PassRetracts
<1> SUFFICES ASSUME NEW n \in Honest, pass[n] # Nothing, pass'[n] = Nothing, NEW r \in pass[n].view,
                    Caution(r.mem), r.basis = "evidence",
                    Cardinality(pass[n].tallies[r.mem.key].ok) >= MinRuns
             PROVE  r \notin memory_view(n)'
  BY DEF PassRetracts
<1>1. n \in Members /\ r \in events[n]
  BY DEF Honest, MemoryInv, PassesOK
<1>2. consolidate(n)
  <2>1. CASE UNCHANGED pass
    BY <2>1
  <2>2. ASSUME NEW k \in Members, NEW kind \in RunKinds, run_ends(k, kind) PROVE FALSE
    BY <1>1, <2>2 DEF run_ends, MemoryInv, PassesOK
  <2>3. ASSUME NEW k \in Members, consolidate(k) PROVE k = n
    BY <1>1, <2>3 DEF consolidate, MemoryInv, PassesOK
  <2>4. \/ UNCHANGED pass
        \/ \E k \in Members, kind \in RunKinds : run_ends(k, kind)
        \/ \E k \in Members : consolidate(k)
    BY DEF MemoryNext, Steps, note, on_offer, confirm_memory, dismiss_memory, on_status, on_undeliverable,
           _accept, retract_memory, on_request, sync, rogue, revoke, memoryVars
  <2> QED BY <2>1, <2>2, <2>3, <2>4
<1>3. r.mem \in TakenBack(pass[n])
  BY DEF TakenBack, Contradicted
<1>4. PICK F : Writes(n, F) /\ F \subseteq MemoryEvents'
               /\ \E f \in F : f.op = "retract" /\ f.mem = r.mem
  BY <1>2, <1>3, PassWrites
<1>5. PICK f \in F : f.op = "retract" /\ f.mem = r.mem
  BY <1>4
<1>6. f \in events'[n] /\ f.author = n /\ f.lamport > Lamport(events[n]) /\ f.lamport \in Nat
  BY <1>1, <1>4, <1>5 DEF Writes, MemoryInv, LedgerOK, MemoryEvents
<1>7. r.lamport < f.lamport
  <2>1. r.lamport \in Nat /\ r.lamport <= Lamport(events[n]) /\ Lamport(events[n]) \in Nat
    BY <1>1, EventFacts, ClockFacts DEF MemoryInv
  <2> QED BY <1>6, <2>1
<1>8. n \notin distrusted'
  <2>1. UNCHANGED distrusted
    BY <1>2 DEF consolidate
  <2> QED BY <2>1, MemoryConstants DEF Honest, MemoryInv, AppOK
<1>9. Undoes(f, r)'
  BY <1>5, <1>7 DEF Undoes, _order
<1> QED BY <1>6, <1>8, <1>9 DEF memory_view, build_memory

\* For every number of members, runs and events, and whatever is written
\* meanwhile: a pass takes back what enough verified runs contradict
\* (consolidate).
THEOREM PassesTakeBack == MemorySpec => ContradictedIsRetracted
<1>1. MemoryInv /\ [MemoryNext]_memoryVars => [PassRetracts]_memoryVars
  BY PassTakesBack
<1> QED BY <1>1, MemoryHolds, PTL DEF MemorySpec, ContradictedIsRetracted
=============================================================================
