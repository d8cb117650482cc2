-------------------------------- MODULE Skill -------------------------------
(***************************************************************************)
(* The interpreter of programmable skills (agent/skill.py) with the hands  *)
(* and eyes skill_runner.py gives it: a small-step machine whose stack     *)
(* holds one frame per run_body that is under way.  `envs' has one         *)
(* environment per skill call: branches and loops share their skill's, a   *)
(* call starts from its arguments alone.                                   *)
(*                                                                         *)
(* A statement is a record [op, var, val, need, cond, body, alt, skill,    *)
(* count, risk]; `need' is the set of variables its placeholders name.  A  *)
(* condition is [kind, neg, need, var, bound]: nested `not's are their     *)
(* parity, a screen condition is answered by the model.                    *)
(***************************************************************************)
EXTENDS Integers, Sequences, SequencesExt

CONSTANTS
    Libraries,      \* the skill files that may be run: skill -> body
    Entry,          \* the skill that is run, without arguments
    Auto,           \* --auto
    MaxStatements,  \* run_skill's max_statements
    MaxLoop,        \* run_skill's max_loop
    MaxDepth        \* _MAX_DEPTH

VARIABLES library, stack, envs, stmts, actions, status,
    performed,      \* ghost: the actions the backend carried out
    cut             \* ghost: a repeat was shortened to max_loop

ghosts == <<performed, cut>>
vars == <<library, stack, envs, stmts, actions, status, ghosts>>

Outcomes == {"completed", "limit", "error"}

top == Last(stack)
stmt == top.body[top.i]
env == Last(envs)

Frame(body, kind, loop, k, n) == [body |-> body, i |-> 1, kind |-> kind, loop |-> loop, k |-> k, n |-> n]

\* _subst: every placeholder has to be bound.
Bound(need) == need \subseteq DOMAIN env
Bind(v, x) == [w \in DOMAIN env \cup {v} |-> IF w = v THEN x ELSE env[w]]
Bind1(loop, x) == IF loop.var = "" THEN env ELSE Bind(loop.var, x)

_compare(c) == env[c.var] < c.bound

\* The model is shown the screen and says yes or no.
check == BOOLEAN

\* The answers a condition may get.
eval_cond(c) ==
    {IF c.neg THEN ~b ELSE b : b \in IF c.kind = "screen" THEN check ELSE {_compare(c)}}

SetEnv(e) == envs' = Front(envs) \o <<e>>
Onto(s, fr) == s \o <<fr>>
Next_i == Front(stack) \o <<[top EXCEPT !.i = @ + 1]>>
End(outcome) == status' = outcome

Init ==
    /\ library \in Libraries
    /\ stack = <<Frame(library[Entry], "call", <<>>, 1, 1)>>
    /\ envs = <<<<>>>>
    /\ stmts = 0 /\ actions = 0 /\ status = "running"
    /\ performed = 0 /\ cut = FALSE

-----------------------------------------------------------------------------
\* The guards at the head of run_body's loop; the statement is counted.
Begin(op) ==
    /\ status = "running" /\ top.i \in 1 .. Len(top.body)
    /\ stmt.op = op /\ stmts < MaxStatements
    /\ stmts' = stmts + 1

Limit ==
    /\ status = "running" /\ top.i \in 1 .. Len(top.body) /\ stmts >= MaxStatements
    /\ End("limit")
    /\ UNCHANGED <<library, stack, envs, stmts, actions, ghosts>>

\* --auto skips the prompt, never that of a high-risk action.
Asked(s) == ~Auto \/ s.risk

\* Carried out or declined, the action counts.
Action ==
    /\ Begin("action") /\ Bound(stmt.need)
    /\ \E ok \in IF Asked(stmt) THEN BOOLEAN ELSE {TRUE} : performed' = performed + IF ok THEN 1 ELSE 0
    /\ actions' = actions + 1
    /\ stack' = Next_i
    /\ UNCHANGED <<library, envs, status, cut>>

Set ==
    /\ Begin("set") /\ Bound(stmt.need)
    /\ SetEnv(Bind(stmt.var, stmt.val)) /\ stack' = Next_i
    /\ UNCHANGED <<library, actions, status, ghosts>>

Incr ==
    /\ Begin("incr")
    /\ SetEnv(Bind(stmt.var, (IF stmt.var \in DOMAIN env THEN env[stmt.var] ELSE 0) + stmt.val))
    /\ stack' = Next_i
    /\ UNCHANGED <<library, actions, status, ghosts>>

\* The callee gets its arguments and nothing else.
CallEnv == [v \in {stmt.var} \ {""} |-> stmt.val]

Call ==
    /\ Begin("call") /\ Len(envs) - 1 < MaxDepth
    /\ stmt.skill \in DOMAIN library /\ Bound(stmt.need)
    /\ stack' = Onto(Next_i, Frame(library[stmt.skill], "call", <<>>, 1, 1))
    /\ envs' = Onto(envs, CallEnv)
    /\ UNCHANGED <<library, actions, status, ghosts>>

If ==
    /\ Begin("if") /\ Bound(stmt.cond.need)
    /\ \E yes \in eval_cond(stmt.cond) :
          stack' = Onto(Next_i, Frame(IF yes THEN stmt.body ELSE stmt.alt, "branch", <<>>, 1, 1))
    /\ UNCHANGED <<library, envs, actions, status, ghosts>>

Rounds(n) == IF n < MaxLoop THEN n ELSE MaxLoop

Repeat ==
    /\ Begin("repeat") /\ Bound(stmt.need)
    /\ cut' = (cut \/ stmt.count > Rounds(stmt.count))
    /\ IF Rounds(stmt.count) > 0
       THEN /\ SetEnv(Bind1(stmt, 1))
            /\ stack' = Onto(Next_i, Frame(stmt.body, "repeat", stmt, 1, Rounds(stmt.count)))
       ELSE stack' = Next_i /\ UNCHANGED envs
    /\ UNCHANGED <<library, actions, status, performed>>

\* The loop starts before its condition: index 0.
While ==
    /\ Begin("while") /\ Bound(stmt.cond.need)
    /\ stack' = Onto(Next_i, [Frame(stmt.body, "while", stmt, 0, MaxLoop) EXCEPT !.i = 0])
    /\ UNCHANGED <<library, envs, actions, status, ghosts>>

RoundUncounted(k) == k
Round(k) == k + 1

\* The condition is put; a loop that would go on past max_loop ends the run.
Test ==
    /\ status = "running" /\ top.kind = "while" /\ top.i = 0
    /\ \E yes \in eval_cond(top.loop.cond) :
          IF yes /\ top.k >= top.n THEN End("limit") /\ UNCHANGED stack
          ELSE /\ stack' = IF yes THEN Front(stack) \o <<[top EXCEPT !.i = 1, !.k = Round(@)]>> ELSE Front(stack)
               /\ UNCHANGED status
    /\ UNCHANGED <<library, envs, stmts, actions, ghosts>>

\* SkillError: the run ends with exit code 2.
Fails ==
    CASE stmt.op \in {"action", "set", "repeat"} -> ~Bound(stmt.need)
      [] stmt.op \in {"if", "while"} -> ~Bound(stmt.cond.need)
      [] stmt.op = "call" -> \/ Len(envs) - 1 >= MaxDepth
                             \/ stmt.skill \notin DOMAIN library
                             \/ ~Bound(stmt.need)
      [] OTHER -> FALSE

Raise ==
    /\ status = "running" /\ top.i \in 1 .. Len(top.body) /\ Begin(stmt.op) /\ Fails
    /\ End("error")
    /\ UNCHANGED <<library, stack, envs, actions, ghosts>>

-----------------------------------------------------------------------------
(* The end of a body *)

AtEnd(kind) == status = "running" /\ top.i > Len(top.body) /\ top.kind = kind

EndRepeat ==
    /\ AtEnd("repeat")
    /\ IF top.k < top.n
       THEN /\ SetEnv(Bind1(top.loop, top.k + 1))
            /\ stack' = Front(stack) \o <<[top EXCEPT !.i = 1, !.k = @ + 1]>>
       ELSE stack' = Front(stack) /\ UNCHANGED envs
    /\ UNCHANGED <<library, stmts, actions, status, ghosts>>

EndWhile ==
    /\ AtEnd("while") /\ stack' = Front(stack) \o <<[top EXCEPT !.i = 0]>>
    /\ UNCHANGED <<library, envs, stmts, actions, status, ghosts>>

EndBranch ==
    /\ AtEnd("branch") /\ stack' = Front(stack)
    /\ UNCHANGED <<library, envs, stmts, actions, status, ghosts>>

BackShared(es) == Front(Front(es)) \o <<Last(es)>>

\* The caller goes on with its own environment.
Back(es) == Front(es)

Return ==
    /\ AtEnd("call")
    /\ IF Len(stack) = 1 THEN End("completed") /\ UNCHANGED <<stack, envs>>
       ELSE stack' = Front(stack) /\ envs' = Back(envs) /\ UNCHANGED status
    /\ UNCHANGED <<library, stmts, actions, ghosts>>

Next ==
    \/ Limit \/ Action \/ Set \/ Incr \/ Call \/ If \/ Repeat \/ While \/ Test \/ Raise
    \/ EndRepeat \/ EndWhile \/ EndBranch \/ Return

Spec == Init /\ [][Next]_vars

\* The interpreter is a loop of one thread: it goes on while it can.
FairSpec == Spec /\ WF_vars(Next)

-----------------------------------------------------------------------------
Scope == \A d \in 1 .. Len(envs) - 1 : d <= Len(envs') => envs'[d] = envs[d]

\* A statement, a branch or a loop changes only the variables of its own
\* skill: what a callee sets never shows in the environment it was called
\* from, however deep the calls are nested (run_skill, the `call' statement).
ScopeIsKept == [][Scope]_vars

\* Whatever the program is and the screen says, the run ends: run_skill's
\* guards stop a while whose body is empty and a skill that calls itself.
SkillEnds == <>(status # "running")

\* The exit code 0 says that the skill was carried out whole, "1 stopped/hit
\* a guard": a run that is reported completed had no loop cut short.
CompletedIsWhole == status = "completed" => ~cut
=============================================================================
