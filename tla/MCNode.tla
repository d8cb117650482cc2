------------------------------- MODULE MCNode -------------------------------
(***************************************************************************)
(* What a process of a node decides by itself, on small instances side by  *)
(* side: `which' says which of them a behaviour is about.                  *)
(*   loop       AgentLoop: the modes of Configs                            *)
(*   trust      TrustPolicy: two processes on one store, which hear each   *)
(*              other's gossip; p2 starts its refresher before it checks   *)
(*              for its own DID, as the goal runner does                   *)
(***************************************************************************)
EXTENDS AgentLoop, TrustPolicy, TLC

CONSTANTS e1, e2, cmd, d1, d2, d3, m1, m2, stranger, s1, p1, p2

VARIABLE which

Act(k, t) == [kind |-> k, target |-> t]
Base == [gui |-> FALSE, confirm_each |-> FALSE, auto |-> TRUE, read_only |-> FALSE, dry_run |-> FALSE, watch |-> FALSE,
         require_focus |-> FALSE, desktop_ax |-> FALSE, plan_gate |-> FALSE, macro_path |-> FALSE, macro |-> <<>>,
         subtasks |-> 0, max_steps |-> 3]
Recording == <<Act("left_click", e1), Act("save_key", None)>>
Replaying == [Base EXCEPT !.macro_path = TRUE, !.macro = Recording]

(* An attended run, a dry one with a plan, one that replays a macro, *)
(* a look-only one, a watch, and a window run with the accessibility tree.   *)
MCConfigs ==
  {[Base EXCEPT !.auto = FALSE, !.plan_gate = TRUE],
   [Base EXCEPT !.subtasks = 2, !.dry_run = TRUE, !.max_steps = 4],
   Replaying,
   [Base EXCEPT !.gui = TRUE, !.confirm_each = TRUE, !.read_only = TRUE],
   [Base EXCEPT !.gui = TRUE, !.dry_run = TRUE, !.watch = TRUE],
   [Base EXCEPT !.gui = TRUE, !.desktop_ax = TRUE, !.require_focus = TRUE, !.macro_path = TRUE]}

MCChoices ==
  {Act("left_click", e1), Act("click_element", e1), Act("type", None), Act("type", e1), Act("open", None),
   Act("run_elevated", cmd), Act("run_elevated", e2), Act("wait", None), Act("look", None), Act("ask_user", None), Act("remember", None),
   Act("done", None)}

\* Records: "both" revokes d1 and d2; "half" has a master's signature twice and a
\* stranger's.
Records == {"both", "half"}
RecordIds == [o \in Records |-> o]
Names == [o \in Records |-> IF o = "both" THEN {d1, d2} ELSE {d3}]
Signatures == [o \in Records |-> IF o = "half" THEN <<m1, m1, stranger>> ELSE <<m1, stranger, m2>>]
Selves == (p1 :> d2) @@ (p2 :> d1)
OneStore == [p \in Process |-> s1]
Pair == [p \in Process |-> Process \ {p}]

mcvars == <<vars, policyVars, which>>

MCInit ==
  /\ Init /\ PolicyInit
  /\ which = "loop" \/ (which = "trust" /\ cfg = Replaying)
MCNext ==
  /\ UNCHANGED which
  /\ \/ which = "loop" /\ Next /\ UNCHANGED policyVars
     \/ which = "trust" /\ PolicyNext /\ UNCHANGED vars
MCSpec == MCInit /\ [][MCNext]_mcvars
TrustSpec == (MCInit /\ which = "trust") /\ [][MCNext]_mcvars
=============================================================================
