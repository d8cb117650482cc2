----------------------------- MODULE MCHands -----------------------------
(***************************************************************************)
(* What the hands of the desktop agent may do, and the parts that do it,   *)
(* on small instances side by side: `which' says which of them a behaviour *)
(* is about.                                                               *)
(*   operator  Operator: a click, a high-risk key and a high-risk open     *)
(*   focus     Focus: two windows on three windowing systems               *)
(*   skill     Skill: three small libraries with calls, loops and guards   *)
(*   hud       Hud: two questions of one run                               *)
(*   notes     LocalMemory: one key, two values, written over and over     *)
(*   reflex    Reflex: a target that moves in five positions               *)
(*   ring      FocusNav: every ring of two keys over three elements        *)
(*   tree      Perception: every window of four elements, boxes, canvases  *)
(*   fusion    Fusion: three readings of two windows                       *)
(*   target    Targeting: two elements that may look alike                 *)
(***************************************************************************)
EXTENDS Operator, Focus, TLC

CONSTANTS w1, w2, k1, v1, v2, Nil

VARIABLES
  which,
  library, stack, envs, stmts, actions, status, performed, cut,
  stop, finished, events, boxes, hudPc, rounds, progress, ending, rc, hudPending, hudShown, phase,
  root, exit, clicked, approved,
  rows, now, writes, seen, prompt, sanctioned, reviewed,
  at, frames, lost, stable, center, outcome, reflexNow, reflexRecent,
  ring, ident, ringTarget, mute, focus, ringSeen, steps, key, ringOutcome,
  window, nodes, i, treePc, s1, copy, tries, refs, report, accounted, buffer, seq, drawing,
  copied,
  gen, fusionNow, obs, result,
  live, targetGen, ref, tokens, resolved, changes

(* What the model may ask for, and what the node was granted.               *)
Action(kind, aim, risky) ==
  [kind |-> kind, target |-> aim, text |-> "", high_risk |-> risky, generation |-> 0,
   expected |-> FALSE, cost |-> 1, purpose |-> "goal", rollback |-> TRUE, irreversible |-> FALSE,
   requires |-> {}]
Choosable == {Action("click", "a", FALSE), Action("key", "", TRUE), Action("open", "b", TRUE)}
Granted == {[issuer |-> "owner", subject |-> "node", valid |-> TRUE,
             scopes |-> {"physical.click", "physical.key", "system.open"}]}

(* Statements of a skill. *)
Stmt(op) ==
  [op |-> op, var |-> "", val |-> 1, need |-> {},
   cond |-> [kind |-> "screen", neg |-> FALSE, need |-> {}, var |-> "n", bound |-> 2],
   body |-> <<>>, alt |-> <<>>, skill |-> "", count |-> 0, risk |-> FALSE]
Act == Stmt("action")
Use(v) == [Act EXCEPT !.need = {v}]
Inc(v) == [Stmt("incr") EXCEPT !.var = v]
Do(s, v, x) == [Stmt("call") EXCEPT !.skill = s, !.var = v, !.val = x]
While(b) == [Stmt("while") EXCEPT !.body = b]
Below(v, k, b) == [While(b) EXCEPT !.cond.kind = "expr", !.cond.need = {v}, !.cond.var = v, !.cond.bound = k]
Times(n, b) == [Stmt("repeat") EXCEPT !.body = b, !.count = n, !.var = "i"]
Unless(t, e) == [Stmt("if") EXCEPT !.body = t, !.alt = e, !.cond.neg = TRUE]
Skills ==
  {[main |-> <<[Stmt("set") EXCEPT !.var = "n", !.val = 0], Below("n", 2, <<Inc("n"), Do("row", "n", 5)>>), Use("n")>>,
    row |-> <<Inc("n"), Unless(<<Use("n")>>, <<Use("k")>>)>>],
   [main |-> <<While(<<>>), Times(2, <<Use("i"), While(<<Act>>)>>), Times(0, <<Act>>), Unless(<<Do("none", "", 1)>>, <<>>)>>,
    row |-> <<>>],
   [main |-> <<Times(4, <<[Act EXCEPT !.risk = TRUE]>>), Unless(<<Do("main", "", 1)>>, <<>>)>>, row |-> <<>>]}

(* Windows of four elements in pre-order, any of them empty; rows of boxes  *)
(* without depths; and canvases only a picture can be had of.               *)
Size == 4
Chain(u, j) == LET a[m \in 0 .. Size] == IF m = 0 THEN {0} ELSE {m} \cup a[u[m]] IN a[j]
Trees == {u \in [1 .. Size -> 0 .. Size - 1] :
            \A n \in 1 .. Size : u[n] < n /\ (n > 1 => u[n] \in Chain(u, n - 1))}
DepthIn(u) == LET h[m \in 0 .. Size] == IF m = 0 THEN -1 ELSE h[u[m]] + 1 IN h
Shapes ==
  {[n \in 1 .. Size |-> [up |-> u[n], depth |-> DepthIn(u)[n], ghost |-> n \in g, blind |-> FALSE,
                         box |-> IF n \in g THEN <<0, 0>> ELSE <<0, 1>>]] : u \in Trees, g \in SUBSET (1 .. Size)}
Boxed ==
  {[n \in 1 .. 3 |-> [up |-> 0, depth |-> -1, ghost |-> FALSE, blind |-> FALSE, box |-> b[n]]] :
     b \in [1 .. 3 -> {<<0, 3>>, <<0, 1>>, <<1, 3>>, <<1, 1>>}]}
Canvases == {[n \in 1 .. 2 |-> [up |-> 0, depth |-> 0, ghost |-> FALSE, blind |-> TRUE, box |-> <<0, 1>>]]}

Doing == INSTANCE Skill WITH Libraries <- Skills, Entry <- "main", Auto <- TRUE,
  MaxStatements <- 14, MaxLoop <- 3, MaxDepth <- 2
Asking == INSTANCE Hud WITH Rcs <- {0, 5}, Timeout <- 2, MaxAsks <- 2, MaxProgress <- 1,
  pc <- hudPc, pending <- hudPending, shown <- hudShown
Noting == INSTANCE LocalMemory WITH Keys <- {k1}, Values <- {v1, v2}, Secrets <- {},
  MaxItems <- 1, MaxTime <- 1, MaxWrites <- 2
Pursuing == INSTANCE Reflex WITH Width <- 5, MaxSpeed <- 2, StableRadius <- 1,
  StableFrames <- 3, LostFrames <- 2, Asked <- 9, Default <- 5, Cap <- 6, now <- reflexNow,
  recent <- reflexRecent
Walking == INSTANCE FocusNav WITH Stops <- {1, 2, 3}, Idents <- {<<1, 2, 3>>, <<1, 2, 1>>},
  Targets <- {{2}, {3}, {4}, {1}}, Start <- 1, Keys <- <<"tab", "down">>,
  MaxSteps <- 4, target <- ringTarget, seen <- ringSeen, outcome <- ringOutcome
Reading == INSTANCE Perception WITH Windows <- Shapes \cup Boxed \cup Canvases,
  Retries <- 1, FrameBytes <- 4, NominalBytes <- 3, BudgetBytes <- 7, MaxFrames <- 2,
  pc <- treePc
Fusing == INSTANCE Fusion WITH Wins <- {1, 2}, Geos <- {<<0, 10>>, <<3, 10>>, <<0, 7>>},
  NoGeo <- <<0, 0>>, BitmapGeo <- <<0, 10>>, SkewLimit <- 0, MaxReadings <- 3, MaxGen <- 2,
  MaxTime <- 2, now <- fusionNow
Resolving == INSTANCE Targeting WITH Natives <- {1, 2},
  Ids <- {{}, {"role"}, {"role", "name"}}, Places <- {-1, 0, 1, 3}, Tolerance <- 1, MaxGen <- 2,
  MaxChanges <- 2, gen <- targetGen

skillVars == <<library, stack, envs, stmts, actions, status, performed, cut>>
hudVars == <<stop, finished, events, boxes, hudPc, rounds, progress, ending, rc, hudPending,
             hudShown, phase, root, exit, clicked, approved>>
notesVars == <<rows, now, writes, seen, prompt, sanctioned, reviewed>>
reflexVars == <<at, frames, lost, stable, center, outcome, reflexNow, reflexRecent>>
ringVars == <<ring, ident, ringTarget, mute, focus, ringSeen, steps, key, ringOutcome>>
treeVars == <<window, nodes, i, treePc, s1, copy, tries, refs, report, accounted, buffer,
              seq, drawing, copied>>
fusionVars == <<gen, fusionNow, obs, result>>
targetVars == <<live, targetGen, ref, tokens, resolved, changes>>
mcvars == <<vars, focusVars, skillVars, hudVars, notesVars, reflexVars, ringVars, treeVars, fusionVars, targetVars, which>>

(* The windows are alike. *)
Alike == Permutations(Windows)

(* A behaviour that is not about the focus leaves it where it may start.    *)
focusIdle ==
  /\ server = "wayland" /\ pinned = FALSE /\ require = FALSE /\ planned = FALSE
  /\ tier = [w \in Windows |-> 1] /\ hidden = [w \in Windows |-> FALSE] /\ front \in Windows
  /\ FocusInit
skillIdle == library = Nil /\ stack = Nil /\ envs = Nil /\ stmts = Nil /\ actions = Nil /\
             status = Nil /\ performed = Nil /\ cut = Nil
hudIdle == stop = Nil /\ finished = Nil /\ events = Nil /\ boxes = Nil /\ hudPc = Nil /\
           rounds = Nil /\ progress = Nil /\ ending = Nil /\ rc = Nil /\ hudPending = Nil /\
           hudShown = Nil /\ phase = Nil /\ root = Nil /\ exit = Nil /\ clicked = Nil /\
           approved = Nil
notesIdle == rows = Nil /\ now = Nil /\ writes = Nil /\ seen = Nil /\ prompt = Nil /\
             sanctioned = Nil /\ reviewed = Nil
reflexIdle == at = Nil /\ frames = Nil /\ lost = Nil /\ stable = Nil /\ center = Nil /\
              outcome = Nil /\ reflexNow = Nil /\ reflexRecent = Nil
ringIdle == ring = Nil /\ ident = Nil /\ ringTarget = Nil /\ mute = Nil /\ focus = Nil /\
            ringSeen = Nil /\ steps = Nil /\ key = Nil /\ ringOutcome = Nil
treeIdle == window = Nil /\ nodes = Nil /\ i = Nil /\ treePc = Nil /\ s1 = Nil /\ copy = Nil
            /\ tries = Nil /\ refs = Nil /\ report = Nil /\ accounted = Nil /\ buffer = Nil
            /\ seq = Nil /\ drawing = Nil /\ copied = Nil
fusionIdle == gen = Nil /\ fusionNow = Nil /\ obs = Nil /\ result = Nil
targetIdle == live = Nil /\ targetGen = Nil /\ ref = Nil /\ tokens = Nil /\ resolved = Nil
              /\ changes = Nil

MCInit ==
  /\ Init
  /\ \/ /\ which = "operator"
        /\ focusIdle /\ skillIdle /\ hudIdle /\ notesIdle /\ reflexIdle /\ ringIdle
        /\ treeIdle /\ fusionIdle /\ targetIdle
     \/ /\ which = "focus" /\ FocusInit
        /\ skillIdle /\ hudIdle /\ notesIdle /\ reflexIdle /\ ringIdle
        /\ treeIdle /\ fusionIdle /\ targetIdle
     \/ /\ which = "skill" /\ Doing!Init
        /\ focusIdle /\ hudIdle /\ notesIdle /\ reflexIdle /\ ringIdle
        /\ treeIdle /\ fusionIdle /\ targetIdle
     \/ /\ which = "hud" /\ Asking!Init
        /\ focusIdle /\ skillIdle /\ notesIdle /\ reflexIdle /\ ringIdle
        /\ treeIdle /\ fusionIdle /\ targetIdle
     \/ /\ which = "notes" /\ Noting!Init
        /\ focusIdle /\ skillIdle /\ hudIdle /\ reflexIdle /\ ringIdle
        /\ treeIdle /\ fusionIdle /\ targetIdle
     \/ /\ which = "reflex" /\ Pursuing!Init
        /\ focusIdle /\ skillIdle /\ hudIdle /\ notesIdle /\ ringIdle
        /\ treeIdle /\ fusionIdle /\ targetIdle
     \/ /\ which = "ring" /\ Walking!Init
        /\ focusIdle /\ skillIdle /\ hudIdle /\ notesIdle /\ reflexIdle
        /\ treeIdle /\ fusionIdle /\ targetIdle
     \/ /\ which = "tree" /\ Reading!Init
        /\ focusIdle /\ skillIdle /\ hudIdle /\ notesIdle /\ reflexIdle
        /\ ringIdle /\ fusionIdle /\ targetIdle
     \/ /\ which = "fusion" /\ Fusing!Init
        /\ focusIdle /\ skillIdle /\ hudIdle /\ notesIdle /\ reflexIdle
        /\ ringIdle /\ treeIdle /\ targetIdle
     \/ /\ which = "target" /\ Resolving!Init
        /\ focusIdle /\ skillIdle /\ hudIdle /\ notesIdle /\ reflexIdle
        /\ ringIdle /\ treeIdle /\ fusionIdle
  /\ which # "operator" => act = CHOOSE a \in Actions : TRUE

MCNext ==
  /\ UNCHANGED which
  /\ \/ /\ which = "operator" /\ Next
        /\ UNCHANGED <<focusVars, skillVars, hudVars, notesVars, reflexVars, ringVars,
                       treeVars, fusionVars, targetVars>>
     \/ /\ which = "focus" /\ FocusNext
        /\ UNCHANGED <<vars, skillVars, hudVars, notesVars, reflexVars, ringVars, treeVars,
                       fusionVars, targetVars>>
     \/ /\ which = "skill" /\ Doing!Next
        /\ UNCHANGED <<vars, focusVars, hudVars, notesVars, reflexVars, ringVars, treeVars,
                       fusionVars, targetVars>>
     \/ /\ which = "hud" /\ Asking!Next
        /\ UNCHANGED <<vars, focusVars, skillVars, notesVars, reflexVars, ringVars, treeVars,
                       fusionVars, targetVars>>
     \/ /\ which = "notes" /\ Noting!Next
        /\ UNCHANGED <<vars, focusVars, skillVars, hudVars, reflexVars, ringVars, treeVars,
                       fusionVars, targetVars>>
     \/ /\ which = "reflex" /\ Pursuing!Next
        /\ UNCHANGED <<vars, focusVars, skillVars, hudVars, notesVars, ringVars, treeVars,
                       fusionVars, targetVars>>
     \/ /\ which = "ring" /\ Walking!Next
        /\ UNCHANGED <<vars, focusVars, skillVars, hudVars, notesVars, reflexVars, treeVars,
                       fusionVars, targetVars>>
     \/ /\ which = "tree" /\ Reading!Next
        /\ UNCHANGED <<vars, focusVars, skillVars, hudVars, notesVars, reflexVars, ringVars,
                       fusionVars, targetVars>>
     \/ /\ which = "fusion" /\ Fusing!Next
        /\ UNCHANGED <<vars, focusVars, skillVars, hudVars, notesVars, reflexVars, ringVars,
                       treeVars, targetVars>>
     \/ /\ which = "target" /\ Resolving!Next
        /\ UNCHANGED <<vars, focusVars, skillVars, hudVars, notesVars, reflexVars, ringVars,
                       treeVars, fusionVars>>

MCSpec == MCInit /\ [][MCNext]_mcvars
TreeSpec == MCInit /\ which = "tree" /\ [][MCNext]_mcvars

(* The hands stay where they were sent: a frame or an input of a pinned run *)
(* that carries no warning was of the window that was asked for, unless     *)
(* someone moved the focus after it was confirmed; and what a skill calls   *)
(* never changes the variables of its caller, however deep calls are nested *)
(* (_apply_focus, activate_title, run_skill).                               *)
StaysInScope ==
  [][OnTarget /\ (which = "skill" => Doing!Scope)]_mcvars

(* What the operator did not allow does not happen: an action is approved   *)
(* only by a click on Allow while that very question was on display, and    *)
(* the question waited for is the one on display; a note is in the prompt   *)
(* only as it was confirmed; and a high-risk action the gate objects to is  *)
(* approved in words too (OperatorBridge.confirm, OperatorHud._handle,      *)
(* Memory.remember, Memory.render, observe).                                *)
AllowedIsMeant ==
  /\ which = "operator" => ObjectionIsAsked
  /\ which = "hud" => Asking!AllowIsClicked /\ Asking!WaitedIsShown
  /\ which = "notes" => Noting!RenderedIsConfirmed

(* What the agent sees is there: the element tree is the window's, no        *)
(* picture is torn, and a fusion is of the newest layout of one window,      *)
(* clean only when all readings agree (build_nodes, read_tearfree, fuse).    *)
SeenIsThere ==
  /\ which = "tree" => Reading!TreeIsTheWindows /\ Reading!NoTornReference
  /\ which = "fusion" => Fusing!FusedIsFresh /\ Fusing!CleanMeansAgreement

(* What the agent aims at is what it meant: a target called valid is the     *)
(* element that was seen, as far as the platform can tell; a pursued one was *)
(* seen frame after frame; and a walk over the focus ring whose presses all  *)
(* arrive gives up only when the ring does not hold the target (resolve,     *)
(* pursue, navigate_to).                                                     *)
AimIsMeant ==
  /\ which = "target" => Resolving!ValidIsTheTarget
  /\ which = "reflex" => Pursuing!ClickIsSeen
  /\ which = "ring" => Walking!FirstRingIsWalked

(* A pruned node's children "re-attach to its nearest kept ancestor", by a  *)
(* depth rule called "exact for a depth-first pre-order walk" (build_nodes).*)
ParentIsNearestKept == which = "tree" => Reading!ParentIsNearestKept
=============================================================================
