----------------------------- MODULE MCDialogue -----------------------------
(***************************************************************************)
(* The operator dialogue on small instances, side by side: `which' says    *)
(* which of them a behaviour is about.                                     *)
(*   session     Session: two messages, one reassembly at a time           *)
(*   silent      the same in single fragments, the peer silent for a time  *)
(*   view        View: a button, the button moved beside a second one of   *)
(*               the same name, and a field alone                          *)
(*   restarted   the same, the node restarted once                         *)
(*   script      Script: each kind of step, in short scripts               *)
(***************************************************************************)
EXTENDS Session, TLC

CONSTANTS Nil

VARIABLES
  which,
  handles, tree, generation, sinceFull, needFull, raising, wire, view, asked, lastResync,
  now, restarts, published,
  script, at, scriptPc, rc, found, requests, scriptWire, replies, accepted, scriptRefused,
  challenges, issued, signed, denied, scriptQuestions, answered, statuses, seen, drops

Element(id, look) == [id |-> id, look |-> look]
Shown == {<<Element("ok", 1)>>, <<Element("ok", 2), Element("ok", 1)>>, <<Element("name", 1)>>}
Step(op) == [op |-> op, kind |-> "click", target |-> "b1"]
Written ==
  {<<Step("control"), Step("approve"), Step("control")>>, <<Step("answer"), Step("deny"), Step("approve")>>,
   <<Step("control"), Step("expect"), Step("resync")>>, <<Step("control"), Step("malformed")>>}

Talking == INSTANCE Session WITH MaxDown <- 0
Silent == INSTANCE Session WITH FragmentCounts <- {1}
Viewing == INSTANCE View WITH Screens <- Shown, FullEvery <- 3, ResyncEvery <- 1,
  MaxNodes <- 2, MaxGen <- 3, MaxAsks <- 1, MaxTime <- 1, MaxRestarts <- 0
Restarted == INSTANCE View WITH Screens <- Shown, FullEvery <- 3, ResyncEvery <- 1,
  MaxNodes <- 2, MaxGen <- 1, MaxAsks <- 1, MaxTime <- 0, MaxRestarts <- 1
Running == INSTANCE Script WITH Scripts <- Written, Kinds <- {"click"},
  Targets <- {"b1", "b2"}, CanUnlock <- TRUE, MaxChallenges <- 3, MaxStatuses <- 2,
  MaxDrops <- 2, pc <- scriptPc, wire <- scriptWire, refused <- scriptRefused,
  questions <- scriptQuestions

viewVars == <<handles, tree, generation, sinceFull, needFull, raising, wire, view, asked,
              lastResync, now, restarts, published>>
scriptVars == <<script, at, scriptPc, rc, found, requests, scriptWire, replies, accepted,
                scriptRefused, challenges, issued, signed, denied, scriptQuestions,
                answered, statuses, seen, drops>>
mcvars == <<vars, viewVars, scriptVars, which>>

viewIdle == handles = Nil /\ tree = Nil /\ generation = Nil /\ sinceFull = Nil /\
            needFull = Nil /\ raising = Nil /\ wire = Nil /\ view = Nil /\ asked = Nil /\
            lastResync = Nil /\ now = Nil /\ restarts = Nil /\ published = Nil
scriptIdle == script = Nil /\ at = Nil /\ scriptPc = Nil /\ rc = Nil /\ found = Nil /\
              requests = Nil /\ scriptWire = Nil /\ replies = Nil /\ accepted = Nil /\
              scriptRefused = Nil /\ challenges = Nil /\ issued = Nil /\ signed = Nil /\
              denied = Nil /\ scriptQuestions = Nil /\ answered = Nil /\ statuses = Nil /\
              seen = Nil /\ drops = Nil

MCInit ==
  /\ Init
  /\ \/ which \in {"session", "silent"} /\ viewIdle /\ scriptIdle
     \/ /\ \/ which = "view" /\ Viewing!Init
           \/ which = "restarted" /\ Restarted!Init
        /\ scriptIdle
     \/ which = "script" /\ Running!Init /\ viewIdle

MCNext ==
  /\ UNCHANGED which
  /\ \/ /\ \/ which = "session" /\ Talking!Next
           \/ which = "silent" /\ Silent!Next
        /\ UNCHANGED <<viewVars, scriptVars>>
     \/ /\ \/ which = "view" /\ Viewing!Next
           \/ which = "restarted" /\ Restarted!Next
        /\ UNCHANGED <<vars, scriptVars>>
     \/ which = "script" /\ Running!Next /\ UNCHANGED <<vars, viewVars>>

MCSpec == MCInit /\ [][MCNext]_mcvars

(* What the operator is told is so: a tree shown without a resync warning   *)
(* is one the node published under that generation - as long as the node is *)
(* not restarted - and a step a script reports as ok was done, every        *)
(* signature given for an action its step named and for a step it reached   *)
(* (SnapshotView.apply, SnapshotPublisher.publish, run_script).             *)
ToldIsSo ==
  CASE which = "view" -> Viewing!TypeOK /\ Viewing!NeverAGuess
    [] which = "restarted" -> Restarted!TypeOK
    [] which = "script" -> Running!TypeOK /\ Running!OkMeansDone
    [] OTHER -> TRUE
=============================================================================
