----------------------------- MODULE MCCitadel -----------------------------
(***************************************************************************)
(* The goal runner, the staged memory and the fleet's coordinator on small *)
(* instances, side by side: `which' says which a behaviour is about.       *)
(*   runs       Supervisor: one goal, crashes and an operator's request    *)
(*   evidence   Memory: two nodes learn of an action that fails and works  *)
(*   rogue      Memory: a member of the journal that appends what it likes *)
(*   operator   Memory: two requests of the operator                       *)
(*   fleet      Fleet: two tasks, two nodes, three connections             *)
(***************************************************************************)
EXTENDS Supervisor, Fleet, Memory

CONSTANTS m1, m2, x, app, n1, n2, t1, t2

VARIABLE which

Chain == [g \in Goal |-> {h \in Goal : h < g}]

Fact(k, v) == [class |-> "fact", key |-> k, value |-> v]
Facts == {Fact("colour", "red"), Fact("colour", "blue"), Fact("pin", "1234")}
Pin == {Fact("pin", "1234")}
SaveFails == [class |-> "caution", key |-> "save", value |-> "failed"]
Episode(k, o, u) == [key |-> k, outcome |-> o, usable |-> u]
Saves == {Episode("save", "failed", TRUE), Episode("save", "ok", TRUE), Episode("save", "no_change", FALSE)}
Others == {Episode("", "ok", TRUE)}

AllMemories == Facts \cup {SaveFails}
AllRuns == Saves \cup Others

Urgency == [t \in Task |-> IF t = t1 THEN 1 ELSE 2]
Connections == 1 .. 3

mcvars == <<vars, memoryVars, fleetVars, which>>

\* A scene of the staged memory has bounds of its own.
Within(nRuns, nEvents, nRequests) ==
  /\ Cardinality(UNION {episodes[n] : n \in Members}) <= nRuns
  /\ Cardinality(UNION {events[n] : n \in Members}) <= nEvents
  /\ Len(requests) <= nRequests

InScene ==
  \/ which = "evidence" /\ Steps({m1, m2}, {SaveFails}, Saves, {app}) /\ Within(4, 3, 0)'
  \/ which = "rogue" /\ Steps({m1, x}, Facts, {}, {x, app}) /\ Within(0, 1, 1)'
  \/ which = "operator" /\ Steps({m1}, Facts, Others, {app}) /\ Within(1, 2, 2)'

MCInit ==
  /\ Init /\ FleetInit /\ MemoryInit
  /\ which \in {"runs", "evidence", "rogue", "operator"}

MCNext ==
  /\ UNCHANGED <<which, fleetVars>>
  /\ \/ which = "runs" /\ Next /\ UNCHANGED memoryVars
     \/ InScene /\ UNCHANGED vars

MCSpec == MCInit /\ [][MCNext]_mcvars
RunsSpec == MCInit /\ which = "runs" /\ [][MCNext]_mcvars

TasksInit == which = "fleet" /\ Init /\ MemoryInit /\ FleetInit
TasksSpec == TasksInit /\ [][FleetNext /\ UNCHANGED <<vars, memoryVars, which>>]_mcvars

\* The nodes are alike.
Alike == Permutations(Node)

\* A node is revoked, or a connection breaks or the operator intervenes.
OneTrouble == revoked = {} \/ (cuts = 0 /\ ops = 0)
=============================================================================
