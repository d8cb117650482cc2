------------------------------ MODULE FocusNav ------------------------------
(***************************************************************************)
(* Keyboard focus traversal (agent/focus_nav.py): press a key, read which  *)
(* element holds the focus, go on until it is the target.  The window      *)
(* decides where each key takes the focus from each stop (`ring') and      *)
(* which stops share an identity; the planner knows a stop by its identity *)
(* only.  Any single press may fail to be delivered.                       *)
(***************************************************************************)
EXTENDS Integers, Sequences, FiniteSets

CONSTANTS
    Stops,        \* the elements that can hold the focus
    Idents,       \* the ways identities (role, name, automation_id) may be given to the stops
    Targets,      \* what may be asked for: sets of identities
    Start,        \* the stop that has the focus at first
    Keys,         \* the keys to try, in order
    MaxSteps      \* navigate_to's max_steps

VARIABLES
    ring, ident, target,         \* the window: key -> stop -> stop; stop -> identity; what match_by asks for
    mute,                        \* HISTORY: the keys given up because a press of them failed
    focus,                       \* the stop that holds the focus
    seen, steps, key, outcome    \* navigate_to

world == <<ring, ident, target>>
vars == <<world, mute, focus, seen, steps, key, outcome>>

Id(s) == ident[s]
Matches(s) == Id(s) \in target

Init ==
    /\ ring \in [1 .. Len(Keys) -> [Stops -> Stops]]
    /\ ident \in Idents
    /\ target \in Targets
    /\ mute = {}
    /\ focus = Start
    /\ seen = {} /\ steps = 0 /\ key = 0 /\ outcome = "walking"

-----------------------------------------------------------------------------
\* The first look at the focus.
Look ==
    /\ outcome = "walking" /\ key = 0
    /\ key' = 1
    /\ seen' = {Id(focus)}
    /\ outcome' \in {"no-focus", IF Matches(focus) THEN "already" ELSE outcome}
    /\ UNCHANGED <<world, mute, focus, steps>>

WrapsAtOnce(s) == TRUE

\* The key brought the focus back to a stop already seen.
Wraps(s) == Id(s) \in seen

Press ==
    /\ outcome = "walking" /\ key \in 1 .. Len(Keys) /\ steps < MaxSteps
    /\ focus' = ring[key][focus]
    /\ steps' = steps + 1
    /\ \/ outcome' = "no-focus" /\ UNCHANGED <<seen, key>>  \* the focus cannot be read
       \/ Matches(focus') /\ outcome' = "reached" /\ UNCHANGED <<seen, key>>
       \/ /\ ~Matches(focus')
          /\ IF Wraps(focus') THEN key' = key + 1 /\ UNCHANGED seen
             ELSE seen' = seen \cup {Id(focus')} /\ UNCHANGED key
          /\ outcome' = IF steps' >= MaxSteps THEN "exhausted" ELSE outcome
    /\ UNCHANGED <<world, mute>>

\* send_key says no, at this press or a later one of the same key: the next key
\* is tried. It says no of whatever was raised, after the key went down too.
NotDelivered ==
    /\ outcome = "walking" /\ key \in 1 .. Len(Keys) /\ steps < MaxSteps
    /\ key' = key + 1 /\ mute' = mute \cup {key}
    /\ focus' \in {focus, ring[key][focus]}
    /\ UNCHANGED <<world, seen, steps, outcome>>

GiveUp ==
    /\ outcome = "walking" /\ key > Len(Keys)
    /\ outcome' = IF steps = 0 THEN "stuck" ELSE "cycled"
    /\ UNCHANGED <<world, mute, focus, seen, steps, key>>

Next == Look \/ Press \/ NotDelivered \/ GiveUp

Spec == Init /\ [][Next]_vars

-----------------------------------------------------------------------------
\* The stops a key reaches from s, by pressing it again and again.
Orbit(i, s) ==
    LET hop[n \in 0 .. Cardinality(Stops)] == IF n = 0 THEN s ELSE ring[i][hop[n - 1]]
    IN {hop[n] : n \in 0 .. Cardinality(Stops)}

\* Where the stops have identities of their own and no press of the first key
\* fails, it is tried to the end of its ring: the walk gives up only when no
\* stop of that ring is the target (navigate_to).
FirstRingIsWalked ==
    /\ outcome = "cycled" /\ 1 \notin mute
    /\ \A s, t \in Stops : s # t => Id(s) # Id(t)
    => \A s \in Orbit(1, Start) : ~Matches(s)

\* "else the target simply isn't on any ring we can walk"
CycledIsOnNoRing ==
    outcome = "cycled" => \A i \in 1 .. Len(Keys) \ mute : \A s \in Orbit(i, Start) : ~Matches(s)

\* "a key was sent but focus did not move and no key advances it"
StuckIsUnmoved ==
    outcome = "cycled" => \E i \in 1 .. Len(Keys) \ mute : ring[i][Start] # Start
=============================================================================
