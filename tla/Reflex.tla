------------------------------- MODULE Reflex -------------------------------
(***************************************************************************)
(* The local pursuit behind `track_click' (agent/reflex.py): frame by      *)
(* frame the target is matched, followed with the cursor and clicked once  *)
(* it has settled.  A position is a number, the window searched is         *)
(* 0 .. Width - 1, and the target moves, leaves the window and comes back  *)
(* between two frames.  The match itself is numpy: a frame either shows    *)
(* the target where it is or is a miss.                                    *)
(***************************************************************************)
EXTENDS Integers, Sequences

CONSTANTS
    Width,         \* positions of the searched window
    MaxSpeed,      \* how far the target moves between two frames
    StableRadius, StableFrames, LostFrames,  \* pursue's parameters
    Asked,         \* the timeout the model asked for, in frames; 0: none
    Default, Cap   \* pursue's default timeout and MAX_TRACK_SECONDS

VARIABLES
    at,            \* where the target is; outside 0 .. Width - 1 it is not seen
    frames, lost, stable, center, outcome,  \* pursue
    now,           \* frames' time since the start
    recent         \* ghost: the last frames, newest last, None a miss

vars == <<at, frames, lost, stable, center, outcome, now, recent>>

None == -1
Miss == None
Near(a, b) == a # None /\ b # None /\ a - b \in -StableRadius .. StableRadius

\* A chase holds the input lock: what the model asks for is capped.
Timeout == IF Asked = 0 THEN Default ELSE IF Asked < Cap THEN Asked ELSE Cap

Init ==
    /\ at \in 0 .. Width - 1
    /\ frames = 0 /\ lost = 0 /\ stable = 0 /\ center = None
    /\ outcome = "pursuing" /\ now = 0 /\ recent = <<>>

-----------------------------------------------------------------------------
\* The target moves, and time passes between two frames.
Move ==
    /\ outcome = "pursuing" /\ now = frames
    /\ now' = now + 1
    /\ at' \in {p \in -1 .. Width : p - at \in -MaxSpeed .. MaxSpeed}
    /\ UNCHANGED <<frames, lost, stable, center, outcome, recent>>

Pursuing == outcome = "pursuing" /\ now > frames

Expire ==
    /\ Pursuing /\ now > Timeout
    /\ outcome' = "timeout"
    /\ UNCHANGED <<at, frames, lost, stable, center, now, recent>>

See(m) ==
    /\ Pursuing /\ now <= Timeout
    /\ frames' = frames + 1
    /\ recent' = LET r == Append(recent, m) IN IF Len(r) > StableFrames THEN Tail(r) ELSE r
    /\ UNCHANGED <<at, now>>

LoseKeepsStable == stable
OnMiss == 0

\* No match in this frame, or the target is outside the window.
Lose ==
    /\ See(Miss)
    /\ lost' = lost + 1 /\ stable' = OnMiss
    /\ outcome' = IF lost' >= LostFrames THEN "lost" ELSE outcome
    /\ UNCHANGED center

Settled(p) == IF Near(p, center) THEN stable + 1 ELSE 0

Follow ==
    /\ at \in 0 .. Width - 1 /\ See(at)
    /\ lost' = 0 /\ center' = at
    /\ stable' = Settled(at)
    /\ outcome' = IF stable' >= StableFrames THEN "clicked" ELSE outcome

Next == Move \/ Expire \/ Lose \/ Follow

Spec == Init /\ [][Next]_vars

-----------------------------------------------------------------------------
\* A click follows StableFrames frames that all showed the target, each close
\* to the one before: a frame without a match starts the count again, so a
\* target that flickers is never clicked (pursue).
ClickIsSeen ==
    outcome = "clicked" =>
        /\ Len(recent) = StableFrames
        /\ \A i \in 1 .. StableFrames : recent[i] # Miss
        /\ \A i \in 1 .. StableFrames - 1 : Near(recent[i], recent[i + 1])

\* "When the target has stayed within stable_radius pixels for stable_frames
\* frames (it stopped moving)": all these frames are close to one another.
ClickedIsStill ==
    outcome = "clicked" => \A i, j \in 1 .. StableFrames : Near(recent[i], recent[j])
=============================================================================
