-------------------------------- MODULE Focus --------------------------------
(***************************************************************************)
(* Where the desktop agent's clicks and keys land (agent/osfocus.py,       *)
(* actions.py, DesktopBackend, the launch in cli.py and the loop's focus   *)
(* steps), while the user and other programs keep moving the focus.        *)
(*                                                                         *)
(* Raising a window is a request the desktop may refuse; the agent polls   *)
(* until the window is in front or a deadline passes, and tags what it did *)
(* without confirmation.  Before its own menus open it remembers which     *)
(* window was in front and restores it once.  Text that cannot be typed    *)
(* goes through the clipboard, which is given back.                        *)
(*                                                                         *)
(* A title matches as "exact", "prefix" or "substring" (tiers 1 to 3); 4   *)
(* is a window that does not match, or is gone.                            *)
(***************************************************************************)
EXTENDS Integers, FiniteSets

CONSTANTS
    Windows,
    Gui, Nowhere,       \* one of the agent's own windows; no window
    Servers,            \* the windowing systems considered
    Typed, Empty, Copied, \* what the clipboard may hold
    MaxActions,         \* bound on the agent's actions
    MaxUser             \* bound on the user's interference

ASSUME FocusConstants ==
    /\ Gui \notin Windows /\ Nowhere \notin Windows /\ Gui # Nowhere
    /\ Typed # Empty /\ Typed # Copied
    /\ MaxActions \in Nat /\ MaxUser \in Nat

Tiers == 1..4
NoMatch == 4

VARIABLES
    server, pinned, require, planned, \* the platform; --window, --require-focus, --plan or a briefing
    tier, hidden,   \* [window]: how its title matches; minimized or not visible
    front,          \* the window in front
    fg,             \* cli.main: pre_launch_fg
    before,         \* history: what was in front before the first window of ours
    place, after,   \* the agent's place, and where it goes when the activation ends
    target, confirmed,
    action,         \* the action under way
    landed,         \* the window the last frame showed or the last input went to
    tagged,         \* whether that was reported as unconfirmed
    stolen,         \* history: the focus moved since the activation ended
    clip, previous, \* the clipboard, and what _paste_text saved of it
    own,            \* history: what the user last put on the clipboard
    held,           \* keys held down by hold_key
    spoiled,        \* history: what an exception or the user came between, keys or clipboard
    acts, moves

run == <<server, pinned, require, planned>>
desk == <<tier, hidden, front>>
focusVars == <<run, desk, fg, before, place, after, target, confirmed, action, landed, tagged,
          stolen, clip, previous, own, held, spoiled, acts, moves>>

-----------------------------------------------------------------------------
(* osfocus *)

\* match_windows: the best tier, in it a visible window before a hidden one;
\* the areas that decide between equals are not modelled.
BestMatches ==
    LET matching == {w \in Windows : tier[w] # NoMatch}
        Beats(v, w) == tier[v] < tier[w] \/ (tier[v] = tier[w] /\ ~hidden[v] /\ hidden[w])
    IN {w \in matching : ~\E v \in matching : Beats(v, w)}

\* current_foreground: a token only where one could be restored.
current_foreground == IF server \in {"windows", "x11"} THEN {front, Nowhere} ELSE {Nowhere}

Raisable == server # "wayland"

Settles(next, ok) ==
    /\ place' = next /\ confirmed' = ok /\ stolen' = FALSE

\* activate_title and restore_foreground up to the raise: w is what is wanted.
Bring(w, next) ==
    /\ target' = w
    /\ IF front = w THEN Settles(next, TRUE) /\ UNCHANGED after
       ELSE place' = "raise" /\ after' = next /\ UNCHANGED <<confirmed, stolen>>

Fails(next) == target' = Nowhere /\ Settles(next, FALSE) /\ UNCHANGED after

activate_title(next) ==
    \/ Raisable /\ \E w \in BestMatches : Bring(w, next)
    \/ (~Raisable \/ BestMatches = {}) /\ Fails(next)

restore_foreground(next) ==
    \/ server \in {"windows", "x11"} /\ Bring(fg, next)
    \/ server \notin {"windows", "x11"} /\ Fails(next)

\* _win_force_foreground, or activate(): a minimized window is restored; the
\* desktop may refuse, and a window that is gone cannot come forward.
RaiseOnce ==
    /\ place = "raise"
    /\ place' = "poll"
    /\ \/ UNCHANGED <<front, hidden>>
       \/ target \in Windows /\ front' = target /\ hidden' = [hidden EXCEPT ![target] = FALSE]
    /\ UNCHANGED <<run, tier, fg, before, after, target, confirmed, action, landed, tagged,
                   stolen, clip, previous, own, held, spoiled, acts, moves>>

\* confirm_foreground: poll until it is in front, or the deadline passes.
ConfirmsOnceRaised == TRUE
Confirms == front = target

confirm_foreground ==
    /\ place = "poll"
    /\ Settles(after, Confirms)
    /\ UNCHANGED <<run, desk, fg, before, after, target, action, landed, tagged, clip, previous, own,
                   held, spoiled, acts, moves>>

-----------------------------------------------------------------------------
(* The launch (cli.main) and the first steps of the run *)

\* The window of ours is closed: some window of the user's comes forward.
CloseGui == front' \in Windows \cup {Nowhere}

\* The menu, when one is offered: remember, then show it.
RememberedLate(w) == fg' \in {Gui, Nowhere}
Remembered(w) == fg' \in w

OfferMenu ==
    /\ place = "launch"
    /\ \/ /\ Remembered(current_foreground)
          /\ before' = front /\ front' = Gui /\ place' = "menu"
       \/ UNCHANGED <<fg, before, front>> /\ place' = "key"
    /\ UNCHANGED <<run, tier, hidden, after, target, confirmed, action, landed, tagged, stolen, clip,
                   previous, own, held, spoiled, acts, moves>>

MenuPicked ==
    /\ place = "menu"
    /\ CloseGui
    /\ \/ place' = "key"
       \/ place' = "stopped"
    /\ UNCHANGED <<run, tier, hidden, fg, before, after, target, confirmed, action, landed, tagged,
                   stolen, clip, previous, own, held, spoiled, acts, moves>>

\* The API key prompt and the task prompt: each remembers unless something is
\* remembered already, shows its window, and goes on or gives up when it closes.
Prompt(here, showing) ==
    /\ place = here
    /\ IF fg = Nowhere THEN Remembered(current_foreground) ELSE UNCHANGED fg
    /\ before' = IF fg = Nowhere THEN front ELSE before
    /\ front' = Gui /\ place' = showing
    /\ UNCHANGED <<run, tier, hidden, after, target, confirmed, action, landed, tagged, stolen, clip,
                   previous, own, held, spoiled, acts, moves>>

Skip(here, next) ==
    /\ place = here /\ place' = next
    /\ UNCHANGED <<run, desk, fg, before, after, target, confirmed, action, landed, tagged, stolen,
                   clip, previous, own, held, spoiled, acts, moves>>

Answered(showing, next) ==
    /\ place = showing
    /\ CloseGui
    /\ place' \in {next, "stopped"}
    /\ UNCHANGED <<run, tier, hidden, fg, before, after, target, confirmed, action, landed, tagged,
                   stolen, clip, previous, own, held, spoiled, acts, moves>>

\* loop.run: a plan or a briefing is made from a frame of its own, then the
\* first focus is taken.
BuildPlan ==
    /\ place = "plan"
    /\ landed' = IF planned THEN front ELSE landed
    /\ tagged' = IF planned THEN FALSE ELSE tagged
    /\ place' = "begin"
    /\ UNCHANGED <<run, desk, fg, before, after, target, confirmed, action, stolen, clip, previous, own,
                   held, spoiled, acts, moves>>

InitialFocus ==
    /\ place = "begin"
    /\ \/ pinned /\ activate_title("begun")
       \/ ~pinned /\ fg # Nowhere /\ restore_foreground("begun")
       \/ ~pinned /\ fg = Nowhere /\ place' = "step" /\ UNCHANGED <<after, target, confirmed, stolen>>
    /\ UNCHANGED <<run, desk, fg, before, action, landed, tagged, clip, previous, own, held, spoiled,
                   acts, moves>>

Begun ==
    /\ place = "begun"
    /\ place' = IF ~confirmed /\ require THEN "stopped" ELSE "step"
    /\ UNCHANGED <<run, desk, fg, before, after, target, confirmed, action, landed, tagged, stolen,
                   clip, previous, own, held, spoiled, acts, moves>>

-----------------------------------------------------------------------------
(* Each step: present, capture, act *)

\* DesktopBackend.activate is set only for a pinned window.
Activated(next) ==
    \/ pinned /\ activate_title(next)
    \/ ~pinned /\ target' = Nowhere /\ Settles(next, TRUE) /\ UNCHANGED after

_present ==
    /\ place = "step"
    /\ Activated("capture")
    /\ UNCHANGED <<run, desk, fg, before, action, landed, tagged, clip, previous, own, held, spoiled,
                   acts, moves>>

capture ==
    /\ place = "capture"
    /\ landed' = front /\ tagged' = ~confirmed
    /\ place' = "choose"
    /\ UNCHANGED <<run, desk, fg, before, after, target, confirmed, action, stolen, clip, previous, own,
                   held, spoiled, acts, moves>>

\* What the model asks for: a listed element, a point or key, text for the
\* clipboard, held keys, or nothing that touches the desktop.
Kinds == {"element", "input", "paste", "hold", "wait"}

Choose(k) ==
    /\ place = "choose" /\ acts < MaxActions
    /\ acts' = acts + 1 /\ action' = k
    /\ \/ k = "element" /\ place' = "native" /\ UNCHANGED <<after, target, confirmed, stolen>>
       \/ k = "wait" /\ place' = "step" /\ UNCHANGED <<after, target, confirmed, stolen>>
       \/ k \in {"input", "paste", "hold"} /\ server # "macos" /\ Activated("hit")
       \/ k \in {"input", "paste", "hold"} /\ server = "macos" /\ place' = "step"
          /\ UNCHANGED <<after, target, confirmed, stolen>>
    /\ UNCHANGED <<run, desk, fg, before, landed, tagged, clip, previous, own, held, spoiled, moves>>

\* invoke_element and set_element_value: the accessibility action works, or the
\* focus ring is walked by keys, or the click falls back to pixels.  macOS has
\* neither keys nor pixels.
Invoke ==
    /\ place = "native"
    /\ \/ place' = "step" /\ UNCHANGED <<after, target, confirmed, stolen>>
       \/ server # "macos" /\ Activated("reach")
       \/ server # "macos" /\ Activated("hit")
    /\ UNCHANGED <<run, desk, fg, before, action, landed, tagged, clip, previous, own, held, spoiled,
                   acts, moves>>

Lands == landed' = front /\ tagged' = ~confirmed

\* reach_element: one key of the walk, then the next, Space, or giving up.
ReachKey ==
    /\ place = "reach"
    /\ Lands
    /\ \/ Activated("reach")
       \/ Activated("hit")
       \/ place' = "step" /\ UNCHANGED <<after, target, confirmed, stolen>>
    /\ UNCHANGED <<run, desk, fg, before, action, clip, previous, own, held, spoiled, acts, moves>>

\* _dispatch of a click, a key, typing, a scroll, a drag or a pursuit.
Input ==
    /\ place = "hit" /\ action \in {"element", "input"}
    /\ Lands /\ place' = "step"
    /\ UNCHANGED <<run, desk, fg, before, after, target, confirmed, action, stolen, clip, previous, own,
                   held, spoiled, acts, moves>>

\* hold_key: the keys go down one by one, and one that raises leaves the earlier
\* ones down (the fail-safe of backend.py:169 makes any of these calls raise);
\* afterwards they come up again whatever interrupts the wait, one by one as well:
\* one that raises leaves itself and the rest down.
HoldKeys ==
    /\ place = "hit" /\ action = "hold"
    /\ Lands
    /\ \/ held' = 2 /\ place' = "holding" /\ UNCHANGED spoiled
       \/ held' \in {held, held + 1} \cap 0..2 /\ spoiled' = spoiled \cup {"keys"} /\ place' = "step"
    /\ UNCHANGED <<run, desk, fg, before, after, target, confirmed, action, stolen, clip, previous,
                   own, acts, moves>>

\* Keys left down earlier may be others than these.
ReleaseKeys ==
    /\ place = "holding"
    /\ \/ held' \in (IF "keys" \in spoiled THEN 0..2 ELSE {0}) /\ UNCHANGED spoiled
       \/ held' \in 1..2 /\ spoiled' = spoiled \cup {"keys"}
    /\ place' = "step"
    /\ UNCHANGED <<run, desk, fg, before, after, target, confirmed, action, landed, tagged, stolen,
                   clip, previous, own, acts, moves>>

\* _paste_text, step by step: what is on the clipboard is read (a failure to
\* read it counts as nothing), replaced, pasted, and put back.
PasteCopy ==
    /\ place = "hit" /\ action = "paste"
    /\ \/ /\ previous' = clip /\ clip' = Typed /\ place' = "paste" /\ UNCHANGED spoiled
       \/ /\ previous' = Empty /\ clip' = Typed /\ place' = "paste"
          /\ spoiled' = spoiled \cup {"clip"}
       \/ /\ place' = "step" /\ UNCHANGED <<previous, clip, spoiled>>
    /\ UNCHANGED <<run, desk, fg, before, after, target, confirmed, action, landed, tagged, stolen,
                   own, held, acts, moves>>

\* The paste itself may raise: the text is put back all the same.
PasteGoesOnIfRaised == {"restore", "step"}
PasteGoesOn == {"restore"}

PasteHotkey ==
    /\ place = "paste"
    /\ Lands
    /\ place' \in PasteGoesOn
    /\ UNCHANGED <<run, desk, fg, before, after, target, confirmed, action, stolen, clip, previous, own,
                   held, spoiled, acts, moves>>

PasteRestore ==
    /\ place = "restore"
    /\ place' = "step"
    /\ \/ clip' = previous /\ UNCHANGED spoiled
       \/ UNCHANGED clip /\ spoiled' = spoiled \cup {"clip"}
    /\ UNCHANGED <<run, desk, fg, before, after, target, confirmed, action, landed, tagged, stolen,
                   previous, own, held, acts, moves>>

Finished ==
    /\ place = "choose" /\ acts = MaxActions
    /\ place' = "stopped"
    /\ UNCHANGED <<run, desk, fg, before, after, target, confirmed, action, landed, tagged, stolen,
                   clip, previous, own, held, spoiled, acts, moves>>

Agent ==
    \/ OfferMenu \/ MenuPicked
    \/ Prompt("key", "keying") \/ Skip("key", "task") \/ Answered("keying", "task")
    \/ Prompt("task", "asking") \/ Skip("task", "plan") \/ Answered("asking", "plan")
    \/ BuildPlan \/ InitialFocus \/ Begun \/ RaiseOnce \/ confirm_foreground
    \/ _present \/ capture \/ \E k \in Kinds : Choose(k)
    \/ Invoke \/ ReachKey \/ Input \/ HoldKeys \/ ReleaseKeys
    \/ PasteCopy \/ PasteHotkey \/ PasteRestore \/ Finished

-----------------------------------------------------------------------------
(* The user and the other programs *)

Interferes == moves < MaxUser /\ moves' = moves + 1 /\ place # "stopped"

TakeFocus(w) ==
    /\ Interferes
    /\ front' = w /\ stolen' = TRUE
    /\ hidden' = [hidden EXCEPT ![w] = FALSE]
    /\ UNCHANGED <<run, tier, fg, before, place, after, target, confirmed, action, landed, tagged, clip,
                   previous, own, held, spoiled, acts>>

\* A window's title changes, or the window closes or opens.
Retitle(w, t) ==
    /\ Interferes /\ tier[w] # t
    /\ tier' = [tier EXCEPT ![w] = t]
    /\ UNCHANGED <<run, hidden, front, fg, before, place, after, target, confirmed, action, landed, tagged,
                   stolen, clip, previous, own, held, spoiled, acts>>

\* Copying within the paste loses what was copied.
CopyText ==
    /\ Interferes
    /\ clip' = Copied /\ own' = Copied
    /\ spoiled' = IF place \in {"paste", "restore"} THEN spoiled \cup {"clip"} ELSE spoiled
    /\ UNCHANGED <<run, desk, fg, before, place, after, target, confirmed, action, landed, tagged, stolen,
                   previous, held, acts>>

FocusNext ==
    \/ Agent
    \/ \E w \in Windows : TakeFocus(w) \/ \E t \in Tiers : Retitle(w, t)
    \/ CopyText

FocusInit ==
    /\ server \in Servers
    /\ pinned \in BOOLEAN /\ require \in BOOLEAN /\ planned \in BOOLEAN
    /\ tier \in [Windows -> {1, 3}] /\ \E w \in Windows : tier[w] = 1
    /\ \E s \in SUBSET Windows : hidden = [w \in Windows |-> w \in s] /\ Cardinality(s) <= 1
    /\ front \in {w \in Windows : ~hidden[w]}
    /\ fg = Nowhere /\ before = Nowhere
    /\ place = "launch" /\ after = "launch"
    /\ target = Nowhere /\ confirmed = FALSE
    /\ action = "wait"
    /\ landed = Nowhere /\ tagged = FALSE /\ stolen = FALSE
    /\ clip = Empty /\ previous = Empty /\ own = Empty /\ held = 0 /\ spoiled = {}
    /\ acts = 0 /\ moves = 0

FocusSpec == FocusInit /\ [][FocusNext]_focusVars

-----------------------------------------------------------------------------
FocusTypeOK ==
    /\ tier \in [Windows -> Tiers] /\ hidden \in [Windows -> BOOLEAN]
    /\ {front, before, landed, fg} \subseteq Windows \cup {Gui, Nowhere}
    /\ target \in Windows \cup {Nowhere}
    /\ {clip, previous} \subseteq {Typed, Empty, Copied} /\ own \in {Empty, Copied}
    /\ spoiled \subseteq {"keys", "clip"}
    /\ held \in 0..2 /\ acts \in 0..MaxActions /\ moves \in 0..MaxUser

\* "Before our own menu/dialogs steal focus, remember what was in front"
\* (osfocus.py): whichever of the menu, the key prompt and the task prompt
\* comes first, the window that is restored is the user's.
TokenIsTheUsers == fg \in {before, Nowhere} /\ fg # Gui

OnTarget ==
    (landed' # landed \/ tagged' # tagged)
        => (pinned /\ place \in {"capture", "hit", "reach"} /\ ~tagged' /\ ~stolen => landed' = target)

\* A frame or an input of a pinned run that carries no warning was of the
\* window that was asked for, unless someone moved the focus after it was
\* confirmed (the confirmation is not repeated).
UntaggedIsOnTarget == [][OnTarget]_focusVars

\* Between two actions no key is held, and the clipboard holds what the user last
\* put on it.  What came between spoils the one or the other: a keyDown or keyUp that
\* raised, and a clipboard that could not be read or written, or that the user
\* changed in the middle of the paste (the copy is then overwritten).
NothingIsHeld ==
    place \in {"step", "capture", "choose"} =>
        /\ "keys" \notin spoiled => held = 0
        /\ "clip" \notin spoiled => clip = own

\* The desktop is the user's again: nothing of the agent's is left on keys or
\* clipboard, and the window to restore is one of the user's (type_text,
\* hold_key, capture_foreground).
HandsOff == NothingIsHeld /\ TokenIsTheUsers

\* "restores it once before the first screenshot" (agent/README.md): no frame
\* is of a window of the agent's choosing before the first focus was taken.
NoFrameBeforeFocus == place = "begin" => landed = Nowhere
=============================================================================
