------------------------------ MODULE Targeting -----------------------------
(***************************************************************************)
(* From seeing an element to acting on it (agent/target.py): a reference   *)
(* is taken from one snapshot of a window and resolved against a later     *)
(* one, with the window changing in between.  An element is [native, id,   *)
(* pos]: the platform's own token, its identity (the set of automation_id, *)
(* name and role values that are not blank; elements may share it), and    *)
(* its place, if the provider reports one.  A layout that the capture layer*)
(* notices advances the generation; a change it does not notice leaves it, *)
(* which is what the other guards of resolve are for.                      *)
(***************************************************************************)
EXTENDS Integers, FiniteSets

CONSTANTS
    Natives, Ids,
    Places,      \* the centres of bounds; Origin is that of (0, 0, 0, 0), Unplaced means no bounds
    Tolerance,   \* move_tolerance_px
    MaxGen,      \* BOUND: generations
    MaxChanges   \* BOUND: changes of the window

VARIABLES
    live, gen,   \* the window: its elements, at most one per native token
    ref,         \* the AXTargetRef, None before
    tokens,      \* the caller of resolve supplies native tokens
    resolved,    \* TargetResolution: [verdict, el]
    changes

vars == <<live, gen, ref, tokens, resolved, changes>>

Origin == 0
Unplaced == -1
None == [native |-> 0, id |-> {}, pos |-> 0, gen |-> 0]
Unresolved == [verdict |-> "", el |-> None]
Element == [native : Natives, id : Ids, pos : Places]

Init ==
    /\ \E N \in SUBSET Natives \ {{}} : \E look \in [N -> Ids \X Places] :
          live = {[native |-> n, id |-> look[n][1], pos |-> look[n][2]] : n \in N}
    /\ gen = 1 /\ ref = None /\ resolved = Unresolved /\ changes = 0
    /\ tokens \in BOOLEAN

-----------------------------------------------------------------------------
\* AXTargetRef.from_element; the native token is up to the caller, 0 for none.
from_element(e) ==
    /\ ref = None
    /\ \E token \in {0, e.native} :
          ref' = [native |-> token, id |-> e.id, gen |-> gen,
                  pos |-> IF e.pos = Unplaced THEN Origin ELSE e.pos]
    /\ UNCHANGED <<live, gen, tokens, resolved, changes>>

\* An element goes, comes, moves or is put in another's place.
Change(e, noticed) ==
    /\ resolved = Unresolved /\ changes < MaxChanges
    /\ live' \in {{x \in live : x.native # e.native}, {x \in live : x.native # e.native} \cup {e}}
    /\ gen' = IF noticed THEN gen + 1 ELSE gen
    /\ gen' <= MaxGen
    /\ changes' = changes + 1
    /\ UNCHANGED <<ref, tokens, resolved>>

gen_gate == ref.gen = gen
\* A blank attribute of the reference is not compared.
_matches(e) == ref.id \subseteq e.id

\* The verdict of the attributes: a blank selector matches nothing.
unique_identity_match ==
    LET found == {e \in live : _matches(e)}
    IN IF ref.id = {} \/ found = {} THEN "gone" ELSE IF Cardinality(found) > 1 THEN "ambiguous" ELSE "valid"

\* Native tokens are compared when both sides have one.
Named == tokens /\ ref.native # 0
exact == {e \in live : e.native = ref.native}

TokenAgreesAlways(e) == TRUE
TokenAgrees(e) == ~Named \/ e.native = ref.native

\* Without bounds, then or now, the place says nothing.
Placed(e) == ref.pos # Origin /\ e.pos # Unplaced
Moved(e) == Placed(e) /\ e.pos - ref.pos \notin -Tolerance .. Tolerance

\* The element in hand is checked for its token and its place.
Checked(e) ==
    IF ~TokenAgrees(e) THEN "gone" ELSE IF Moved(e) THEN "moved" ELSE "valid"

Verdict(v, e) == resolved' = [verdict |-> v, el |-> [native |-> e.native, id |-> e.id, pos |-> e.pos, gen |-> gen]]

resolve ==
    /\ ref # None /\ resolved = Unresolved
    /\ CASE ~gen_gate -> Verdict("stale", None)
         [] gen_gate /\ unique_identity_match = "valid" -> \E e \in live : _matches(e) /\ Verdict(Checked(e), e)
         [] gen_gate /\ unique_identity_match = "ambiguous" /\ Named /\ Cardinality(exact) = 1 ->
               \E e \in exact : Verdict(Checked(e), e)
         [] OTHER -> Verdict(unique_identity_match, None)
    /\ UNCHANGED <<live, gen, ref, tokens, changes>>

Next ==
    \/ \E e \in live : from_element(e)
    \/ \E e \in Element, noticed \in BOOLEAN : Change(e, noticed)
    \/ resolve

Spec == Init /\ [][Next]_vars

-----------------------------------------------------------------------------
\* What resolve calls valid may be acted on: it is the generation the decision
\* was made at, it is where it was as far as places are known, and it is the
\* very element that was seen when both sides name elements - otherwise the only
\* one that answers to its identity, never the first of two lookalikes (resolve).
ValidIsTheTarget ==
    resolved.verdict = "valid" =>
        /\ resolved.el.gen = ref.gen
        /\ Origin # ref.pos /\ resolved.el.pos # Unplaced =>
              ref.pos - resolved.el.pos \in -Tolerance .. Tolerance
        /\ IF Named THEN resolved.el.native = ref.native
           ELSE \A e \in live : ref.id \subseteq e.id => e.native = resolved.el.native
=============================================================================
