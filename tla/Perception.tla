----------------------------- MODULE Perception -----------------------------
(***************************************************************************)
(* The structural adapter (agent/perception/adapter.py) and the tear-free  *)
(* framebuffer read (perception/dib.py): one get_observation prunes the    *)
(* flat list the accessibility walk left, recovers the tree, and asks for  *)
(* a DIB reference for every surface the walk cannot see into, while the   *)
(* producer of the frame goes on drawing.                                  *)
(*                                                                         *)
(* An element is [up, depth, ghost, blind, box]: its parent in the window  *)
(* (which the code never sees), the depth the provider recorded (-1: not), *)
(* whether it is a placeholder, whether it is custom-drawn, and its box, a *)
(* span <<left, right>>.  A frame is two halves, copied one after the      *)
(* other; a half holds the number of the frame it was drawn for.           *)
(***************************************************************************)
EXTENDS Integers, Sequences, FiniteSets, SequencesExt

CONSTANTS
    Windows,       \* the windows that may be observed: sequences of elements
    Retries,       \* dib_retries
    FrameBytes,    \* stride * height of the frame
    NominalBytes,  \* width * height * bytes per pixel: VisualReference.approx_bytes
    BudgetBytes,   \* dib_budget_bytes
    MaxFrames      \* BOUND: frames the producer draws

VARIABLES
    window, nodes,           \* the elements; the nodes of the observation, <<>> before build_nodes
    i,                       \* the node _stitch_dib is at
    pc, s1, copy, tries,     \* read_tearfree
    refs,                    \* node -> the content of its reference
    report,                  \* AdapterReport: requested, skipped_budget, skipped_tearing, errors
    accounted,               \* dib_bytes
    buffer, seq, drawing,    \* the producer: the two halves, the counter, the half it writes
    copied                   \* ghost: bytes of the frames the references were read from

reader == <<i, pc, s1, copy, tries>>
results == <<refs, report, accounted, copied>>
producer == <<buffer, seq, drawing>>
vars == <<window, nodes, reader, results, producer>>

-----------------------------------------------------------------------------
(* build_nodes *)

Valid(box) == box[1] < box[2]
_contains(outer, inner) == outer[1] <= inner[1] /\ outer[2] >= inner[2]
is_placeholder(e) == e.ghost

\* The open ancestors after popping those that are not above the new one.
Popped(open, Above(_)) ==
    LET keep == {n \in 1 .. Len(open) : Above(open[n])}
    IN SubSeq(open, 1, IF keep = {} THEN 0 ELSE CHOOSE n \in keep : \A m \in keep : m <= n)

Top(open) == IF open = <<>> THEN 0 ELSE Last(open)

PoppedShallow(els, open, n) == Popped(open, LAMBDA a : els[a].depth <= els[n].depth)
PoppedDeeper(els, open, n) == Popped(open, LAMBDA a : els[a].depth < els[n].depth)

_parents_from_depth(els) ==
    FoldLeft(LAMBDA st, n : LET open == PoppedDeeper(els, st.open, n)
                            IN [up |-> Append(st.up, Top(open)), open |-> Append(open, n)],
             [up |-> <<>>, open |-> <<>>], [n \in 1 .. Len(els) |-> n]).up

\* A box-less element hangs on the open ancestor and contains nothing.
_parents_from_containment(els) ==
    FoldLeft(LAMBDA st, n :
                IF ~Valid(els[n].box) THEN [st EXCEPT !.up = Append(@, Top(st.open))]
                ELSE LET open == Popped(st.open, LAMBDA a : _contains(els[a].box, els[n].box))
                     IN [up |-> Append(st.up, Top(open)), open |-> Append(open, n)],
             [up |-> <<>>, open |-> <<>>], [n \in 1 .. Len(els) |-> n]).up

Kept(els) == SelectSeq([n \in 1 .. Len(els) |-> n], LAMBDA n : ~is_placeholder(els[n]))

depth_inferred(els) == \E n \in 1 .. Len(els) : els[n].depth < 0

\* Child ordinals from the root.
Paths(up) ==
    LET ordinal(n) == Cardinality({m \in 1 .. n - 1 : up[m] = up[n]})
        path[n \in 1 .. Len(up)] == IF up[n] = 0 THEN <<ordinal(n)>> ELSE Append(path[up[n]], ordinal(n))
    IN path

\* The kept elements with their parent and path; `of' is the element's place
\* in the window.
build_nodes(els) ==
    LET kept == Kept(els)
        k == [n \in 1 .. Len(kept) |-> els[kept[n]]]
        up == IF depth_inferred(k) THEN _parents_from_containment(k) ELSE _parents_from_depth(k)
    IN [n \in 1 .. Len(kept) |-> [of |-> kept[n], up |-> up[n], path |-> Paths(up)[n], blind |-> k[n].blind]]

Init ==
    /\ window \in Windows /\ nodes = <<>>
    /\ i = 0 /\ pc = "walk" /\ s1 = 0 /\ copy = <<>> /\ tries = 0
    /\ refs = <<>> /\ accounted = 0 /\ copied = 0
    /\ report = [requested |-> 0, budget |-> 0, tearing |-> 0, errors |-> 0]
    /\ buffer = <<0, 0>> /\ seq = 0 /\ drawing = 0

Walk ==
    /\ pc = "walk"
    /\ nodes' = build_nodes(window)
    /\ pc' = "stitch" /\ i' = 1
    /\ UNCHANGED <<window, s1, copy, tries, results, producer>>

-----------------------------------------------------------------------------
(* _stitch_dib *)

is_blind(n) == nodes[n].blind
Count(field) == [report EXCEPT ![field] = @ + 1]
NextNode == i' = i + 1 /\ pc' = "stitch"

Sees ==
    /\ pc = "stitch" /\ i <= Len(nodes) /\ ~is_blind(i)
    /\ NextNode
    /\ UNCHANGED <<window, nodes, s1, copy, tries, results, producer>>

\* A provider that raises, has nothing for the node, or hands out a frame that
\* cannot be read (bounds, format, wrong type): the node is kept without it.
inspect_fails ==
    /\ pc = "stitch" /\ i <= Len(nodes) /\ is_blind(i)
    /\ \E f \in {"requested", "errors"} :
          report' = [report EXCEPT !.requested = @ + 1, !.errors = IF f = "errors" THEN @ + 1 ELSE @]
    /\ NextNode
    /\ UNCHANGED <<window, nodes, s1, copy, tries, refs, accounted, copied, producer>>

\* The provider made the reference itself (a VisualReference): nothing is read.
Given == -1
inspect_given ==
    /\ pc = "stitch" /\ i <= Len(nodes) /\ is_blind(i)
    /\ IF accounted + NominalBytes > BudgetBytes
       THEN /\ report' = [report EXCEPT !.requested = @ + 1, !.budget = @ + 1]
            /\ UNCHANGED <<refs, accounted>>
       ELSE /\ report' = Count("requested")
            /\ refs' = Append(refs, [of |-> i, content |-> <<>>, seq |-> Given])
            /\ accounted' = accounted + NominalBytes
    /\ NextNode
    /\ UNCHANGED <<window, nodes, s1, copy, tries, copied, producer>>

\* The frame's bytes are held against what is left of the budget.
inspect ==
    /\ pc = "stitch" /\ i <= Len(nodes) /\ is_blind(i)
    /\ IF FrameBytes > BudgetBytes - accounted
       THEN /\ report' = [report EXCEPT !.requested = @ + 1, !.budget = @ + 1, !.errors = @ + 1]
            /\ NextNode /\ UNCHANGED tries
       ELSE /\ report' = Count("requested")
            /\ pc' = "first" /\ tries' = 0 /\ UNCHANGED i
    /\ UNCHANGED <<window, nodes, s1, copy, refs, accounted, copied, producer>>

\* An attempt that failed: the next one, or DibTearError.
Torn ==
    IF tries < Retries
    THEN pc' = "first" /\ tries' = tries + 1 /\ UNCHANGED <<i, report>>
    ELSE NextNode /\ report' = [report EXCEPT !.tearing = @ + 1, !.errors = @ + 1] /\ UNCHANGED tries

SettledAlways(s) == TRUE
Settled(s) == s % 2 = 0

SampleFirst ==
    /\ pc = "first"
    /\ s1' = seq
    /\ IF Settled(seq) THEN pc' = "copy" /\ UNCHANGED <<i, tries, report>> ELSE Torn
    /\ copy' = <<>>
    /\ UNCHANGED <<window, nodes, refs, accounted, copied, producer>>

_slice ==
    /\ pc = "copy"
    /\ copy' = Append(copy, buffer[Len(copy) + 1])
    /\ pc' = IF Len(copy') = 2 THEN "second" ELSE "copy"
    /\ UNCHANGED <<window, nodes, i, s1, tries, results, producer>>

\* The second sample, and the reference with its nominal size.
SampleSecond ==
    /\ pc = "second"
    /\ IF seq # s1 THEN Torn /\ UNCHANGED <<refs, accounted, copied>>
       ELSE /\ NextNode /\ UNCHANGED tries
            /\ IF accounted + NominalBytes > BudgetBytes
               THEN report' = Count("budget") /\ UNCHANGED <<refs, accounted, copied>>
               ELSE /\ refs' = Append(refs, [of |-> i, content |-> copy, seq |-> s1])
                    /\ accounted' = accounted + NominalBytes
                    /\ copied' = copied + FrameBytes
                    /\ UNCHANGED report
    /\ UNCHANGED <<window, nodes, s1, copy, producer>>

-----------------------------------------------------------------------------
(* The cooperating producer (outside this repository): the counter is odd   *)
(* while a frame is written, half by half.                                  *)

Frame == (seq + 1) \div 2

BeginFrame == drawing = 0 /\ Frame < MaxFrames /\ seq' = seq + 1 /\ drawing' = 1 /\ UNCHANGED buffer
DrawHalf == drawing \in 1 .. 2 /\ buffer' = [buffer EXCEPT ![drawing] = Frame] /\ drawing' = drawing + 1 /\ UNCHANGED seq
EndFrame == drawing = 3 /\ seq' = seq + 1 /\ drawing' = 0 /\ UNCHANGED buffer

Produce ==
    /\ pc # "walk" /\ i <= Len(nodes)
    /\ BeginFrame \/ DrawHalf \/ EndFrame
    /\ UNCHANGED <<window, nodes, reader, results>>

Next == Walk \/ Sees \/ inspect \/ inspect_given \/ inspect_fails \/ SampleFirst \/ _slice \/ SampleSecond \/ Produce

Spec == Init /\ [][Next]_vars

-----------------------------------------------------------------------------
Above(n) ==
    LET up[m \in 0 .. Len(window)] == IF m = 0 THEN {} ELSE {window[m].up} \cup up[window[m].up]
    IN up[n] \ {0}

NearestKept(n) ==
    LET above == {m \in 1 .. Len(nodes) : nodes[m].of \in Above(nodes[n].of)}
    IN IF above = {} THEN 0 ELSE CHOOSE m \in above : \A o \in above : o <= m

\* Where only childless elements were pruned, the tree that comes back is the
\* window's, down to the path of every node (_parents_from_depth, build_nodes).
TreeIsTheWindows ==
    ~depth_inferred(window) /\ (\A m \in 1 .. Len(window) : window[m].up # 0 => ~window[window[m].up].ghost)
    => \A n \in 1 .. Len(nodes) :
          /\ nodes[n].up = NearestKept(n)
          /\ Len(nodes[n].path) - 1 = window[nodes[n].of].depth
          /\ \A m \in 1 .. n - 1 : nodes[m].path # nodes[n].path

\* "A pruned node's children re-attach to its nearest kept ancestor", and the
\* parents are "exact for a depth-first pre-order walk, including gaps left by
\* nodes the provider or pruning dropped".
ParentIsNearestKept ==
    ~depth_inferred(window) => \A n \in 1 .. Len(nodes) : nodes[n].up = NearestKept(n)

\* No reference is made from a torn copy: both halves are of the settled frame
\* the counter named, however the producer draws in between (read_tearfree).
NoTornReference ==
    \A r \in ToSet(refs) : r.seq # Given => r.content = <<r.seq \div 2, r.seq \div 2>>

\* "Total DIB size per observation is capped at dib_budget_bytes": the frames
\* that were read and attached fit the budget.
ReadFitsBudget == copied <= BudgetBytes
=============================================================================
