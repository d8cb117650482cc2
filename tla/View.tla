-------------------------------- MODULE View --------------------------------
(***************************************************************************)
(* The operator's structural view: the node's SnapshotPublisher turns the  *)
(* loop's element list into a full tree and then deltas, the App's         *)
(* inspector folds them, and RESYNC asks for the whole tree again.         *)
(*                                                                         *)
(* Snapshots travel on the session's unreliable channel: `wire' loses and  *)
(* reorders them (a duplicate is refused by the envelope's replay guard,   *)
(* module Session).  RESYNC is reliable and may only be given up.  Two     *)
(* threads publish: the loop and the session; what each sends is built     *)
(* under the lock and sent outside it.                                     *)
(*                                                                         *)
(* The node builds its publisher with the default window and the loop      *)
(* passes neither a window, a focus nor a DIB, so the model has one window *)
(* and no focus or DIB references.  An element is its identity and its     *)
(* look (bounds and flags).                                                *)
(***************************************************************************)
EXTENDS Integers, Sequences, FiniteSets, SequencesExt

CONSTANTS
    Screens,      \* the element lists the loop may offer: sequences of [id, look]
    FullEvery,    \* every so many packets the tree is sent whole (0: never)
    ResyncEvery,  \* at most one automatic RESYNC in so much time
    MaxNodes,     \* elements published at most
    MaxGen,       \* BOUND: generations a publisher reaches
    MaxAsks,      \* BOUND: RESYNC requests on the way
    MaxTime,      \* BOUND: the App's clock
    MaxRestarts   \* BOUND: restarts of the node

VARIABLES
    handles, tree, generation, sinceFull, needFull,  \* SnapshotPublisher
    raising,     \* threads whose send raised, not yet back under the lock
    wire,        \* snapshots on the way
    view,        \* AppController.view
    asked,       \* RESYNC requests on the way
    lastResync, now, restarts,
    published    \* ghost: every tree that was published, by generation

pubVars == <<handles, tree, generation, sinceFull, needFull>>
vars == <<pubVars, raising, wire, view, asked, lastResync, now, restarts, published>>

ROOT == 0
Threads == {"loop", "session"}
EMPTY == [gen |-> -1, nodes |-> <<>>, needs_resync |-> TRUE]
Parent(h) == IF h = ROOT THEN -1 ELSE ROOT

Without(f, S) == [x \in DOMAIN f \ S |-> f[x]]
Under(f, g) == [x \in DOMAIN f \cup DOMAIN g |-> IF x \in DOMAIN f THEN f[x] ELSE g[x]]

-----------------------------------------------------------------------------
(* The node: SnapshotPublisher *)

\* The identity key of the i-th element: its identity and its rank among the
\* equal ones before it.
Key(els, i) == <<els[i].id, Cardinality({j \in 1 .. i - 1 : els[j].id = els[i].id})>>

_read(els) == SubSeq(els, 1, IF Len(els) < MaxNodes THEN Len(els) ELSE MaxNodes)

\* Handles are given once per identity, in the order of first sight.
_handle(known, els) ==
    FoldLeft(LAMBDA h, i : IF Key(els, i) \in DOMAIN h THEN h
                           ELSE Under(h, Key(els, i) :> Cardinality(DOMAIN h) + 1),
             known, [i \in 1 .. Len(els) |-> i])

_build(known, els) ==
    [h \in {ROOT} \cup {known[Key(els, i)] : i \in 1 .. Len(els)} |->
        IF h = ROOT THEN "window"
        ELSE els[CHOOSE i \in 1 .. Len(els) : known[Key(els, i)] = h].look]

_diff(old, new) ==
    [add |-> Without(new, DOMAIN old),
     upd |-> [h \in {x \in DOMAIN new \cap DOMAIN old : new[x] # old[x]} |-> new[h]],
     rem |-> DOMAIN old \ DOMAIN new]

\* A delta names the generation it was built on.
_packet(new, full) ==
    [gen |-> generation + 1, full |-> full,
     base |-> IF full THEN -1 ELSE generation,
     nodes |-> IF full THEN [add |-> new, upd |-> <<>>, rem |-> {}] ELSE _diff(tree, new)]

\* The generation is taken under the lock; the send that follows may raise.
_emit(new, pkt, thread) ==
    /\ generation < MaxGen
    /\ generation' = generation + 1
    /\ sinceFull' = IF pkt.full THEN 0 ELSE sinceFull + 1
    /\ needFull' = (needFull /\ ~pkt.full)
    /\ published' = published \cup {[gen |-> generation + 1, nodes |-> new]}
    /\ \/ wire' = wire \cup {pkt} /\ UNCHANGED raising
       \/ raising' = raising \cup {thread} /\ UNCHANGED wire

publish(els) ==
    LET nodes == _read(els)
        known == _handle(handles, nodes)
        new == _build(known, nodes)
        full == needFull \/ (FullEvery > 0 /\ sinceFull + 1 >= FullEvery)
    IN /\ "loop" \notin raising
       /\ handles' = known
       /\ tree' = new
       /\ IF ~full /\ new = tree
          THEN UNCHANGED <<generation, sinceFull, needFull, published, wire, raising>>
          ELSE _emit(new, _packet(new, full), "loop")
       /\ UNCHANGED <<view, asked, lastResync, now, restarts>>

\* The App's RESYNC reached the bridge.
request_full ==
    /\ asked > 0 /\ "session" \notin raising
    /\ asked' = asked - 1
    /\ IF generation < 0
       THEN needFull' = TRUE /\ UNCHANGED <<generation, sinceFull, published, wire, raising>>
       ELSE _emit(tree, _packet(tree, TRUE), "session")
    /\ UNCHANGED <<handles, tree, view, lastResync, now, restarts>>

\* A thread whose send raised asks for a full snapshot next.
send_raised ==
    \E t \in raising :
        /\ raising' = raising \ {t}
        /\ needFull' = TRUE
        /\ UNCHANGED <<handles, tree, generation, sinceFull, wire, view, asked, lastResync, now,
                       restarts, published>>

\* The node restarts, or a new session replaces this one: a new publisher.
_accept ==
    /\ restarts < MaxRestarts
    /\ restarts' = restarts + 1
    /\ handles' = <<>> /\ tree' = <<>> /\ generation' = -1 /\ sinceFull' = 0
    /\ needFull' = TRUE /\ raising' = {}
    /\ UNCHANGED <<wire, view, asked, lastResync, now, published>>

-----------------------------------------------------------------------------
(* The App: inspector.apply and AppController *)

\* Every node's parent is in the tree.
_check_tree(nodes) == \A h \in DOMAIN nodes : Parent(h) \in DOMAIN nodes \cup {-1}

_subtree(nodes, h) == {x \in DOMAIN nodes : x = h \/ Parent(x) = h}

\* A delta fits when it adds what is new, and changes and removes what is known.
Fits(nodes, d) ==
    /\ DOMAIN d.add \cap DOMAIN nodes = {}
    /\ DOMAIN d.upd \cup d.rem \subseteq DOMAIN nodes

_patch(nodes, d) ==
    Without(Under(d.upd, Under(d.add, nodes)), UNION {_subtree(nodes, h) : h \in d.rem})

_desync(v) == [v EXCEPT !.needs_resync = TRUE]

\* The mutant of NamesAnother: the base generation is not looked at.
NamesAnotherIgnored(v, pkt) == FALSE

\* A delta applies only to the generation it names.
NamesAnother(v, pkt) == pkt.base # v.gen

apply(v, pkt) ==
    LET new == IF pkt.full THEN pkt.nodes.add ELSE _patch(v.nodes, pkt.nodes)
    IN IF pkt.gen <= v.gen \/ (~pkt.full /\ v.needs_resync) THEN v
       ELSE IF ~pkt.full /\ (NamesAnother(v, pkt) \/ ~Fits(v.nodes, pkt.nodes)) THEN _desync(v)
       ELSE IF ~_check_tree(new) THEN _desync(v)
       ELSE [gen |-> pkt.gen, nodes |-> new, needs_resync |-> FALSE]

\* One RESYNC leaves the App.
request_resync ==
    /\ asked < MaxAsks
    /\ asked' = asked + 1
    /\ lastResync' = now

_maybe_resync(v) ==
    IF v.needs_resync /\ now - lastResync >= ResyncEvery /\ asked < MaxAsks
    THEN request_resync
    ELSE UNCHANGED <<asked, lastResync>>

on_envelope ==
    \E pkt \in wire :
        /\ wire' = wire \ {pkt}
        /\ view' = apply(view, pkt)
        /\ _maybe_resync(apply(view, pkt))
        /\ UNCHANGED <<pubVars, raising, now, restarts, published>>

\* The operator's /resync, the hello at the start, the node reachable again.
operator_resync ==
    /\ request_resync
    /\ UNCHANGED <<pubVars, raising, wire, view, now, restarts, published>>

-----------------------------------------------------------------------------
(* The link and the clock *)

lose ==
    /\ \/ \E pkt \in wire : wire' = wire \ {pkt} /\ UNCHANGED asked
       \/ asked > 0 /\ asked' = asked - 1 /\ UNCHANGED wire
    /\ UNCHANGED <<pubVars, raising, view, lastResync, now, restarts, published>>

tick ==
    /\ now < MaxTime
    /\ now' = now + 1
    /\ UNCHANGED <<pubVars, raising, wire, view, asked, lastResync, restarts, published>>

Init ==
    /\ handles = <<>> /\ tree = <<>> /\ generation = -1 /\ sinceFull = 0 /\ needFull = TRUE
    /\ raising = {} /\ wire = {} /\ view = EMPTY
    /\ asked = 1 /\ lastResync = 0 /\ now = 0 /\ restarts = 0
    /\ published = {}

Next ==
    \/ \E els \in Screens : publish(els)
    \/ request_full \/ send_raised \/ _accept
    \/ on_envelope \/ operator_resync
    \/ lose \/ tick

Spec == Init /\ [][Next]_vars

-----------------------------------------------------------------------------
\* Handles are the numbers 1, 2, ... given once each; the tree the publisher
\* holds and the one the App shows are trees under the window node, and the
\* App is never ahead of a publisher that has not restarted
\* (publisher.py _handle and _build, inspector.py _check_tree).
TypeOK ==
    /\ {handles[k] : k \in DOMAIN handles} = 1 .. Cardinality(DOMAIN handles)
    /\ DOMAIN tree \subseteq 0 .. Cardinality(DOMAIN handles)
    /\ generation \in -1 .. MaxGen /\ sinceFull \in 0 .. MaxGen
    /\ needFull \in BOOLEAN /\ raising \subseteq Threads
    /\ asked \in 0 .. MaxAsks /\ lastResync \in 0 .. now /\ now \in 0 .. MaxTime
    /\ _check_tree(view.nodes)
    /\ restarts = 0 => view.gen <= generation

\* What the operator is shown without a resync warning is a tree the node
\* really published under that generation: a lost or late delta never leaves a
\* tree made of two (inspector.py: "The App then asks for a full snapshot
\* rather than showing a guess"; protocol.py base_generation).
NeverAGuess ==
    ~view.needs_resync => [gen |-> view.gen, nodes |-> view.nodes] \in published
=============================================================================
