------------------------------- MODULE Fusion -------------------------------
(***************************************************************************)
(* Fusion of readings of a window (agent/observation.py).  The capture     *)
(* layer reads windows with two senses while they are laid out again and   *)
(* time passes, and at any time fuses what it has.  A reading is [source,  *)
(* win, gen, at, conf, geo]: the sense, the window, its generation and the *)
(* time when it was taken, a confidence in hundredths and a box, a span    *)
(* <<left, right>> of some height; what else a reading says (the semantic  *)
(* nodes, the bitmap reference) is named by the reading itself.            *)
(***************************************************************************)
EXTENDS Integers, Sequences, FiniteSets

CONSTANTS
    Wins, Geos,   \* windows; the boxes a reading may carry
    NoGeo,        \* the box of a reading without geometry
    BitmapGeo,    \* the box of a bitmap: its width and height at the origin
    SkewLimit,    \* FusionConfig.time_skew_ms
    MaxReadings,  \* BOUND: readings fused together
    MaxGen,       \* BOUND: generation of a window
    MaxTime       \* BOUND: the clock

VARIABLES gen, now, obs, result

vars == <<gen, now, obs, result>>

Nothing == [anchor |-> 0, gen |-> 0, ax |-> 0, dib |-> 0, geo |-> 0, from |-> {}, kinds |-> {}]

\* Trust order among the sources, and pairs that say how sure a reading is.
Rank(o) == IF o.source = "ax" THEN 3 ELSE 2
Valid(o) == o.geo # NoGeo

\* Python's max: the first of the indices in S with the greatest key.
FirstMax(S, Key(_)) ==
    CHOOSE i \in S : \A j \in S : Key(j) < Key(i) \/ (Key(j) = Key(i) /\ i <= j)

Init ==
    /\ gen = [w \in Wins |-> 1] /\ now = 1
    /\ obs = <<>> /\ result = Nothing

-----------------------------------------------------------------------------
Relayout(w) == result = Nothing /\ gen[w] < MaxGen /\ gen' = [gen EXCEPT ![w] = @ + 1] /\ UNCHANGED <<now, obs, result>>
Tick == result = Nothing /\ now < MaxTime /\ now' = now + 1 /\ UNCHANGED <<gen, obs, result>>

Take(o) ==
    /\ Len(obs) < MaxReadings /\ result = Nothing
    /\ obs' = Append(obs, o)
    /\ UNCHANGED <<gen, now, result>>

Reading(source, w, conf, geo) ==
    [source |-> source, win |-> w, gen |-> gen[w], at |-> now, conf |-> conf, geo |-> geo]

\* A populated tree, or the standard empty observation.
observe_ax(w) ==
    \/ \E g \in Geos \cup {NoGeo} : Take(Reading("ax", w, 90, g))
    \/ Take(Reading("ax", w, 0, NoGeo))

observe_dib(w) == Take(Reading("dib", w, 70, BitmapGeo))

-----------------------------------------------------------------------------
(* fuse *)

All == 1 .. Len(obs)

\* Confidence, then rank, then the earlier reading.
_anchor_window == obs[FirstMax(All, LAMBDA i : 10000 * obs[i].conf + 100 * Rank(obs[i]) - obs[i].at)].win

_pick(S, source) ==
    LET cands == {i \in S : obs[i].source = source}
    IN IF cands = {} THEN 0
       ELSE FirstMax(cands, LAMBDA i : 10000 * obs[i].conf + 100 * obs[i].gen - obs[i].at)

\* Intersection over union, held against 0.6.
Overlap(a, b) == LET l == IF a[1] > b[1] THEN a[1] ELSE b[1]
                     r == IF a[2] < b[2] THEN a[2] ELSE b[2]
                 IN IF r > l THEN r - l ELSE 0
Agree(a, b) == 10 * Overlap(a, b) >= 6 * ((a[2] - a[1]) + (b[2] - b[1]) - Overlap(a, b))

same_window(w) == {i \in All : obs[i].win = w}
freshest(S) == obs[FirstMax(S, LAMBDA j : obs[j].gen)].gen

contributorsOfAnyAge(S) == S
contributors(S) == LET g == freshest(S) IN {i \in S : obs[i].gen = g}

\* Only neighbours in the list.
geometry_disagreesNext(C) ==
    \E i, j \in C : j = i + 1 /\ Valid(obs[i]) /\ Valid(obs[j]) /\ ~Agree(obs[i].geo, obs[j].geo)
geometry_disagrees(C) ==
    \E i, j \in C : i < j /\ Valid(obs[i]) /\ Valid(obs[j]) /\ ~Agree(obs[i].geo, obs[j].geo)
time_disagrees(C) == \E i, j \in C : obs[i].at - obs[j].at > SkewLimit

\* Each kind of conflict lowers the fused confidence once.
conflicts(S, C) ==
    {k \in {"window-identity"} : All # S} \cup {k \in {"generation-skew"} : S # C}
    \cup {k \in {"geometry"} : geometry_disagrees(C)} \cup {k \in {"time-skew"} : time_disagrees(C)}

fused_geometry(C) ==
    LET S == {i \in C : Valid(obs[i])}
    IN IF S = {} THEN 0 ELSE FirstMax(S, LAMBDA i : 1000 * Rank(obs[i]) + obs[i].conf)

fuse ==
    /\ obs # <<>> /\ result = Nothing
    /\ LET w == _anchor_window
           S == same_window(w)
           C == contributors(S)
       IN result' = [anchor |-> w, gen |-> freshest(S), ax |-> _pick(C, "ax"), dib |-> _pick(C, "dib"),
                     geo |-> fused_geometry(C), from |-> C, kinds |-> conflicts(S, C)]
    /\ UNCHANGED <<gen, now, obs>>

Next ==
    \/ \E w \in Wins : Relayout(w) \/ observe_ax(w) \/ observe_dib(w)
    \/ Tick \/ fuse

Spec == Init /\ [][Next]_vars

-----------------------------------------------------------------------------
Used == {result.ax, result.dib, result.geo} \ {0}

\* Nothing of a reading from before the latest layout that was seen, or of
\* another window, gets into the fused observation: not its nodes, not its
\* bitmap, not its box (fuse).
FusedIsFresh ==
    \A u \in Used : \A i \in All :
        obs[i].win = result.anchor => obs[u].win = result.anchor /\ obs[i].gen <= obs[u].gen

\* A fusion without a conflict means what it says: all the readings are of one
\* window at one generation, taken close together, and every two boxes agree.
CleanMeansAgreement ==
    result # Nothing /\ result.kinds = {} =>
        \A i, j \in All :
            /\ obs[i].win = obs[j].win /\ obs[i].gen = obs[j].gen
            /\ obs[i].at - obs[j].at <= SkewLimit
            /\ (Valid(obs[i]) /\ Valid(obs[j]) => Agree(obs[i].geo, obs[j].geo))
=============================================================================
