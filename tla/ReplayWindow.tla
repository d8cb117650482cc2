---------------------------- MODULE ReplayWindow ----------------------------
(***************************************************************************)
(* sealed.py, class ReplayWindow: the highest counter seen and a bitmap of *)
(* the Size counters up to it.  The bitmap is the set of its positions     *)
(* that are 1: position i stands for the counter highest - i.              *)
(***************************************************************************)
EXTENDS Integers

CONSTANT Size    \* self.size

ASSUME SizeAssumption == Size \in Nat \ {0}

None == -1       \* highest before the first frame

Window == [highest : Nat \cup {None}, bits : SUBSET (0 .. (Size - 1))]

Empty == [highest |-> None, bits |-> {}]

\* Mutation of ShiftBits: the shifted bitmap is not cut to size bits.
ShiftBitsUncut(bits, shift) == {0} \cup {i + shift : i \in bits}

\* The bits moved up by a jump of the highest counter, cut to the window.
ShiftBits(bits, shift) == {i \in 0 .. (Size - 1) : i = 0 \/ i - shift \in bits}

\* Mutation of accepts: the oldest counter's bit is not looked at.
AcceptsAtEdge(w, ctr) ==
    \/ w.highest = None
    \/ ctr > w.highest
    \/ w.highest - ctr = Size - 1
    \/ w.highest - ctr < Size /\ w.highest - ctr \notin w.bits

\* accept(ctr) returns True
accepts(w, ctr) ==
    \/ w.highest = None
    \/ ctr > w.highest
    \/ w.highest - ctr < Size /\ w.highest - ctr \notin w.bits

\* Mutation of accepted: the bits are not moved when the highest counter jumps.
AcceptedUnmoved(w, ctr) ==
    IF w.highest = None \/ ctr > w.highest
    THEN [highest |-> ctr, bits |-> w.bits \cup {0}]
    ELSE [w EXCEPT !.bits = @ \cup {w.highest - ctr}]

\* The window after accept(ctr) returned True; a refusal records nothing.
accepted(w, ctr) ==
    CASE w.highest = None -> [highest |-> ctr, bits |-> {0}]
      [] w.highest # None /\ ctr > w.highest ->
            [highest |-> ctr, bits |-> ShiftBits(w.bits, ctr - w.highest)]
      [] OTHER -> [w EXCEPT !.bits = @ \cup {w.highest - ctr}]

=============================================================================
