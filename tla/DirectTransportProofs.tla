------------------------ MODULE DirectTransportProofs ------------------------
(* Proofs about the replay window and about DirectTransport, for every window *)
(* size, every number of nodes and every bound; and about Upgrade, for any    *)
(* endpoints, probes and order in which the network hands frames over.        *)
EXTENDS DirectTransport, Upgrade, TLAPS

-----------------------------------------------------------------------------
(* The window on its own: D is the set of counters accepted so far. *)

\* What a window must know of the counters accepted so far.
Exact(w, D) ==
    IF w.highest = None THEN D = {}
    ELSE /\ w.highest \in D /\ \A c \in D : c =< w.highest
         /\ w.bits = {i \in 0 .. (Size - 1) : w.highest - i \in D}

\* accept() keeps the window a window.
LEMMA WindowType ==
    ASSUME NEW w \in Window, NEW c \in Nat, accepts(w, c)
    PROVE  accepted(w, c) \in Window /\ accepted(w, c).highest \in Nat
  <1> USE SizeAssumption
  <1>1. CASE w.highest = None
    BY <1>1 DEF Window, accepted, None
  <1>2. CASE w.highest # None /\ c > w.highest
    <2>1. ShiftBits(w.bits, c - w.highest) \subseteq 0 .. (Size - 1)
      BY DEF ShiftBits
    <2> QED BY <1>2, <2>1 DEF Window, accepted, None
  <1>3. CASE w.highest # None /\ ~(c > w.highest)
    <2>1. w.highest \in Nat /\ w.highest - c \in 0 .. (Size - 1)
      BY <1>3 DEF Window, accepts, None
    <2>2. accepted(w, c) = [w EXCEPT !.bits = @ \cup {w.highest - c}]
      BY <1>3 DEF accepted
    <2> QED BY <2>1, <2>2 DEF Window
  <1> QED BY <1>1, <1>2, <1>3

\* A counter accept() takes was not taken before.
LEMMA AcceptsFresh ==
    ASSUME NEW w \in Window, NEW D \in SUBSET Nat, Exact(w, D),
           NEW c \in Nat, accepts(w, c)
    PROVE  c \notin D
  <1> SUFFICES ASSUME c \in D PROVE FALSE
    OBVIOUS
  <1>1. w.highest # None /\ c =< w.highest /\ w.highest \in Nat
    BY DEF Exact, Window
  <1>2. w.highest - c < Size /\ w.highest - c \notin w.bits
    BY <1>1 DEF accepts
  <1>3. w.highest - c \in 0 .. (Size - 1)
    BY <1>1, <1>2, SizeAssumption
  <1>4. w.highest - (w.highest - c) = c
    BY <1>1
  <1> QED BY <1>1, <1>2, <1>3, <1>4 DEF Exact

\* After accept(c) the window is exact for the counters with c among them.
LEMMA AcceptedExact ==
    ASSUME NEW w \in Window, NEW D \in SUBSET Nat, Exact(w, D),
           NEW c \in Nat, accepts(w, c)
    PROVE  Exact(accepted(w, c), D \cup {c})
  <1> USE SizeAssumption
  <1>1. CASE w.highest = None
    <2>1. D = {}
      BY <1>1 DEF Exact
    <2>2. accepted(w, c) = [highest |-> c, bits |-> {0}]
      BY <1>1 DEF accepted
    <2>3. {0} = {i \in 0 .. (Size - 1) : c - i \in {c}}
      OBVIOUS
    <2> QED BY <2>1, <2>2, <2>3 DEF Exact, None
  <1>2. CASE w.highest # None /\ c > w.highest
    <2>1. accepted(w, c) = [highest |-> c, bits |-> ShiftBits(w.bits, c - w.highest)]
      BY <1>2 DEF accepted
    <2>2. w.highest \in Nat
      BY <1>2 DEF Window
    <2>3. \A x \in D \cup {c} : x =< c
      <3>1. \A x \in D : x =< w.highest
        BY <1>2 DEF Exact
      <3> QED BY <1>2, <2>2, <3>1
    <2>4. ASSUME NEW i \in 0 .. (Size - 1)
          PROVE  (i = 0 \/ i - (c - w.highest) \in w.bits) <=> c - i \in D \cup {c}
      <3>1. CASE i = 0
        BY <3>1
      <3>2. CASE i # 0
        <4>1. c - i # c
          BY <3>2
        <4>2. w.highest - (i - (c - w.highest)) = c - i
          BY <2>2
        <4>3. ASSUME i - (c - w.highest) \in w.bits PROVE c - i \in D
          BY <4>3, <4>2, <1>2 DEF Exact
        <4>4. ASSUME c - i \in D PROVE i - (c - w.highest) \in w.bits
          <5>1. c - i =< w.highest
            BY <4>4, <1>2 DEF Exact
          <5>2. i - (c - w.highest) \in 0 .. (Size - 1)
            BY <5>1, <1>2, <2>2
          <5> QED BY <5>2, <4>4, <4>2, <1>2 DEF Exact
        <4> QED BY <3>2, <4>1, <4>3, <4>4
      <3> QED BY <3>1, <3>2
    <2>5. ShiftBits(w.bits, c - w.highest) = {i \in 0 .. (Size - 1) : c - i \in D \cup {c}}
      BY <2>4 DEF ShiftBits
    <2> QED BY <2>1, <2>3, <2>5 DEF Exact, None
  <1>3. CASE w.highest # None /\ ~(c > w.highest)
    <2>1. w.highest \in Nat /\ w.highest - c \in 0 .. (Size - 1)
      BY <1>3 DEF Window, accepts
    <2>2. /\ accepted(w, c) = [w EXCEPT !.bits = @ \cup {w.highest - c}]
          /\ accepted(w, c).highest = w.highest
          /\ accepted(w, c).bits = w.bits \cup {w.highest - c}
      BY <1>3 DEF accepted, Window
    <2>3. w.bits \cup {w.highest - c} = {i \in 0 .. (Size - 1) : w.highest - i \in D \cup {c}}
      <3>1. ASSUME NEW i \in 0 .. (Size - 1)
            PROVE  (w.highest - i = c) <=> (i = w.highest - c)
        BY <2>1
      <3>2. w.bits = {i \in 0 .. (Size - 1) : w.highest - i \in D}
        BY <1>3 DEF Exact
      <3> QED BY <3>1, <3>2, <2>1
    <2>4. w.highest \in D \cup {c} /\ \A x \in D \cup {c} : x =< w.highest
      BY <1>3, <2>1 DEF Exact
    <2> QED BY <1>3, <2>2, <2>3, <2>4 DEF Exact
  <1> QED BY <1>1, <1>2, <1>3

-----------------------------------------------------------------------------
(* The transport *)

\* The counters n delivered from p since it started.
Delivered(n, p) == {x[2] : x \in {y \in got[n] : y[1] = p}}

\* The inductive invariant: every window is exact for what was delivered, and
\* no endpoint was set by a frame newer than the window's highest counter.
EpcBounded ==
    \A n, p \in Node :
        /\ epc[n][p] > 0 => epc[n][p] =< win[n][p].highest
        /\ endp[n][p] = NoAddr => epc[n][p] = 0

Inv == TypeOK /\ AtMostOnce /\ WindowExact /\ EpcBounded

LEMMA WindowExactIsExact == WindowExact <=> \A n, p \in Node : Exact(win[n][p], Delivered(n, p))
  BY DEF WindowExact, Exact, Delivered

LEMMA InitInv == Init => Inv
  <1> SUFFICES ASSUME Init PROVE Inv
    OBVIOUS
  <1> USE SizeAssumption, TransportConstants
  <1>1. Empty \in Window
    BY DEF Empty, Window, None
  <1>2. TypeOK
    BY <1>1 DEF Init, TypeOK
  <1>3. AtMostOnce /\ EpcBounded
    BY DEF Init, AtMostOnce, EpcBounded
  <1>4. WindowExact
    BY DEF Init, WindowExact, Empty
  <1> QED BY <1>2, <1>3, <1>4 DEF Inv

\* A step that leaves windows and deliveries alone keeps what relates them.
LEMMA QuietKeeps ==
    ASSUME Inv, UNCHANGED <<win, got, again>>
    PROVE  AtMostOnce' /\ WindowExact'
  <1>1. AtMostOnce'
    BY DEF Inv, AtMostOnce
  <1>2. \A n, p \in Node : Delivered(n, p)' = Delivered(n, p)
    BY DEF Delivered
  <1>3. \A n, p \in Node : Exact(win'[n][p], Delivered(n, p)')
    BY <1>2, WindowExactIsExact DEF Inv
  <1>4. WindowExact'
    BY <1>3 DEF WindowExact, Exact, Delivered
  <1> QED BY <1>1, <1>4

\* So does one that leaves the endpoints alone as well, given the types.
LEMMA QuietInv ==
    ASSUME Inv, UNCHANGED <<win, got, again, endp, epc>>, TypeOK'
    PROVE  Inv'
  <1>1. EpcBounded'
    BY DEF Inv, EpcBounded
  <1> QED BY <1>1, QuietKeeps DEF Inv

\* What accepting a frame does to the windows and the delivered frames.
LEMMA OpenKeeps ==
    ASSUME Inv, NEW n \in Node, NEW f \in Frame, _open(n, f)
    PROVE  /\ win' \in [Node -> [Node -> Window]]
           /\ got' \in [Node -> SUBSET (Node \X Nat)]
           /\ again' = {}
           /\ WindowExact'
           /\ win'[n][f.from].highest >= f.ctr /\ win'[n][f.from].highest \in Nat
           /\ \A m, p \in Node : win[m][p].highest # None =>
                 /\ win'[m][p].highest \in Nat
                 /\ win'[m][p].highest >= win[m][p].highest
  <1> DEFINE p == f.from  c == f.ctr  w == win[n][p]  D == Delivered(n, p)
  <1>1. p \in Node /\ c \in Nat /\ w \in Window /\ accepts(w, c)
    BY DEF _open, Inv, TypeOK, Frame
  <1>2. Exact(w, D) /\ D \in SUBSET Nat
    <2>1. Exact(w, D)
      BY <1>1, WindowExactIsExact DEF Inv
    <2>2. got[n] \subseteq Node \X Nat
      BY DEF Inv, TypeOK
    <2> QED BY <2>1, <2>2 DEF Delivered
  <1>3. accepted(w, c) \in Window /\ accepted(w, c).highest \in Nat
    BY <1>1, WindowType
  <1>4. c \notin D
    BY <1>1, <1>2, AcceptsFresh
  <1>5. Exact(accepted(w, c), D \cup {c})
    BY <1>1, <1>2, AcceptedExact
  <1>6. win' = [win EXCEPT ![n] = [win[n] EXCEPT ![p] = accepted(w, c)]]
    BY DEF _open
  <1>7. got' = [got EXCEPT ![n] = got[n] \cup {<<p, c>>}]
    BY DEF _open
  <1>8. win' \in [Node -> [Node -> Window]]
    BY <1>1, <1>3, <1>6 DEF Inv, TypeOK
  <1>9. got' \in [Node -> SUBSET (Node \X Nat)]
    BY <1>1, <1>7 DEF Inv, TypeOK
  <1>10. again' = {}
    <2>1. <<p, c>> \notin got[n]
      BY <1>4 DEF Delivered
    <2> QED BY <2>1 DEF _open, Inv, AtMostOnce
  <1>11. ASSUME NEW m \in Node, NEW q \in Node
         PROVE  /\ Exact(win'[m][q], Delivered(m, q)')
                /\ win[m][q].highest # None =>
                     win'[m][q].highest \in Nat /\ win'[m][q].highest >= win[m][q].highest
    <2>1. CASE m = n /\ q = p
      <3>1. win'[m][q] = accepted(w, c)
        BY <2>1, <1>1, <1>6 DEF Inv, TypeOK
      <3>2. Delivered(m, q)' = D \cup {c}
        <4>1. got'[n] = got[n] \cup {<<p, c>>}
          BY <1>7 DEF Inv, TypeOK
        <4>2. {y \in got'[n] : y[1] = p} = {y \in got[n] : y[1] = p} \cup {<<p, c>>}
          BY <4>1
        <4>3. Delivered(n, p)' = {x[2] : x \in {y \in got'[n] : y[1] = p}}
          BY DEF Delivered
        <4>4. <<p, c>>[2] = c
          OBVIOUS
        <4> QED BY <2>1, <4>2, <4>3, <4>4 DEF Delivered
      <3>3. accepted(w, c).highest >= w.highest \/ w.highest = None
        BY <1>1 DEF accepted, Window
      <3> HIDE DEF w, D
      <3> QED BY <3>1, <3>2, <3>3, <1>3, <1>5, <2>1 DEF w
    <2>2. CASE ~(m = n /\ q = p)
      <3>1. win'[m][q] = win[m][q]
        BY <2>2, <1>1, <1>6 DEF Inv, TypeOK
      <3>2. Delivered(m, q)' = Delivered(m, q)
        BY <2>2, <1>1, <1>7 DEF Delivered, Inv, TypeOK
      <3>3. Exact(win[m][q], Delivered(m, q))
        BY WindowExactIsExact DEF Inv
      <3>4. win[m][q] \in Window
        BY DEF Inv, TypeOK
      <3> QED BY <3>1, <3>2, <3>3, <3>4 DEF Window
    <2> QED BY <2>1, <2>2
  <1>12. WindowExact'
    <2>1. \A m, q \in Node : Exact(win'[m][q], Delivered(m, q)')
      BY <1>11
    <2> QED BY <2>1 DEF WindowExact, Exact, Delivered
  <1>13. win'[n][p].highest >= c /\ win'[n][p].highest \in Nat
    <2>1. win'[n][p] = accepted(w, c)
      BY <1>1, <1>6 DEF Inv, TypeOK
    <2>2. c \in D \cup {c} /\ accepted(w, c).highest # None
      BY <1>3 DEF None
    <2>3. c =< accepted(w, c).highest
      BY <1>5, <2>2 DEF Exact
    <2> QED BY <2>1, <2>3, <1>3, <1>1
  <1> QED BY <1>8, <1>9, <1>10, <1>11, <1>12, <1>13

\* The frame moves the peer's endpoint to a.
SetsEndpoint(n, f, a) ==
    /\ endp' = [endp EXCEPT ![n][f.from] = a]
    /\ epc' = [epc EXCEPT ![n][f.from] = f.ctr]

\* Receiving a frame, over either path, keeps the invariant.
LEMMA ReceiveInv ==
    ASSUME Inv, NEW n \in Node, NEW d \in net,
           open_relayed(n, d) \/ \E a \in Addr : _on_datagram(n, d, a)
    PROVE  Inv'
  <1> DEFINE f == d.frame
  <1>1. f \in Frame /\ f.from \in Node /\ f.ctr \in Nat
    BY DEF Inv, TypeOK, Datagram, Frame
  <1>2. _open(n, f) /\ UNCHANGED <<addr, ctr, box, net, moves, restarts>>
    BY DEF open_relayed, _on_datagram
  <1>3. /\ win' \in [Node -> [Node -> Window]]
        /\ got' \in [Node -> SUBSET (Node \X Nat)]
        /\ again' = {} /\ WindowExact'
        /\ win'[n][f.from].highest >= f.ctr /\ win'[n][f.from].highest \in Nat
        /\ \A m, p \in Node : win[m][p].highest # None =>
              /\ win'[m][p].highest \in Nat
              /\ win'[m][p].highest >= win[m][p].highest
    BY <1>1, <1>2, OpenKeeps
  <1>4. \/ endp' = endp /\ epc' = epc /\ heard' = heard
        \/ \E a \in Addr :
             /\ \/ endp' = endp /\ epc' = epc
                \/ SetsEndpoint(n, f, a)
             /\ heard' = [heard EXCEPT ![n] = @ \cup {f.from}]
    BY DEF open_relayed, _on_datagram, SetsEndpoint
  <1> HIDE DEF f
  <1>5. TypeOK'
    <2>1. endp' \in [Node -> [Node -> Addr \cup {NoAddr}]] /\ epc' \in [Node -> [Node -> Nat]]
      <3>1. CASE endp' = endp /\ epc' = epc
        BY <3>1 DEF Inv, TypeOK
      <3>2. ASSUME NEW a \in Addr, SetsEndpoint(n, f, a)
            PROVE  /\ endp' \in [Node -> [Node -> Addr \cup {NoAddr}]]
                   /\ epc' \in [Node -> [Node -> Nat]]
        BY <3>2, <1>1 DEF Inv, TypeOK, SetsEndpoint
      <3> QED BY <3>1, <3>2, <1>4
    <2>2. heard' \in [Node -> SUBSET Node]
      <3>1. heard' = heard \/ heard' = [heard EXCEPT ![n] = @ \cup {f.from}]
        BY <1>4
      <3> QED BY <3>1, <1>1 DEF Inv, TypeOK
    <2> QED BY <2>1, <2>2, <1>2, <1>3 DEF Inv, TypeOK
  <1>6. EpcBounded'
    <2> SUFFICES ASSUME NEW m \in Node, NEW p \in Node
                 PROVE  /\ epc'[m][p] > 0 => epc'[m][p] =< win'[m][p].highest
                        /\ endp'[m][p] = NoAddr => epc'[m][p] = 0
      BY DEF EpcBounded
    <2>1. CASE endp'[m][p] = endp[m][p] /\ epc'[m][p] = epc[m][p]
      <3>1. epc[m][p] \in Nat /\ win[m][p].highest \in Nat \cup {None}
        BY DEF Inv, TypeOK, Window
      <3>2. epc[m][p] > 0 => win[m][p].highest # None /\ epc[m][p] =< win[m][p].highest
        BY <3>1 DEF Inv, EpcBounded, None
      <3>3. endp[m][p] = NoAddr => epc[m][p] = 0
        BY DEF Inv, EpcBounded
      <3> QED BY <2>1, <3>1, <3>2, <3>3, <1>3
    <2>2. CASE m = n /\ p = f.from /\ \E a \in Addr : SetsEndpoint(n, f, a)
      <3>1. epc'[m][p] = f.ctr /\ endp'[m][p] # NoAddr
        BY <2>2, <1>1, AddrAssumption DEF Inv, TypeOK, SetsEndpoint
      <3> QED BY <3>1, <2>2, <1>1, <1>3
    <2>3. \/ endp'[m][p] = endp[m][p] /\ epc'[m][p] = epc[m][p]
          \/ m = n /\ p = f.from /\ \E a \in Addr : SetsEndpoint(n, f, a)
      <3>1. CASE endp' = endp /\ epc' = epc
        BY <3>1
      <3>2. ASSUME NEW a \in Addr, SetsEndpoint(n, f, a), ~(m = n /\ p = f.from)
            PROVE  endp'[m][p] = endp[m][p] /\ epc'[m][p] = epc[m][p]
        BY <3>2, <1>1 DEF Inv, TypeOK, SetsEndpoint
      <3> QED BY <3>1, <3>2, <1>4
    <2> QED BY <2>1, <2>2, <2>3
  <1> QED BY <1>3, <1>5, <1>6 DEF Inv, AtMostOnce

LEMMA NextInv == Inv /\ [Next]_vars => Inv'
  <1> SUFFICES ASSUME Inv, [Next]_vars PROVE Inv'
    OBVIOUS
  <1> USE SizeAssumption, TransportConstants
  <1>1. ASSUME NEW n \in Node, NEW p \in Node, add_peer_binding(n, p) PROVE Inv'
    <2>1. TypeOK'
      BY <1>1 DEF add_peer_binding, Inv, TypeOK
    <2> QED BY <1>1, <2>1, QuietInv DEF add_peer_binding
  <1>2. ASSUME NEW n \in Node, NEW p \in Node, set_peer_endpoint(n, p) PROVE Inv'
    <2>1. TypeOK'
      BY <1>2 DEF set_peer_endpoint, Inv, TypeOK
    <2>2. AtMostOnce' /\ WindowExact'
      BY <1>2, QuietKeeps DEF set_peer_endpoint
    <2>3. EpcBounded'
      <3>1. \A m, q \in Node : endp'[m][q] = endp[m][q] \/ endp'[m][q] \in Addr
        BY <1>2 DEF set_peer_endpoint, Inv, TypeOK
      <3>2. \A m, q \in Node : endp'[m][q] = NoAddr => endp[m][q] = NoAddr
        BY <3>1, AddrAssumption
      <3> QED BY <1>2, <3>2 DEF set_peer_endpoint, Inv, EpcBounded
    <2> QED BY <2>1, <2>2, <2>3 DEF Inv
  <1>3. ASSUME NEW n \in Node, NEW p \in Node, route(n, p) PROVE Inv'
    <2> DEFINE d == IF endp[n][p] = NoAddr THEN 0 ELSE 1
               r == IF direct_is_fresh(n, p) THEN 0 ELSE 1
    <2>1. /\ d \in {0, 1} /\ r \in {0, 1}
          /\ ctr' = [ctr EXCEPT ![n] = @ + d + r]
          /\ net' = net \cup (IF d = 1 THEN {Direct(n, p, ctr[n] + 1)} ELSE {})
                        \cup (IF r = 1 THEN {Relayed(n, p, ctr[n] + d + 1)} ELSE {})
      BY <1>3 DEF route
    <2>2. ctr[n] \in Nat /\ addr[n] \in Addr /\ (d = 1 => endp[n][p] \in Addr)
      BY DEF Inv, TypeOK
    <2>3. d = 1 => Direct(n, p, ctr[n] + 1) \in Datagram
      BY <2>2 DEF Direct, build_frame, seal, _encode_frame, Datagram, Frame
    <2>4. Relayed(n, p, ctr[n] + d + 1) \in Datagram
      BY <2>1, <2>2 DEF Relayed, build_frame, seal, _encode_frame, Datagram, Frame
    <2>5. ctr' \in [Node -> Nat]
      <3>1. ctr[n] + d + r \in Nat
        BY <2>1, <2>2
      <3> HIDE DEF d, r
      <3> QED BY <2>1, <3>1 DEF Inv, TypeOK
    <2>6. net' \subseteq Datagram
      <3> HIDE DEF d, r
      <3> QED BY <2>1, <2>3, <2>4 DEF Inv, TypeOK
    <2>7. UNCHANGED <<addr, box, win, endp, heard, moves, restarts, got, again, epc>>
      BY <1>3 DEF route
    <2>8. TypeOK'
      BY <2>5, <2>6, <2>7 DEF Inv, TypeOK
    <2> QED BY <2>7, <2>8, QuietInv
  <1>4. ASSUME NEW n \in Node, NEW p \in Node, Silence(n, p) PROVE Inv'
    <2>1. TypeOK'
      BY <1>4 DEF Silence, Inv, TypeOK
    <2> QED BY <1>4, <2>1, QuietInv DEF Silence
  <1>5. ASSUME NEW n \in Node, NEW d \in net,
               open_relayed(n, d) \/ \E a \in Addr : _on_datagram(n, d, a)
        PROVE  Inv'
    BY <1>5, ReceiveInv
  <1>6. ASSUME NEW n \in Node, Restart(n) PROVE Inv'
    <2>1. Empty \in Window /\ Empty.highest = None
      BY DEF Empty, Window, None
    <2>2. TypeOK'
      BY <1>6, <2>1 DEF Restart, Inv, TypeOK
    <2>3. AtMostOnce'
      BY <1>6 DEF Restart, Inv, AtMostOnce
    <2>4. EpcBounded'
      BY <1>6 DEF Restart, Inv, TypeOK, EpcBounded
    <2>5. WindowExact'
      <3> SUFFICES ASSUME NEW m \in Node, NEW q \in Node
                   PROVE  Exact(win'[m][q], Delivered(m, q)')
        BY DEF WindowExact, Exact, Delivered
      <3>1. CASE m = n
        <4>1. win'[m][q] = Empty /\ got'[m] = {}
          BY <3>1, <1>6 DEF Restart, Inv, TypeOK
        <4>2. Delivered(m, q)' = {}
          BY <4>1 DEF Delivered
        <4> QED BY <4>1, <4>2, <2>1 DEF Exact
      <3>2. CASE m # n
        <4>1. win'[m][q] = win[m][q] /\ got'[m] = got[m]
          BY <3>2, <1>6 DEF Restart, Inv, TypeOK
        <4>2. Delivered(m, q)' = Delivered(m, q)
          BY <4>1 DEF Delivered
        <4> QED BY <4>1, <4>2, WindowExactIsExact DEF Inv
      <3> QED BY <3>1, <3>2
    <2> QED BY <2>2, <2>3, <2>4, <2>5 DEF Inv
  <1>7. ASSUME NEW n \in Node, NEW a \in Addr, Move(n, a) PROVE Inv'
    <2>1. TypeOK'
      BY <1>7 DEF Move, Inv, TypeOK
    <2> QED BY <1>7, <2>1, QuietInv DEF Move
  <1>8. CASE UNCHANGED vars
    <2>1. TypeOK'
      BY <1>8 DEF vars, Inv, TypeOK
    <2> QED BY <1>8, <2>1, QuietInv DEF vars
  <1> QED BY <1>1, <1>2, <1>3, <1>4, <1>5, <1>6, <1>7, <1>8 DEF Next

\* Types, for every number of nodes, window size and bound.
THEOREM TypeCorrect == Spec => []TypeOK
  <1>1. Inv => TypeOK
    BY DEF Inv
  <1> QED BY <1>1, InitInv, NextInv, PTL DEF Spec

\* The transport hands a frame up at most once per run of the receiver.
THEOREM DeliversOnce == Spec => []AtMostOnce
  <1>1. Inv => AtMostOnce
    BY DEF Inv
  <1> QED BY <1>1, InitInv, NextInv, PTL DEF Spec

\* Every replay window is exact about the counters within its reach.
THEOREM WindowsAreExact == Spec => []WindowExact
  <1>1. Inv => WindowExact
    BY DEF Inv
  <1> QED BY <1>1, InitInv, NextInv, PTL DEF Spec

\* A peer's endpoint never goes back to where an earlier frame came from.
THEOREM EndpointsMoveForward == Spec => NoDragBack
  <1> DEFINE A == \A n, p \in Node : epc'[n][p] < epc[n][p] => restarts' = restarts + 1
  <1>1. ASSUME Inv, [Next]_vars PROVE [A]_vars
    <2>1. ASSUME NEW n \in Node, NEW d \in net, NEW a \in Addr, _on_datagram(n, d, a) PROVE A
      <3>1. d.frame.from \in Node /\ d.frame.ctr \in Nat
        BY <1>1 DEF Inv, TypeOK, Datagram, Frame
      <3> DEFINE f == d.frame
      <3>2. CASE UNCHANGED epc
        BY <1>1, <3>2 DEF Inv, TypeOK
      <3>3. CASE /\ newest(n, f) \/ endp[n][f.from] = NoAddr
                 /\ epc' = [epc EXCEPT ![n][f.from] = f.ctr]
        <4>1. f.ctr >= epc[n][f.from]
          <5>1. epc[n][f.from] \in Nat /\ win[n][f.from].highest \in Nat \cup {None}
            BY <1>1, <3>1 DEF Inv, TypeOK, Window
          <5>2. CASE epc[n][f.from] = 0
            BY <5>2, <3>1
          <5>3. CASE epc[n][f.from] > 0
            <6>1. epc[n][f.from] =< win[n][f.from].highest /\ endp[n][f.from] # NoAddr
              BY <1>1, <5>3, <3>1 DEF Inv, EpcBounded
            <6> QED BY <6>1, <5>1, <5>3, <3>1, <3>3 DEF newest, None
          <5> QED BY <5>1, <5>2, <5>3
        <4>2. \A m, p \in Node : \/ epc'[m][p] = epc[m][p]
                                 \/ m = n /\ p = f.from /\ epc'[m][p] = f.ctr
          BY <1>1, <3>3, <3>1 DEF Inv, TypeOK
        <4>3. \A m, p \in Node : epc[m][p] \in Nat
          BY <1>1 DEF Inv, TypeOK
        <4> HIDE DEF f
        <4> QED BY <4>1, <4>2, <4>3, <3>1 DEF f
      <3> QED BY <2>1, <3>2, <3>3 DEF _on_datagram
    <2>2. ASSUME NEW n \in Node, Restart(n) PROVE A
      BY <2>2 DEF Restart
    <2>3. ASSUME UNCHANGED epc PROVE A
      BY <1>1, <2>3 DEF Inv, TypeOK
    <2>4. CASE UNCHANGED vars
      BY <2>4, <2>3 DEF vars
    <2>5. CASE Next
      BY <2>5, <2>1, <2>2, <2>3 DEF Next, add_peer_binding, set_peer_endpoint, route,
         Silence, open_relayed, Move
    <2> QED BY <1>1, <2>4, <2>5
  <1> QED BY <1>1, InitInv, NextInv, PTL DEF Spec, NoDragBack

-----------------------------------------------------------------------------
(* Roaming *)

\* A frame n opened through a relay is the newest from p.
ByRelay(n, p) ==
    \E d \in net : /\ d.path = "relay" /\ d.frame.to = n /\ d.frame.from = p
                   /\ d.frame.ctr = win[n][p].highest

\* Accepting a frame changes one window; its highest counter moves only forward.
LEMMA OpenHighest ==
    ASSUME Inv, NEW n \in Node, NEW f \in Frame, _open(n, f)
    PROVE  /\ \A m, q \in Node : ~(m = n /\ q = f.from) => win'[m][q] = win[m][q]
           /\ win'[n][f.from].highest = IF newest(n, f) THEN f.ctr ELSE win[n][f.from].highest
  <1>1. f.from \in Node /\ f.ctr \in Nat /\ win[n][f.from] \in Window
    BY DEF Inv, TypeOK, Frame
  <1>2. \A m, q \in Node : ~(m = n /\ q = f.from) => win'[m][q] = win[m][q]
    BY <1>1 DEF _open, Inv, TypeOK
  <1>3. win'[n][f.from] = accepted(win[n][f.from], f.ctr)
    BY <1>1 DEF _open, Inv, TypeOK
  <1> DEFINE w == win[n][f.from]
  <1>4. accepted(w, f.ctr).highest =
            IF w.highest = None \/ f.ctr > w.highest THEN f.ctr ELSE w.highest
    BY <1>1 DEF accepted, Window
  <1> QED BY <1>2, <1>3, <1>4 DEF newest

LEMMA EndpointStep ==
    ASSUME Inv, EndpointIsNewest, [Next]_vars
    PROVE  EndpointIsNewest'
  <1> SUFFICES ASSUME NEW m \in Node, NEW q \in Node,
                      win'[m][q].highest # None, epc'[m][q] # win'[m][q].highest
               PROVE  ByRelay(m, q)'
    BY DEF EndpointIsNewest, ByRelay
  <1>1. ASSUME win'[m][q].highest = win[m][q].highest, epc'[m][q] = epc[m][q], net \subseteq net'
        PROVE  ByRelay(m, q)'
    <2>1. ByRelay(m, q)
      BY <1>1 DEF EndpointIsNewest, ByRelay
    <2> QED BY <1>1, <2>1 DEF ByRelay
  <1>2. ASSUME NEW n \in Node, Restart(n) PROVE ByRelay(m, q)'
    <2>1. m # n
      BY <1>2 DEF Restart, Inv, TypeOK, Empty
    <2> QED BY <1>1, <1>2, <2>1 DEF Restart, Inv, TypeOK
  <1>3. ASSUME NEW n \in Node, NEW d \in net, open_relayed(n, d) PROVE ByRelay(m, q)'
    <2>1. d.frame \in Frame /\ _open(n, d.frame) /\ epc' = epc /\ net' = net /\ d.path = "relay"
      BY <1>3 DEF open_relayed, Inv, TypeOK, Datagram
    <2>2. CASE m = n /\ q = d.frame.from /\ newest(n, d.frame)
      <3>1. win'[m][q].highest = d.frame.ctr
        BY <2>1, <2>2, OpenHighest
      <3>2. d.frame.to = n
        BY <2>1 DEF _open, Opens, open_sealed, _decode_frame
      <3> QED BY <2>1, <2>2, <3>1, <3>2 DEF ByRelay
    <2>3. CASE ~(m = n /\ q = d.frame.from /\ newest(n, d.frame))
      <3>1. win'[m][q].highest = win[m][q].highest
        BY <2>1, <2>3, OpenHighest
      <3> QED BY <1>1, <2>1, <3>1
    <2> QED BY <2>2, <2>3
  <1>4. ASSUME NEW n \in Node, NEW d \in net, NEW a \in Addr, _on_datagram(n, d, a)
        PROVE  ByRelay(m, q)'
    <2>1. d.frame \in Frame /\ _open(n, d.frame) /\ net' = net
      BY <1>4 DEF _on_datagram, Inv, TypeOK, Datagram
    <2>2. d.frame.from \in Node /\ d.frame.ctr \in Nat
      BY <2>1 DEF Frame
    <2>3. CASE ~(m = n /\ q = d.frame.from)
      <3>1. win'[m][q] = win[m][q]
        BY <2>1, <2>3, OpenHighest
      <3>2. epc'[m][q] = epc[m][q]
        BY <1>4, <2>2, <2>3 DEF _on_datagram, Inv, TypeOK
      <3> QED BY <1>1, <2>1, <3>1, <3>2
    <2>4. CASE m = n /\ q = d.frame.from /\ newest(n, d.frame)
      <3>1. win'[m][q].highest = d.frame.ctr
        BY <2>1, <2>4, OpenHighest
      <3>2. epc'[m][q] = d.frame.ctr
        BY <1>4, <2>2, <2>4 DEF _on_datagram, Inv, TypeOK
      <3> QED BY <3>1, <3>2
    <2>5. CASE m = n /\ q = d.frame.from /\ ~newest(n, d.frame)
      <3>1. win'[m][q].highest = win[m][q].highest
        BY <2>1, <2>5, OpenHighest
      <3>2. CASE epc' = epc
        BY <1>1, <2>1, <3>1, <3>2
      <3>3. CASE endp[m][q] = NoAddr
        <4>1. epc[m][q] = 0
          BY <3>3 DEF Inv, EpcBounded
        <4>2. CASE win[m][q].highest # 0
          <5>1. ByRelay(m, q)
            BY <4>1, <4>2, <3>1 DEF EndpointIsNewest, ByRelay
          <5> QED BY <5>1, <2>1, <3>1 DEF ByRelay
        <4>3. CASE win[m][q].highest = 0
          <5>1. d.frame.ctr = 0
            BY <2>2, <2>5, <4>3 DEF newest, None
          <5>2. epc'[m][q] \in {0, d.frame.ctr}
            BY <1>4, <2>2, <2>5, <4>1 DEF _on_datagram, Inv, TypeOK
          <5> QED BY <3>1, <4>3, <5>1, <5>2
        <4> QED BY <4>2, <4>3
      <3> QED BY <1>4, <2>5, <3>2, <3>3 DEF _on_datagram
    <2> QED BY <2>3, <2>4, <2>5
  <1>5. CASE UNCHANGED vars
    BY <1>1, <1>5 DEF vars
  <1>6. ASSUME NEW n \in Node, NEW p \in Node,
               add_peer_binding(n, p) \/ set_peer_endpoint(n, p) \/ route(n, p) \/ Silence(n, p)
        PROVE  ByRelay(m, q)'
    <2>1. win' = win /\ epc' = epc /\ net \subseteq net'
      BY <1>6 DEF add_peer_binding, set_peer_endpoint, route, Silence
    <2> QED BY <1>1, <2>1
  <1>7. ASSUME NEW n \in Node, NEW a \in Addr, Move(n, a) PROVE ByRelay(m, q)'
    BY <1>1, <1>7 DEF Move
  <1> QED BY <1>2, <1>3, <1>4, <1>5, <1>6, <1>7 DEF Next

\* A peer's endpoint was last set by its newest frame, or the newest frame came
\* through a relay.
THEOREM EndpointsFollowNewest == Spec => []EndpointIsNewest
  <1>1. Init => EndpointIsNewest
    BY DEF Init, EndpointIsNewest, Empty
  <1> QED BY <1>1, InitInv, NextInv, EndpointStep, PTL DEF Spec

-----------------------------------------------------------------------------
(* The upgrade to a direct path. *)

\* Where a probe went is where it was meant to go, if it is still pending: what it
\* is pending for, unless the endpoint was moved before it was routed.
Meant(n, e) == pending[n] \in {Nowhere, e} \/ n \in swerved

\* A probe under way went where it was meant to go, and an answer is only under way
\* to a probe the peer was given.
Answers ==
  \A f \in frames :
    /\ f.at \in Endpoints
    /\ \/ f.k = "probe" /\ f.nonce \in Nonces /\ f.nonce =< counter /\ Meant(f.nonce, f.at)
       \/ /\ f.k = "ack" /\ f.nonce \in Nonces /\ f.nonce =< counter
          /\ proven[f.nonce] \in Endpoints /\ Meant(f.nonce, proven[f.nonce])
          /\ f.ctr \in 0 .. sent
       \/ f.k = "data" /\ f.ctr \in 0 .. sent

\* A probe that is aimed and not routed yet will go where it is meant to go.
Aimed ==
  \A t \in Dialer :
    dialing[t].nonce # 0 => target \in Endpoints /\ Meant(dialing[t].nonce, target)

\* What is pending was sent since the node last gave up.
Outstanding ==
  /\ given_up \in 0 .. counter
  /\ \A n \in Nonces : pending[n] # Nowhere => given_up < n /\ n =< counter

UpgradeInv ==
  /\ UpgradeTypeOK /\ Answers /\ Aimed /\ Outstanding
  /\ now \in Nat /\ sent \in Nat
  /\ proven = [n \in Nonces |-> proven[n]] /\ reach \subseteq Endpoints

LEMMA UpgradeInitHolds == UpgradeInit => UpgradeInv
  BY UpgradeConstants
     DEF UpgradeInit, UpgradeInv, UpgradeTypeOK, Answers, Aimed, Outstanding, is_direct, Nonces,
         Resting

\* Wherever the endpoint moves to, a probe on its way goes where it is meant to or is
\* remembered as swerved.
LEMMA TurnKeeps ==
  ASSUME UpgradeInv, NEW e \in Endpoints, TurnTo(e)
  PROVE  /\ target' = e /\ swerved \subseteq swerved'
         /\ \A t \in Dialer : LET n == dialing[t].nonce IN
              n # 0 => pending[n] \in {Nowhere, e} \/ n \in swerved'
  BY DEF TurnTo, UpgradeInv, Aimed, Meant

\* A new probe has a nonce of its own.
LEMMA AimKeeps ==
  ASSUME UpgradeInv, NEW t \in Dialer, NEW eps \in Seq(Endpoints), eps # <<>>, Aim(t, eps)
  PROVE  UpgradeInv'
  <1> DEFINE n == counter + 1
             e == Head(eps)
  <1>1. /\ n \in Nonces /\ counter \in Nat /\ counter' = n /\ e \in Endpoints
        /\ Tail(eps) \in Seq(Endpoints)
    <2>1. n =< MaxProbes /\ counter' = n /\ counter \in 0 .. MaxProbes
      BY DEF Aim, UpgradeInv, UpgradeTypeOK
    <2>2. n \in Nonces /\ counter \in Nat
      BY <2>1, UpgradeConstants DEF Nonces
    <2>3. e \in Endpoints /\ Tail(eps) \in Seq(Endpoints)
      OBVIOUS
    <2> QED BY <2>1, <2>2, <2>3
  <1>2. /\ pending' = [pending EXCEPT ![n] = e] /\ pending'[n] = e
        /\ \A k \in Nonces : k =< counter => pending'[k] = pending[k]
    BY <1>1 DEF Aim, UpgradeInv, UpgradeTypeOK
  <1>3. /\ dialing' = [dialing EXCEPT ![t] = [nonce |-> n, left |-> Tail(eps)]]
        /\ UNCHANGED <<now, direct_endpoint, last_seen, highest, frames, reach, sent, proven, given_up>>
    BY DEF Aim, wire
  <1>4. /\ target' = e /\ swerved \subseteq swerved'
        /\ \A u \in Dialer : LET k == dialing[u].nonce IN
              k # 0 => pending[k] \in {Nowhere, e} \/ k \in swerved'
    BY <1>1, TurnKeeps DEF Aim
  <1>5. \A u \in Dialer : /\ dialing[u] \in [nonce : 0 .. counter, left : Seq(Endpoints)]
                          /\ dialing[u].nonce # 0 => dialing[u].nonce \in Nonces
    <2> SUFFICES ASSUME NEW u \in Dialer
                 PROVE  /\ dialing[u] \in [nonce : 0 .. counter, left : Seq(Endpoints)]
                        /\ dialing[u].nonce # 0 => dialing[u].nonce \in Nonces
      OBVIOUS
    <2>1. dialing[u] \in [nonce : 0 .. counter, left : Seq(Endpoints)] /\ counter \in 0 .. MaxProbes
      BY DEF UpgradeInv, UpgradeTypeOK
    <2>2. dialing[u].nonce \in 0 .. counter
      BY <2>1
    <2> QED BY <2>1, <2>2, UpgradeConstants DEF Nonces
  <1> HIDE DEF e
  <1>6. UpgradeTypeOK'
    <2>1. dialing' \in [Dialer -> [nonce : 0 .. counter', left : Seq(Endpoints)]]
      <3>1. [nonce |-> n, left |-> Tail(eps)] \in [nonce : 0 .. n, left : Seq(Endpoints)]
        BY <1>1
      <3>2. \A u \in Dialer : dialing[u] \in [nonce : 0 .. n, left : Seq(Endpoints)]
        BY <1>1, <1>5
      <3> QED BY <1>1, <1>3, <3>1, <3>2 DEF UpgradeInv, UpgradeTypeOK
    <2>2. pending' \in [Nonces -> Endpoints \cup {Nowhere}] /\ counter' \in 0 .. MaxProbes
      BY <1>1, <1>2, UpgradeConstants DEF UpgradeInv, UpgradeTypeOK, Nonces
    <2>3. state' \in {"relayed", "probing", "direct"} /\ (direct_endpoint' # Nowhere <=> is_direct')
      BY <1>3 DEF Aim, UpgradeInv, UpgradeTypeOK, is_direct
    <2> QED BY <1>1, <1>3, <1>4, <2>1, <2>2, <2>3 DEF UpgradeInv, UpgradeTypeOK
  <1>7. Outstanding'
    <2>1. ASSUME NEW k \in Nonces, pending'[k] # Nowhere PROVE given_up < k /\ k =< n
      <3>1. CASE k = n
        BY <1>1, <3>1 DEF UpgradeInv, Outstanding
      <3>2. CASE k # n
        BY <1>1, <1>2, <2>1, <3>2 DEF UpgradeInv, Outstanding, UpgradeTypeOK, Nonces
      <3> QED BY <3>1, <3>2
    <2> QED BY <1>1, <1>3, <2>1 DEF UpgradeInv, Outstanding
  <1>8. Answers'
    <2>1. \A k \in Nonces : \A a : k =< counter /\ Meant(k, a) => k =< counter' /\ Meant(k, a)'
      BY <1>1, <1>2, <1>4 DEF Meant, Nonces
    <2> QED BY <1>3, <2>1 DEF UpgradeInv, Answers
  <1>9. Aimed'
    <2> SUFFICES ASSUME NEW u \in Dialer, dialing'[u].nonce # 0
                 PROVE  Meant(dialing[u].nonce, target)'
      BY <1>1, <1>4 DEF Aimed
    <2>1. CASE u = t
      BY <1>2, <1>3, <1>4, <2>1 DEF Meant, UpgradeInv, UpgradeTypeOK
    <2>2. CASE u # t
      <3>1. dialing'[u] = dialing[u]
        BY <1>3, <2>2 DEF UpgradeInv, UpgradeTypeOK
      <3>2. dialing[u].nonce \in Nonces /\ dialing[u].nonce =< counter
        BY <1>1, <1>5, <3>1
      <3> QED BY <1>2, <1>4, <3>1, <3>2 DEF Meant
    <2> QED BY <2>1, <2>2
  <1> QED BY <1>3, <1>6, <1>7, <1>8, <1>9 DEF UpgradeInv

\* A probe goes where the transport aims.
LEMMA RouteKeeps ==
  ASSUME UpgradeInv, NEW t \in Dialer, route_probe(t)
  PROVE  UpgradeInv'
  <1> DEFINE f == [k |-> "probe", nonce |-> dialing[t].nonce, at |-> target]
  <1>1. /\ frames' = frames \cup {f} /\ dialing' = [dialing EXCEPT ![t].nonce = 0]
        /\ UNCHANGED <<now, state, direct_endpoint, last_seen, pending, counter, target, highest, reach,
                       sent, proven, swerved, given_up>>
    BY DEF route_probe, peerstate, history
  <1>2. \A u \in Dialer : dialing[u] \in [nonce : 0 .. counter, left : Seq(Endpoints)]
    BY DEF UpgradeInv, UpgradeTypeOK
  <1>3. /\ dialing[t].nonce \in Nonces /\ dialing[t].nonce =< counter
        /\ target \in Endpoints /\ Meant(dialing[t].nonce, target)
    <2>1. dialing[t].nonce # 0 /\ target \in Endpoints /\ Meant(dialing[t].nonce, target)
      BY DEF route_probe, UpgradeInv, Aimed
    <2>2. dialing[t].nonce \in 0 .. counter /\ counter \in 0 .. MaxProbes
      BY <1>2 DEF UpgradeInv, UpgradeTypeOK
    <2> QED BY <2>1, <2>2, UpgradeConstants DEF Nonces
  <1>4. /\ \A u \in Dialer : dialing'[u].nonce \in {0, dialing[u].nonce}
        /\ dialing' \in [Dialer -> [nonce : 0 .. counter, left : Seq(Endpoints)]]
    <2>1. dialing \in [Dialer -> [nonce : 0 .. counter, left : Seq(Endpoints)]] /\ counter \in Nat
      BY UpgradeConstants DEF UpgradeInv, UpgradeTypeOK
    <2>2. dialing'[t].nonce = 0 /\ dialing'[t].left = dialing[t].left
      BY <1>1, <2>1
    <2>3. \A u \in Dialer : u # t => dialing'[u] = dialing[u]
      BY <1>1, <2>1
    <2>4. dialing'[t] = [nonce |-> 0, left |-> dialing[t].left]
      BY <1>1, <2>1
    <2>5. dialing'[t] \in [nonce : 0 .. counter, left : Seq(Endpoints)]
      BY <1>2, <2>1, <2>4
    <2>6. \A u \in Dialer : dialing'[u] \in [nonce : 0 .. counter, left : Seq(Endpoints)]
      BY <1>2, <2>3, <2>5
    <2> QED BY <1>1, <2>1, <2>2, <2>3, <2>6
  <1>5. UpgradeTypeOK' /\ Outstanding'
    BY <1>1, <1>4 DEF UpgradeInv, UpgradeTypeOK, Outstanding, is_direct
  <1>6. Aimed'
    BY <1>1, <1>4 DEF UpgradeInv, Aimed, Meant
  <1>7. Answers'
    <2>1. f.at \in Endpoints /\ f.k = "probe" /\ f.nonce \in Nonces /\ f.nonce =< counter
          /\ Meant(f.nonce, f.at)
      BY <1>3
    <2> HIDE DEF f
    <2> QED BY <1>1, <2>1 DEF UpgradeInv, Answers, Meant
  <1> QED BY <1>1, <1>5, <1>6, <1>7 DEF UpgradeInv

\* The peer answers a probe it was given; its other frames answer nothing.
LEMMA PeerKeeps ==
  ASSUME UpgradeInv, NEW f, (f \in frames /\ PeerProbed(f)) \/ PeerData
  PROVE  UpgradeInv'
  <1>1. UNCHANGED <<now, peerstate, pending, counter, target, dialing, highest, reach, swerved, given_up>>
        /\ sent' = sent + 1
    BY DEF PeerData, PeerProbed, PeerSends, history
  <1>2. /\ UpgradeTypeOK' /\ Outstanding' /\ Aimed' /\ sent' \in Nat /\ reach' \subseteq Endpoints
        /\ now' \in Nat
    BY <1>1 DEF UpgradeInv, UpgradeTypeOK, Outstanding, Aimed, Meant, is_direct, peerstate
  <1>3. CASE PeerData
    <2>1. proven' = proven
          /\ \A g \in frames' : g \in frames \/ (g.k = "data" /\ g.ctr = sent + 1 /\ g.at \in Endpoints)
      <3>1. PICK e \in reach :
                frames' = (frames \ {}) \cup {[k |-> "data", nonce |-> 0, ctr |-> sent + 1, at |-> e]}
        BY <1>3 DEF PeerData, PeerSends
      <3>2. proven' = proven /\ e \in Endpoints
        BY <1>3 DEF PeerData, history, UpgradeInv
      <3>3. ASSUME NEW g \in frames', g \notin frames
            PROVE  g.k = "data" /\ g.ctr = sent + 1 /\ g.at \in Endpoints
        <4>1. g = [k |-> "data", nonce |-> 0, ctr |-> sent + 1, at |-> e]
          BY <3>1, <3>3
        <4> QED BY <3>2, <4>1
      <3> QED BY <3>2, <3>3
    <2>2. Answers'
      BY <1>1, <1>2, <2>1 DEF UpgradeInv, Answers, Meant
    <2> QED BY <1>2, <2>1, <2>2 DEF UpgradeInv
  <1>4. CASE f \in frames /\ PeerProbed(f)
    <2>1. /\ f.nonce \in Nonces /\ f.nonce =< counter /\ f.at \in Endpoints /\ Meant(f.nonce, f.at)
          /\ proven' = [proven EXCEPT ![f.nonce] = f.at]
      BY <1>4 DEF PeerProbed, UpgradeInv, Answers
    <2>2. proven'[f.nonce] = f.at /\ proven' = [n \in Nonces |-> proven'[n]]
      BY <2>1 DEF UpgradeInv
    <2>3. \A n \in Nonces : proven[n] \in Endpoints /\ Meant(n, proven[n])
                              => proven'[n] \in Endpoints /\ Meant(n, proven[n])'
      BY <1>1, <2>1 DEF UpgradeInv, Meant
    <2>4. \A g \in frames' : \/ g \in frames
                             \/ g.k = "ack" /\ g.nonce = f.nonce /\ g.ctr = sent + 1 /\ g.at \in Endpoints
      <3>1. PICK e \in reach :
                frames' = (frames \ {f}) \cup {[k |-> "ack", nonce |-> f.nonce, ctr |-> sent + 1, at |-> e]}
        BY <1>4 DEF PeerProbed, PeerSends
      <3>2. ASSUME NEW g \in frames', g \notin frames
            PROVE  g.k = "ack" /\ g.nonce = f.nonce /\ g.ctr = sent + 1 /\ g.at \in Endpoints
        <4>1. g = [k |-> "ack", nonce |-> f.nonce, ctr |-> sent + 1, at |-> e] /\ e \in Endpoints
          BY <3>1, <3>2 DEF UpgradeInv
        <4> QED BY <4>1
      <3> QED BY <3>2
    <2>5. Answers'
      <3> SUFFICES ASSUME NEW g \in frames'
                   PROVE  /\ g.at \in Endpoints
                          /\ \/ g.k = "probe" /\ g.nonce \in Nonces /\ g.nonce =< counter'
                                /\ Meant(g.nonce, g.at)'
                             \/ /\ g.k = "ack" /\ g.nonce \in Nonces /\ g.nonce =< counter'
                                /\ proven'[g.nonce] \in Endpoints /\ Meant(g.nonce, proven[g.nonce])'
                                /\ g.ctr \in 0 .. sent'
                             \/ g.k = "data" /\ g.ctr \in 0 .. sent'
        BY DEF Answers
      <3>1. CASE g \in frames
        <4>1. \A n, a : Meant(n, a) => Meant(n, a)'
          BY <1>1 DEF Meant
        <4> QED BY <1>1, <1>2, <2>3, <3>1, <4>1 DEF UpgradeInv, Answers
      <3>2. CASE g \notin frames
        <4>1. Meant(f.nonce, proven[f.nonce])'
          BY <1>1, <2>1, <2>2 DEF Meant
        <4> QED BY <1>1, <1>2, <2>1, <2>2, <2>4, <3>2, <4>1
      <3> QED BY <3>1, <3>2
    <2> QED BY <1>2, <2>2, <2>5 DEF UpgradeInv
  <1> QED BY <1>3, <1>4

\* Once answered, a probe is no longer pending.
LEMMA HandleKeeps ==
  ASSUME UpgradeInv, NEW f \in frames, handle(f)
  PROVE  UpgradeInv'
  <1>1. /\ UNCHANGED <<now, counter, dialing, reach, sent, proven, given_up>>
        /\ frames' \subseteq frames /\ f.k \in {"ack", "data"} /\ f.ctr \in 0 .. sent /\ f.at \in Endpoints
    BY DEF handle, UpgradeInv, Answers
  <1>2. \A n \in Nonces : pending'[n] \in {Nowhere, pending[n]}
    BY DEF handle, UpgradeInv, UpgradeTypeOK
  <1>3. /\ swerved \subseteq swerved' /\ target' \in Endpoints \cup {Nowhere}
        /\ \A t \in Dialer : LET n == dialing[t].nonce IN
             n # 0 => target' \in Endpoints /\ (pending[n] \in {Nowhere, target'} \/ n \in swerved')
    <2>1. CASE TurnTo(f.at)
      BY <1>1, <2>1, TurnKeeps
    <2>2. CASE UNCHANGED <<target, swerved>>
      BY <2>2 DEF UpgradeInv, UpgradeTypeOK, Aimed, Meant
    <2> QED BY <2>1, <2>2 DEF handle
  <1>4. UpgradeTypeOK'
    <2>1. highest' \in 0 .. sent
      BY <1>1 DEF handle, UpgradeInv, UpgradeTypeOK
    <2>2. last_seen' \in 0 .. now
      BY DEF handle, UpgradeInv, UpgradeTypeOK
    <2>3. CASE f.k = "ack" /\ Proves(f.nonce) # Nowhere
      <3>1. Proves(f.nonce) \in Endpoints
        BY <2>3 DEF Proves, UpgradeInv, UpgradeTypeOK, Answers
      <3>2. state' = "direct" /\ direct_endpoint' = Proves(f.nonce)
            /\ pending' = [pending EXCEPT ![f.nonce] = Nowhere]
        BY <2>3 DEF handle
      <3> QED BY <1>1, <1>3, <2>1, <2>2, <2>3, <3>1, <3>2 DEF UpgradeInv, UpgradeTypeOK, is_direct
    <2>4. CASE ~(f.k = "ack" /\ Proves(f.nonce) # Nowhere)
      <3>1. UNCHANGED <<state, direct_endpoint, pending>>
        BY <2>4 DEF handle
      <3> QED BY <1>1, <1>3, <2>1, <2>2, <3>1 DEF UpgradeInv, UpgradeTypeOK, is_direct
    <2> QED BY <2>3, <2>4
  <1>5. Answers' /\ Outstanding'
    BY <1>1, <1>2, <1>3 DEF UpgradeInv, Answers, Outstanding, Meant
  <1>6. Aimed'
    <2>1. \A t \in Dialer : dialing[t].nonce # 0 => dialing[t].nonce \in Nonces
      BY UpgradeConstants DEF UpgradeInv, UpgradeTypeOK, Nonces
    <2> QED BY <1>1, <1>2, <1>3, <2>1 DEF Aimed, Meant
  <1> QED BY <1>1, <1>4, <1>5, <1>6 DEF UpgradeInv

\* Nothing is given up that is still pending.
LEMMA TimeKeeps ==
  ASSUME UpgradeInv, PathsChange \/ on_timeout \/ sweep \/ Tick
  PROVE  UpgradeInv'
  <1>1. UNCHANGED <<counter, target, dialing, highest, frames, sent, proven, swerved>> /\ now' \in Nat
        /\ now =< now' /\ reach' \subseteq Endpoints /\ UNCHANGED last_seen
    BY DEF PathsChange, on_timeout, sweep, Tick, UpgradeInv, wire, history, peerstate
  <1>2. CASE on_timeout
    <2>1. UpgradeTypeOK'
      BY <1>1, <1>2 DEF on_timeout, UpgradeInv, UpgradeTypeOK, is_direct
    <2>2. \A n \in Nonces : pending'[n] = Nowhere
      BY <1>2 DEF on_timeout
    <2>3. Answers'
      BY <1>1, <2>2 DEF UpgradeInv, Answers, Meant
    <2>5. Outstanding'
      BY <1>1, <1>2, <2>2 DEF on_timeout, UpgradeInv, UpgradeTypeOK, Outstanding
    <2>4. Aimed'
      <3>1. \A t \in Dialer : dialing[t].nonce # 0 => dialing[t].nonce \in Nonces
        BY UpgradeConstants DEF UpgradeInv, UpgradeTypeOK, Nonces
      <3> QED BY <1>1, <2>2, <3>1 DEF UpgradeInv, Aimed, Meant
    <2> QED BY <1>1, <2>1, <2>3, <2>4, <2>5 DEF UpgradeInv
  <1>3. CASE ~on_timeout
    <2>1. UNCHANGED <<pending, given_up>>
          /\ \/ UNCHANGED <<state, direct_endpoint>>
             \/ state' = "relayed" /\ direct_endpoint' = Nowhere
      BY <1>3 DEF PathsChange, sweep, Tick, history, peerstate
    <2>2. UpgradeTypeOK'
      BY <1>1, <2>1 DEF UpgradeInv, UpgradeTypeOK, is_direct
    <2>3. Answers' /\ Outstanding' /\ Aimed'
      BY <1>1, <2>1 DEF UpgradeInv, Answers, Outstanding, Aimed, Meant
    <2> QED BY <1>1, <2>2, <2>3 DEF UpgradeInv
  <1> QED BY <1>2, <1>3

\* All that probes aims at the first of a list of endpoints.
Dials ==
  \E t \in Dialer :
    \/ keepalive(t) \/ DialNext(t)
    \/ \E e \in Endpoints : probe(t, e)
    \/ \E f, g \in Endpoints : handle_relay(t, <<f, g>>)

LEMMA DialsAim ==
  ASSUME UpgradeInv, Dials
  PROVE  \E t \in Dialer, eps \in Seq(Endpoints) : eps # <<>> /\ Aim(t, eps)
  <1> PICK t \in Dialer :
         \/ keepalive(t) \/ DialNext(t)
         \/ \E e \in Endpoints : probe(t, e)
         \/ \E f, g \in Endpoints : handle_relay(t, <<f, g>>)
    BY DEF Dials
  <1>1. ASSUME NEW e \in Endpoints, probe(t, e)
        PROVE  <<e>> \in Seq(Endpoints) /\ <<e>> # <<>> /\ Aim(t, <<e>>)
    BY <1>1 DEF probe
  <1>2. ASSUME NEW f \in Endpoints, NEW g \in Endpoints, handle_relay(t, <<f, g>>)
        PROVE  <<f, g>> \in Seq(Endpoints) /\ <<f, g>> # <<>> /\ Aim(t, <<f, g>>)
    BY <1>2 DEF handle_relay
  <1>3. CASE keepalive(t)
    <2>1. direct_endpoint \in Endpoints /\ probe(t, direct_endpoint)
      BY <1>3 DEF keepalive, UpgradeInv, UpgradeTypeOK
    <2> QED BY <1>1, <2>1
  <1>4. CASE DialNext(t)
    <2>1. dialing[t] \in [nonce : 0 .. counter, left : Seq(Endpoints)]
      BY DEF UpgradeInv, UpgradeTypeOK
    <2> QED BY <1>4, <2>1 DEF DialNext
  <1> QED BY <1>1, <1>2, <1>3, <1>4

LEMMA UpgradeStepHolds == ASSUME UpgradeInv, [UpgradeNext]_upgradeVars PROVE UpgradeInv'
  <1>1. CASE UNCHANGED upgradeVars
    BY <1>1 DEF UpgradeInv, UpgradeTypeOK, Answers, Aimed, Meant, Outstanding, is_direct, upgradeVars,
                peerstate, wire, history
  <1>2. CASE PathsChange \/ on_timeout \/ sweep \/ Tick
    BY <1>2, TimeKeeps
  <1>3. CASE Dials
    BY <1>3, DialsAim, AimKeeps
  <1>4. CASE \E t \in Dialer : route_probe(t)
    BY <1>4, RouteKeeps
  <1>5. CASE PeerData \/ \E f \in frames : PeerProbed(f)
    BY <1>5, PeerKeeps
  <1>6. CASE \E f \in frames : handle(f)
    BY <1>6, HandleKeeps
  <1> QED BY <1>1, <1>2, <1>3, <1>4, <1>5, <1>6 DEF UpgradeNext, Dials

LEMMA UpgradeHolds == UpgradeSpec => []UpgradeInv
  BY UpgradeInitHolds, UpgradeStepHolds, PTL DEF UpgradeSpec

\* A path has an endpoint exactly while it is the direct one, and every nonce names
\* an endpoint or nothing, whatever arrives and however many threads probe
\* (UpgradeState).
THEOREM UpgradeTypeCorrect == UpgradeSpec => []UpgradeTypeOK
  <1>1. UpgradeInv => UpgradeTypeOK
    BY DEF UpgradeInv
  <1> QED BY <1>1, UpgradeHolds, PTL

\* Only an answer makes a new path direct: the answer to a probe that is pending.
LEMMA NewPathStep == ASSUME UpgradeInv, [UpgradeNext]_upgradeVars PROVE NewPathIsProven
  <1> SUFFICES ASSUME direct_endpoint' # Nowhere, direct_endpoint' # direct_endpoint
               PROVE  \E n \in Nonces : /\ n > given_up /\ proven[n] # Nowhere
                                        /\ pending[n] = direct_endpoint'
                                        /\ proven[n] = direct_endpoint' \/ n \in swerved
    BY DEF NewPathIsProven
  <1>1. PICK f \in frames : handle(f)
    <2>1. ASSUME Dials PROVE UNCHANGED direct_endpoint
      BY <2>1, DialsAim DEF Aim
    <2>2. ASSUME NEW t \in Dialer, route_probe(t) PROVE UNCHANGED direct_endpoint
      BY <2>2 DEF route_probe, peerstate
    <2> QED BY <2>1, <2>2 DEF UpgradeNext, Dials, PeerData, PeerProbed, PathsChange, on_timeout, sweep,
                              Tick, upgradeVars, peerstate
  <1>2. f.k = "ack" /\ Proves(f.nonce) # Nowhere /\ direct_endpoint' = Proves(f.nonce)
    BY <1>1 DEF handle
  <1>3. /\ f.nonce \in Nonces /\ pending[f.nonce] = direct_endpoint' /\ proven[f.nonce] \in Endpoints
        /\ pending[f.nonce] = proven[f.nonce] \/ f.nonce \in swerved
    BY <1>2 DEF Proves, UpgradeInv, Answers, Meant
  <1>4. f.nonce > given_up
    BY <1>2, <1>3 DEF Proves, UpgradeInv, Outstanding, UpgradeTypeOK, Nonces
  <1> QED BY <1>3, <1>4, UpgradeConstants

\* For any endpoints, dialling threads, probes and order of the network: a path
\* becomes the direct one only on the answer to a pending probe that the node had not
\* given up on; the peer was given that probe at this very endpoint, unless another
\* thread moved the transport's endpoint between the probe's aim and its route
\* (DirectUpgrader.probe, handle, UpgradeState.on_ack).
THEOREM PathsAreProven == UpgradeSpec => DirectIsProven
  <1>1. UpgradeInv /\ [UpgradeNext]_upgradeVars => [NewPathIsProven]_upgradeVars
    BY NewPathStep
  <1> QED BY <1>1, UpgradeHolds, PTL DEF UpgradeSpec, DirectIsProven

=============================================================================
