--------------------------- MODULE DirectTransport ---------------------------
(***************************************************************************)
(* transport/secdogie_transport/udp.py (DirectUDPTransport: counters, the  *)
(* replay window, roaming by identity), sealed.py (v2 frames), the path    *)
(* choice of failover.py (FailoverTransport) and the inner frames relayed  *)
(* by relay.py (RelayClient.route_via, _on_deliver).                       *)
(*                                                                         *)
(* A frame is its signed fields: sender, addressee, counter, and whether   *)
(* it is sealed.  net holds every datagram sent, with the address it left  *)
(* from and the one it was sent to, and never forgets one: a datagram may  *)
(* arrive late, again, out of order, or never, and a copy may be sent on   *)
(* from another address.  The relay's own leases are left out: a relay     *)
(* hands a frame over, or does not.  Counters start from the clock, so a   *)
(* restarted sender goes on above what it used before.                     *)
(***************************************************************************)
EXTENDS Integers, FiniteSets, ReplayWindow

CONSTANTS
    Node,
    Addr,       \* network addresses
    Home,       \* Home[n]: n's address at first
    Allow,      \* Allow[n]: n's allowlist
    Encrypted,  \* the nodes with a transport key
    MaxCtr,     \* bound: MaxCtr[n] limits n's counter
    MaxMove,    \* bound: address changes
    MaxRestart  \* bound: restarts

ASSUME TransportConstants ==
    /\ Home \in [Node -> Addr]
    /\ Allow \in [Node -> SUBSET Node]
    /\ Encrypted \subseteq Node
    /\ MaxCtr \in [Node -> Nat]
    /\ MaxMove \in Nat /\ MaxRestart \in Nat

CONSTANT NoAddr     \* an endpoint that is not known

ASSUME AddrAssumption == NoAddr \notin Addr

VARIABLES
    addr,      \* addr[n]: where n's datagrams leave from and arrive
    ctr,       \* ctr[n]: _ctr
    box,       \* box[n]: the peers whose binding n has verified (_boxes)
    win,       \* win[n][p]: _windows
    endp,      \* endp[n][p]: _endpoints
    heard,     \* heard[n]: the peers n heard directly within fresh_for
    net,       \* the datagrams
    moves, restarts,
    got,       \* history: got[n], the <<p, c>> n delivered since it started
    again,     \* history: the <<n, p, c>> n delivered once more
    epc        \* history: epc[n][p], the counter whose frame set endp[n][p]

vars == <<addr, ctr, box, win, endp, heard, net, moves, restarts, got, again, epc>>

Frame == [from : Node, to : Node, ctr : Nat, sealed : BOOLEAN]
Datagram == [frame : Frame, src : Addr, dst : Addr, path : {"direct", "relay"}]

TypeOK ==
    /\ addr \in [Node -> Addr]
    /\ ctr \in [Node -> Nat]
    /\ box \in [Node -> SUBSET Node]
    /\ win \in [Node -> [Node -> Window]]
    /\ endp \in [Node -> [Node -> Addr \cup {NoAddr}]]
    /\ heard \in [Node -> SUBSET Node]
    /\ net \subseteq Datagram
    /\ moves \in Nat /\ restarts \in Nat
    /\ got \in [Node -> SUBSET (Node \X Nat)]
    /\ again \subseteq Node \X Node \X Nat
    /\ epc \in [Node -> [Node -> Nat]]

Init ==
    /\ addr = Home
    /\ ctr = [n \in Node |-> 0]
    /\ box = [n \in Node |-> {}]
    /\ win = [n \in Node |-> [p \in Node |-> Empty]]
    /\ endp = [n \in Node |-> [p \in Node |-> NoAddr]]
    /\ heard = [n \in Node |-> {}]
    /\ net = {}
    /\ moves = 0 /\ restarts = 0
    /\ got = [n \in Node |-> {}]
    /\ again = {}
    /\ epc = [n \in Node |-> [p \in Node |-> 0]]

-----------------------------------------------------------------------------
(* Sending *)

\* add_peer_binding: only a node with a transport key makes a box.  Every node has
\* one key, so the refusal of an older key_version is left out.
add_peer_binding(n, p) ==
    /\ n \in Encrypted /\ p \in Encrypted \cap Allow[n] /\ p \notin box[n]
    /\ box' = [box EXCEPT ![n] = @ \cup {p}]
    /\ UNCHANGED <<addr, ctr, win, endp, heard, net, moves, restarts, got, again, epc>>

\* set_peer_endpoint, migrate: the operator's configuration or a peer's record,
\* here the address the peer has at the time; it overwrites the endpoint in use.
set_peer_endpoint(n, p) ==
    /\ p # n /\ endp[n][p] # addr[p]
    /\ endp' = [endp EXCEPT ![n][p] = addr[p]]
    /\ UNCHANGED <<addr, ctr, box, win, heard, net, moves, restarts, got, again, epc>>

\* build_frame: None (nothing is sent) without a verified key.
CanBuild(n, p) == n \in Encrypted => p \in box[n]
_encode_frame(n, p, c) == [from |-> n, to |-> p, ctr |-> c, sealed |-> FALSE]
seal(n, p, c) == [from |-> n, to |-> p, ctr |-> c, sealed |-> TRUE]
build_frame(n, p, c) == IF n \in Encrypted THEN seal(n, p, c) ELSE _encode_frame(n, p, c)

\* A frame through the relay: neither end's address is on it.
Relayed(n, p, c) == [frame |-> build_frame(n, p, c), src |-> addr[n], dst |-> addr[n],
                     path |-> "relay"]
Direct(n, p, c) == [frame |-> build_frame(n, p, c), src |-> addr[n], dst |-> endp[n][p],
                    path |-> "direct"]

direct_is_fresh(n, p) == p \in heard[n]

\* FailoverTransport.route: direct, and through the relay too unless the peer was
\* heard directly of late; each copy is a frame with a counter of its own.
route(n, p) ==
    LET d == IF endp[n][p] = NoAddr THEN 0 ELSE 1       \* DirectUDPTransport.route
        r == IF direct_is_fresh(n, p) THEN 0 ELSE 1     \* RelayClient.route_via
    IN  /\ p # n /\ CanBuild(n, p) /\ d + r > 0
        /\ ctr[n] + d + r =< MaxCtr[n]
        /\ ctr' = [ctr EXCEPT ![n] = @ + d + r]
        /\ net' = net \cup (IF d = 1 THEN {Direct(n, p, ctr[n] + 1)} ELSE {})
                      \cup (IF r = 1 THEN {Relayed(n, p, ctr[n] + d + 1)} ELSE {})
        /\ UNCHANGED <<addr, box, win, endp, heard, moves, restarts, got, again, epc>>

-----------------------------------------------------------------------------
(* Receiving *)

\* The frame is for n, from a peer it trusts, and of the kind n opens.
_decode_frame(n, f) == ~f.sealed /\ f.to = n /\ f.from \in Allow[n]
open_sealed(n, f) == f.sealed /\ f.to = n /\ f.from \in Allow[n] /\ f.from \in box[n]
Opens(n, f) == IF n \in Encrypted THEN open_sealed(n, f) ELSE _decode_frame(n, f)

\* _open, when it returns a frame: the window takes the counter.  A relayed copy
\* that names another sender than the signer is refused before the window, and is
\* not in net.
_open(n, f) ==
    /\ Opens(n, f)
    /\ accepts(win[n][f.from], f.ctr)
    /\ win' = [win EXCEPT ![n][f.from] = accepted(@, f.ctr)]
    /\ got' = [got EXCEPT ![n] = @ \cup {<<f.from, f.ctr>>}]
    /\ again' = IF <<f.from, f.ctr>> \in got[n] THEN again \cup {<<n, f.from, f.ctr>>}
                                                ELSE again

\* Mutation of newest: every accepted frame counts as the newest.
AnyIsNewest(n, f) == TRUE

\* Mutation of newest: asked after accept() has raised the highest counter.
NewestAfterAccept(n, f) == f.ctr > accepted(win[n][f.from], f.ctr).highest

\* The frame raises the sender's highest counter.
newest(n, f) == win[n][f.from].highest = None \/ f.ctr > win[n][f.from].highest

\* _on_datagram, then FailoverTransport's direct_in.  The datagram comes from
\* `from`: its own source, or the address of somebody who sends a copy on.
_on_datagram(n, d, from) ==
    LET f == d.frame IN
    /\ d.path = "direct"
    /\ from = d.src => d.dst = addr[n]
    /\ _open(n, f)
    /\ IF newest(n, f) \/ endp[n][f.from] = NoAddr
       THEN /\ endp' = [endp EXCEPT ![n][f.from] = from]
            /\ epc' = [epc EXCEPT ![n][f.from] = f.ctr]
       ELSE UNCHANGED <<endp, epc>>
    /\ heard' = [heard EXCEPT ![n] = @ \cup {f.from}]
    /\ UNCHANGED <<addr, ctr, box, net, moves, restarts>>

\* RelayClient._on_deliver, open_relayed: every check but roaming.
open_relayed(n, d) ==
    /\ d.path = "relay"
    /\ _open(n, d.frame)
    /\ UNCHANGED <<addr, ctr, box, endp, heard, net, moves, restarts, epc>>

\* fresh_for passes.
Silence(n, p) ==
    /\ p \in heard[n]
    /\ heard' = [heard EXCEPT ![n] = @ \ {p}]
    /\ UNCHANGED <<addr, ctr, box, win, endp, net, moves, restarts, got, again, epc>>

\* A NAT rebind.
Move(n, a) ==
    /\ moves < MaxMove /\ a # addr[n]
    /\ moves' = moves + 1
    /\ addr' = [addr EXCEPT ![n] = a]
    /\ UNCHANGED <<ctr, box, win, endp, heard, net, restarts, got, again, epc>>

\* The process starts anew: windows, endpoints and keys were in memory.
Restart(n) ==
    /\ restarts < MaxRestart /\ ctr[n] < MaxCtr[n]
    /\ restarts' = restarts + 1
    /\ ctr' = [ctr EXCEPT ![n] = @ + 1]
    /\ box' = [box EXCEPT ![n] = {}]
    /\ win' = [win EXCEPT ![n] = [p \in Node |-> Empty]]
    /\ endp' = [endp EXCEPT ![n] = [p \in Node |-> NoAddr]]
    /\ heard' = [heard EXCEPT ![n] = {}]
    /\ got' = [got EXCEPT ![n] = {}]
    /\ epc' = [epc EXCEPT ![n] = [p \in Node |-> 0]]
    /\ UNCHANGED <<addr, net, moves, again>>

Next ==
    \/ \E n, p \in Node : \/ add_peer_binding(n, p) \/ set_peer_endpoint(n, p)
                          \/ route(n, p) \/ Silence(n, p)
    \/ \E n \in Node, d \in net : open_relayed(n, d) \/ \E a \in Addr : _on_datagram(n, d, a)
    \/ \E n \in Node : Restart(n) \/ \E a \in Addr : Move(n, a)

Spec == Init /\ [][Next]_vars

-----------------------------------------------------------------------------
(* Properties *)

\* Late, repeated, reordered, copied and relayed datagrams included, a node hands
\* a frame to the layer above at most once while it runs.
AtMostOnce == again = {}

\* The window knows exactly the counters delivered among the last Size: no fresh
\* frame inside it is refused, no delivered one forgotten.
WindowExact ==
    \A n, p \in Node :
        LET w == win[n][p]
            D == {x[2] : x \in {y \in got[n] : y[1] = p}}
        IN  IF w.highest = None THEN D = {}
            ELSE /\ w.highest \in D /\ \A c \in D : c =< w.highest
                 /\ w.bits = {i \in 0 .. (Size - 1) : w.highest - i \in D}

\* Roaming: while a node runs, a frame never moves a peer's endpoint back to
\* where an earlier frame came from.
NoDragBack ==
    [][\A n, p \in Node : epc'[n][p] < epc[n][p] => restarts' = restarts + 1]_vars

\* Of the frames, the newest set the endpoint last, unless it came through the relay:
\* such a frame raises the window's highest counter and leaves the endpoint alone.
EndpointIsNewest ==
    \A n, p \in Node :
        win[n][p].highest # None /\ epc[n][p] # win[n][p].highest
            => \E d \in net : /\ d.path = "relay" /\ d.frame.to = n /\ d.frame.from = p
                              /\ d.frame.ctr = win[n][p].highest

=============================================================================
