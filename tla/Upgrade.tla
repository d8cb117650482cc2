------------------------------ MODULE Upgrade -------------------------------
(***************************************************************************)
(* The direct-path upgrade (upgrade.py, DirectUpgrader and UpgradeState)   *)
(* of one peer, over DirectUDPTransport, with a relay to fall back on.     *)
(* The peer answers probes, sends data and asks to CONNECT as it likes; it *)
(* can be reached directly at some of its endpoints, which may change.     *)
(* The network loses, delays and reorders; what it repeats is dropped by   *)
(* the replay window, so a frame is handed up once.                        *)
(*                                                                         *)
(* Several threads probe, and another one receives.  A probe first aims    *)
(* the transport at its endpoint and then routes the frame to wherever the *)
(* transport aims by then: no lock covers the two.                         *)
(***************************************************************************)
EXTENDS Integers, Sequences, FiniteSets

CONSTANTS
  Nowhere,       \* no endpoint
  Endpoints,     \* where the peer may be, or say it is
  Dialer,        \* the threads that probe
  DeadAfter,
  MaxTime, MaxProbes, MaxFrames    \* BOUNDS

ASSUME UpgradeConstants ==
  /\ Nowhere \notin Endpoints
  /\ DeadAfter \in Nat /\ MaxTime \in Nat /\ MaxProbes \in Nat /\ MaxFrames \in Nat

VARIABLES
  now,
  state, direct_endpoint, last_seen,   \* the peer's UpgradeState
  pending,       \* _pending: nonce -> the endpoint it was sent to, or Nowhere
  counter,       \* _counter
  target,        \* the transport's endpoint of the peer: where frames go
  dialing,       \* a dialer's probe that is aimed and not yet routed (0: none), and
                 \* the endpoints it dials after it
  highest,       \* the highest counter of the peer's frames so far
  active,        \* the session's active endpoint
  reach,         \* where the peer can be reached
  frames,        \* frames to and from the peer, and CONNECTs through the relay
  sent,          \* the peer's frames so far
  proven,        \* history: where the peer was given a probe, by nonce
  swerved,       \* history: the probes whose endpoint was moved before they were routed
  given_up       \* history: nonces up to this one were given up

peerstate == <<state, direct_endpoint, last_seen>>
wire == <<reach, frames, sent>>
history == <<proven, swerved, given_up>>
upgradeVars == <<now, peerstate, pending, counter, target, dialing, highest, active, wire,
                 history>>

Nonces == 1..MaxProbes
Resting == [nonce |-> 0, left |-> <<>>]

UpgradeInit ==
  /\ now = 0
  /\ state = "relayed" /\ direct_endpoint = Nowhere /\ last_seen = 0
  /\ pending = [n \in Nonces |-> Nowhere] /\ counter = 0
  /\ target = Nowhere /\ highest = 0 /\ active = Nowhere
  /\ dialing = [t \in Dialer |-> Resting]
  /\ reach \in {{e} : e \in Endpoints} /\ frames = {} /\ sent = 0
  /\ proven = [n \in Nonces |-> Nowhere] /\ swerved = {} /\ given_up = 0

is_direct == state = "direct"

(* The transport's endpoint of the peer becomes e; probes on their way from *)
(* their aim to their route go there too.                                   *)
TurnTo(e) ==
  /\ target' = e
  /\ swerved' = IF e = target THEN swerved
                ELSE swerved \cup ({dialing[t].nonce : t \in Dialer} \ {0})

(* probe, up to the route: a fresh nonce, pending for the endpoint, which   *)
(* is the transport's from now on.  The list is dialled one by one.         *)
Aim(t, eps) ==
  LET n == counter + 1
  IN /\ dialing[t].nonce = 0 /\ n <= MaxProbes
     /\ counter' = n
     /\ state' = IF is_direct THEN state ELSE "probing"
     /\ pending' = [pending EXCEPT ![n] = Head(eps)]
     /\ TurnTo(Head(eps))
     /\ dialing' = [dialing EXCEPT ![t] = [nonce |-> n, left |-> Tail(eps)]]
     /\ UNCHANGED <<now, direct_endpoint, last_seen, highest, active, wire,
                    proven, given_up>>

(* route: the endpoint is looked up again.                                  *)
route_probe(t) ==
  /\ dialing[t].nonce # 0
  /\ frames' = frames \cup {[k |-> "probe", nonce |-> dialing[t].nonce, at |-> target]}
  /\ dialing' = [dialing EXCEPT ![t].nonce = 0]
  /\ UNCHANGED <<now, peerstate, pending, counter, target, highest, active, reach, sent, history>>

Idle(t) == dialing[t] = Resting

probe(t, e) == Idle(t) /\ Aim(t, <<e>>)

keepalive(t) == is_direct /\ probe(t, direct_endpoint)

(* connect: through the relay, which is not part of this state.             *)
(* handle_relay: dial every endpoint of a CONNECT of the peer.              *)
handle_relay(t, eps) == Idle(t) /\ Aim(t, eps)
DialNext(t) == dialing[t].left # <<>> /\ Aim(t, dialing[t].left)

-----------------------------------------------------------------------------
(* The peer, and the paths to it. *)

(* The peer's next frame, in answer to frame f if there is one. *)
PeerSends(k, n, f) ==
  /\ sent < MaxFrames /\ sent' = sent + 1
  /\ \E e \in reach : frames' = (frames \ f) \cup {[k |-> k, nonce |-> n, ctr |-> sent + 1, at |-> e]}

PeerData ==
  /\ PeerSends("data", 0, {})
  /\ UNCHANGED <<now, peerstate, pending, counter, target, dialing, highest, active, reach, history>>

PeerProbed(f) ==
  /\ f.k = "probe" /\ f.at \in reach
  /\ PeerSends("ack", f.nonce, {f})
  /\ proven' = [proven EXCEPT ![f.nonce] = f.at]
  /\ UNCHANGED <<now, peerstate, pending, counter, target, dialing, highest, active, reach,
                 swerved, given_up>>

PathsChange ==
  /\ reach' \in ({{}} \cup {{e} : e \in Endpoints}) \ {reach}
  /\ UNCHANGED <<now, peerstate, pending, counter, target, dialing, highest, active, frames, sent,
                 history>>

-----------------------------------------------------------------------------
(* An ack proves the endpoint its probe was sent to.                        *)
ProvesTarget(nonce) == IF pending[nonce] = Nowhere THEN Nowhere ELSE target
Proves(nonce) == pending[nonce]

(* handle, after _on_datagram: the newest frame moves the endpoint; any     *)
(* frame keeps a direct path alive.                                         *)
handle(f) ==
  LET e == IF f.k = "ack" THEN Proves(f.nonce) ELSE Nowhere
  IN /\ f.k \in {"ack", "data"}
     /\ frames' = frames \ {f}
     /\ IF f.ctr > highest \/ target = Nowhere THEN TurnTo(f.at) ELSE UNCHANGED <<target, swerved>>
     /\ highest' = IF f.ctr > highest THEN f.ctr ELSE highest
     /\ IF e = Nowhere
        THEN /\ last_seen' = IF is_direct THEN now ELSE last_seen
             /\ UNCHANGED <<state, direct_endpoint, active, pending>>
        ELSE /\ state' = "direct" /\ direct_endpoint' = e /\ active' = e /\ last_seen' = now
             /\ pending' = [pending EXCEPT ![f.nonce] = Nowhere]
     /\ UNCHANGED <<now, counter, dialing, reach, sent, proven, given_up>>

on_timeout ==
  /\ pending' = [n \in Nonces |-> Nowhere]
  /\ given_up' = counter
  /\ IF is_direct THEN UNCHANGED <<state, direct_endpoint>> ELSE state' = "relayed" /\ direct_endpoint' = Nowhere
  /\ UNCHANGED <<now, last_seen, counter, target, dialing, highest, active, wire, proven, swerved>>

sweep ==
  /\ is_direct /\ now - last_seen > DeadAfter
  /\ state' = "relayed" /\ direct_endpoint' = Nowhere
  /\ UNCHANGED <<now, last_seen, pending, counter, target, dialing, highest, active, wire, history>>

Tick ==
  /\ now < MaxTime /\ now' = now + 1
  /\ UNCHANGED <<peerstate, pending, counter, target, dialing, highest, active, wire, history>>

UpgradeNext ==
  \/ PeerData \/ PathsChange \/ on_timeout \/ sweep \/ Tick
  \/ \E t \in Dialer : route_probe(t) \/ keepalive(t) \/ DialNext(t)
  \/ \E t \in Dialer, e \in Endpoints : probe(t, e)
  \/ \E t \in Dialer, f, g \in Endpoints : handle_relay(t, <<f, g>>)
  \/ \E f \in frames : handle(f) \/ PeerProbed(f)

UpgradeSpec == UpgradeInit /\ [][UpgradeNext]_upgradeVars

-----------------------------------------------------------------------------
(* The state and the endpoint go together, and what the node counts it has  *)
(* sent or been sent (UpgradeState, DirectUpgrader.probe).                  *)
UpgradeTypeOK ==
  /\ state \in {"relayed", "probing", "direct"}
  /\ direct_endpoint \in Endpoints \cup {Nowhere} /\ (direct_endpoint # Nowhere <=> is_direct)
  /\ pending \in [Nonces -> Endpoints \cup {Nowhere}]
  /\ dialing \in [Dialer -> [nonce : 0..counter, left : Seq(Endpoints)]]
  /\ target \in Endpoints \cup {Nowhere}
  /\ counter \in 0..MaxProbes /\ highest \in 0..sent /\ last_seen \in 0..now

NewPathIsProven ==
  direct_endpoint' \notin {Nowhere, direct_endpoint} =>
    \E n \in Nonces : /\ n > given_up /\ proven[n] # Nowhere
                      /\ pending[n] = direct_endpoint'
                      /\ proven[n] = direct_endpoint' \/ n \in swerved

(* A path becomes the direct one only on the answer to a probe that is      *)
(* pending for it, that the peer was given, and that the node had not given *)
(* up on, whatever order the answers come in.  The peer was given it at     *)
(* that very endpoint - unless the receive thread or another probe moved    *)
(* the transport's endpoint between the aim of the probe and its route.     *)
DirectIsProven == [][NewPathIsProven]_upgradeVars

(* What the comment in handle says, "a direct round-trip is proven for the  *)
(* endpoint we probed": the peer was given a probe there.                   *)
RoundTripProven ==
  [][direct_endpoint' \notin {Nowhere, direct_endpoint} =>
       \E n \in Nonces : proven[n] = direct_endpoint']_upgradeVars

=============================================================================
