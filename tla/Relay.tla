------------------------------- MODULE Relay --------------------------------
(***************************************************************************)
(* The relay role (relay.py): RelayService, the leases a RelayClient keeps *)
(* with relays, and a message routed through one.  Time goes in ticks; a   *)
(* client calls refresh once in each (the node does every few seconds).    *)
(* Frames are signed by members of the allowlist; the network may lose,    *)
(* delay, repeat and reorder them, so that a frame that was sent stays in  *)
(* net.  One over the rate limit is a lost frame.  A node may change its   *)
(* address, a relay may stop, crash and come back.                         *)
(***************************************************************************)
EXTENDS Integers, Sequences, FiniteSets

CONSTANTS
  None,
  Clients,
  Relays,       \* the relay-role peers, as a sequence: the freshest record first
  Addrs,        \* the addresses a client may have
  Lease, MaxClients, MaxSkew,              \* the relay's settings
  RenewEvery, AckTimeout, DownFor, MaxRelays,   \* the client's
  MaxTime, MaxMoves, MaxStops, MaxMessages

RelaySet == {Relays[i] : i \in DOMAIN Relays}
Fine == 10      \* timestamps between two ticks

VARIABLES
  now,
  at,        \* where each client is
  up,        \* the relays that serve
  clients,   \* _clients: relay -> client -> its registration, or None
  last_ts,   \* _last_ts of each relay
  leases,    \* _leases: client -> relay -> lease, or None
  down,      \* _down: client -> relay -> skipped until
  issued,    \* _last_ts of each client
  refreshed, \* the clients that called refresh in this tick
  net,
  inbox,     \* what was delivered through a relay
  since,     \* history: since when a relay serves, or does not
  moves, stops

relay == <<up, clients, last_ts, since, stops>>
client == <<leases, down, issued, refreshed>>
vars == <<now, at, relay, client, net, inbox, moves>>

Init ==
  /\ now = 0 /\ moves = 0 /\ stops = 0
  /\ at \in [Clients -> {CHOOSE a \in Addrs : TRUE}]
  /\ up = RelaySet /\ since = [r \in RelaySet |-> -1]
  /\ clients = [r \in RelaySet |-> [c \in Clients |-> None]]
  /\ last_ts = [r \in RelaySet |-> [c \in Clients |-> -Fine * MaxTime]]
  /\ leases = [c \in Clients |-> [r \in RelaySet |-> None]]
  /\ down = [c \in Clients |-> [r \in RelaySet |-> 0]]
  /\ issued = [c \in Clients |-> 0]
  /\ refreshed = {} /\ net = {} /\ inbox = {}

-----------------------------------------------------------------------------
(* The relay. *)

_expire(table) == [c \in Clients |-> IF table[c] # None /\ table[c].expires_at <= now THEN None ELSE table[c]]

RegistrationKept(reg, a) == [addr |-> a, expires_at |-> IF reg = None THEN now + Lease ELSE reg.expires_at]
Registration(reg, a) == [addr |-> a, expires_at |-> now + Lease]

(* A register is taken when it is fresh and newer than the last one taken   *)
(* from that client; a new client needs a free place.                       *)
Fresh(r, f) == now * Fine - f.ts \in (-MaxSkew * Fine)..(MaxSkew * Fine)
Newer(r, f) == f.ts > last_ts[r][f.from]
_on_register(r, f) ==
  LET c == f.from
      table == IF clients[r][c] = None THEN _expire(clients[r]) ELSE clients[r]
      used == Cardinality({d \in Clients : table[d] # None})
  IN /\ f.t = "register" /\ f.to = r /\ r \in up
     /\ Fresh(r, f) /\ Newer(r, f)
     /\ IF clients[r][c] = None /\ used >= MaxClients
        THEN clients' = [clients EXCEPT ![r] = table] /\ UNCHANGED <<last_ts, net>>
        ELSE /\ last_ts' = [last_ts EXCEPT ![r][c] = f.ts]
             /\ clients' = [clients EXCEPT ![r] = [table EXCEPT ![c] = Registration(@, f.addr)]]
             /\ net' = net \cup {[t |-> "ack", from |-> r, to |-> c, addr |-> f.addr, ts |-> f.ts]}
     /\ UNCHANGED <<now, at, up, since, stops, client, inbox, moves>>

(* A frame for another client goes to the address that client registered.   *)
_on_send(r, f) ==
  LET reg == clients[r][f.dst]
  IN /\ f.t = "send" /\ f.to = r /\ r \in up
     /\ reg # None /\ f.dst # f.from /\ reg.expires_at > now
     /\ net' = net \cup {[t |-> "deliver", from |-> r, to |-> f.dst, addr |-> reg.addr, m |-> f.m]}
     /\ net' # net
     /\ UNCHANGED <<now, at, relay, client, inbox, moves>>

(* stop: the role is withdrawn and every lease forgotten.                   *)
stop(r) ==
  /\ r \in up /\ stops < MaxStops
  /\ stops' = stops + 1
  /\ up' = up \ {r} /\ since' = [since EXCEPT ![r] = now]
  /\ clients' = [clients EXCEPT ![r] = [c \in Clients |-> None]]
  /\ UNCHANGED <<now, at, last_ts, client, net, inbox, moves>>

(* A new RelayService: it knows neither the clients nor their timestamps.   *)
Restart(r) ==
  /\ r \notin up
  /\ up' = up \cup {r} /\ since' = [since EXCEPT ![r] = now]
  /\ last_ts' = [last_ts EXCEPT ![r] = [c \in Clients |-> -Fine * MaxTime]]
  /\ UNCHANGED <<now, at, clients, stops, client, net, inbox, moves>>

-----------------------------------------------------------------------------
(* The client. *)

Live(l) == l # None /\ l.expires_at > now
relays(c) == {r \in RelaySet : Live(leases[c][r])}

(* _request: the lease waits for an answer to this register alone.          *)
_requestUnmarked(l, ts) == [l EXCEPT !.ts = ts, !.requested_at = now]
_request(l, ts) == [l EXCEPT !.ts = ts, !.requested_at = now, !.pending = TRUE]
New == [requested_at |-> 0, ts |-> 0, pending |-> TRUE, expires_at |-> 0]

Gone(l) == l # None /\ l.pending /\ now - l.requested_at > AckTimeout
Due(l) == l # None /\ ~l.pending /\ now - l.requested_at >= RenewEvery

(* refresh: give up on the relays that do not answer, renew with the        *)
(* others, then ask new ones as long as there are too few.                  *)
refresh(c) ==
  LET L == leases[c]
      gone == {r \in RelaySet : Gone(L[r])}
      kept == {r \in RelaySet : L[r] # None} \ gone
      skipped == [r \in RelaySet |-> IF r \in gone THEN now + DownFor ELSE down[c][r]]
      open == SelectSeq(Relays, LAMBDA r : r \notin kept /\ skipped[r] <= now)
      room == IF MaxRelays > Cardinality(kept) THEN MaxRelays - Cardinality(kept) ELSE 0
      new == SubSeq(open, 1, IF Len(open) < room THEN Len(open) ELSE room)
      out == SelectSeq(Relays, LAMBDA r : r \in kept /\ Due(L[r])) \o new
      first == IF now * Fine > issued[c] THEN now * Fine ELSE issued[c] + 1
      Ts(i) == first + i - 1
  IN /\ c \notin refreshed
     /\ refreshed' = refreshed \cup {c}
     /\ down' = [down EXCEPT ![c] = skipped]
     /\ leases' = [leases EXCEPT ![c] = [r \in RelaySet |->
                     IF \E i \in DOMAIN out : out[i] = r
                     THEN _request(IF r \in kept THEN L[r] ELSE New, Ts(CHOOSE i \in DOMAIN out : out[i] = r))
                     ELSE IF r \in kept THEN L[r] ELSE None]]
     /\ issued' = [issued EXCEPT ![c] = IF out = <<>> THEN @ ELSE Ts(Len(out))]
     /\ net' = net \cup {[t |-> "register", from |-> c, to |-> out[i], addr |-> at[c], ts |-> Ts(i)] : i \in DOMAIN out}
     /\ UNCHANGED <<now, at, relay, inbox, moves>>

(* An ack reaches the client where it is; it counts when it echoes the      *)
(* register the lease waits for.                                            *)
_on_ack(c, f) ==
  LET l == leases[c][f.from]
  IN /\ f.t = "ack" /\ f.to = c /\ f.addr = at[c]
     /\ l # None
     /\ l.pending /\ f.ts = l.ts
     /\ leases' = [leases EXCEPT ![c][f.from] = [l EXCEPT !.pending = FALSE, !.expires_at = now + Lease]]
     /\ UNCHANGED <<now, at, relay, down, issued, refreshed, net, inbox, moves>>

_on_deliver(c, f) ==
  /\ f.t = "deliver" /\ f.to = c /\ f.addr = at[c]
  /\ leases[c][f.from] # None
  /\ <<c, f.m>> \notin inbox      \* open_relayed: the replay window
  /\ inbox' = inbox \cup {<<c, f.m>>}
  /\ UNCHANGED <<now, at, relay, client, net, moves>>

(* route: through a relay the peer advertises - one it has, or had, a live  *)
(* lease with - that this node does not skip, one of its own live ones      *)
(* first.                                                                   *)
route(c, d, m) ==
  LET open == {r \in RelaySet : leases[d][r] # None /\ down[c][r] <= now}
      best == IF open \cap relays(c) # {} THEN open \cap relays(c) ELSE open
  IN /\ c # d
     /\ \A f \in net : f.t = "send" => f.m # m
     /\ \E r \in best : net' = net \cup {[t |-> "send", from |-> c, to |-> r, dst |-> d, m |-> m]}
     /\ UNCHANGED <<now, at, relay, client, inbox, moves>>

-----------------------------------------------------------------------------
Move(c) ==
  /\ moves < MaxMoves
  /\ moves' = moves + 1
  /\ \E a \in Addrs \ {at[c]} : at' = [at EXCEPT ![c] = a]
  /\ UNCHANGED <<now, relay, client, net, inbox>>

Tick ==
  /\ now < MaxTime
  /\ refreshed = Clients
  /\ now' = now + 1
  /\ refreshed' = {}
  /\ UNCHANGED <<at, relay, leases, down, issued, net, inbox, moves>>

Next ==
  \/ Tick
  \/ \E r \in RelaySet : stop(r) \/ Restart(r)
  \/ \E r \in RelaySet, f \in net : _on_register(r, f) \/ _on_send(r, f)
  \/ \E c \in Clients : refresh(c) \/ Move(c)
  \/ \E c \in Clients, f \in net : _on_ack(c, f) \/ _on_deliver(c, f)
  \/ \E c, d \in Clients, m \in 1..MaxMessages : route(c, d, m)

Spec == Init /\ [][Next]_vars

-----------------------------------------------------------------------------
TypeOK ==
  /\ now \in 0..MaxTime /\ up \subseteq RelaySet /\ refreshed \subseteq Clients
  /\ \A r \in RelaySet : Cardinality({c \in Clients : clients[r][c] # None}) <= MaxClients
  /\ \A c \in Clients : Cardinality({r \in RelaySet : leases[c][r] # None}) <= MaxRelays
  /\ \A c \in Clients, r \in RelaySet : leases[c][r] # None => leases[c][r].requested_at <= now

(* A relay a node advertises does serve it: as long as the relay has not    *)
(* stopped in between, a lease the client counts as live is a registration  *)
(* the relay counts as live - however late the ack came.                    *)
LeaseIsHeld ==
  \A c \in Clients, r \in RelaySet :
     Live(leases[c][r]) /\ r \in up /\ since[r] = -1 => clients[r][c] # None /\ clients[r][c].expires_at > now

(* A relay that is gone is noticed within a renewal and the time an answer  *)
(* gets: no node advertises it for longer, late acks or not.                *)
DeadIsNoticed ==
  \A c \in Clients, r \in RelaySet :
     r \notin up /\ now - since[r] > RenewEvery + AckTimeout + 1 => ~Live(leases[c][r])
=============================================================================
