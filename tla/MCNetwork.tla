----------------------------- MODULE MCNetwork -----------------------------
(***************************************************************************)
(* The network under the nodes on small instances, side by side: `which'   *)
(* says which of them a behaviour is about, the others stay at their       *)
(* initial state.                                                          *)
(*   transport   DirectTransport: n1 mostly sends, n2 mostly receives      *)
(*   lease       Relay: one client, two relays, time enough for a lease    *)
(*   route       Relay: two clients, a message between them                *)
(*   full        Relay: two clients on relays with room for one            *)
(*   meet        Rendezvous: one node registers, one looks it up           *)
(*   upgrade     Upgrade: one peer with two endpoints, two threads that dial *)
(*   lookup      Directory: three nodes, buckets of one                    *)
(***************************************************************************)
EXTENDS DirectTransport, Upgrade, TLC

CONSTANTS n1, n2, a1, a2, a3, u1, u2, r1, r2, k1, Nil

VARIABLES
  which,
  relayNow, at, up, clients, last_ts, leases, down, issued, refreshed, relayNet, inbox, since,
  relayMoves, stops,
  meetNow, meetAt, registry, meetLast_ts, meetIssued, meetPending, reflexive, lookups, answer,
  caller, returned, meetNet, given, asked,
  seen, view, buckets, records, search, lookupHeard

Homes == (n1 :> a1) @@ (n2 :> a2)
Mutual == [n \in Node |-> Node \ {n}]
Counters == (n1 :> 4) @@ (n2 :> 1)

Leasing == INSTANCE Relay WITH None <- Nil, Clients <- {u1}, Relays <- <<r1, r2>>,
  Addrs <- {1, 2}, Lease <- 6, MaxClients <- 1, MaxSkew <- 3, RenewEvery <- 2,
  AckTimeout <- 1, DownFor <- 2, MaxRelays <- 1, MaxTime <- 7, MaxMoves <- 1, MaxStops <- 1,
  MaxMessages <- 0, net <- relayNet, now <- relayNow,
  moves <- relayMoves
Routing == INSTANCE Relay WITH None <- Nil, Clients <- {u1, u2}, Relays <- <<r1>>,
  Addrs <- {1, 2}, Lease <- 5, MaxClients <- 2, MaxSkew <- 3, RenewEvery <- 2,
  AckTimeout <- 1, DownFor <- 2, MaxRelays <- 1, MaxTime <- 1, MaxMoves <- 1, MaxStops <- 0,
  MaxMessages <- 1, net <- relayNet, now <- relayNow,
  moves <- relayMoves
Full == INSTANCE Relay WITH None <- Nil, Clients <- {u1, u2}, Relays <- <<r1, r2>>,
  Addrs <- {1, 2}, Lease <- 5, MaxClients <- 1, MaxSkew <- 3, RenewEvery <- 2,
  AckTimeout <- 1, DownFor <- 2, MaxRelays <- 1, MaxTime <- 2, MaxMoves <- 0, MaxStops <- 0,
  MaxMessages <- 0, net <- relayNet, now <- relayNow,
  moves <- relayMoves
Meeting == INSTANCE Rendezvous WITH None <- Nil, Callers <- {k1}, Addrs <- {1, 2},
  MaxSkew <- 1, TTL <- 1, MaxPending <- 1, MaxTime <- 3, MaxRegisters <- 2, MaxLookups <- 1,
  now <- meetNow, at <- meetAt, last_ts <- meetLast_ts, issued <- meetIssued, pending <- meetPending,
  net <- meetNet
Looking == INSTANCE Directory WITH Nodes <- {1, 2, 3}, K <- 1, Alpha <- 2, Count <- 1,
  Target <- 3, Seed <- {1, 2}, MaxSeen <- 1, MaxRounds <- 2, heard <- lookupHeard

relayVars == <<relayNow, at, up, clients, last_ts, leases, down, issued, refreshed, relayNet,
               inbox, since, relayMoves, stops>>
meetVars == <<meetNow, meetAt, registry, meetLast_ts, meetIssued, meetPending, reflexive,
              lookups, answer, caller, returned, meetNet, given, asked>>
lookupVars == <<seen, view, buckets, records, search, lookupHeard>>
mcvars == <<vars, relayVars, meetVars, upgradeVars, lookupVars, which>>

relayIdle == relayNow = Nil /\ at = Nil /\ up = Nil /\ clients = Nil /\ last_ts = Nil /\
             leases = Nil /\ down = Nil /\ issued = Nil /\ refreshed = Nil /\ relayNet = Nil
             /\ inbox = Nil /\ since = Nil /\ relayMoves = Nil /\ stops = Nil
meetIdle == meetNow = Nil /\ meetAt = Nil /\ registry = Nil /\ meetLast_ts = Nil /\
            meetIssued = Nil /\ meetPending = Nil /\ reflexive = Nil /\ lookups = Nil /\
            answer = Nil /\ caller = Nil /\ returned = Nil /\ meetNet = Nil /\ given = Nil
            /\ asked = Nil
lookupIdle == seen = Nil /\ view = Nil /\ buckets = Nil /\ records = Nil /\ search = Nil /\
              lookupHeard = Nil

(* An instance that a behaviour is not about stays where it starts. *)
upgradeIdle == UpgradeInit /\ reach = {CHOOSE e \in Endpoints : TRUE}

MCInit ==
  /\ Init
  /\ \/ which = "transport" /\ relayIdle /\ meetIdle /\ upgradeIdle /\ lookupIdle
     \/ /\ \/ which = "lease" /\ Leasing!Init
           \/ which = "route" /\ Routing!Init
           \/ which = "full" /\ Full!Init
        /\ meetIdle /\ upgradeIdle /\ lookupIdle
     \/ which = "meet" /\ Meeting!Init /\ relayIdle /\ upgradeIdle /\ lookupIdle
     \/ which = "upgrade" /\ UpgradeInit /\ relayIdle /\ meetIdle /\ lookupIdle
     \/ which = "lookup" /\ Looking!Init /\ relayIdle /\ meetIdle /\ upgradeIdle

MCNext ==
  /\ UNCHANGED which
  /\ \/ which = "transport" /\ Next /\ UNCHANGED <<relayVars, meetVars, upgradeVars, lookupVars>>
     \/ /\ \/ which = "lease" /\ Leasing!Next
           \/ which = "route" /\ Routing!Next
           \/ which = "full" /\ Full!Next
        /\ UNCHANGED <<vars, meetVars, upgradeVars, lookupVars>>
     \/ which = "meet" /\ Meeting!Next /\ UNCHANGED <<vars, relayVars, upgradeVars, lookupVars>>
     \/ which = "upgrade" /\ UpgradeNext /\ UNCHANGED <<vars, relayVars, meetVars, lookupVars>>
     \/ which = "lookup" /\ Looking!Next /\ UNCHANGED <<vars, relayVars, meetVars, upgradeVars>>

MCSpec == MCInit /\ [][MCNext]_mcvars

(* What a node finds of the others is so: a lease it counts as live is a    *)
(* registration its relay counts as live, and a relay that is gone is       *)
(* advertised no longer than a renewal and the time an answer gets; the     *)
(* rendezvous hands out the address of the newest register it had been      *)
(* given, and one not sent too long ago, however late, repeated or          *)
(* overtaken registers are; a routing table holds each record in the one    *)
(* bucket of its distance, over refreshes, evictions and removals           *)
(* (RelayClient.refresh, RelayServer._on_register, RendezvousServer._admit, *)
(* RoutingTable.add).                                                       *)
FoundIsSo ==
  CASE which = "lease" -> Leasing!TypeOK /\ Leasing!LeaseIsHeld /\ Leasing!DeadIsNoticed
    [] which = "route" -> Routing!TypeOK /\ Routing!LeaseIsHeld
    [] which = "full" -> Full!TypeOK /\ Full!LeaseIsHeld
    [] which = "meet" -> Meeting!TypeOK /\ Meeting!ResultIsCurrent
    [] which = "upgrade" -> UpgradeTypeOK
    [] which = "lookup" -> Looking!TypeOK /\ Looking!TableIsConsistent
    [] OTHER -> TRUE
=============================================================================
