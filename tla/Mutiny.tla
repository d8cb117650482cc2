------------------------------- MODULE Mutiny -------------------------------
(***************************************************************************)
(* The inference mesh's answer to a mutiny: the ledger of proven incidents *)
(* and operator resets every participant keeps, the flooding that feeds it *)
(* (participant.py), and the key authority, which takes its leases back    *)
(* and rotates the key a convicted node had (broker.py, lease.py).         *)
(*                                                                         *)
(* Frames are never removed from `net': one may be received late, again,   *)
(* out of order, or not at all.  The recently-seen set of Participant only *)
(* saves work - every object is ignored when it is absorbed a second time  *)
(* - and is left out, as is the rule not to flood an object back where it  *)
(* came from.  One model is lent; other models do not interact with it.    *)
(* Objects are reports whose evidence convicts: any other is dropped.      *)
(***************************************************************************)
EXTENDS Integers, Sequences, FiniteSets, SequencesExt

CONSTANTS
  Nodes,         \* the model nodes; some may serve requests too
  Broker, User,  \* the key authority and a user of the mesh
  Objects,       \* incident id |-> the signed report, its kind and whom it is about
  ResetOf,       \* reset id |-> the targets and the incident ids it lists
  Links,         \* the mesh: pairs of neighbours
  CanMint,       \* whether the key source has an API to rotate with
  Sources,       \* the members where reports and resets enter the mesh
  Entries,       \* the nodes the user asks for their directory
  DirIncidents,  \* how many incidents a directory answer carries
  TTL,           \* the life of a lease; it is renewed in the second half
  MaxTime,       \* bound: the clock
  MaxLeases,     \* bound: leases granted
  MaxVersion,    \* bound: key versions
  MaxBeats,      \* bound: heartbeats of a node
  MaxDirs        \* bound: directory answers

ASSUME MutinyConstants ==
  /\ IsFiniteSet(Nodes) /\ IsFiniteSet(DOMAIN Objects)
  /\ Broker \notin Nodes /\ User \notin Nodes /\ User # Broker
  /\ CanMint \in BOOLEAN /\ Sources \subseteq Nodes \cup {Broker, User} /\ Entries \subseteq Nodes
  /\ DirIncidents \in Nat /\ TTL \in Nat
  /\ MaxTime \in Nat /\ MaxVersion \in Nat \ {0}

Mesh == Nodes \cup {Broker}
Members == Mesh \cup {User}

node_target(n) == <<"node", n>>
decider_target(n) == <<"decider", n>>
model_target == <<"model", "m">>
Targets == {node_target(n) : n \in Nodes} \cup {decider_target(n) : n \in Nodes} \cup {model_target}

VARIABLES
  incidents,  \* _incidents: when each verified incident came, by number; 0 if it has not
  latches,    \* _latches: the incidents that hold each target
  cleared,    \* _cleared: (target, incident) pairs an operator cleared
  resets,     \* _resets
  book,       \* the lease book of each participant: leases it knows ...
  revoked,    \* ... and lease ids it knows to be revoked
  beats,      \* the newest heartbeat of each node that each participant merged
  held,       \* _held: the grants a model node has opened
  users,      \* the mesh nodes the user is attached to
  leases,     \* every lease signed so far, by lease id
  now,        \* the clock, the same for everyone
  issued,     \* the broker's _issued
  dark,       \* the broker's _dark: the version not to lend again, -1 if none
  version,    \* the key source's current version
  net,
  exposed,    \* history: versions leased to a node when it was convicted
  everHeld    \* history: versions a node convicted as a node was ever lent

ledger == <<incidents, latches, cleared, resets>>
lending == <<leases, issued, dark, version, exposed, everHeld>>
vars == <<incidents, latches, cleared, resets, book, revoked, beats, held, users, leases, now, issued,
          dark, version, net, exposed, everHeld>>

-----------------------------------------------------------------------------
(* The ledger. *)

(* verify_incident: whom the evidence of each kind convicts. *)
verify_incident(i) ==
  LET o == Objects[i] IN
  CASE o.kind \in {"provider.equivocation", "provider.lease-violation", "provider.secret-exfiltration"}
         -> {node_target(o.node)}
    [] o.kind = "model.forbidden-capability" -> {model_target, node_target(o.node)}
    [] o.kind = "model.self-reported" -> {model_target}
    [] o.kind \in {"decider.tampering", "decider.self-reported"} -> {decider_target(o.node)}

excludes_node(l, n) == l[node_target(n)] # {} \/ l[decider_target(n)] # {}
lockdown(p) == \E t \in Targets : latches[p][t] # {}

HeldAgain(p, new, t) == latches[p][t] \cup {i \in new : t \in verify_incident(i)}

(* MutinyLedger.add: an incident holds what it names, unless cleared before. *)
Held(p, new, t) == latches[p][t] \cup {i \in new : t \in verify_incident(i) /\ <<t, i>> \notin cleared[p]}

(* MutinyLedger.reset: (target, incident) pairs an operator's resets clear. *)
Clears(rs) == UNION {ResetOf[r].targets \X ResetOf[r].ids : r \in rs}

Known(p) == {i \in DOMAIN Objects : incidents[p][i] > 0}

(* Participant p's latches once it has added the new ones of is and applied rs. *)
Latched(p, is, rs) ==
  [t \in Targets |-> {i \in Held(p, is \ Known(p), t) : <<t, i>> \notin Clears(rs)}]

(* Only a directory answer brings several incidents.  The user it comes to  *)
(* answers no queries, so they share a number there.                        *)
Absorb(p, is, rs) ==
  /\ incidents' = [incidents EXCEPT ![p] =
       [i \in DOMAIN @ |-> IF i \in is \ Known(p) THEN Cardinality(Known(p)) + 1 ELSE @[i]]]
  /\ latches' = [latches EXCEPT ![p] = Latched(p, is, rs \ resets[p])]
  /\ cleared' = [cleared EXCEPT ![p] = @ \cup Clears(rs)]
  /\ resets' = [resets EXCEPT ![p] = @ \cup rs]

-----------------------------------------------------------------------------
(* The wire. *)

Frame(to, k, x) == [to |-> to, k |-> k, x |-> x]
Neighbours(p) == {q \in Mesh : <<p, q>> \in Links \/ <<q, p>> \in Links}
flood(p, k, x) ==
  {Frame(q, k, x) : q \in Neighbours(p) \cup (IF p \in users /\ k # "heartbeat" THEN {User} ELSE {})}

-----------------------------------------------------------------------------
(* Lending. *)

(* issue_due: the nodes in good standing without a fresh lease of the       *)
(* current version v, under the ledger l and the leases iss.                *)
Due(l, iss, v, d) ==
  {n \in Nodes : ~excludes_node(l, n) /\ l[model_target] = {} /\ d < v
                 /\ ~\E x \in iss : leases[x].node = n /\ leases[x].version = v
                                  /\ 2 * (leases[x].expires_at - now) > TTL}
Grants(due, v) ==
  LET s == SetToSeq(due) IN [i \in 1..Len(s) |-> [node |-> s[i], version |-> v, expires_at |-> now + TTL]]
Live(xs) == {x \in xs : now < leases[x].expires_at}

(* Mistake: a lease recorded that was never signed. *)
LendUnsigned(l, iss, v, d, gone, out) ==
  /\ issued' = iss \cup {Len(leases) + 1}
  /\ UNCHANGED <<leases, revoked, book, net>>

(* _revoke of `gone', then issue_due and _grant; the frames out travel too. *)
Lend(l, iss, v, d, gone, out) ==
  LET new == Grants(Due(l, iss, v, d), v)
      ids == {Len(leases) + i : i \in DOMAIN new}
  IN /\ Len(leases) + Len(new) <= MaxLeases
     /\ leases' = leases \o new
     /\ issued' = iss \cup ids
     /\ revoked' = [revoked EXCEPT ![Broker] = @ \cup gone]
     /\ book' = [book EXCEPT ![Broker] = (@ \ gone) \cup ids]
     /\ net' = net \cup out \cup {Frame(new[x - Len(leases)].node, "grant", x) : x \in ids}
                   \cup (IF gone = {} THEN {} ELSE flood(Broker, "revocation", gone))

(* KeyBroker.on_tick: forget what has expired, renew what is due. *)
BrokerTick ==
  LET live == Live(issued)
  IN /\ live # issued \/ Due(latches[Broker], live, version, dark) # {}
     /\ Lend(latches[Broker], live, version, dark, {}, {})
     /\ UNCHANGED <<ledger, beats, held, users, now, dark, version, exposed, everHeld>>

(* Mistake: rotation leaves the leases of the older version out. *)
on_incidentKeepsOld(i) ==
  LET named == {n \in Nodes : node_target(n) \in verify_incident(i)}
      mine == {x \in issued : leases[x].node \in named}
      new == IF mine # {} /\ CanMint THEN version + 1 ELSE version
      nowDark == IF mine # {} /\ ~CanMint THEN version ELSE dark
  IN /\ new <= MaxVersion /\ version' = new /\ dark' = nowDark
     /\ exposed' = exposed \cup {leases[x].version : x \in mine}
     /\ UNCHANGED everHeld
     /\ Lend(Latched(Broker, {i}, {}), issued \ mine, new, nowDark, mine, flood(Broker, "incident", i))

(* KeyBroker.on_incident: take back what the convicted had, rotate the key *)
(* they had - or lend it no more - and renew the leases of the others.     *)
on_incident(i) ==
  LET named == {n \in Nodes : node_target(n) \in verify_incident(i)}
      mine == {x \in issued : leases[x].node \in named}
      model == model_target \in verify_incident(i)
      rotate == mine # {} \/ (model /\ Objects[i].kind = "model.self-reported")
      new == IF rotate /\ CanMint THEN version + 1 ELSE version
      gone == mine \cup (IF model THEN issued ELSE {})
                   \cup (IF rotate THEN {x \in issued : ~CanMint \/ leases[x].version < new} ELSE {})
      nowDark == IF rotate /\ ~CanMint THEN version ELSE dark
  IN /\ new <= MaxVersion
     /\ version' = new
     /\ dark' = nowDark
     /\ exposed' = exposed \cup {leases[x].version : x \in mine}
     /\ everHeld' = everHeld \cup {leases[x].version : x \in {y \in DOMAIN leases : leases[y].node \in named}}
     /\ Lend(Latched(Broker, {i}, {}), issued \ gone, new, nowDark, gone, flood(Broker, "incident", i))

(* MemoryKeySource.set: the operator installs a new key. *)
InstallKey ==
  /\ version < MaxVersion
  /\ version' = version + 1
  /\ UNCHANGED <<ledger, book, revoked, beats, held, users, leases, now, issued, dark, net, exposed, everHeld>>

Tick ==
  /\ now < MaxTime
  /\ now' = now + 1
  /\ UNCHANGED <<ledger, book, revoked, beats, held, users, lending, net>>

-----------------------------------------------------------------------------
(* Flooded objects: publish where one starts, _on_flood where one arrives,  *)
(* absorb in both; what is new travels on.                                  *)

absorb_incident(p, i) ==
  /\ i \notin Known(p)
  /\ Absorb(p, {i}, {})
  /\ IF p = Broker
     THEN on_incident(i)
     ELSE /\ net' = net \cup flood(p, "incident", i)
          /\ UNCHANGED <<lending, book, revoked>>
  /\ UNCHANGED <<beats, held, users, now>>

absorb_reset(p, r) ==
  /\ r \notin resets[p]
  /\ Absorb(p, {}, {r})
  /\ IF p = Broker /\ \E t \in Targets : latches[p][t] # {} /\ latches'[p][t] = {}
     THEN Lend(latches'[p], issued, version, dark, {}, flood(p, "reset", r))
     ELSE /\ net' = net \cup flood(p, "reset", r)
          /\ UNCHANGED <<leases, issued, book, revoked>>
  /\ UNCHANGED <<dark, version, exposed, everHeld, beats, held, users, now>>

absorb_revocation(p, ids) ==
  /\ ids \ revoked[p] # {}
  /\ revoked' = [revoked EXCEPT ![p] = @ \cup ids]
  /\ book' = [book EXCEPT ![p] = @ \ ids]
  /\ held' = [held EXCEPT ![p] = @ \ ids]
  /\ net' = net \cup flood(p, "revocation", ids)
  /\ UNCHANGED <<ledger, beats, users, lending, now>>

(* A heartbeat newer than the last one merged; its leases enter the book.  *)
absorb_heartbeat(p, hb) ==
  /\ hb.seq > beats[p][hb.node]
  /\ beats' = [beats EXCEPT ![p][hb.node] = hb.seq]
  /\ book' = [book EXCEPT ![p] = @ \cup (hb.leases \ revoked[p])]
  /\ net' = net \cup flood(p, "heartbeat", hb)
  /\ UNCHANGED <<ledger, revoked, held, users, lending, now>>

(* A report is published where the evidence is found, a reset wherever the *)
(* operator hands it in.                                                   *)
Report(p, i) == (\A q \in Members : i \notin Known(q)) /\ absorb_incident(p, i)
HandIn(p, r) == (\A q \in Members : r \notin resets[q]) /\ absorb_reset(p, r)

Receive(f) ==
  \/ f.k = "incident"   /\ absorb_incident(f.to, f.x)
  \/ f.k = "reset"      /\ absorb_reset(f.to, f.x)
  \/ f.k = "revocation" /\ absorb_revocation(f.to, f.x)
  \/ f.k = "heartbeat"  /\ absorb_heartbeat(f.to, f.x)

(* Participant._beat, with the leases MeshNode.advertised_leases shows.     *)
_beat(n) ==
  LET hb == [node |-> n, seq |-> beats[n][n] + 1,
             leases |-> Live(held[n] \ revoked[n])]
  IN /\ beats[n][n] < MaxBeats
     /\ beats' = [beats EXCEPT ![n][n] = @ + 1]
     /\ net' = net \cup flood(n, "heartbeat", hb)
     /\ UNCHANGED <<ledger, book, revoked, held, users, lending, now>>

_on_grantUnchecked(f) ==
  /\ f.k = "grant"
  /\ held' = [held EXCEPT ![f.to] = @ \cup {f.x}]
  /\ UNCHANGED <<ledger, book, revoked, beats, users, lending, now, net>>

(* MeshNode._on_grant: open a grant, unless it is known to be revoked.      *)
_on_grant(f) ==
  /\ f.k = "grant"
  /\ f.x \notin revoked[f.to] /\ ~(f.x \in held[f.to] /\ f.x \in book[f.to])
  /\ held' = [held EXCEPT ![f.to] = @ \cup {f.x}]
  /\ book' = [book EXCEPT ![f.to] = @ \cup {f.x}]
  /\ UNCHANGED <<ledger, revoked, beats, users, lending, now, net>>

(* MeshNode.on_tick: drop and prune the leases that have expired.           *)
NodeTick(n) ==
  LET old == (held[n] \cup book[n]) \ Live(held[n] \cup book[n])
  IN /\ old # {}
     /\ held' = [held EXCEPT ![n] = @ \ old]
     /\ book' = [book EXCEPT ![n] = @ \ old]
     /\ UNCHANGED <<ledger, revoked, beats, users, lending, now, net>>

-----------------------------------------------------------------------------
(* The directory: a user's query attaches it, and the answer carries the    *)
(* newest incidents only.                                                   *)

_on_dir_query(n) ==
  LET newest == {i \in Known(n) : incidents[n][i] > Cardinality(Known(n)) - DirIncidents}
      answer == [leases |-> Live(book[n]), incidents |-> newest, resets |-> resets[n]]
  IN /\ Cardinality({f \in net : f.k = "dir"}) < MaxDirs
     /\ users' = users \cup {n}
     /\ net' = net \cup {Frame(User, "dir", answer)}
     /\ <<users', net'>> # <<users, net>>
     /\ UNCHANGED <<ledger, book, revoked, beats, held, lending, now>>

_on_dir(f) ==
  /\ f.k = "dir"
  /\ Absorb(User, f.x.incidents, f.x.resets)
  /\ book' = [book EXCEPT ![User] = @ \cup (f.x.leases \ revoked[User])]
  /\ <<book', ledger'>> # <<book, ledger>>
  /\ UNCHANGED <<revoked, beats, held, users, lending, now, net>>

-----------------------------------------------------------------------------
Init ==
  /\ incidents = [p \in Members |-> [i \in DOMAIN Objects |-> 0]]
  /\ latches = [p \in Members |-> [t \in Targets |-> {}]]
  /\ cleared = [p \in Members |-> {}]
  /\ resets = [p \in Members |-> {}]
  /\ book = [p \in Members |-> {}]
  /\ revoked = [p \in Members |-> {}]
  /\ beats = [p \in Members |-> [n \in Nodes |-> 0]]
  /\ held = [p \in Members |-> {}]
  /\ users = {}
  /\ leases = <<>>
  /\ now = 0
  /\ issued = {}
  /\ dark = -1
  /\ version = 1
  /\ net = {}
  /\ exposed = {}
  /\ everHeld = {}

Next ==
  \/ BrokerTick \/ InstallKey \/ Tick
  \/ \E p \in Sources : (\E i \in DOMAIN Objects : Report(p, i)) \/ (\E r \in DOMAIN ResetOf : HandIn(p, r))
  \/ \E f \in net : Receive(f) \/ _on_grant(f) \/ _on_dir(f)
  \/ \E n \in Nodes : _beat(n) \/ NodeTick(n)
  \/ \E n \in Entries : _on_dir_query(n)

Spec == Init /\ [][Next]_vars

-----------------------------------------------------------------------------
Lease == [node : Nodes, version : 1..MaxVersion, expires_at : Nat]

TypeOK ==
  /\ incidents \in [Members -> [DOMAIN Objects -> Nat]]
  /\ latches \in [Members -> [Targets -> SUBSET DOMAIN Objects]]
  /\ resets \in [Members -> SUBSET DOMAIN ResetOf]
  /\ leases \in Seq(Lease)
  /\ book \in [Members -> SUBSET DOMAIN leases]
  /\ revoked \in [Members -> SUBSET DOMAIN leases]
  /\ held \in [Members -> SUBSET DOMAIN leases]
  /\ issued \subseteq DOMAIN leases
  /\ beats \in [Members -> [Nodes -> Nat]]
  /\ version \in 1..MaxVersion /\ dark \in -1..MaxVersion
  /\ users \subseteq Nodes /\ now \in 0..MaxTime
  /\ exposed \subseteq 1..MaxVersion /\ everHeld \subseteq 1..MaxVersion

(* What holds a target at a participant is exactly what it knows of: every  *)
(* incident it has received that names the target and that no reset it has *)
(* received clears - whatever order incidents and resets came in, and      *)
(* however often (MutinyLedger.add, reset).                                *)
LatchedByWhatIsKnown ==
  \A p \in Members, t \in Targets :
    latches[p][t] = {i \in Known(p) : t \in verify_incident(i) /\ <<t, i>> \notin Clears(resets[p])}

(* A version leased to a node when it was convicted is never lent again,    *)
(* and no lease of it is left outstanding (KeyBroker.on_incident).          *)
ExposedIsNeverLent == \A x \in issued : leases[x].version \notin exposed

(* A lease known to be revoked is out of the book and out of use, also when *)
(* the grant or an old heartbeat naming it arrives after the revocation.    *)
RevokedStaysOut == \A p \in Members : revoked[p] \cap (book[p] \cup held[p]) = {}

(* What the broker's documentation says of a convicted node: each key it    *)
(* held is rotated, because the node had the secret.                        *)
HeldIsRotated == \A x \in issued : leases[x].version \notin everHeld
=============================================================================
