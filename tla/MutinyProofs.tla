---------------------------- MODULE MutinyProofs ----------------------------
(***************************************************************************)
(* Proofs about Mutiny and about Inference, for every value of their       *)
(* constants.                                                              *)
(***************************************************************************)
EXTENDS Mutiny, Inference, SequenceTheorems, FiniteSetTheorems, WellFoundedInduction, TLAPS

-----------------------------------------------------------------------------
(* The ledger, which only Absorb changes. *)

(* What is in the frames under way. *)
Heartbeat == [node : Nodes, seq : Nat, leases : SUBSET DOMAIN leases]
Answer == [leases : SUBSET DOMAIN leases, incidents : SUBSET DOMAIN Objects, resets : SUBSET DOMAIN ResetOf]
FrameOK(f) ==
  /\ f.to \in Members
  /\ f.k = "incident" => f.x \in DOMAIN Objects
  /\ f.k = "reset" => f.x \in DOMAIN ResetOf
  /\ f.k = "revocation" => f.x \subseteq DOMAIN leases
  /\ f.k = "heartbeat" => f.x \in Heartbeat
  /\ f.k = "grant" => f.to \in Nodes /\ f.x \in DOMAIN leases
  /\ f.k = "dir" => f.x \in Answer
NetOK == \A f \in net : FrameOK(f)

(* Only model nodes hold grants. *)
OnlyNodesHold == \A p \in Members : p \notin Nodes => held[p] = {}

(* What is cleared is what the resets clear. *)
ClearedByResets == cleared = [p \in Members |-> Clears(resets[p])]

LEMMA ClearsUnion ==
  ASSUME NEW A, NEW B
  PROVE  Clears(A \cup B) = Clears(A) \cup Clears(B)
BY DEF Clears

LEMMA AbsorbType ==
  ASSUME MutinyConstants, TypeOK, NEW p \in Members, NEW is \in SUBSET DOMAIN Objects,
         NEW rs \in SUBSET DOMAIN ResetOf, Absorb(p, is, rs)
  PROVE  /\ incidents' \in [Members -> [DOMAIN Objects -> Nat]]
         /\ latches' \in [Members -> [Targets -> SUBSET DOMAIN Objects]]
         /\ resets' \in [Members -> SUBSET DOMAIN ResetOf]
<1>1. Cardinality(Known(p)) \in Nat
  BY FS_Subset, FS_CardinalityType DEF MutinyConstants, Known
<1>2. [i \in DOMAIN incidents[p] |-> IF i \in is \ Known(p) THEN Cardinality(Known(p)) + 1 ELSE incidents[p][i]]
        \in [DOMAIN Objects -> Nat]
  BY <1>1 DEF TypeOK
<1>3. incidents' \in [Members -> [DOMAIN Objects -> Nat]]
  BY <1>2 DEF Absorb, TypeOK
<1>4. Latched(p, is, rs \ resets[p]) \in [Targets -> SUBSET DOMAIN Objects]
  BY DEF Latched, Held, TypeOK
<1>5. latches' \in [Members -> [Targets -> SUBSET DOMAIN Objects]]
  BY <1>4 DEF Absorb, TypeOK
<1>6. resets' \in [Members -> SUBSET DOMAIN ResetOf]
  BY DEF Absorb, TypeOK
<1> QED BY <1>3, <1>5, <1>6

LedgerOK == LatchedByWhatIsKnown /\ ClearedByResets

LEMMA KnownAfter ==
  ASSUME MutinyConstants, TypeOK, NEW p \in Members, NEW is \in SUBSET DOMAIN Objects,
         NEW rs, Absorb(p, is, rs)
  PROVE  /\ Known(p)' = Known(p) \cup is
         /\ \A q \in Members : q # p => Known(q)' = Known(q)
<1>1. Cardinality(Known(p)) \in Nat
  BY FS_Subset, FS_CardinalityType DEF MutinyConstants, Known
<1> DEFINE c == Cardinality(Known(p)) + 1
           K == Known(p)
<1>2. c > 0
  BY <1>1
<1>3. incidents' = [incidents EXCEPT ![p] = [i \in DOMAIN incidents[p] |-> IF i \in is \ K THEN c ELSE incidents[p][i]]]
  BY DEF Absorb
<1>4. \A i \in K : incidents[p][i] > 0
  BY DEF Known
<1>5. \A i \in DOMAIN Objects : incidents[p][i] > 0 => i \in K
  BY DEF Known
<1>6. K \subseteq DOMAIN Objects
  BY DEF Known
<1> HIDE DEF c, K
<1>7. incidents'[p] = [i \in DOMAIN Objects |-> IF i \in is \ K THEN c ELSE incidents[p][i]]
  BY <1>3 DEF TypeOK
<1>8. {i \in DOMAIN Objects : incidents'[p][i] > 0} = K \cup is
  BY <1>2, <1>4, <1>5, <1>6, <1>7
<1>9. \A q \in Members : q # p => incidents'[q] = incidents[q]
  BY <1>3 DEF TypeOK
<1>10. Known(p)' = {i \in DOMAIN Objects : incidents'[p][i] > 0}
  BY DEF Known
<1>11. Known(p)' = Known(p) \cup is
  BY <1>8, <1>10 DEF K
<1> QED BY <1>9, <1>11 DEF Known

(* Incidents and resets may come in any order, and again. *)
LEMMA AbsorbKeeps ==
  ASSUME MutinyConstants, TypeOK, LedgerOK, NEW p \in Members, NEW is \in SUBSET DOMAIN Objects,
         NEW rs \in SUBSET DOMAIN ResetOf, Absorb(p, is, rs)
  PROVE  LedgerOK'
<1>1. \A q \in Members : resets'[q] = IF q = p THEN resets[q] \cup rs ELSE resets[q]
  BY DEF Absorb, TypeOK
<1>2. ClearedByResets'
  <2>1. cleared' = [q \in Members |-> IF q = p THEN Clears(resets[p]) \cup Clears(rs) ELSE Clears(resets[q])]
    BY DEF Absorb, LedgerOK, ClearedByResets
  <2>2. Clears(resets[p]) \cup Clears(rs) = Clears(resets[p] \cup rs)
    BY ClearsUnion
  <2>3. cleared' = [q \in Members |-> Clears(resets'[q])]
    BY <2>1, <2>2, <1>1
  <2> QED BY <2>3 DEF ClearedByResets, Clears
<1>3. LatchedByWhatIsKnown'
  <2> SUFFICES ASSUME NEW q \in Members, NEW t \in Targets
               PROVE  latches'[q][t] = {i \in Known(q)' : t \in verify_incident(i) /\ <<t, i>> \notin Clears(resets'[q])}
    BY DEF LatchedByWhatIsKnown, Clears, verify_incident, Targets, Members, Mesh, node_target, decider_target, model_target
  <2>1. latches[q][t] = {i \in Known(q) : t \in verify_incident(i) /\ <<t, i>> \notin Clears(resets[q])}
    BY DEF LedgerOK, LatchedByWhatIsKnown
  <2>2. CASE q # p
    <3>1. latches'[q] = latches[q] /\ Known(q)' = Known(q)
      BY <2>2, KnownAfter DEF Absorb, TypeOK
    <3> QED BY <2>1, <2>2, <3>1, <1>1
  <2>3. CASE q = p
    <3> DEFINE C == Clears(resets[p])
               D == Clears(rs)
               V == {i \in DOMAIN Objects : t \in verify_incident(i)}
               K == Known(p)
    <3>1. latches'[p][t] = {i \in Held(p, is \ K, t) : <<t, i>> \notin Clears(rs \ resets[p])}
      BY DEF Absorb, Latched, TypeOK
    <3>2. cleared[p] = C
      BY DEF LedgerOK, ClearedByResets
    <3>3. Held(p, is \ K, t) = latches[p][t] \cup {i \in is \ K : i \in V /\ <<t, i>> \notin C}
      BY <3>2 DEF Held
    <3>4. latches[p][t] = {i \in K : i \in V /\ <<t, i>> \notin C}
      BY <2>1, <2>3 DEF Known
    <3>5. C \cup D = C \cup Clears(rs \ resets[p])
      <4>1. resets[p] \cup rs = resets[p] \cup (rs \ resets[p])
        OBVIOUS
      <4> QED BY ZenonT(30), <4>1, ClearsUnion
    <3>6. Clears(resets'[p]) = C \cup D
      BY <1>1, ClearsUnion
    <3>7. Known(p)' = K \cup is
      BY KnownAfter
    <3> DEFINE E == Clears(rs \ resets[p])
               F == Clears(resets'[p])
    <3> HIDE DEF C, D, V, K, E, F
    <3>8. latches'[p][t] = {i \in K \cup is : i \in V /\ <<t, i>> \notin F}
      BY <3>1, <3>3, <3>4, <3>5, <3>6 DEF E, F
    <3> QED BY <2>3, <3>7, <3>8 DEF V, F, K, Known
  <2> QED BY <2>2, <2>3
<1> QED BY <1>2, <1>3 DEF LedgerOK

-----------------------------------------------------------------------------
(* Lending. *)

LEMMA GrantsType ==
  ASSUME MutinyConstants, TypeOK, NEW due \in SUBSET Nodes, NEW v \in 1..MaxVersion
  PROVE  /\ Grants(due, v) \in Seq(Lease)
         /\ \A i \in DOMAIN Grants(due, v) : Grants(due, v)[i].version = v /\ Grants(due, v)[i].node \in due
<1> DEFINE n == Cardinality(due)
           s == SetToSeq(due)
<1>1. IsFiniteSet(due)
  BY FS_Subset DEF MutinyConstants
<1>2. n \in Nat /\ ExistsBijection(1..n, due)
  BY <1>1, FS_CardinalityType
<1>3. \E f \in [1..n -> due] : IsInjective(f)
  BY <1>2 DEF ExistsBijection, Bijection, Injection
<1>4. s \in [1..n -> due]
  BY <1>3 DEF SetToSeq
<1> HIDE DEF s, n
<1>5. s \in Seq(due) /\ Len(s) = n
  BY <1>2, <1>4
<1>6. now + TTL \in Nat
  BY DEF TypeOK, MutinyConstants
<1> DEFINE g == [i \in 1..Len(s) |-> [node |-> s[i], version |-> v, expires_at |-> now + TTL]]
<1>7. \A i \in 1..n : g[i] \in Lease /\ g[i].version = v /\ g[i].node \in due
  BY <1>4, <1>5, <1>6 DEF Lease
<1>8. g \in Seq(Lease) /\ DOMAIN g = 1..n
  BY <1>2, <1>5, <1>7
<1>9. Grants(due, v) = g
  BY DEF Grants, s
<1> QED BY <1>7, <1>8, <1>9

LEMMA LeaseFields ==
  ASSUME TypeOK, NEW x \in DOMAIN leases
  PROVE  leases[x].node \in Nodes /\ leases[x].version \in 1..MaxVersion /\ leases[x].expires_at \in Nat
<1>1. leases \in Seq(Lease) /\ x \in 1..Len(leases)
  BY DEF TypeOK
<1>2. leases[x] \in Lease
  BY <1>1
<1> QED BY <1>2 DEF Lease

LEMMA FloodType ==
  ASSUME NEW p, NEW k, NEW x, NEW f \in flood(p, k, x)
  PROVE  f.to \in Members /\ f.k = k /\ f.x = x
<1>1. PICK q \in Neighbours(p) \cup (IF p \in users /\ k # "heartbeat" THEN {User} ELSE {}) : f = Frame(q, k, x)
  BY Zenon DEF flood
<1>2. q \in Members
  BY DEF Neighbours, Members
<1> QED BY <1>1, <1>2 DEF Frame

(* Frames stay well formed as leases are added. *)
LEMMA FrameStays ==
  ASSUME NEW f, FrameOK(f), DOMAIN leases \subseteq DOMAIN leases'
  PROVE  FrameOK(f)'
BY DEF FrameOK, Heartbeat, Answer, Members, Mesh

(* What lending does, whatever it takes back: leases are only added, of     *)
(* version v and while d < v; and what is taken back is out of the book.    *)
LEMMA LendKeeps ==
  ASSUME MutinyConstants, TypeOK, NetOK, OnlyNodesHold, RevokedStaysOut,
         NEW l, NEW iss \in SUBSET DOMAIN leases, NEW v \in 1..MaxVersion, NEW d,
         NEW gone \in SUBSET DOMAIN leases, NEW out, \A f \in out : FrameOK(f),
         Lend(l, iss, v, d, gone, out), UNCHANGED held
  PROVE  /\ leases' \in Seq(Lease)
         /\ book' \in [Members -> SUBSET DOMAIN leases']
         /\ revoked' \in [Members -> SUBSET DOMAIN leases']
         /\ held' \in [Members -> SUBSET DOMAIN leases']
         /\ issued' \subseteq DOMAIN leases'
         /\ NetOK' /\ OnlyNodesHold' /\ RevokedStaysOut'
         /\ \A x \in DOMAIN leases : x \in DOMAIN leases' /\ leases'[x] = leases[x]
         /\ \A x \in DOMAIN leases' : x \notin DOMAIN leases => leases'[x].version = v /\ d < v
         /\ \A x \in issued' : x \in iss \/ x \notin DOMAIN leases
<1> DEFINE due == Due(l, iss, v, d)
           new == Grants(due, v)
           L == Len(leases)
           ids == {L + i : i \in DOMAIN new}
<1>1. due \subseteq Nodes /\ (due # {} => d < v)
  BY DEF Due
<1>2. new \in Seq(Lease) /\ \A i \in DOMAIN new : new[i].version = v /\ new[i].node \in due
  BY <1>1, GrantsType
<1>3. /\ leases' = leases \o new /\ issued' = iss \cup ids
      /\ revoked' = [revoked EXCEPT ![Broker] = @ \cup gone]
      /\ book' = [book EXCEPT ![Broker] = (@ \ gone) \cup ids]
      /\ net' = net \cup out \cup {Frame(new[x - L].node, "grant", x) : x \in ids}
                   \cup (IF gone = {} THEN {} ELSE flood(Broker, "revocation", gone))
  BY Zenon DEF Lend
<1> HIDE DEF due, new
<1>4. leases \in Seq(Lease) /\ L \in Nat /\ DOMAIN leases = 1..L
  BY DEF TypeOK
<1>5. leases' \in Seq(Lease) /\ DOMAIN leases' = 1..(L + Len(new))
  BY <1>2, <1>3, <1>4
<1>6. \A x \in DOMAIN leases : x \in DOMAIN leases' /\ leases'[x] = leases[x]
  BY <1>2, <1>3, <1>4
<1>7. \A x \in ids : x \in DOMAIN leases' /\ x \notin DOMAIN leases /\ x - L \in DOMAIN new
  BY <1>2, <1>4, <1>5
<1>8. \A x \in DOMAIN leases' : x \notin DOMAIN leases => leases'[x].version = v /\ d < v
  <2> SUFFICES ASSUME NEW x \in DOMAIN leases', x \notin DOMAIN leases
               PROVE  leases'[x].version = v /\ d < v
    OBVIOUS
  <2>1. x - L \in DOMAIN new /\ leases'[x] = new[x - L]
    BY <1>2, <1>3, <1>4, <1>5
  <2> QED BY <2>1, <1>1, <1>2
<1>9. Broker \in Members /\ held[Broker] = {}
  BY DEF OnlyNodesHold, MutinyConstants, Members, Mesh
<1> HIDE DEF ids, L
<1>10. DOMAIN leases \subseteq DOMAIN leases'
  BY <1>6
<1>11. book' \in [Members -> SUBSET DOMAIN leases'] /\ revoked' \in [Members -> SUBSET DOMAIN leases']
  BY <1>3, <1>7, <1>10 DEF TypeOK
<1>12. held' \in [Members -> SUBSET DOMAIN leases'] /\ OnlyNodesHold'
  BY <1>10 DEF TypeOK, OnlyNodesHold, Members, Mesh
<1>13. issued' \subseteq DOMAIN leases' /\ \A x \in issued' : x \in iss \/ x \notin DOMAIN leases
  BY <1>3, <1>7, <1>10
<1>14. RevokedStaysOut'
  <2> SUFFICES ASSUME NEW q \in Members PROVE revoked'[q] \cap (book'[q] \cup held'[q]) = {}
    BY DEF RevokedStaysOut, Members, Mesh
  <2>1. revoked[q] \cap (book[q] \cup held[q]) = {} /\ revoked[q] \subseteq DOMAIN leases
    BY DEF RevokedStaysOut, TypeOK
  <2>2. CASE q # Broker
    BY <2>1, <2>2, <1>3 DEF TypeOK
  <2>3. CASE q = Broker
    <3>1. revoked'[q] = revoked[q] \cup gone /\ book'[q] = (book[q] \ gone) \cup ids /\ held'[q] = {}
      BY <2>3, <1>3, <1>9 DEF TypeOK
    <3> QED BY <3>1, <2>1, <1>7
  <2> QED BY <2>2, <2>3
<1>15. NetOK'
  <2> SUFFICES ASSUME NEW f \in net' PROVE FrameOK(f)'
    BY DEF NetOK
  <2>1. CASE f \in net \cup out
    BY <2>1, <1>10, FrameStays DEF NetOK
  <2>2. ASSUME NEW x \in ids, f = Frame(new[x - L].node, "grant", x) PROVE FrameOK(f)'
    <3>1. new[x - L].node \in Nodes /\ x \in DOMAIN leases'
      BY <1>1, <1>2, <1>7
    <3> QED BY <2>2, <3>1 DEF FrameOK, Frame, Members, Mesh
  <2>3. CASE f \in flood(Broker, "revocation", gone)
    <3>1. f.to \in Members /\ f.k = "revocation" /\ f.x = gone
      BY <2>3, FloodType
    <3> QED BY <3>1, <1>10 DEF FrameOK, Members, Mesh
  <2> QED BY <2>1, <2>2, <2>3, <1>3
<1> QED BY <1>5, <1>6, <1>8, <1>11, <1>12, <1>13, <1>14, <1>15

(* Why an exposed version is never lent again: the broker is past it, or    *)
(* has gone dark at it, and lends its current version only.                 *)
Exposure ==
  /\ \A x \in DOMAIN leases : leases[x].version <= version
  /\ \A v \in exposed : v < version \/ v <= dark
  /\ dark <= version
  /\ ExposedIsNeverLent

MutinyInv == TypeOK /\ NetOK /\ OnlyNodesHold /\ LedgerOK /\ RevokedStaysOut /\ Exposure

(* The types by what changes together. *)
LedgerType ==
  /\ incidents \in [Members -> [DOMAIN Objects -> Nat]]
  /\ latches \in [Members -> [Targets -> SUBSET DOMAIN Objects]]
  /\ resets \in [Members -> SUBSET DOMAIN ResetOf]
LendType ==
  /\ leases \in Seq(Lease)
  /\ book \in [Members -> SUBSET DOMAIN leases]
  /\ revoked \in [Members -> SUBSET DOMAIN leases]
  /\ held \in [Members -> SUBSET DOMAIN leases]
  /\ issued \subseteq DOMAIN leases
OtherType ==
  /\ beats \in [Members -> [Nodes -> Nat]]
  /\ version \in 1..MaxVersion /\ dark \in -1..MaxVersion
  /\ users \subseteq Nodes /\ now \in 0..MaxTime
  /\ exposed \subseteq 1..MaxVersion /\ everHeld \subseteq 1..MaxVersion

LEMMA TypeParts == TypeOK <=> LedgerType /\ LendType /\ OtherType
BY DEF TypeOK, LedgerType, LendType, OtherType

(* A ledger nobody touches. *)
LEMMA LedgerStays ==
  ASSUME LedgerType, LedgerOK, UNCHANGED ledger
  PROVE  LedgerType' /\ LedgerOK'
<1>1. UNCHANGED <<incidents, latches, cleared, resets>>
  BY DEF ledger
<1>2. LedgerType'
  BY <1>1 DEF LedgerType, Members, Mesh, Targets, node_target, decider_target, model_target
<1>3. ClearedByResets'
  BY <1>1 DEF LedgerOK, ClearedByResets, Clears, Members, Mesh
<1>4. LatchedByWhatIsKnown'
  <2> SUFFICES ASSUME NEW q \in Members, NEW t \in Targets
               PROVE  latches'[q][t] = {i \in Known(q)' : t \in verify_incident(i) /\ <<t, i>> \notin Clears(resets'[q])}
    BY DEF LatchedByWhatIsKnown, Clears, verify_incident, Targets, Members, Mesh, node_target, decider_target, model_target
  <2>1. Known(q)' = Known(q)
    BY <1>1 DEF Known
  <2> QED BY <1>1, <2>1 DEF LedgerOK, LatchedByWhatIsKnown
<1> QED BY <1>2, <1>3, <1>4 DEF LedgerOK

LEMMA LedgerAbsorbs ==
  ASSUME MutinyConstants, TypeOK, LedgerOK, NEW p \in Members, NEW is \in SUBSET DOMAIN Objects,
         NEW rs \in SUBSET DOMAIN ResetOf, Absorb(p, is, rs)
  PROVE  LedgerType' /\ LedgerOK'
BY AbsorbType, AbsorbKeeps DEF LedgerType, Members, Mesh, Targets, node_target, decider_target, model_target

(* Leases nobody touches, and frames among them. *)
LendPart == LendType /\ NetOK /\ OnlyNodesHold /\ RevokedStaysOut /\ Exposure

LEMMA LendStays ==
  ASSUME LendType, OnlyNodesHold, RevokedStaysOut, Exposure,
         UNCHANGED <<leases, issued, dark, version, exposed, book, revoked, held>>,
         \A f \in net' : FrameOK(f)
  PROVE  LendPart'
<1>1. NetOK'
  BY FrameStays DEF NetOK
<1>2. LendType' /\ OnlyNodesHold' /\ RevokedStaysOut'
  BY DEF LendType, OnlyNodesHold, RevokedStaysOut, Members, Mesh
<1>3. Exposure'
  BY DEF Exposure, ExposedIsNeverLent
<1> QED BY <1>1, <1>2, <1>3 DEF LendPart

(* Renewing leases of the current version. *)
LEMMA RenewKeeps ==
  ASSUME MutinyConstants, MutinyInv, NEW l, NEW iss \in SUBSET issued, NEW out, \A f \in out : FrameOK(f),
         Lend(l, iss, version, dark, {}, out), UNCHANGED <<held, version, dark, exposed>>
  PROVE  LendPart'
<1> USE DEF MutinyInv
<1>1. iss \in SUBSET DOMAIN leases /\ {} \in SUBSET DOMAIN leases /\ version \in 1..MaxVersion /\ dark \in Int
  BY DEF TypeOK
<1>2. /\ LendType' /\ NetOK' /\ OnlyNodesHold' /\ RevokedStaysOut'
      /\ \A x \in DOMAIN leases : x \in DOMAIN leases' /\ leases'[x] = leases[x]
      /\ \A x \in DOMAIN leases' : x \notin DOMAIN leases => leases'[x].version = version /\ dark < version
      /\ \A x \in issued' : x \in iss \/ x \notin DOMAIN leases
  <2> DEFINE none == {}
  <2>1. none \in SUBSET DOMAIN leases /\ Lend(l, iss, version, dark, none, out) /\ UNCHANGED held
    OBVIOUS
  <2> HIDE DEF none
  <2> QED BY <1>1, <2>1, LendKeeps DEF LendType
<1>3. \A x \in DOMAIN leases' : leases'[x].version <= version
  BY <1>1, <1>2 DEF Exposure
<1>4. ASSUME NEW x \in issued' PROVE leases'[x].version \notin exposed
  <2>1. CASE x \in iss
    BY <2>1, <1>1, <1>2 DEF Exposure, ExposedIsNeverLent
  <2>2. CASE x \notin DOMAIN leases
    <3>1. leases'[x].version = version /\ dark < version
      BY <2>2, <1>2 DEF LendType
    <3>2. version \notin exposed
      BY <1>1, <3>1 DEF Exposure, TypeOK
    <3> QED BY <3>1, <3>2
  <2> QED BY <2>1, <2>2, <1>2
<1>5. Exposure'
  BY <1>3, <1>4 DEF Exposure, ExposedIsNeverLent
<1> QED BY <1>2, <1>5 DEF LendPart

(* A conviction: the versions the convicted node holds are left behind, by  *)
(* a rotation that takes every older lease back, or by lending no more.     *)
LEMMA ConvictionKeeps ==
  ASSUME MutinyConstants, MutinyInv, NEW i \in DOMAIN Objects, on_incident(i), UNCHANGED <<held, users, now, beats>>
  PROVE  LendPart' /\ OtherType'
<1> USE DEF MutinyInv
<1> DEFINE named == {n \in Nodes : node_target(n) \in verify_incident(i)}
           mine == {x \in issued : leases[x].node \in named}
           model == model_target \in verify_incident(i)
           rotate == mine # {} \/ (model /\ Objects[i].kind = "model.self-reported")
           new == IF rotate /\ CanMint THEN version + 1 ELSE version
           gone == mine \cup (IF model THEN issued ELSE {})
                        \cup (IF rotate THEN {x \in issued : ~CanMint \/ leases[x].version < new} ELSE {})
           nowDark == IF rotate /\ ~CanMint THEN version ELSE dark
           hers == {x \in DOMAIN leases : leases[x].node \in named}
<1>1. /\ new <= MaxVersion /\ version' = new /\ dark' = nowDark
      /\ exposed' = exposed \cup {leases[x].version : x \in mine}
      /\ everHeld' = everHeld \cup {leases[x].version : x \in hers}
      /\ Lend(Latched(Broker, {i}, {}), issued \ gone, new, nowDark, gone, flood(Broker, "incident", i))
  BY Zenon DEF on_incident
<1>2. mine \subseteq issued /\ gone \subseteq issued /\ issued \subseteq DOMAIN leases /\ hers \subseteq DOMAIN leases
  BY DEF TypeOK
<1>3. version \in 1..MaxVersion /\ dark \in -1..MaxVersion /\ CanMint \in BOOLEAN
  BY DEF TypeOK, MutinyConstants
<1>4. rotate => gone = issued
  <2>1. \A x \in issued : CanMint => leases[x].version < version + 1
    BY <1>2, <1>3, LeaseFields DEF Exposure
  <2> QED BY <2>1, <1>3
<1>5. ~rotate => mine = {}
  OBVIOUS
<1>6. \/ rotate /\ CanMint /\ new = version + 1 /\ nowDark = dark
      \/ rotate /\ ~CanMint /\ new = version /\ nowDark = version
      \/ ~rotate /\ new = version /\ nowDark = dark
  BY <1>3
<1> HIDE DEF named, mine, model, rotate, new, gone, nowDark, hers
<1>7. new \in 1..MaxVersion /\ nowDark \in -1..MaxVersion
  BY <1>1, <1>3, <1>6
<1>8. \A f \in flood(Broker, "incident", i) : FrameOK(f)
  BY FloodType DEF FrameOK
<1>9. issued \ gone \in SUBSET DOMAIN leases /\ gone \in SUBSET DOMAIN leases
  BY <1>2
<1>10. /\ LendType' /\ NetOK' /\ OnlyNodesHold' /\ RevokedStaysOut'
       /\ \A x \in DOMAIN leases : x \in DOMAIN leases' /\ leases'[x] = leases[x]
       /\ \A x \in DOMAIN leases' : x \notin DOMAIN leases => leases'[x].version = new /\ nowDark < new
       /\ \A x \in issued' : x \in issued \ gone \/ x \notin DOMAIN leases
  BY <1>1, <1>7, <1>8, <1>9, LendKeeps DEF LendType
<1>11. \A x \in DOMAIN leases : leases[x].version \in 1..MaxVersion /\ leases[x].version <= version
  BY LeaseFields DEF Exposure
<1>12. exposed' \subseteq 1..MaxVersion /\ everHeld' \subseteq 1..MaxVersion
  <2>1. {leases[x].version : x \in mine} \subseteq 1..MaxVersion /\ {leases[x].version : x \in hers} \subseteq 1..MaxVersion
    BY <1>2, <1>11
  <2>2. exposed \subseteq 1..MaxVersion /\ everHeld \subseteq 1..MaxVersion
    BY DEF TypeOK
  <2> QED BY <1>1, <2>1, <2>2
<1>13. OtherType'
  BY <1>1, <1>7, <1>12 DEF OtherType, TypeOK, Members, Mesh
<1>14. \A x \in DOMAIN leases' : leases'[x].version <= new
  BY <1>3, <1>6, <1>7, <1>10, <1>11
<1>15. \A v \in exposed' : v < new \/ v <= nowDark
  <2> SUFFICES ASSUME NEW v \in exposed' PROVE v < new \/ v <= nowDark
    OBVIOUS
  <2>1. v \in 1..MaxVersion
    BY <1>12
  <2>2. CASE v \in exposed
    <3>1. (v < version \/ v <= dark) /\ dark <= version
      BY <2>2 DEF Exposure
    <3> QED BY <2>1, <3>1, <1>3, <1>6
  <2>3. CASE v \notin exposed
    <3>1. PICK x \in mine : v = leases[x].version
      BY <2>3, <1>1
    <3>2. rotate /\ v <= version
      BY <3>1, <1>2, <1>5, <1>11
    <3> QED BY <2>1, <3>2, <1>3, <1>6
  <2> QED BY <2>2, <2>3
<1>16. ASSUME NEW x \in issued' PROVE leases'[x].version \notin exposed'
  <2>1. CASE x \in issued \ gone
    <3>1. exposed' = exposed
      BY <2>1, <1>1, <1>4, <1>5
    <3>2. leases'[x] = leases[x] /\ leases[x].version \notin exposed
      BY <2>1, <1>9, <1>10 DEF Exposure, ExposedIsNeverLent
    <3> QED BY <3>1, <3>2
  <2>2. CASE x \notin DOMAIN leases
    <3>1. leases'[x].version = new /\ nowDark < new
      BY <2>2, <1>10 DEF LendType
    <3>2. new \notin exposed'
      BY <3>1, <1>7, <1>15
    <3> QED BY <3>1, <3>2
  <2> QED BY <2>1, <2>2, <1>10
<1>16a. nowDark <= new
  BY <1>3, <1>6 DEF Exposure
<1>17. Exposure'
  BY <1>1, <1>14, <1>15, <1>16, <1>16a DEF Exposure, ExposedIsNeverLent
<1> QED BY <1>10, <1>13, <1>17 DEF LendPart

-----------------------------------------------------------------------------
(* Every step keeps the invariant. *)

LEMMA IncidentKeeps ==
  ASSUME MutinyConstants, MutinyInv, NEW p \in Members, NEW i \in DOMAIN Objects, absorb_incident(p, i)
  PROVE  MutinyInv'
<1> USE DEF MutinyInv
<1>1. Absorb(p, {i}, {}) /\ UNCHANGED <<beats, held, users, now>>
  BY DEF absorb_incident
<1>2. LedgerType' /\ LedgerOK'
  BY <1>1, LedgerAbsorbs
<1>3. LendPart' /\ OtherType'
  <2>1. CASE p = Broker
    BY <1>1, <2>1, ConvictionKeeps DEF absorb_incident
  <2>2. CASE p # Broker
    <3>1. net' = net \cup flood(p, "incident", i) /\ UNCHANGED <<lending, book, revoked>>
      BY <2>2 DEF absorb_incident
    <3>2. \A f \in net' : FrameOK(f)
      BY <3>1, FloodType DEF NetOK, FrameOK
    <3>3. LendPart'
      BY <3>1, <3>2, <1>1, LendStays, TypeParts DEF lending
    <3> QED BY <3>1, <3>3, <1>1, TypeParts DEF lending, OtherType, Members, Mesh
  <2> QED BY <2>1, <2>2
<1> QED BY <1>2, <1>3 DEF LendPart, TypeOK, LedgerType, LendType, OtherType

LEMMA ResetKeeps ==
  ASSUME MutinyConstants, MutinyInv, NEW p \in Members, NEW r \in DOMAIN ResetOf, absorb_reset(p, r)
  PROVE  MutinyInv'
<1> USE DEF MutinyInv
<1>1. Absorb(p, {}, {r}) /\ UNCHANGED <<dark, version, exposed, everHeld, beats, held, users, now>>
  BY DEF absorb_reset
<1>2. LedgerType' /\ LedgerOK'
  BY <1>1, LedgerAbsorbs
<1>3. \A f \in flood(p, "reset", r) : FrameOK(f)
  BY FloodType DEF FrameOK
<1>4. LendPart'
  <2>1. CASE Lend(latches'[p], issued, version, dark, {}, flood(Broker, "reset", r)) /\ p = Broker
    BY <1>1, <1>3, <2>1, RenewKeeps
  <2>2. CASE net' = net \cup flood(p, "reset", r) /\ UNCHANGED <<leases, issued, book, revoked>>
    <3>1. \A f \in net' : FrameOK(f)
      BY <1>3, <2>2 DEF NetOK
    <3> QED BY <3>1, <1>1, <2>2, LendStays, TypeParts
  <2> QED BY <2>1, <2>2 DEF absorb_reset
<1>5. OtherType'
  BY <1>1, TypeParts DEF OtherType, Members, Mesh
<1> QED BY <1>2, <1>4, <1>5 DEF LendPart, TypeOK, LedgerType, LendType, OtherType

(* A lease known to be revoked goes, and does not come back. *)
LEMMA RevocationKeeps ==
  ASSUME MutinyConstants, MutinyInv, NEW p \in Members, NEW ids \in SUBSET DOMAIN leases, absorb_revocation(p, ids)
  PROVE  MutinyInv'
<1> USE DEF MutinyInv
<1>1. /\ UNCHANGED <<ledger, beats, users, leases, issued, dark, version, exposed, everHeld, now>>
      /\ revoked' = [revoked EXCEPT ![p] = @ \cup ids] /\ book' = [book EXCEPT ![p] = @ \ ids]
      /\ held' = [held EXCEPT ![p] = @ \ ids] /\ net' = net \cup flood(p, "revocation", ids)
  BY DEF absorb_revocation, lending
<1>2. LedgerType' /\ LedgerOK'
  BY <1>1, LedgerStays, TypeParts
<1>3. NetOK'
  <2>1. \A f \in flood(p, "revocation", ids) : FrameOK(f)
    BY FloodType DEF FrameOK
  <2> QED BY <1>1, <2>1, FrameStays DEF NetOK
<1>4. LendType'
  BY <1>1 DEF LendType, TypeOK, Members, Mesh
<1>5. \A q \in Members : /\ revoked'[q] = (IF q = p THEN revoked[q] \cup ids ELSE revoked[q])
                          /\ book'[q] = (IF q = p THEN book[q] \ ids ELSE book[q])
                          /\ held'[q] = (IF q = p THEN held[q] \ ids ELSE held[q])
  BY <1>1 DEF TypeOK
<1>6. RevokedStaysOut' /\ OnlyNodesHold'
  BY <1>5 DEF RevokedStaysOut, OnlyNodesHold, Members, Mesh
<1>7. Exposure'
  BY <1>1 DEF Exposure, ExposedIsNeverLent
<1>8. OtherType'
  BY <1>1, TypeParts DEF OtherType, Members, Mesh
<1> QED BY <1>2, <1>3, <1>4, <1>6, <1>7, <1>8 DEF TypeOK, LedgerType, LendType, OtherType

(* Steps that change neither the ledger nor the leases, and put into a book *)
(* or in use nothing that is known to be revoked.                           *)
LEMMA BooksKeep ==
  ASSUME MutinyConstants, MutinyInv,
         UNCHANGED <<ledger, leases, issued, dark, version, exposed, revoked>>,
         book' \in [Members -> SUBSET DOMAIN leases], held' \in [Members -> SUBSET DOMAIN leases],
         \A q \in Members : revoked[q] \cap (book'[q] \cup held'[q]) = {},
         \A q \in Members : q \notin Nodes => held'[q] = {},
         \A f \in net' : FrameOK(f), OtherType'
  PROVE  MutinyInv'
<1> USE DEF MutinyInv
<1>1. LedgerType' /\ LedgerOK'
  BY LedgerStays, TypeParts
<1>2. LendType'
  BY DEF LendType, TypeOK, Members, Mesh
<1>3. NetOK'
  BY FrameStays DEF NetOK
<1>4. RevokedStaysOut' /\ OnlyNodesHold'
  BY DEF RevokedStaysOut, OnlyNodesHold, Members, Mesh
<1>5. Exposure'
  BY DEF Exposure, ExposedIsNeverLent
<1> QED BY <1>1, <1>2, <1>3, <1>4, <1>5 DEF TypeOK, LedgerType, LendType, OtherType

(* A heartbeat names leases, and those known to be revoked are left out.    *)
LEMMA HeartbeatKeeps ==
  ASSUME MutinyConstants, MutinyInv, NEW p \in Members, NEW hb \in Heartbeat, absorb_heartbeat(p, hb)
  PROVE  MutinyInv'
<1>1. /\ UNCHANGED <<ledger, revoked, held, users, leases, issued, dark, version, exposed, everHeld, now>>
      /\ beats' = [beats EXCEPT ![p][hb.node] = hb.seq]
      /\ book' = [book EXCEPT ![p] = @ \cup (hb.leases \ revoked[p])]
      /\ net' = net \cup flood(p, "heartbeat", hb)
  BY DEF absorb_heartbeat, lending
<1>2. hb.node \in Nodes /\ hb.seq \in Nat /\ hb.leases \subseteq DOMAIN leases
  BY DEF Heartbeat
<1>3. book' \in [Members -> SUBSET DOMAIN leases] /\ held' \in [Members -> SUBSET DOMAIN leases]
  BY <1>1, <1>2 DEF MutinyInv, TypeOK
<1>4. \A q \in Members : revoked[q] \cap (book'[q] \cup held'[q]) = {}
  BY <1>1 DEF MutinyInv, RevokedStaysOut, TypeOK
<1>5. \A f \in net' : FrameOK(f)
  <2>1. \A f \in flood(p, "heartbeat", hb) : FrameOK(f)
    BY FloodType DEF FrameOK
  <2> QED BY <1>1, <2>1 DEF MutinyInv, NetOK
<1>6. OtherType'
  <2>1. beats' \in [Members -> [Nodes -> Nat]]
    BY <1>1, <1>2 DEF MutinyInv, TypeOK
  <2> QED BY <1>1, <2>1 DEF MutinyInv, TypeOK, OtherType, Members, Mesh
<1>7. \A q \in Members : q \notin Nodes => held'[q] = {}
  BY <1>1 DEF MutinyInv, OnlyNodesHold
<1> QED BY <1>1, <1>3, <1>4, <1>5, <1>6, <1>7, BooksKeep

LEMMA GrantKeeps ==
  ASSUME MutinyConstants, MutinyInv, NEW f \in net, _on_grant(f)
  PROVE  MutinyInv'
<1>1. /\ UNCHANGED <<ledger, revoked, beats, users, leases, issued, dark, version, exposed, everHeld, now, net>>
      /\ f.x \notin revoked[f.to]
      /\ held' = [held EXCEPT ![f.to] = @ \cup {f.x}] /\ book' = [book EXCEPT ![f.to] = @ \cup {f.x}]
  BY DEF _on_grant, lending
<1>2. f.to \in Nodes /\ f.to \in Members /\ f.x \in DOMAIN leases
  BY DEF _on_grant, MutinyInv, NetOK, FrameOK
<1>3. book' \in [Members -> SUBSET DOMAIN leases] /\ held' \in [Members -> SUBSET DOMAIN leases]
  BY <1>1, <1>2 DEF MutinyInv, TypeOK
<1>4. \A q \in Members : revoked[q] \cap (book'[q] \cup held'[q]) = {}
  BY <1>1, <1>2 DEF MutinyInv, RevokedStaysOut, TypeOK
<1>5. \A g \in net' : FrameOK(g)
  BY <1>1 DEF MutinyInv, NetOK
<1>6. OtherType'
  BY <1>1 DEF MutinyInv, TypeOK, OtherType, Members, Mesh
<1>7. \A q \in Members : q \notin Nodes => held'[q] = {}
  BY <1>1, <1>2 DEF MutinyInv, OnlyNodesHold, TypeOK
<1> QED BY <1>1, <1>3, <1>4, <1>5, <1>6, <1>7, BooksKeep

LEMMA NodeKeeps ==
  ASSUME MutinyConstants, MutinyInv, NEW n \in Nodes, _beat(n) \/ NodeTick(n) \/ _on_dir_query(n), n \in Members
  PROVE  MutinyInv'
<1>1. /\ UNCHANGED <<ledger, revoked, leases, issued, dark, version, exposed, everHeld, now>>
      /\ \A q \in Members : book'[q] \subseteq book[q] /\ held'[q] \subseteq held[q]
      /\ book' \in [Members -> SUBSET DOMAIN leases] /\ held' \in [Members -> SUBSET DOMAIN leases]
  <2>1. CASE _beat(n) \/ _on_dir_query(n)
    BY <2>1 DEF _beat, _on_dir_query, lending, MutinyInv, TypeOK
  <2>2. CASE NodeTick(n)
    BY <2>2 DEF NodeTick, lending, MutinyInv, TypeOK
  <2> QED BY <2>1, <2>2
<1>2. \A q \in Members : revoked[q] \cap (book'[q] \cup held'[q]) = {}
  BY <1>1 DEF MutinyInv, RevokedStaysOut
<1>3. \A q \in Members : q \notin Nodes => held'[q] = {}
  BY <1>1 DEF MutinyInv, OnlyNodesHold
<1>4. OtherType'
  <2>1. CASE _beat(n)
    <3>1. beats' \in [Members -> [Nodes -> Nat]]
      BY <2>1 DEF _beat, MutinyInv, TypeOK
    <3> QED BY <2>1, <3>1, <1>1 DEF _beat, MutinyInv, TypeOK, OtherType, Members, Mesh
  <2>2. CASE NodeTick(n)
    BY <2>2, <1>1 DEF NodeTick, MutinyInv, TypeOK, OtherType, Members, Mesh
  <2>3. CASE _on_dir_query(n)
    <3>1. users' \subseteq Nodes
      <4>1. users' = users \cup {n} /\ users \subseteq Nodes
        BY <2>3 DEF _on_dir_query, MutinyInv, TypeOK
      <4> QED BY <4>1
    <3>2. UNCHANGED <<beats, now, everHeld>>
      BY <2>3 DEF _on_dir_query, lending
    <3> QED BY <3>1, <3>2, <1>1 DEF MutinyInv, TypeOK, OtherType, Members, Mesh
  <2> QED BY <2>1, <2>2, <2>3
<1>5. \A f \in net' : FrameOK(f)
  <2>1. CASE _beat(n)
    <3> DEFINE hb == [node |-> n, seq |-> beats[n][n] + 1, leases |-> Live(held[n] \ revoked[n])]
    <3>1. hb \in Heartbeat
      BY DEF Heartbeat, Live, MutinyInv, TypeOK
    <3>2. net' = net \cup flood(n, "heartbeat", hb)
      BY <2>1 DEF _beat
    <3> HIDE DEF hb
    <3>3. \A f \in flood(n, "heartbeat", hb) : FrameOK(f)
      BY <3>1, FloodType DEF FrameOK
    <3> QED BY <3>2, <3>3 DEF MutinyInv, NetOK
  <2>2. CASE NodeTick(n)
    BY <2>2 DEF NodeTick, MutinyInv, NetOK
  <2>3. CASE _on_dir_query(n)
    <3> DEFINE newest == {i \in Known(n) : incidents[n][i] > Cardinality(Known(n)) - DirIncidents}
               answer == [leases |-> Live(book[n]), incidents |-> newest, resets |-> resets[n]]
    <3>1. answer \in Answer
      BY DEF Answer, Live, Known, MutinyInv, TypeOK
    <3>2. net' = net \cup {Frame(User, "dir", answer)}
      BY <2>3 DEF _on_dir_query
    <3> HIDE DEF answer
    <3>3. FrameOK(Frame(User, "dir", answer))
      BY <3>1 DEF FrameOK, Frame, Members
    <3> QED BY <3>2, <3>3 DEF MutinyInv, NetOK
  <2> QED BY <2>1, <2>2, <2>3
<1> QED BY <1>1, <1>2, <1>3, <1>4, <1>5, BooksKeep

LEMMA DirKeeps ==
  ASSUME MutinyConstants, MutinyInv, NEW f \in net, _on_dir(f)
  PROVE  MutinyInv'
<1> USE DEF MutinyInv
<1>1. /\ Absorb(User, f.x.incidents, f.x.resets)
      /\ book' = [book EXCEPT ![User] = @ \cup (f.x.leases \ revoked[User])]
      /\ UNCHANGED <<revoked, beats, held, users, leases, issued, dark, version, exposed, everHeld, now, net>>
  BY DEF _on_dir, lending
<1>2. /\ f.x.incidents \in SUBSET DOMAIN Objects /\ f.x.resets \in SUBSET DOMAIN ResetOf
      /\ f.x.leases \subseteq DOMAIN leases /\ User \in Members
  BY DEF _on_dir, NetOK, FrameOK, Answer, Members
<1>3. LedgerType' /\ LedgerOK'
  BY <1>1, <1>2, LedgerAbsorbs
<1>4. LendType'
  BY <1>1, <1>2 DEF TypeOK, LendType, Members, Mesh
<1>5. NetOK'
  BY <1>1, FrameStays DEF NetOK
<1>6. RevokedStaysOut'
  <2>1. \A q \in Members : revoked[q] \cap (book'[q] \cup held[q]) = {}
    BY <1>1, <1>2 DEF RevokedStaysOut, TypeOK
  <2> QED BY <1>1, <2>1 DEF RevokedStaysOut, Members, Mesh
<1>7. OnlyNodesHold' /\ Exposure' /\ OtherType'
  BY <1>1, TypeParts DEF OnlyNodesHold, Exposure, ExposedIsNeverLent, OtherType, Members, Mesh
<1> QED BY <1>3, <1>4, <1>5, <1>6, <1>7 DEF TypeOK, LedgerType, LendType, OtherType

LEMMA BrokerKeeps ==
  ASSUME MutinyConstants, MutinyInv, BrokerTick \/ InstallKey \/ Tick
  PROVE  MutinyInv'
<1> USE DEF MutinyInv
<1>1. UNCHANGED ledger
  BY DEF BrokerTick, InstallKey, Tick
<1>2. LedgerType' /\ LedgerOK'
  BY <1>1, LedgerStays, TypeParts
<1>3. OtherType'
  BY TypeParts DEF BrokerTick, InstallKey, Tick, lending, OtherType, Members, Mesh, MutinyConstants
<1>4. LendPart'
  <2>1. CASE BrokerTick
    <3> DEFINE live == Live(issued)
               none == {}
    <3>1. live \in SUBSET issued
      BY DEF Live
    <3>2. Lend(latches[Broker], live, version, dark, {}, none) /\ UNCHANGED <<held, version, dark, exposed>>
      BY <2>1 DEF BrokerTick
    <3>3. \A f \in none : FrameOK(f)
      OBVIOUS
    <3> HIDE DEF live, none
    <3> QED BY <3>1, <3>2, <3>3, RenewKeeps
  <2>2. CASE InstallKey
    <3>1. UNCHANGED <<leases, issued, dark, exposed, book, revoked, held, net>> /\ version' = version + 1
      BY <2>2 DEF InstallKey
    <3>2. LendType' /\ OnlyNodesHold' /\ RevokedStaysOut' /\ NetOK'
      BY <3>1, TypeParts, FrameStays DEF LendType, OnlyNodesHold, RevokedStaysOut, NetOK, Members, Mesh
    <3>3. \A x \in DOMAIN leases : leases[x].version <= version + 1
      BY LeaseFields DEF Exposure, TypeOK
    <3>4. \A v \in exposed : v < version + 1 \/ v <= dark
      BY DEF Exposure, TypeOK
    <3>5. dark <= version + 1
      BY DEF Exposure, TypeOK
    <3>6. Exposure'
      BY <3>1, <3>3, <3>4, <3>5 DEF Exposure, ExposedIsNeverLent
    <3> QED BY <3>2, <3>6 DEF LendPart
  <2>3. CASE Tick
    <3>1. UNCHANGED <<leases, issued, dark, version, exposed, book, revoked, held, net>>
      BY <2>3 DEF Tick, lending
    <3> QED BY <3>1, LendStays, TypeParts DEF NetOK
  <2> QED BY <2>1, <2>2, <2>3
<1> QED BY <1>2, <1>3, <1>4 DEF LendPart, TypeOK, LedgerType, LendType, OtherType

LEMMA MutinyStep ==
  ASSUME MutinyConstants, MutinyInv, [Next]_vars
  PROVE  MutinyInv'
<1>1. ASSUME NEW f \in net, Receive(f) PROVE MutinyInv'
  <2>1. FrameOK(f)
    BY DEF MutinyInv, NetOK
  <2>2. CASE f.k = "incident" /\ absorb_incident(f.to, f.x)
    BY <2>1, <2>2, IncidentKeeps DEF FrameOK
  <2>3. CASE f.k = "reset" /\ absorb_reset(f.to, f.x)
    BY <2>1, <2>3, ResetKeeps DEF FrameOK
  <2>4. CASE f.k = "revocation" /\ absorb_revocation(f.to, f.x)
    BY <2>1, <2>4, RevocationKeeps DEF FrameOK
  <2>5. CASE f.k = "heartbeat" /\ absorb_heartbeat(f.to, f.x)
    BY <2>1, <2>5, HeartbeatKeeps DEF FrameOK
  <2> QED BY <1>1, <2>2, <2>3, <2>4, <2>5 DEF Receive
<1>2. ASSUME NEW p \in Sources, NEW i \in DOMAIN Objects, Report(p, i) PROVE MutinyInv'
  BY <1>2, IncidentKeeps DEF Report, MutinyConstants, Members, Mesh
<1>3. ASSUME NEW p \in Sources, NEW r \in DOMAIN ResetOf, HandIn(p, r) PROVE MutinyInv'
  BY <1>3, ResetKeeps DEF HandIn, MutinyConstants, Members, Mesh
<1>4. Nodes \subseteq Members /\ Entries \subseteq Nodes
  BY DEF Members, Mesh, MutinyConstants
<1>5. ASSUME NEW n \in Nodes, _beat(n) \/ NodeTick(n) PROVE MutinyInv'
  BY <1>4, <1>5, NodeKeeps
<1>6. ASSUME NEW n \in Entries, _on_dir_query(n) PROVE MutinyInv'
  BY <1>4, <1>6, NodeKeeps
<1>7. CASE UNCHANGED vars
  <2>1. /\ UNCHANGED <<ledger, leases, issued, dark, version, exposed, revoked, book, held, net>>
        /\ UNCHANGED <<beats, users, now, everHeld>>
    <3>1. /\ incidents' = incidents /\ latches' = latches /\ cleared' = cleared /\ resets' = resets
          /\ book' = book /\ revoked' = revoked /\ beats' = beats /\ held' = held /\ users' = users
          /\ leases' = leases /\ now' = now /\ issued' = issued /\ dark' = dark /\ version' = version
          /\ net' = net /\ exposed' = exposed /\ everHeld' = everHeld
      BY <1>7 DEF vars
    <3> QED BY <3>1 DEF ledger
  <2>2. OtherType'
    BY <2>1, TypeParts DEF OtherType, MutinyInv, Members, Mesh
  <2> QED BY <2>1, <2>2, BooksKeep DEF MutinyInv, TypeOK, RevokedStaysOut, OnlyNodesHold, NetOK
<1> QED BY <1>1, <1>2, <1>3, <1>5, <1>6, <1>7, BrokerKeeps, GrantKeeps, DirKeeps DEF Next

THEOREM MutinyHolds == Spec => []MutinyInv
<1> USE MutinyConstants
<1>1. Init => MutinyInv
  <2> SUFFICES ASSUME Init PROVE MutinyInv
    OBVIOUS
  <2>1. TypeOK
    BY DEF Init, TypeOK, MutinyConstants
  <2>2. NetOK /\ OnlyNodesHold /\ RevokedStaysOut /\ Exposure
    BY DEF Init, NetOK, OnlyNodesHold, RevokedStaysOut, Exposure, ExposedIsNeverLent
  <2>3. LedgerOK
    BY DEF Init, LedgerOK, LatchedByWhatIsKnown, ClearedByResets, Known, Clears
  <2> QED BY <2>1, <2>2, <2>3 DEF MutinyInv
<1>2. MutinyInv /\ [Next]_vars => MutinyInv'
  BY MutinyStep
<1> QED BY <1>1, <1>2, PTL DEF Spec

(* Every variable keeps its type. *)
THEOREM TypeCorrect == Spec => []TypeOK
BY MutinyHolds, PTL DEF MutinyInv

(* What holds a target at a participant depends on what it knows only, not  *)
(* on the order or the number of times it heard (MutinyLedger.add, reset).  *)
THEOREM LatchesConverge == Spec => []LatchedByWhatIsKnown
BY MutinyHolds, PTL DEF MutinyInv, LedgerOK

(* A lease known to be revoked stays out of the book and out of use         *)
(* (LeaseBook.merge, MeshNode._on_grant).                                   *)
THEOREM RevocationStands == Spec => []RevokedStaysOut
BY MutinyHolds, PTL DEF MutinyInv

(* A version a convicted node was leased is out of circulation for good     *)
(* (KeyBroker.on_incident, _revoke, issue_due).                             *)
THEOREM ExposedStaysBehind == Spec => []ExposedIsNeverLent
BY MutinyHolds, PTL DEF MutinyInv, Exposure

-----------------------------------------------------------------------------
(* What is in an answer, a reply and a frame.  sg are the answers signed,   *)
(* hon the targets that must not be convicted.                              *)

Modes == {Normal, Lockdown}
Said == Outputs \cup {"leak", "error"}
Vote == [provider : Providers, n : Requests, output : Said]
Item == [provider : Providers, n : Requests, output : Said, decider : Servers, mode : Modes]
vote(r) == [provider |-> r.provider, n |-> r.n, output |-> r.output]
Backed(sg, r) == r.output = "error" \/ vote(r) \in sg
ItemsOK(sg, is, n) == is \in Seq(Item) /\ \A i \in DOMAIN is : is[i].n = n /\ Backed(sg, is[i])
TargetsOK(hon, ts) == ts \cap hon = {} /\ \A t \in ts : t[1] \in Tags
DecisionOK(d) == d.n \in Requests /\ d.decider \in Servers /\ d.mode \in Modes
ReplyOK(sg, F, n) ==
  /\ F = [k |-> F.k, x |-> F.x] /\ F.k \in {"none", "result", "refused"}
  /\ F.k = "result" => ItemsOK(sg, F.x.items, n)
  /\ F.k = "none" => F = NoReply
IsReply(f) == f.k \in {"result", "refused"}
Sound(sg, hon, f) ==
  /\ f.k = "submit" => f.x.n \in Requests
  /\ f.k = "req" => f.x = [d |-> f.x.d, leg |-> f.x.leg, hop |-> f.x.hop] /\ DecisionOK(f.x.d)
  /\ f.k = "nack" =>
       /\ f.x = [d |-> f.x.d, leg |-> f.x.leg, hop |-> f.x.hop, unreachable |-> f.x.unreachable]
       /\ DecisionOK(f.x.d)
  /\ f.k = "resp" =>
       /\ f.x = [d |-> f.x.d, leg |-> f.x.leg, hop |-> f.x.hop, answer |-> f.x.answer]
       /\ DecisionOK(f.x.d)
       /\ f.x.answer \in Item /\ f.x.answer.n = f.x.d.n /\ Backed(sg, f.x.answer)
  /\ f.k = "dir?" => f.to \in Servers
  /\ f.k \in {"incident", "dir"} => TargetsOK(hon, f.x.targets)
  /\ IsReply(f) =>
       /\ f = frame(Client, f.k, [from |-> f.x.from, n |-> f.x.n, x |-> f.x.x])
       /\ f.x.from \in Servers /\ f.x.n \in Requests
       /\ f.k = "result" => ItemsOK(sg, f.x.x.items, f.x.n)

(* Honest nodes sign one answer to a request, and no lease material.        *)
OneAnswer(sg, hon) ==
  \A r, q \in sg : target_node(r.provider) \in hon =>
    r.output # "leak" /\ (q.provider = r.provider /\ q.n = r.n => q.output = r.output)
Setting(sg, hon) ==
  /\ hon \subseteq {target_node(p) : p \in Providers} /\ sg \subseteq Vote /\ OneAnswer(sg, hon)

LEMMA SoundGrows ==
  ASSUME NEW sg, NEW hon, NEW sg2, NEW hon2, sg \subseteq sg2, hon2 \subseteq hon
  PROVE  /\ \A is, n : ItemsOK(sg, is, n) => ItemsOK(sg2, is, n)
         /\ \A ts : TargetsOK(hon, ts) => TargetsOK(hon2, ts)
         /\ \A F, n : ReplyOK(sg, F, n) => ReplyOK(sg2, F, n)
         /\ \A f : Sound(sg, hon, f) => Sound(sg2, hon2, f)
<1>1. \A is, n : ItemsOK(sg, is, n) => ItemsOK(sg2, is, n)
  BY DEF ItemsOK, Backed
<1>2. \A ts : TargetsOK(hon, ts) => TargetsOK(hon2, ts)
  BY DEF TargetsOK
<1>3. \A F, n : ReplyOK(sg, F, n) => ReplyOK(sg2, F, n)
  BY <1>1 DEF ReplyOK
<1>4. \A r : Backed(sg, r) => Backed(sg2, r)
  BY DEF Backed
<1>5. \A f : Sound(sg, hon, f) => Sound(sg2, hon2, f)
  BY <1>1, <1>2, <1>4 DEF Sound
<1> QED BY <1>1, <1>2, <1>3, <1>5

(* What an answer that counts shows of who signed it.                       *)
LEMMA JudgedIsSigned ==
  ASSUME InferenceConstants, NEW sg, NEW items, NEW n, ItemsOK(sg, items, n), NEW l
  PROVE  \A i \in Judged(items, l) : items[i] \in Item /\ items[i].n = n /\ vote(items[i]) \in sg
<1> SUFFICES ASSUME NEW i \in Judged(items, l)
             PROVE  items[i] \in Item /\ items[i].n = n /\ vote(items[i]) \in sg
  OBVIOUS
<1>1. i \in DOMAIN items /\ items[i].output \in Outputs \cup {"leak"}
  BY DEF Judged
<1>2. items[i] \in Item /\ items[i].n = n /\ Backed(sg, items[i])
  BY <1>1 DEF ItemsOK
<1>3. items[i].output # "error"
  BY <1>1 DEF InferenceConstants
<1> QED BY <1>2, <1>3 DEF Backed

LEMMA EvidenceIsSound ==
  ASSUME InferenceConstants, NEW sg, NEW hon, Setting(sg, hon), NEW items, NEW n, ItemsOK(sg, items, n),
         NEW memory, memory \subseteq Item, \A r \in memory : vote(r) \in sg, NEW l
  PROVE  TargetsOK(hon, Evidence(items, memory, l))
<1> DEFINE js == Remember(items, l)
<1>1. \A r \in js : r \in Item /\ vote(r) \in sg
  BY JudgedIsSigned DEF Remember
<1>2. ASSUME NEW r \in js, target_node(r.provider) \in hon
      PROVE  /\ r.output # "leak"
             /\ \A y \in js \cup memory : y.provider = r.provider /\ y.n = r.n => y.output = r.output
  <2>1. vote(r) \in sg /\ vote(r).provider = r.provider /\ vote(r).n = r.n /\ vote(r).output = r.output
    BY <1>1 DEF vote
  <2>2. r.output # "leak"
    BY <2>1, <1>2 DEF Setting, OneAnswer
  <2>3. ASSUME NEW y \in js \cup memory, y.provider = r.provider, y.n = r.n PROVE y.output = r.output
    <3>1. vote(y) \in sg
      BY <1>1
    <3>2. vote(y).provider = y.provider /\ vote(y).n = y.n /\ vote(y).output = y.output
      BY DEF vote
    <3> QED BY <2>1, <2>3, <3>1, <3>2, <1>2 DEF Setting, OneAnswer
  <2> QED BY <2>2, <2>3
<1> HIDE DEF js
<1>3. Evidence(items, memory, l) =
        {target_node(r.provider) : r \in {x \in js : \/ x.output = "leak"
           \/ \E y \in js \cup memory : y.provider = x.provider /\ y.n = x.n /\ y.output # x.output}}
  BY DEF Evidence, js
<1>4. Evidence(items, memory, l) \cap hon = {}
  BY <1>2, <1>3
<1>5. \A t \in Evidence(items, memory, l) : t[1] \in Tags
  BY <1>3 DEF target_node, Tags
<1> QED BY <1>4, <1>5 DEF TargetsOK

SignersOf(sg, n, o) == {p \in Providers : [provider |-> p, n |-> n, output |-> o] \in sg}

LEMMA VerdictFacts ==
  ASSUME NEW items, NEW memory, NEW l, NEW need, NEW v, v = adjudicate(items, memory, l, need)
  PROVE  /\ v.evidence \subseteq Evidence(items, memory, l)
         /\ v.status \in {"accepted", "intercepted", "insufficient"}
         /\ v.status = "accepted" =>
              \E ok \in SUBSET Judged(items, l) :
                /\ \A i \in ok : items[i].output # "leak"
                /\ Cardinality(Voters(items, ok, v.output)) >= need
<1> DEFINE ok == {i \in Judged(items, l) : items[i].output # "leak"}
<1>1. PICK output : v = Count(items, ok, Evidence(items, memory, l), output, need)
  BY DEF adjudicate
<1>2. ok \in SUBSET Judged(items, l) /\ \A i \in ok : items[i].output # "leak"
  OBVIOUS
<1> HIDE DEF ok
<1>3. /\ v.evidence \subseteq Evidence(items, memory, l)
      /\ v.status \in {"accepted", "intercepted", "insufficient"}
      /\ v.status = "accepted" => v.output = output /\ Enough(Votes(items, ok, output), need)
  BY <1>1 DEF Count, Verdict
<1> QED BY <1>2, <1>3 DEF Enough, Votes

LEMMA AcceptedHasSigners ==
  ASSUME InferenceConstants, NEW sg, NEW items, NEW n, ItemsOK(sg, items, n), NEW memory, NEW l,
         NEW need \in Nat, NEW v, v = adjudicate(items, memory, l, need), v.status = "accepted"
  PROVE  Cardinality(SignersOf(sg, n, v.output)) >= need
<1>1. PICK ok \in SUBSET Judged(items, l) : Cardinality(Voters(items, ok, v.output)) >= need
  BY VerdictFacts
<1>2. Voters(items, ok, v.output) \subseteq SignersOf(sg, n, v.output)
  <2> SUFFICES ASSUME NEW p \in Voters(items, ok, v.output) PROVE p \in SignersOf(sg, n, v.output)
    OBVIOUS
  <2>1. PICK i \in ok : items[i].provider = p /\ items[i].output = v.output
    BY DEF Voters
  <2>2. items[i].n = n /\ vote(items[i]) \in sg
    BY JudgedIsSigned
  <2>3. vote(items[i]) = [provider |-> p, n |-> n, output |-> v.output]
    BY <2>1, <2>2 DEF vote
  <2> QED BY <2>2, <2>3 DEF SignersOf, Voters
<1>3. IsFiniteSet(SignersOf(sg, n, v.output))
  BY FS_Subset DEF InferenceConstants, SignersOf
<1>4. Cardinality(Voters(items, ok, v.output)) =< Cardinality(SignersOf(sg, n, v.output))
  BY <1>2, <1>3, FS_Subset
<1>5. /\ Cardinality(Voters(items, ok, v.output)) \in Nat
      /\ Cardinality(SignersOf(sg, n, v.output)) \in Nat
  BY <1>2, <1>3, FS_Subset, FS_CardinalityType
<1> QED BY <1>1, <1>4, <1>5

-----------------------------------------------------------------------------
(* The handlers of a serving node.                                          *)

PendingOK(sg, P, m) ==
  /\ P = [n |-> P.n, pins |-> P.pins, lockdown |-> P.lockdown, attempt |-> P.attempt,
          decision |-> P.decision, quorum |-> P.quorum, open |-> P.open, avoid |-> P.avoid,
          decisions |-> P.decisions, items |-> P.items]
  /\ P.attempt \in 0..(MaxAttempts - 1) /\ ItemsOK(sg, P.items, m)
Matches(f, s, F) == f.x.from = s /\ f.k = F[f.x.n].k /\ f.x.x = F[f.x.n].x
HandlerOK(sg, hon, fin, s, S) ==
  /\ S = [led |-> S.led, pending |-> S.pending, finished |-> S.finished, out |-> S.out, again |-> S.again]
  /\ S.pending = [m \in Requests |-> S.pending[m]] /\ S.finished = [m \in Requests |-> S.finished[m]]
  /\ S.again \in BOOLEAN /\ TargetsOK(hon, S.led)
  /\ \A m \in Requests :
       /\ S.pending[m] # None => PendingOK(sg, S.pending[m], m) /\ S.finished[m] = NoReply
       /\ ReplyOK(sg, S.finished[m], m)
       /\ fin[m] # NoReply => S.finished[m] = fin[m]
  /\ \A f \in S.out : Sound(sg, hon, f) /\ (IsReply(f) => Matches(f, s, S.finished))
(* Every request but n waits for a leg; n does, or is to be decided again,  *)
(* for its attempt a or a later one.                                        *)
OthersOpen(S, n) == \A m \in Requests \ {n} : S.pending[m] # None => S.pending[m].open # {}
Waits(sg, S, n) == PendingOK(sg, S.pending[n], n) /\ S.finished[n] = NoReply
OpenOr(sg, S, n, a) ==
  /\ OthersOpen(S, n)
  /\ IF S.again THEN Waits(sg, S, n) /\ S.pending[n].attempt >= a
     ELSE S.pending[n] # None => S.pending[n].open # {}
AnyOpen(sg, S, n) == \A a : OpenOr(sg, S, n, a)
AllOpen(S) == \A m \in Requests : S.pending[m] # None => S.pending[m].open # {}
FewerPending(S, T) == \A m \in Requests : T.pending[m] \in {None, S.pending[m]}

Finishes(s, S, n, k, x, T) == T = _finish(s, S, n, k, x)
Refuses(s, S, ns, x, T) == T = Refuse(s, S, ns, x)
Publishes(s, S, ts, T) == T = publish(s, S, ts)
Grows(S, ts, o, T) == T = [S EXCEPT !.led = S.led \cup ts, !.out = S.out \cup o]
Edits(S, n, Q, T) == T = [S EXCEPT !.pending = [S.pending EXCEPT ![n] = Q]]
Marks(S, T) == T = [S EXCEPT !.again = TRUE]
Unmarks(S, T) == T = [S EXCEPT !.again = FALSE]
IsAt(S, n, Q) == S.again = FALSE /\ S.pending[n] = Q
SameBut(n, S, T) == \A m \in Requests \ {n} : T.pending[m] = S.pending[m]

LEMMA ReplyIsSound ==
  ASSUME NEW sg, NEW hon, NEW s \in Servers, NEW n \in Requests, NEW k \in {"result", "refused"}, NEW x,
         k = "result" => ItemsOK(sg, x.items, n), NEW F, F[n] = [k |-> k, x |-> x]
  PROVE  /\ Sound(sg, hon, Reply(s, n, k, x)) /\ Matches(Reply(s, n, k, x), s, F)
         /\ ReplyOK(sg, F[n], n)
<1>1. Reply(s, n, k, x) = [to |-> Client, k |-> k, x |-> [from |-> s, n |-> n, x |-> x]]
  BY DEF Reply, frame
<1> QED BY <1>1 DEF Sound, Matches, ReplyOK, IsReply, frame

LEMMA FinishIsOK ==
  ASSUME NEW sg, NEW hon, NEW fin, NEW s \in Servers, NEW S, HandlerOK(sg, hon, fin, s, S),
         NEW n \in Requests, S.finished[n] = NoReply, NEW k \in {"result", "refused"}, NEW x,
         k = "result" => ItemsOK(sg, x.items, n), NEW T, Finishes(s, S, n, k, x, T)
  PROVE  /\ HandlerOK(sg, hon, fin, s, T) /\ T.pending[n] = None /\ SameBut(n, S, T)
         /\ T.again = S.again /\ T.led = S.led
<1>0. T = _finish(s, S, n, k, x)
  BY DEF Finishes
<1>1. /\ T = [led |-> S.led, pending |-> [S.pending EXCEPT ![n] = None],
              finished |-> [S.finished EXCEPT ![n] = [k |-> k, x |-> x]],
              out |-> S.out \cup {Reply(s, n, k, x)}, again |-> S.again]
  <2>1. PICK a, b, c, d, e :
          /\ S = [led |-> a, pending |-> b, finished |-> c, out |-> d, again |-> e]
          /\ b = [m \in Requests |-> b[m]] /\ c = [m \in Requests |-> c[m]]
    BY DEF HandlerOK
  <2>2. PICK R1 : R1 = [S EXCEPT !.pending = [S.pending EXCEPT ![n] = None]]
    OBVIOUS
  <2>3. PICK R2 : R2 = [R1 EXCEPT !.finished = [R1.finished EXCEPT ![n] = [k |-> k, x |-> x]]]
    OBVIOUS
  <2>4. T = [R2 EXCEPT !.out = S.out \cup {Reply(s, n, k, x)}]
    BY <1>0, <2>2, <2>3, Zenon DEF _finish
  <2> QED BY <2>1, <2>2, <2>3, <2>4
<1>2. /\ T.led = S.led /\ T.pending = [S.pending EXCEPT ![n] = None]
      /\ T.finished = [S.finished EXCEPT ![n] = [k |-> k, x |-> x]]
      /\ T.out = S.out \cup {Reply(s, n, k, x)} /\ T.again = S.again
  BY <1>1
<1>3. /\ T.finished = [m \in Requests |-> T.finished[m]] /\ T.finished[n] = [k |-> k, x |-> x]
      /\ T.pending = [m \in Requests |-> T.pending[m]] /\ T.pending[n] = None
      /\ \A m \in Requests \ {n} : T.finished[m] = S.finished[m] /\ T.pending[m] = S.pending[m]
  BY <1>2 DEF HandlerOK
<1>5. /\ Sound(sg, hon, Reply(s, n, k, x)) /\ Matches(Reply(s, n, k, x), s, T.finished)
      /\ ReplyOK(sg, T.finished[n], n)
  <2>1. PICK F : F = T.finished /\ F[n] = [k |-> k, x |-> x]
    BY <1>3
  <2>2. Sound(sg, hon, Reply(s, n, k, x)) /\ Matches(Reply(s, n, k, x), s, F) /\ ReplyOK(sg, F[n], n)
    BY <2>1, ReplyIsSound
  <2> QED BY <2>1, <2>2
<1>6. ASSUME NEW f \in T.out PROVE Sound(sg, hon, f) /\ (IsReply(f) => Matches(f, s, T.finished))
  <2>1. CASE f \in S.out
    <3>1. Sound(sg, hon, f) /\ (IsReply(f) => Matches(f, s, S.finished) /\ f.x.n \in Requests)
      BY <2>1 DEF HandlerOK, Sound
    <3>2. IsReply(f) => f.x.n # n
      BY <3>1 DEF Matches, NoReply, IsReply
    <3> QED BY <3>1, <3>2, <1>3 DEF Matches
  <2> QED BY <2>1, <1>2, <1>5
<1>7. ASSUME NEW m \in Requests
      PROVE  /\ T.pending[m] # None => PendingOK(sg, T.pending[m], m) /\ T.finished[m] = NoReply
             /\ ReplyOK(sg, T.finished[m], m)
             /\ fin[m] # NoReply => T.finished[m] = fin[m]
  <2>1. CASE m = n
    BY <2>1, <1>3, <1>5 DEF HandlerOK
  <2>2. CASE m # n
    BY <2>2, <1>3 DEF HandlerOK
  <2> QED BY <2>1, <2>2
<1>8. S.again \in BOOLEAN /\ TargetsOK(hon, S.led)
  BY DEF HandlerOK
<1>9. HandlerOK(sg, hon, fin, s, T)
  BY <1>1, <1>2, <1>3, <1>6, <1>7, <1>8 DEF HandlerOK
<1> QED BY <1>2, <1>3, <1>9 DEF SameBut

LEMMA RefuseIsOK ==
  ASSUME NEW sg, NEW hon, NEW fin, NEW s \in Servers, NEW S, HandlerOK(sg, hon, fin, s, S),
         NEW ns \in SUBSET Requests, \A n \in ns : S.pending[n] # None, NEW x,
         NEW T, Refuses(s, S, ns, x, T)
  PROVE  HandlerOK(sg, hon, fin, s, T) /\ T.again = S.again /\ FewerPending(S, T)
<1>0. T = Refuse(s, S, ns, x)
  BY DEF Refuses
<1>1. T = [led |-> S.led, pending |-> [n \in Requests |-> IF n \in ns THEN None ELSE S.pending[n]],
           finished |-> [n \in Requests |-> IF n \in ns THEN [k |-> "refused", x |-> x] ELSE S.finished[n]],
           out |-> S.out \cup {Reply(s, n, "refused", x) : n \in ns}, again |-> S.again]
  <2>1. PICK a, b, c, d, e :
          /\ S = [led |-> a, pending |-> b, finished |-> c, out |-> d, again |-> e]
          /\ b = [m \in Requests |-> b[m]] /\ c = [m \in Requests |-> c[m]]
    BY DEF HandlerOK
  <2>2. PICK R1 : R1 = [S EXCEPT !.pending = [n \in Requests |-> IF n \in ns THEN None ELSE S.pending[n]]]
    OBVIOUS
  <2>3. PICK R2 : R2 = [R1 EXCEPT !.finished =
          [n \in Requests |-> IF n \in ns THEN [k |-> "refused", x |-> x] ELSE S.finished[n]]]
    OBVIOUS
  <2>4. T = [R2 EXCEPT !.out = S.out \cup {Reply(s, n, "refused", x) : n \in ns}]
    BY <1>0, <2>2, <2>3, Zenon DEF Refuse
  <2> QED BY <2>1, <2>2, <2>3, <2>4
<1>2. /\ T.led = S.led /\ T.again = S.again
      /\ T.pending = [n \in Requests |-> IF n \in ns THEN None ELSE S.pending[n]]
      /\ T.finished = [n \in Requests |-> IF n \in ns THEN [k |-> "refused", x |-> x] ELSE S.finished[n]]
      /\ T.out = S.out \cup {Reply(s, n, "refused", x) : n \in ns}
  BY <1>1
<1>3. /\ T.finished = [m \in Requests |-> T.finished[m]] /\ T.pending = [m \in Requests |-> T.pending[m]]
      /\ \A m \in ns : T.finished[m] = [k |-> "refused", x |-> x] /\ T.pending[m] = None
      /\ \A m \in Requests \ ns : T.finished[m] = S.finished[m] /\ T.pending[m] = S.pending[m]
  BY <1>2
<1>4. \A n \in ns : S.finished[n] = NoReply
  BY DEF HandlerOK
<1>5. ASSUME NEW n \in ns
      PROVE  /\ Sound(sg, hon, Reply(s, n, "refused", x)) /\ Matches(Reply(s, n, "refused", x), s, T.finished)
             /\ ReplyOK(sg, T.finished[n], n)
  <2>1. T.finished[n] = [k |-> "refused", x |-> x]
    BY <1>3
  <2> QED BY <2>1, ReplyIsSound
<1>6. ASSUME NEW f \in T.out PROVE Sound(sg, hon, f) /\ (IsReply(f) => Matches(f, s, T.finished))
  <2>1. CASE f \in S.out
    <3>1. Sound(sg, hon, f) /\ (IsReply(f) => Matches(f, s, S.finished) /\ f.x.n \in Requests)
      BY <2>1 DEF HandlerOK, Sound
    <3>2. IsReply(f) => f.x.n \notin ns
      BY <3>1, <1>4 DEF Matches, NoReply, IsReply
    <3> QED BY <3>1, <3>2, <1>3 DEF Matches
  <2> QED BY <2>1, <1>2, <1>5
<1>7. ASSUME NEW m \in Requests
      PROVE  /\ T.pending[m] # None => PendingOK(sg, T.pending[m], m) /\ T.finished[m] = NoReply
             /\ ReplyOK(sg, T.finished[m], m)
             /\ fin[m] # NoReply => T.finished[m] = fin[m]
  <2>1. CASE m \in ns
    BY <2>1, <1>3, <1>4, <1>5 DEF HandlerOK
  <2>2. CASE m \notin ns
    BY <2>2, <1>3 DEF HandlerOK
  <2> QED BY <2>1, <2>2
<1>8. S.again \in BOOLEAN /\ TargetsOK(hon, S.led)
  BY DEF HandlerOK
<1>9. HandlerOK(sg, hon, fin, s, T)
  BY <1>1, <1>2, <1>3, <1>6, <1>7, <1>8 DEF HandlerOK
<1> QED BY <1>2, <1>3, <1>9 DEF FewerPending

(* What else changes: a ledger that grows and frames that are no replies,   *)
(* a request's record, and the mark that it is to be decided again.         *)
LEMMA GrownIsOK ==
  ASSUME NEW sg, NEW hon, NEW fin, NEW s, NEW S, HandlerOK(sg, hon, fin, s, S),
         NEW ts, TargetsOK(hon, ts), NEW o, \A f \in o : Sound(sg, hon, f) /\ ~IsReply(f),
         NEW T, Grows(S, ts, o, T)
  PROVE  /\ HandlerOK(sg, hon, fin, s, T) /\ T.pending = S.pending /\ T.again = S.again
         /\ T.finished = S.finished
<1>0. PICK R : R = [S EXCEPT !.led = S.led \cup ts] /\ T = [R EXCEPT !.out = S.out \cup o]
  BY Zenon DEF Grows
<1>1. PICK a, b, c, d, e :
        /\ S = [led |-> a, pending |-> b, finished |-> c, out |-> d, again |-> e]
        /\ a = S.led /\ b = S.pending /\ c = S.finished /\ d = S.out /\ e = S.again
  BY DEF HandlerOK
<1>2. T = [led |-> S.led \cup ts, pending |-> S.pending, finished |-> S.finished, out |-> S.out \cup o,
           again |-> S.again]
  BY <1>0, <1>1
<1>3. /\ T.led = S.led \cup ts /\ T.pending = S.pending /\ T.finished = S.finished /\ T.out = S.out \cup o
      /\ T.again = S.again
  BY <1>2
<1>4. T = [led |-> T.led, pending |-> T.pending, finished |-> T.finished, out |-> T.out, again |-> T.again]
  BY <1>2, <1>3
<1>5. TargetsOK(hon, T.led)
  BY <1>3 DEF HandlerOK, TargetsOK
<1>6. \A f \in T.out : Sound(sg, hon, f) /\ (IsReply(f) => Matches(f, s, T.finished))
  BY <1>3 DEF HandlerOK
<1> QED BY <1>3, <1>4, <1>5, <1>6 DEF HandlerOK

LEMMA EditedIsOK ==
  ASSUME NEW sg, NEW hon, NEW fin, NEW s, NEW S, HandlerOK(sg, hon, fin, s, S),
         NEW n \in Requests, S.finished[n] = NoReply, NEW Q, PendingOK(sg, Q, n),
         NEW T, Edits(S, n, Q, T)
  PROVE  /\ HandlerOK(sg, hon, fin, s, T) /\ Waits(sg, T, n) /\ T.pending[n] = Q /\ SameBut(n, S, T)
         /\ T.led = S.led /\ T.finished = S.finished /\ T.out = S.out /\ T.again = S.again
<1>1. PICK a, b, c, d, e :
        /\ S = [led |-> a, pending |-> b, finished |-> c, out |-> d, again |-> e]
        /\ a = S.led /\ b = S.pending /\ c = S.finished /\ d = S.out /\ e = S.again
  BY DEF HandlerOK
<1>2. T = [led |-> S.led, pending |-> [S.pending EXCEPT ![n] = Q], finished |-> S.finished, out |-> S.out,
           again |-> S.again]
  BY <1>1 DEF Edits
<1>3. /\ T.led = S.led /\ T.pending = [S.pending EXCEPT ![n] = Q] /\ T.finished = S.finished /\ T.out = S.out
      /\ T.again = S.again
  BY <1>2
<1>4. T = [led |-> T.led, pending |-> T.pending, finished |-> T.finished, out |-> T.out, again |-> T.again]
  BY <1>2, <1>3
<1>5. /\ T.pending = [m \in Requests |-> T.pending[m]] /\ T.pending[n] = Q
      /\ \A m \in Requests \ {n} : T.pending[m] = S.pending[m]
  BY <1>3 DEF HandlerOK
<1>6. HandlerOK(sg, hon, fin, s, T)
  BY <1>3, <1>4, <1>5 DEF HandlerOK
<1> QED BY <1>3, <1>5, <1>6 DEF Waits, SameBut

LEMMA MarkedIsOK ==
  ASSUME NEW sg, NEW hon, NEW fin, NEW s, NEW S, HandlerOK(sg, hon, fin, s, S),
         NEW T, Marks(S, T) \/ Unmarks(S, T)
  PROVE  /\ HandlerOK(sg, hon, fin, s, T) /\ T.pending = S.pending /\ T.finished = S.finished
         /\ T.led = S.led
<1>1. PICK a, b, c, d, g :
        /\ S = [led |-> a, pending |-> b, finished |-> c, out |-> d, again |-> g]
        /\ a = S.led /\ b = S.pending /\ c = S.finished /\ d = S.out
  BY DEF HandlerOK
<1>2. PICK e \in BOOLEAN :
        T = [led |-> S.led, pending |-> S.pending, finished |-> S.finished, out |-> S.out, again |-> e]
  <2>1. CASE Marks(S, T)
    <3>1. T = [led |-> S.led, pending |-> S.pending, finished |-> S.finished, out |-> S.out, again |-> TRUE]
      BY <1>1, <2>1 DEF Marks
    <3> QED BY <3>1
  <2>2. CASE Unmarks(S, T)
    <3>1. T = [led |-> S.led, pending |-> S.pending, finished |-> S.finished, out |-> S.out, again |-> FALSE]
      BY <1>1, <2>2 DEF Unmarks
    <3> QED BY <3>1
  <2> QED BY <2>1, <2>2
<1>3. T.led = S.led /\ T.pending = S.pending /\ T.finished = S.finished /\ T.out = S.out /\ T.again \in BOOLEAN
  BY <1>2
<1>4. T = [led |-> T.led, pending |-> T.pending, finished |-> T.finished, out |-> T.out, again |-> T.again]
  BY <1>2, <1>3
<1> QED BY <1>3, <1>4 DEF HandlerOK

LEMMA AgainIsMarked ==
  ASSUME NEW sg, NEW hon, NEW fin, NEW s, NEW S, HandlerOK(sg, hon, fin, s, S), NEW T
  PROVE  (Marks(S, T) => T.again = TRUE) /\ (Unmarks(S, T) => T.again = FALSE)
<1>1. PICK a, b, c, d, g : S = [led |-> a, pending |-> b, finished |-> c, out |-> d, again |-> g]
  BY DEF HandlerOK
<1> QED BY <1>1 DEF Marks, Unmarks

LEMMA IncidentIsSound ==
  ASSUME NEW sg, NEW hon, NEW s, NEW ts, TargetsOK(hon, ts)
  PROVE  \A f \in Incident(s, ts) : Sound(sg, hon, f) /\ ~IsReply(f)
<1> SUFFICES ASSUME NEW f \in Incident(s, ts) PROVE Sound(sg, hon, f) /\ ~IsReply(f)
  OBVIOUS
<1>1. PICK m : f = [to |-> m, k |-> "incident", x |-> [targets |-> ts]]
  BY DEF Incident, frame
<1>2. f.k = "incident" /\ f.x.targets = ts
  BY <1>1
<1> QED BY <1>2 DEF Sound, IsReply

LEMMA PublishIsOK ==
  ASSUME NEW sg, NEW hon, NEW fin, NEW s \in Servers, NEW S, HandlerOK(sg, hon, fin, s, S),
         NEW ts, TargetsOK(hon, ts), NEW T, Publishes(s, S, ts, T)
  PROVE  HandlerOK(sg, hon, fin, s, T) /\ T.again = S.again /\ FewerPending(S, T)
<1>1. CASE ts = {}
  BY <1>1 DEF Publishes, publish, FewerPending
<1>2. CASE ts # {}
  <2>1. PICK R : Grows(S, ts, Incident(s, ts), R)
    BY DEF Grows
  <2>2. Refuses(s, R, Waiting(R), Why("lockdown"), T)
    BY <1>2, <2>1, Zenon DEF Publishes, publish, Grows, Refuses
  <2>3. \A f \in Incident(s, ts) : Sound(sg, hon, f) /\ ~IsReply(f)
    BY IncidentIsSound
  <2>4. HandlerOK(sg, hon, fin, s, R) /\ R.pending = S.pending /\ R.again = S.again
    BY <2>1, <2>3, GrownIsOK
  <2>5. Waiting(R) \in SUBSET Requests /\ \A m \in Waiting(R) : R.pending[m] # None
    BY DEF Waiting
  <2>6. HandlerOK(sg, hon, fin, s, T) /\ T.again = R.again /\ FewerPending(R, T)
    BY <2>2, <2>4, <2>5, RefuseIsOK
  <2> QED BY <2>4, <2>6 DEF FewerPending
<1> QED BY <1>1, <1>2

WithDecision(P, y) == [P EXCEPT !.decision = y]
WithDecisions(P, y) == [P EXCEPT !.decisions = y]
WithOpen(P, y) == [P EXCEPT !.open = y]
WithAvoid(P, y) == [P EXCEPT !.avoid = y]
WithAttempt(P, y) == [P EXCEPT !.attempt = y]
WithItems(P, y) == [P EXCEPT !.items = y]

(* A request's record: the fields a decision sets, and its next attempt.    *)
LEMMA PendingEdits ==
  ASSUME NEW sg, NEW n, NEW P, PendingOK(sg, P, n)
  PROVE  /\ \A y : PendingOK(sg, WithDecision(P, y), n) /\ WithDecision(P, y).attempt = P.attempt
         /\ \A y : PendingOK(sg, WithDecisions(P, y), n) /\ WithDecisions(P, y).attempt = P.attempt
         /\ \A y : /\ PendingOK(sg, WithOpen(P, y), n) /\ WithOpen(P, y).attempt = P.attempt
                  /\ WithOpen(P, y).open = y
         /\ \A y : /\ PendingOK(sg, WithAvoid(P, y), n) /\ WithAvoid(P, y).attempt = P.attempt
                  /\ WithAvoid(P, y).open = P.open
         /\ \A y \in 0..(MaxAttempts - 1) :
              PendingOK(sg, WithAttempt(P, y), n) /\ WithAttempt(P, y).attempt = y
         /\ \A y : ItemsOK(sg, y, n) =>
              /\ PendingOK(sg, WithItems(P, y), n) /\ WithItems(P, y).attempt = P.attempt
              /\ WithItems(P, y).open = P.open
<1>1. PICK a, b, c, d, e, f, g, h, i, j :
        /\ P = [n |-> a, pins |-> b, lockdown |-> c, attempt |-> d, decision |-> e, quorum |-> f,
                open |-> g, avoid |-> h, decisions |-> i, items |-> j]
        /\ d = P.attempt /\ j = P.items /\ g = P.open
        /\ P.attempt \in 0..(MaxAttempts - 1) /\ ItemsOK(sg, P.items, n)
  BY DEF PendingOK
<1>2. ASSUME NEW y
      PROVE  /\ PendingOK(sg, WithDecision(P, y), n) /\ WithDecision(P, y).attempt = P.attempt
  <2>1. WithDecision(P, y) = [n |-> a, pins |-> b, lockdown |-> c, attempt |-> d, decision |-> y,
             quorum |-> f, open |-> g, avoid |-> h, decisions |-> i, items |-> j]
    BY <1>1 DEF WithDecision
  <2> QED BY <2>1, <1>1 DEF PendingOK
<1>3. ASSUME NEW y
      PROVE  /\ PendingOK(sg, WithDecisions(P, y), n) /\ WithDecisions(P, y).attempt = P.attempt
  <2>1. WithDecisions(P, y) = [n |-> a, pins |-> b, lockdown |-> c, attempt |-> d, decision |-> e,
             quorum |-> f, open |-> g, avoid |-> h, decisions |-> y, items |-> j]
    BY <1>1 DEF WithDecisions
  <2> QED BY <2>1, <1>1 DEF PendingOK
<1>4. ASSUME NEW y
      PROVE  /\ PendingOK(sg, WithOpen(P, y), n) /\ WithOpen(P, y).attempt = P.attempt
             /\ WithOpen(P, y).open = y
  <2>1. WithOpen(P, y) = [n |-> a, pins |-> b, lockdown |-> c, attempt |-> d, decision |-> e,
             quorum |-> f, open |-> y, avoid |-> h, decisions |-> i, items |-> j]
    BY <1>1 DEF WithOpen
  <2> QED BY <2>1, <1>1 DEF PendingOK
<1>5. ASSUME NEW y
      PROVE  /\ PendingOK(sg, WithAvoid(P, y), n) /\ WithAvoid(P, y).attempt = P.attempt
             /\ WithAvoid(P, y).open = P.open
  <2>1. WithAvoid(P, y) = [n |-> a, pins |-> b, lockdown |-> c, attempt |-> d, decision |-> e,
             quorum |-> f, open |-> g, avoid |-> y, decisions |-> i, items |-> j]
    BY <1>1 DEF WithAvoid
  <2> QED BY <2>1, <1>1 DEF PendingOK
<1>6. ASSUME NEW y \in 0..(MaxAttempts - 1)
      PROVE  /\ PendingOK(sg, WithAttempt(P, y), n) /\ WithAttempt(P, y).attempt = y
  <2>1. WithAttempt(P, y) = [n |-> a, pins |-> b, lockdown |-> c, attempt |-> y, decision |-> e,
             quorum |-> f, open |-> g, avoid |-> h, decisions |-> i, items |-> j]
    BY <1>1 DEF WithAttempt
  <2> QED BY <2>1, <1>1 DEF PendingOK
<1>7. ASSUME NEW y, ItemsOK(sg, y, n)
      PROVE  /\ PendingOK(sg, WithItems(P, y), n) /\ WithItems(P, y).attempt = P.attempt
             /\ WithItems(P, y).open = P.open
  <2>1. WithItems(P, y) = [n |-> a, pins |-> b, lockdown |-> c, attempt |-> d, decision |-> e,
             quorum |-> f, open |-> g, avoid |-> h, decisions |-> i, items |-> y]
    BY <1>1 DEF WithItems
  <2> QED BY <2>1, <1>1, <1>7 DEF PendingOK
<1> QED BY <1>2, <1>3, <1>4, <1>5, <1>6, <1>7

(* A submission that is refused at once.                                    *)
LEMMA RefusedIsOK ==
  ASSUME NEW sg, NEW hon, NEW fin, NEW s \in Servers, NEW S, HandlerOK(sg, hon, fin, s, S), NEW n \in Requests,
         OthersOpen(S, n), S.finished[n] = NoReply, NEW x, NEW T, Finishes(s, S, n, "refused", x, T)
  PROVE  HandlerOK(sg, hon, fin, s, T) /\ AllOpen(T)
<1>1. PICK k \in {"result", "refused"} : k = "refused"
  OBVIOUS
<1>2. (k = "result" => ItemsOK(sg, x.items, n)) /\ Finishes(s, S, n, k, x, T)
  BY <1>1
<1>3. /\ HandlerOK(sg, hon, fin, s, T) /\ T.pending[n] = None /\ SameBut(n, S, T)
      /\ T.again = S.again /\ T.led = S.led
  BY <1>2, FinishIsOK
<1> QED BY <1>3 DEF AllOpen, OthersOpen, SameBut

(* A request that is finished, with whatever is published after.            *)
LEMMA ClosedIsOK ==
  ASSUME NEW sg, NEW hon, NEW fin, NEW s \in Servers, NEW S, HandlerOK(sg, hon, fin, s, S),
         NEW n \in Requests, Waits(sg, S, n), OthersOpen(S, n), S.again = FALSE,
         NEW k \in {"result", "refused"}, NEW x, k = "result" => ItemsOK(sg, x.items, n),
         NEW F, Finishes(s, S, n, k, x, F), NEW ts, TargetsOK(hon, ts), NEW T, T = F \/ Publishes(s, F, ts, T)
  PROVE  HandlerOK(sg, hon, fin, s, T) /\ AnyOpen(sg, T, n)
<1>1. S.finished[n] = NoReply
  BY DEF Waits
<1>2. HandlerOK(sg, hon, fin, s, F) /\ F.pending[n] = None /\ SameBut(n, S, F) /\ F.again = S.again
  BY <1>1, FinishIsOK
<1>3. HandlerOK(sg, hon, fin, s, T) /\ T.again = F.again /\ FewerPending(F, T)
  <2>1. CASE T = F
    BY <1>2, <2>1 DEF FewerPending
  <2>2. CASE Publishes(s, F, ts, T)
    BY <1>2, <2>2, PublishIsOK
  <2> QED BY <2>1, <2>2
<1>4. \A a : OpenOr(sg, T, n, a)
  BY <1>2, <1>3 DEF OpenOr, OthersOpen, FewerPending, SameBut
<1> QED BY <1>3, <1>4 DEF AnyOpen

LEMMA SettleIsOK ==
  ASSUME InferenceConstants, NEW sg, NEW hon, Setting(sg, hon), NEW fin, NEW s \in Servers, NEW S,
         HandlerOK(sg, hon, fin, s, S), NEW n \in Requests, Waits(sg, S, n), OthersOpen(S, n), S.again = FALSE,
         NEW T, T = _settle(s, S, n)
  PROVE  HandlerOK(sg, hon, fin, s, T) /\ OpenOr(sg, T, n, S.pending[n].attempt + 1)
<1>1. PICK P, a : P = S.pending[n] /\ a = S.pending[n].attempt + 1
  OBVIOUS
<1>2. PendingOK(sg, P, n) /\ S.finished[n] = NoReply
  BY <1>1 DEF Waits
<1>3. ItemsOK(sg, P.items, n) /\ P.attempt \in 0..(MaxAttempts - 1)
  BY <1>2 DEF PendingOK
<1>4. PICK v : v = adjudicate(P.items, {}, S.led, P.quorum)
  OBVIOUS
<1>5. T = SettledBy(s, S, n, P, v)
  BY <1>1, <1>4 DEF _settle
<1>6. TargetsOK(hon, v.evidence)
  <2>1. TargetsOK(hon, Evidence(P.items, {}, S.led))
    BY <1>3, EvidenceIsSound
  <2> QED BY <2>1, <1>4, VerdictFacts DEF TargetsOK
<1>7. ASSUME NEW k \in {"result", "refused"}, NEW x, k = "result" => ItemsOK(sg, x.items, n),
             NEW F, F = _finish(s, S, n, k, x), T = F \/ T = publish(s, F, v.evidence)
      PROVE  HandlerOK(sg, hon, fin, s, T) /\ OpenOr(sg, T, n, a)
  <2>1. Finishes(s, S, n, k, x, F)
    BY <1>7 DEF Finishes
  <2>2. PICK ts : ts = v.evidence
    OBVIOUS
  <2>3. k = "result" => ItemsOK(sg, x.items, n)
    BY <1>7
  <2>4. TargetsOK(hon, ts)
    BY <1>6, <2>2
  <2>5. T = F \/ Publishes(s, F, ts, T)
    BY <1>7, <2>2 DEF Publishes
  <2>6. HandlerOK(sg, hon, fin, s, T)
    BY <2>1, <2>3, <2>4, <2>5, ClosedIsOK
  <2>7. AnyOpen(sg, T, n)
    BY <2>1, <2>3, <2>4, <2>5, ClosedIsOK
  <2> QED BY <2>6, <2>7 DEF AnyOpen
<1>8. Items(P.items).items = P.items
  BY DEF Items
<1>9. CASE AttemptsLeft(P) /\ T = [S EXCEPT !.pending[n].attempt = @ + 1, !.again = TRUE]
  <2>1. PICK y \in 0..(MaxAttempts - 1) : y = P.attempt + 1
    BY <1>3, <1>9 DEF AttemptsLeft, InferenceConstants
  <2>2. PICK Q : Q = WithAttempt(P, y)
    OBVIOUS
  <2>3. PendingOK(sg, Q, n) /\ Q.attempt = y
    BY <2>2, <1>2, PendingEdits
  <2>4. PICK R : Edits(S, n, Q, R)
    BY DEF Edits
  <2>5. Marks(R, T)
    BY <1>1, <1>9, <2>1, <2>2, <2>4, Zenon DEF Edits, Marks, WithAttempt
  <2>6. HandlerOK(sg, hon, fin, s, R) /\ Waits(sg, R, n) /\ R.pending[n] = Q /\ SameBut(n, S, R)
    BY <1>2, <2>3, <2>4, EditedIsOK
  <2>7. HandlerOK(sg, hon, fin, s, T) /\ T.again = TRUE /\ T.pending = R.pending /\ T.finished = R.finished
    <3>1. HandlerOK(sg, hon, fin, s, T) /\ T.pending = R.pending /\ T.finished = R.finished /\ T.led = R.led
      BY <2>5, <2>6, MarkedIsOK
    <3>2. T.again = TRUE
      BY <2>5, <2>6, AgainIsMarked
    <3> QED BY <3>1, <3>2
  <2>8. a = y
    BY <1>1, <2>1
  <2>9. OpenOr(sg, T, n, a)
    BY <1>3, <2>1, <2>3, <2>6, <2>7, <2>8 DEF OpenOr, OthersOpen, Waits, SameBut
  <2> QED BY <1>1, <2>7, <2>9
<1>10. \/ T = publish(s, _finish(s, S, n, "result", Items(P.items)), v.evidence)
       \/ T = _finish(s, S, n, "refused", Why("lockdown"))
       \/ T = _finish(s, S, n, "result", Items(P.items))
       \/ T = publish(s, _finish(s, S, n, "refused", Why("intercepted")), v.evidence)
       \/ AttemptsLeft(P) /\ T = [S EXCEPT !.pending[n].attempt = @ + 1, !.again = TRUE]
       \/ T = _finish(s, S, n, "refused", Why("no quorum"))
  BY <1>5, Zenon DEF SettledBy
<1> QED BY <1>1, <1>3, <1>7, <1>8, <1>9, <1>10

LEMMA DispatchedIsOK ==
  ASSUME NEW sg, NEW hon, NEW fin, NEW s, NEW S, HandlerOK(sg, hon, fin, s, S),
         NEW n \in Requests, Waits(sg, S, n), NEW legs, NEW sent, NEW d, DecisionOK(d),
         NEW T, T = Dispatched(S, n, legs, sent, d)
  PROVE  /\ HandlerOK(sg, hon, fin, s, T) /\ Waits(sg, T, n) /\ SameBut(n, S, T) /\ T.again = S.again
         /\ T.pending[n].attempt = S.pending[n].attempt /\ T.pending[n].open = sent
<1>1. PICK P, ds, av, o :
        /\ P = S.pending[n] /\ ds = P.decisions \cup {d}
        /\ av = P.avoid \cup {legs[i].path[2] : i \in DOMAIN legs \ sent}
        /\ o = {frame(legs[i].path[2], "req", [d |-> d, leg |-> i, hop |-> 2]) : i \in sent}
  OBVIOUS
<1>2. PendingOK(sg, P, n) /\ S.finished[n] = NoReply
  BY <1>1 DEF Waits
<1>3. PICK Q1, Q2, Q3, Q4 :
        /\ Q1 = WithDecision(P, d) /\ Q2 = WithDecisions(Q1, ds)
        /\ Q3 = WithOpen(Q2, sent) /\ Q4 = WithAvoid(Q3, av)
  OBVIOUS
<1>4. PICK R4 : Edits(S, n, Q4, R4)
  BY DEF Edits
<1>5. T = [R4 EXCEPT !.out = S.out \cup o]
  BY <1>1, <1>3, <1>4, Zenon DEF Dispatched, Decided, Edits, WithDecision, WithDecisions, WithOpen, WithAvoid
<1>6. PendingOK(sg, Q1, n) /\ Q1.attempt = P.attempt
  BY <1>2, <1>3, PendingEdits
<1>7. PendingOK(sg, Q2, n) /\ Q2.attempt = P.attempt
  BY <1>3, <1>6, PendingEdits
<1>8. PendingOK(sg, Q3, n) /\ Q3.attempt = P.attempt /\ Q3.open = sent
  BY <1>3, <1>7, PendingEdits
<1>9. PendingOK(sg, Q4, n) /\ Q4.attempt = P.attempt /\ Q4.open = sent
  BY <1>3, <1>8, PendingEdits
<1>10. /\ HandlerOK(sg, hon, fin, s, R4) /\ R4.pending[n] = Q4 /\ SameBut(n, S, R4) /\ R4.again = S.again
       /\ R4.finished = S.finished /\ R4.out = S.out
  BY <1>2, <1>4, <1>9, EditedIsOK
<1>11. \A f \in o : Sound(sg, hon, f) /\ ~IsReply(f)
  <2> SUFFICES ASSUME NEW f \in o PROVE Sound(sg, hon, f) /\ ~IsReply(f)
    OBVIOUS
  <2>1. PICK to, i : f = [to |-> to, k |-> "req", x |-> [d |-> d, leg |-> i, hop |-> 2]]
    BY <1>1 DEF frame
  <2>2. f.k = "req" /\ f.x = [d |-> d, leg |-> i, hop |-> 2]
    BY <2>1
  <2>3. f.x.d = d /\ f.x = [d |-> f.x.d, leg |-> f.x.leg, hop |-> f.x.hop]
    BY <2>2
  <2> QED BY <2>2, <2>3 DEF Sound, IsReply
<1>12. /\ HandlerOK(sg, hon, fin, s, T) /\ T.pending = R4.pending /\ T.again = R4.again
       /\ T.finished = R4.finished
  <2>1. PICK a, b, c, e, g :
          /\ R4 = [led |-> a, pending |-> b, finished |-> c, out |-> e, again |-> g]
          /\ a = R4.led /\ b = R4.pending /\ c = R4.finished /\ g = R4.again
    BY <1>10 DEF HandlerOK
  <2>2. T = [led |-> R4.led, pending |-> R4.pending, finished |-> R4.finished, out |-> S.out \cup o,
             again |-> R4.again]
    BY <1>5, <2>1
  <2>3. /\ T.led = R4.led /\ T.pending = R4.pending /\ T.finished = R4.finished /\ T.out = R4.out \cup o
        /\ T.again = R4.again
    BY <2>2, <1>10
  <2>4. T = [led |-> T.led, pending |-> T.pending, finished |-> T.finished, out |-> T.out, again |-> T.again]
    BY <2>2, <2>3
  <2>5. HandlerOK(sg, hon, fin, s, T)
    BY <1>10, <1>11, <2>3, <2>4 DEF HandlerOK
  <2> QED BY <2>3, <2>5
<1>13. Waits(sg, T, n) /\ T.pending[n] = Q4
  BY <1>2, <1>9, <1>10, <1>12 DEF Waits
<1>14. SameBut(n, S, T)
  BY <1>10, <1>12 DEF SameBut
<1> QED BY <1>1, <1>9, <1>10, <1>12, <1>13, <1>14

LEMMA DecideIsOK ==
  ASSUME InferenceConstants, NEW sg, NEW hon, Setting(sg, hon), NEW fin, NEW s \in Servers, NEW S,
         HandlerOK(sg, hon, fin, s, S), NEW n \in Requests, Waits(sg, S, n), OthersOpen(S, n), S.again = FALSE,
         NEW gone, NEW T, T = _decide(s, S, n, gone)
  PROVE  HandlerOK(sg, hon, fin, s, T) /\ OpenOr(sg, T, n, S.pending[n].attempt + 1)
<1>1. PICK P, a, legs : P = S.pending[n] /\ a = S.pending[n].attempt + 1 /\ T = Planned(s, S, n, gone, P, legs)
  BY DEF _decide
<1>2. PICK d, sent, U, ts :
        /\ d = Decision(s, n, P, legs) /\ sent = {i \in DOMAIN legs : <<s, legs[i].path[2]>> \notin Broken}
        /\ U = Dispatched(S, n, legs, sent, d)
        /\ ts = IF s \in ToSet(Serving) THEN {target_decider(s)} ELSE {}
  OBVIOUS
<1>3. \/ \E y : T = _finish(s, S, n, "refused", y)
      \/ T = publish(s, _finish(s, S, n, "refused", Why("lockdown")), ts)
      \/ sent = {} /\ T = _settle(s, U, n)
      \/ sent # {} /\ T = U
  BY <1>1, <1>2, Zenon DEF Planned
<1>4. DecisionOK(d)
  BY <1>2 DEF DecisionOK, Decision, Modes
<1>5. /\ HandlerOK(sg, hon, fin, s, U) /\ Waits(sg, U, n) /\ SameBut(n, S, U) /\ U.again = S.again
      /\ U.pending[n].attempt = S.pending[n].attempt /\ U.pending[n].open = sent
  <2>1. S.pending[n].attempt = P.attempt
    BY <1>1
  <2>2. DecisionOK(d) /\ U = Dispatched(S, n, legs, sent, d)
    BY <1>2, <1>4
  <2> QED BY <2>2, DispatchedIsOK
<1>6. TargetsOK(hon, ts)
  BY <1>2 DEF TargetsOK, target_decider, target_node, Setting, Tags
<1>7. ASSUME NEW y, NEW F, F = _finish(s, S, n, "refused", y), T = F \/ T = publish(s, F, ts)
      PROVE  HandlerOK(sg, hon, fin, s, T) /\ OpenOr(sg, T, n, a)
  <2>1. PICK k \in {"result", "refused"} : k = "refused" /\ Finishes(s, S, n, k, y, F)
    BY <1>7 DEF Finishes
  <2>2. T = F \/ Publishes(s, F, ts, T)
    BY <1>7 DEF Publishes
  <2>3. k = "result" => ItemsOK(sg, y.items, n)
    BY <2>1
  <2>4. HandlerOK(sg, hon, fin, s, T)
    BY <1>6, <2>1, <2>2, <2>3, ClosedIsOK
  <2>5. AnyOpen(sg, T, n)
    BY <1>6, <2>1, <2>2, <2>3, ClosedIsOK
  <2> QED BY <2>4, <2>5 DEF AnyOpen
<1>8. CASE sent = {} /\ T = _settle(s, U, n)
  <2>1. OthersOpen(U, n)
    BY <1>5 DEF OthersOpen, SameBut
  <2>2. HandlerOK(sg, hon, fin, s, T) /\ OpenOr(sg, T, n, U.pending[n].attempt + 1)
    BY <1>5, <1>8, <2>1, SettleIsOK
  <2> QED BY <1>1, <1>5, <2>2
<1>9. CASE sent # {} /\ T = U
  BY <1>5, <1>9 DEF OpenOr, OthersOpen, SameBut
<1> QED BY <1>1, <1>3, <1>7, <1>8, <1>9

LEMMA StepsUp == \A a, c, d \in Nat : a =< c /\ d >= c + 1 => d >= a + 1
OBVIOUS

LEMMA AgainIsOK ==
  ASSUME InferenceConstants, NEW sg, NEW hon, Setting(sg, hon), NEW fin, NEW s \in Servers, NEW S,
         HandlerOK(sg, hon, fin, s, S), NEW n \in Requests, NEW a \in Nat, OpenOr(sg, S, n, a), NEW gone,
         NEW T, T = Again(s, S, n, gone)
  PROVE  HandlerOK(sg, hon, fin, s, T) /\ OpenOr(sg, T, n, a + 1)
<1>1. CASE S.again = TRUE
  <2>1. PICK R : Unmarks(S, R)
    BY DEF Unmarks
  <2>2. T = _decide(s, R, n, gone)
    BY <1>1, <2>1, Zenon DEF Again, Unmarks
  <2>3. HandlerOK(sg, hon, fin, s, R) /\ R.pending = S.pending /\ R.finished = S.finished /\ R.led = S.led
    BY <2>1, MarkedIsOK
  <2>4. R.again = FALSE
    BY <2>1, AgainIsMarked
  <2>5. Waits(sg, R, n) /\ OthersOpen(R, n) /\ R.pending[n].attempt >= a
    BY <1>1, <2>3 DEF OpenOr, OthersOpen, Waits
  <2>6. HandlerOK(sg, hon, fin, s, T) /\ OpenOr(sg, T, n, R.pending[n].attempt + 1)
    BY <2>2, <2>3, <2>4, <2>5, DecideIsOK
  <2>7. PICK c : c = R.pending[n].attempt /\ c \in Nat /\ a =< c
    BY <2>5 DEF Waits, PendingOK, InferenceConstants
  <2>8. HandlerOK(sg, hon, fin, s, T) /\ OpenOr(sg, T, n, c + 1)
    BY <2>6, <2>7
  <2>9. CASE T.again
    <3>1. Waits(sg, T, n) /\ T.pending[n].attempt >= c + 1 /\ OthersOpen(T, n)
      BY <2>8, <2>9 DEF OpenOr
    <3>2. T.pending[n].attempt \in Nat
      BY <3>1 DEF Waits, PendingOK, InferenceConstants
    <3>3. PICK d : d = T.pending[n].attempt /\ d \in Nat /\ d >= c + 1
      BY <3>1, <3>2
    <3>4. d >= a + 1
      BY <2>7, <3>3, StepsUp, Zenon
    <3> QED BY <2>8, <2>9, <3>1, <3>3, <3>4 DEF OpenOr
  <2>10. CASE ~T.again
    BY <2>8, <2>10 DEF OpenOr
  <2> QED BY <2>9, <2>10
<1>2. CASE S.again = FALSE
  BY <1>2 DEF Again, OpenOr
<1>3. S.again \in BOOLEAN
  BY DEF HandlerOK
<1> QED BY <1>1, <1>2, <1>3

(* Two more decisions are all that can be needed: an attempt is below 3.    *)
LEMMA AsOftenIsOK ==
  ASSUME InferenceConstants, NEW sg, NEW hon, Setting(sg, hon), NEW fin, NEW s \in Servers, NEW S,
         HandlerOK(sg, hon, fin, s, S), NEW n \in Requests, OpenOr(sg, S, n, 1), NEW gone,
         NEW T, T = AsOften(s, S, n, gone)
  PROVE  HandlerOK(sg, hon, fin, s, T) /\ \A m \in Requests : T.pending[m] # None => T.pending[m].open # {}
<1>1. PICK R : R = Again(s, S, n, gone)
  OBVIOUS
<1>2. T = Again(s, R, n, gone)
  BY <1>1 DEF AsOften
<1>3. HandlerOK(sg, hon, fin, s, R) /\ OpenOr(sg, R, n, 1 + 1)
  BY <1>1, AgainIsOK
<1>4. PICK two \in Nat : two = 2 /\ OpenOr(sg, R, n, two)
  BY <1>3
<1>5. HandlerOK(sg, hon, fin, s, T) /\ OpenOr(sg, T, n, two + 1)
  BY <1>2, <1>3, <1>4, AgainIsOK
<1>6. T.again = FALSE
  <2>1. ~(Waits(sg, T, n) /\ T.pending[n].attempt >= 3)
    BY DEF Waits, PendingOK, InferenceConstants
  <2> QED BY <1>4, <1>5, <2>1 DEF OpenOr, HandlerOK
<1> QED BY <1>5, <1>6 DEF OpenOr, OthersOpen

-----------------------------------------------------------------------------
(* The handlers of the client.                                              *)

AskRecord(A) ==
  A = [quorum |-> A.quorum, begun |-> A.begun, tries |-> A.tries, mode |-> A.mode,
       live |-> A.live, late |-> A.late, need |-> A.need, pins |-> A.pins, tried |-> A.tried,
       forwarder |-> A.forwarder, awaiting |-> A.awaiting, unresponsive |-> A.unresponsive,
       waiting_dir |-> A.waiting_dir, outcome |-> A.outcome, out |-> A.out]
AgreedIn(sg, o) ==
  /\ Cardinality(SignersOf(sg, o.n, o.output)) >= Quorum
  /\ o.mode = Lockdown => Cardinality(SignersOf(sg, o.n, o.output)) >= 2
Quiet(sg, hon, o) == \A f \in o : Sound(sg, hon, f) /\ ~IsReply(f)
AskOK(sg, hon, A) ==
  /\ AskRecord(A) /\ A.quorum = Quorum /\ A.begun \in BOOLEAN /\ A.waiting_dir \in BOOLEAN
  /\ A.mode \in Modes /\ A.tries \in 0..(MaxTries + 1) /\ A.live \in 0..A.tries
  /\ A.need \in Nat /\ A.awaiting \subseteq Servers
  /\ A.mode = Normal \/ A.waiting_dir = TRUE => A.tries =< MaxTries
  /\ A.waiting_dir = TRUE => A.begun = TRUE
  /\ A.live # 0 => A.begun = TRUE /\ A.need >= Quorum /\ (A.mode = Lockdown => A.need >= 2)
  /\ A.outcome # None => (A.outcome.status = "accepted" => AgreedIn(sg, A.outcome))
  /\ Quiet(sg, hon, A.out)
(* Once the client knows of a mutiny, a request still out is a lockdown one.*)
Armed(l, A) == l # {} /\ A.outcome = None /\ A.live # 0 => A.mode = Lockdown
(* What a handler does but accept: it keeps the outcome or refuses.         *)
Kept(A, T) == T.outcome = A.outcome \/ T.outcome.status \in {"refused", "intercepted"}
(* A change of what the ask has in hand, and of nothing else.               *)
Near(A, T) ==
  /\ AskRecord(T) /\ T.quorum = A.quorum /\ T.tries = A.tries /\ T.mode = A.mode /\ T.live = A.live
  /\ T.need = A.need /\ T.outcome = A.outcome /\ T.awaiting \subseteq Servers
  /\ T.begun \in BOOLEAN /\ (A.begun = TRUE => T.begun = TRUE)
  /\ T.waiting_dir \in BOOLEAN /\ (T.waiting_dir = TRUE => A.waiting_dir = TRUE)

LEMMA NearIsOK ==
  ASSUME NEW sg, NEW hon, NEW A, AskOK(sg, hon, A), NEW T, Near(A, T), Quiet(sg, hon, T.out)
  PROVE  AskOK(sg, hon, T) /\ Kept(A, T) /\ \A l : Armed(l, A) => Armed(l, T)
<1>1. AskOK(sg, hon, T)
  BY DEF AskOK, Near
<1>2. Kept(A, T) /\ \A l : Armed(l, A) => Armed(l, T)
  BY DEF Near, Kept, Armed
<1> QED BY <1>1, <1>2

Begins(A, T) == T = [A EXCEPT !.begun = TRUE]
Blames(A, u, T) == T = [A EXCEPT !.unresponsive = u]
Times(A, u, T) == T = [A EXCEPT !.unresponsive = u, !.waiting_dir = FALSE]
Hands(A, w, T) == T = [A EXCEPT !.awaiting = w]
Sends(A, o, T) == T = [A EXCEPT !.out = o]
LEMMA EditsAreNear ==
  ASSUME NEW sg, NEW hon, NEW A, AskOK(sg, hon, A), NEW T
  PROVE  /\ Begins(A, T) => Near(A, T) /\ T.out = A.out /\ T.begun = TRUE
         /\ \A u : Blames(A, u, T) => Near(A, T) /\ T.out = A.out /\ T.begun = A.begun
         /\ \A u : Times(A, u, T) => Near(A, T) /\ T.out = A.out /\ T.begun = A.begun
         /\ \A w : Hands(A, w, T) /\ w \subseteq Servers =>
                Near(A, T) /\ T.out = A.out /\ T.begun = A.begun /\ T.awaiting = w
         /\ \A o : Sends(A, o, T) => Near(A, T) /\ T.out = o /\ T.begun = A.begun
<1>1. PICK a1, a2, a3, a4, a5, a6, a7, a8, a9, b1, b2, b3, b4, b5, b6 :
        /\ A = [quorum |-> a1, begun |-> a2, tries |-> a3, mode |-> a4, live |-> a5, late |-> a6,
            need |-> a7, pins |-> a8, tried |-> a9, forwarder |-> b1, awaiting |-> b2,
            unresponsive |-> b3, waiting_dir |-> b4, outcome |-> b5, out |-> b6]
        /\ a1 = A.quorum /\ a2 = A.begun /\ a3 = A.tries /\ a4 = A.mode /\ a5 = A.live /\ a6 = A.late
        /\ a7 = A.need /\ a8 = A.pins /\ a9 = A.tried /\ b1 = A.forwarder /\ b2 = A.awaiting
        /\ b3 = A.unresponsive /\ b4 = A.waiting_dir /\ b5 = A.outcome /\ b6 = A.out
  BY DEF AskOK, AskRecord
<1>2. A.awaiting \subseteq Servers /\ A.begun \in BOOLEAN /\ A.waiting_dir \in BOOLEAN
  BY DEF AskOK
<1>3. ASSUME Begins(A, T)
      PROVE  Near(A, T) /\ T.out = A.out /\ T.begun = TRUE
  <2>1. T = [quorum |-> a1, begun |-> TRUE, tries |-> a3, mode |-> a4, live |-> a5, late |-> a6,
             need |-> a7, pins |-> a8, tried |-> a9, forwarder |-> b1, awaiting |-> b2,
             unresponsive |-> b3, waiting_dir |-> b4, outcome |-> b5, out |-> b6]
    BY <1>1, <1>3 DEF Begins
  <2>2. /\ T.quorum = a1 /\ T.begun = TRUE /\ T.tries = a3 /\ T.mode = a4 /\ T.live = a5
        /\ T.late = a6 /\ T.need = a7 /\ T.pins = a8 /\ T.tried = a9 /\ T.forwarder = b1
        /\ T.awaiting = b2 /\ T.unresponsive = b3 /\ T.waiting_dir = b4 /\ T.outcome = b5 /\ T.out = b6
    BY <2>1
  <2>3. AskRecord(T)
    BY <2>1, <2>2 DEF AskRecord
  <2> QED BY <1>1, <1>2, <1>3, <2>2, <2>3 DEF Near
<1>4. ASSUME NEW u, Blames(A, u, T)
      PROVE  Near(A, T) /\ T.out = A.out /\ T.begun = A.begun
  <2>1. T = [quorum |-> a1, begun |-> a2, tries |-> a3, mode |-> a4, live |-> a5, late |-> a6,
             need |-> a7, pins |-> a8, tried |-> a9, forwarder |-> b1, awaiting |-> b2,
             unresponsive |-> u, waiting_dir |-> b4, outcome |-> b5, out |-> b6]
    BY <1>1, <1>4 DEF Blames
  <2>2. /\ T.quorum = a1 /\ T.begun = a2 /\ T.tries = a3 /\ T.mode = a4 /\ T.live = a5
        /\ T.late = a6 /\ T.need = a7 /\ T.pins = a8 /\ T.tried = a9 /\ T.forwarder = b1
        /\ T.awaiting = b2 /\ T.unresponsive = u /\ T.waiting_dir = b4 /\ T.outcome = b5 /\ T.out = b6
    BY <2>1
  <2>3. AskRecord(T)
    BY <2>1, <2>2 DEF AskRecord
  <2> QED BY <1>1, <1>2, <1>4, <2>2, <2>3 DEF Near
<1>5. ASSUME NEW u, Times(A, u, T)
      PROVE  Near(A, T) /\ T.out = A.out /\ T.begun = A.begun
  <2>1. T = [quorum |-> a1, begun |-> a2, tries |-> a3, mode |-> a4, live |-> a5, late |-> a6,
             need |-> a7, pins |-> a8, tried |-> a9, forwarder |-> b1, awaiting |-> b2,
             unresponsive |-> u, waiting_dir |-> FALSE, outcome |-> b5, out |-> b6]
    <3>1. PICK R : R = [A EXCEPT !.unresponsive = u] /\ T = [R EXCEPT !.waiting_dir = FALSE]
      BY <1>5, Zenon DEF Times
    <3> QED BY <1>1, <3>1
  <2>2. /\ T.quorum = a1 /\ T.begun = a2 /\ T.tries = a3 /\ T.mode = a4 /\ T.live = a5
        /\ T.late = a6 /\ T.need = a7 /\ T.pins = a8 /\ T.tried = a9 /\ T.forwarder = b1
        /\ T.awaiting = b2 /\ T.unresponsive = u /\ T.waiting_dir = FALSE /\ T.outcome = b5 /\ T.out = b6
    BY <2>1
  <2>3. AskRecord(T)
    BY <2>1, <2>2 DEF AskRecord
  <2> QED BY <1>1, <1>2, <1>5, <2>2, <2>3 DEF Near
<1>6. ASSUME NEW w, Hands(A, w, T), w \subseteq Servers
      PROVE  Near(A, T) /\ T.out = A.out /\ T.begun = A.begun /\ T.awaiting = w
  <2>1. T = [quorum |-> a1, begun |-> a2, tries |-> a3, mode |-> a4, live |-> a5, late |-> a6,
             need |-> a7, pins |-> a8, tried |-> a9, forwarder |-> b1, awaiting |-> w,
             unresponsive |-> b3, waiting_dir |-> b4, outcome |-> b5, out |-> b6]
    BY <1>1, <1>6 DEF Hands
  <2>2. /\ T.quorum = a1 /\ T.begun = a2 /\ T.tries = a3 /\ T.mode = a4 /\ T.live = a5
        /\ T.late = a6 /\ T.need = a7 /\ T.pins = a8 /\ T.tried = a9 /\ T.forwarder = b1
        /\ T.awaiting = w /\ T.unresponsive = b3 /\ T.waiting_dir = b4 /\ T.outcome = b5 /\ T.out = b6
    BY <2>1
  <2>3. AskRecord(T)
    BY <2>1, <2>2 DEF AskRecord
  <2> QED BY <1>1, <1>2, <1>6, <2>2, <2>3 DEF Near
<1>7. ASSUME NEW o, Sends(A, o, T)
      PROVE  Near(A, T) /\ T.out = o /\ T.begun = A.begun
  <2>1. T = [quorum |-> a1, begun |-> a2, tries |-> a3, mode |-> a4, live |-> a5, late |-> a6,
             need |-> a7, pins |-> a8, tried |-> a9, forwarder |-> b1, awaiting |-> b2,
             unresponsive |-> b3, waiting_dir |-> b4, outcome |-> b5, out |-> o]
    BY <1>1, <1>7 DEF Sends
  <2>2. /\ T.quorum = a1 /\ T.begun = a2 /\ T.tries = a3 /\ T.mode = a4 /\ T.live = a5
        /\ T.late = a6 /\ T.need = a7 /\ T.pins = a8 /\ T.tried = a9 /\ T.forwarder = b1
        /\ T.awaiting = b2 /\ T.unresponsive = b3 /\ T.waiting_dir = b4 /\ T.outcome = b5 /\ T.out = o
    BY <2>1
  <2>3. AskRecord(T)
    BY <2>1, <2>2 DEF AskRecord
  <2> QED BY <1>1, <1>2, <1>7, <2>2, <2>3 DEF Near
<1> QED BY <1>3, <1>4, <1>5, <1>6, <1>7

LEMMA BlameIsNear ==
  ASSUME NEW sg, NEW hon, NEW A, AskOK(sg, hon, A), NEW u, NEW T, Blames(A, u, T)
  PROVE  Near(A, T) /\ T.out = A.out /\ T.begun = A.begun
BY EditsAreNear

LEMMA HandIsNear ==
  ASSUME NEW sg, NEW hon, NEW A, AskOK(sg, hon, A), NEW w, w \subseteq Servers, NEW T, Hands(A, w, T)
  PROVE  Near(A, T) /\ T.out = A.out /\ T.begun = A.begun
BY EditsAreNear

LEMMA SendIsNear ==
  ASSUME NEW sg, NEW hon, NEW A, AskOK(sg, hon, A), NEW o, NEW T, Sends(A, o, T)
  PROVE  Near(A, T) /\ T.out = o /\ T.begun = A.begun
BY EditsAreNear

(* Finish: the request that is out is no longer waited for.                 *)
Ends(A, st, o, T) == T = Finish(A, st, o)
OutcomeOf(A, st, o) == [status |-> st, output |-> o, n |-> A.live, mode |-> A.mode, need |-> A.need]
LEMMA FinishedIsOK ==
  ASSUME NEW sg, NEW hon, NEW A, AskOK(sg, hon, A), NEW st, NEW o, NEW T, Ends(A, st, o, T),
         st # "accepted" \/ AgreedIn(sg, OutcomeOf(A, st, o))
  PROVE  /\ AskOK(sg, hon, T) /\ T.live = 0 /\ T.outcome.status = st /\ T.outcome.mode = A.mode
         /\ T.out = A.out /\ T.mode = A.mode /\ T.begun = A.begun /\ \A l : Armed(l, T)
<1>1. PICK a1, a2, a3, a4, a5, a6, a7, a8, a9, b1, b2, b3, b4, b5, b6 :
        /\ A = [quorum |-> a1, begun |-> a2, tries |-> a3, mode |-> a4, live |-> a5, late |-> a6,
            need |-> a7, pins |-> a8, tried |-> a9, forwarder |-> b1, awaiting |-> b2,
            unresponsive |-> b3, waiting_dir |-> b4, outcome |-> b5, out |-> b6]
        /\ a1 = A.quorum /\ a2 = A.begun /\ a3 = A.tries /\ a4 = A.mode /\ a5 = A.live /\ a6 = A.late
        /\ a7 = A.need /\ a8 = A.pins /\ a9 = A.tried /\ b1 = A.forwarder /\ b2 = A.awaiting
        /\ b3 = A.unresponsive /\ b4 = A.waiting_dir /\ b5 = A.outcome /\ b6 = A.out
  BY DEF AskOK, AskRecord
<1>2. PICK oc : oc = OutcomeOf(A, st, o)
  OBVIOUS
<1>3. PICK R1, R2 : /\ R1 = [A EXCEPT !.outcome = oc] /\ R2 = [R1 EXCEPT !.late = A.tries]
                    /\ T = [R2 EXCEPT !.live = 0]
  BY <1>2, Zenon DEF Ends, Finish, OutcomeOf
<1>4. T = [quorum |-> a1, begun |-> a2, tries |-> a3, mode |-> a4, live |-> 0, late |-> a3,
           need |-> a7, pins |-> a8, tried |-> a9, forwarder |-> b1, awaiting |-> b2,
           unresponsive |-> b3, waiting_dir |-> b4, outcome |-> oc, out |-> b6]
  BY <1>1, <1>3
<1>5. /\ T.quorum = a1 /\ T.begun = a2 /\ T.tries = a3 /\ T.mode = a4 /\ T.live = 0
      /\ T.late = a3 /\ T.need = a7 /\ T.pins = a8 /\ T.tried = a9 /\ T.forwarder = b1
      /\ T.awaiting = b2 /\ T.unresponsive = b3 /\ T.waiting_dir = b4 /\ T.outcome = oc /\ T.out = b6
  BY <1>4
<1>6. AskRecord(T)
  BY <1>4, <1>5 DEF AskRecord
<1>7. oc.status = st /\ oc.mode = A.mode /\ (oc.status = "accepted" => AgreedIn(sg, oc))
  <2>1. oc.status = st /\ oc.mode = A.mode
    BY <1>2 DEF OutcomeOf
  <2> QED BY <1>2, <2>1
<1>8. AskOK(sg, hon, T)
  <2>1. /\ T.quorum = A.quorum /\ T.begun = A.begun /\ T.tries = A.tries /\ T.mode = A.mode /\ T.live = 0
        /\ T.need = A.need /\ T.awaiting = A.awaiting /\ T.waiting_dir = A.waiting_dir /\ T.outcome = oc
        /\ T.out = A.out
    BY <1>1, <1>5
  <2>2. T.live \in 0..T.tries
    BY <2>1 DEF AskOK
  <2> QED BY <1>6, <1>7, <2>1, <2>2 DEF AskOK
<1> QED BY <1>1, <1>5, <1>7, <1>8 DEF Armed

LEMMA MinIsIn ==
  ASSUME NEW S, S \subseteq Nat, S # {}
  PROVE  Min(S) \in S
<1>1. PICK m \in S : \A u \in S : ~(<<u, m>> \in OpToRel(<, Nat))
  BY NatLessThanWellFounded, WFMin
<1>2. \A u \in S : ~(u < m)
  BY <1>1 DEF OpToRel
<1>3. \A u \in S : m =< u
  BY <1>2
<1> QED BY <1>3 DEF Min

(* _submit_normal and _submit_lockdown: the next request, or the refusal.   *)
LEMMA NormalIsOK ==
  ASSUME InferenceConstants, NEW sg, NEW hon, NEW A, AskOK(sg, hon, A), A.begun = TRUE, A.tries < MaxTries,
         NEW l, NEW T, T = _submit_normal(A, l)
  PROVE  AskOK(sg, hon, T) /\ Kept(A, T) /\ T.begun = TRUE /\ \A m : m = {} => Armed(m, T)
<1> DEFINE usable == {i \in DOMAIN Serving : ~excludes(l, Serving[i])}
           new == {i \in usable : Serving[i] \notin A.tried}
           fresh == IF new = {} THEN usable ELSE new
           to == {Serving[i] : i \in {j \in fresh : Cardinality({k \in fresh : k < j}) < Fanout}}
           n == A.tries + 1
           td == A.tried \cup to
           o == A.out \cup {frame(e, "submit", [n |-> n, quorum |-> A.quorum, pins |-> {}]) : e \in to}
<1>1. T = IF fresh = {} THEN Finish([A EXCEPT !.mode = Normal], "refused", None)
          ELSE [A EXCEPT !.mode = Normal, !.tries = n, !.live = n, !.need = A.quorum, !.pins = {},
                         !.awaiting = to, !.tried = td, !.out = o]
  BY Zenon DEF _submit_normal
<1>2. fresh \subseteq DOMAIN Serving
  OBVIOUS
<1> HIDE DEF fresh
<1>3. to \subseteq Servers
  <2>1. \A i \in DOMAIN Serving : Serving[i] \in Servers
    BY DEF InferenceConstants, Servers
  <2> QED BY <1>2, <2>1
<1>4. n \in Requests /\ n \in 0..n /\ n # 0 /\ n =< MaxTries /\ n \in 0..(MaxTries + 1)
  BY DEF AskOK, Requests, InferenceConstants
<1> HIDE DEF to, n
<1>5. Quiet(sg, hon, o)
  <2> SUFFICES ASSUME NEW f \in o PROVE Sound(sg, hon, f) /\ ~IsReply(f)
    BY DEF Quiet
  <2>1. CASE f \in A.out
    BY <2>1 DEF AskOK, Quiet
  <2>2. CASE f \notin A.out
    <3>1. PICK e : f = [to |-> e, k |-> "submit", x |-> [n |-> n, quorum |-> A.quorum, pins |-> {}]]
      BY <2>2 DEF frame
    <3>2. f.k = "submit" /\ f.x.n = n
      BY <3>1
    <3> QED BY <1>4, <3>2 DEF Sound, IsReply
  <2> QED BY <2>1, <2>2
<1> HIDE DEF td, o
<1>6. PICK a1, a2, a3, a4, a5, a6, a7, a8, a9, b1, b2, b3, b4, b5, b6 :
        /\ A = [quorum |-> a1, begun |-> a2, tries |-> a3, mode |-> a4, live |-> a5, late |-> a6,
            need |-> a7, pins |-> a8, tried |-> a9, forwarder |-> b1, awaiting |-> b2,
            unresponsive |-> b3, waiting_dir |-> b4, outcome |-> b5, out |-> b6]
        /\ a1 = A.quorum /\ a2 = A.begun /\ a3 = A.tries /\ a4 = A.mode /\ a5 = A.live /\ a6 = A.late
        /\ a7 = A.need /\ a8 = A.pins /\ a9 = A.tried /\ b1 = A.forwarder /\ b2 = A.awaiting
        /\ b3 = A.unresponsive /\ b4 = A.waiting_dir /\ b5 = A.outcome /\ b6 = A.out
  BY DEF AskOK, AskRecord
<1>7. CASE fresh = {}
  <2>1. PICK R : R = [A EXCEPT !.mode = Normal]
    OBVIOUS
  <2>2. R = [quorum |-> a1, begun |-> a2, tries |-> a3, mode |-> Normal, live |-> a5,
             late |-> a6, need |-> a7, pins |-> a8, tried |-> a9, forwarder |-> b1,
             awaiting |-> b2, unresponsive |-> b3, waiting_dir |-> b4, outcome |-> b5,
             out |-> b6]
    BY <1>6, <2>1
  <2>3. /\ R.quorum = a1 /\ R.begun = a2 /\ R.tries = a3 /\ R.mode = Normal /\ R.live = a5
        /\ R.late = a6 /\ R.need = a7 /\ R.pins = a8 /\ R.tried = a9 /\ R.forwarder = b1
        /\ R.awaiting = b2 /\ R.unresponsive = b3 /\ R.waiting_dir = b4 /\ R.outcome = b5 /\ R.out = b6
    BY <2>2
  <2>4. AskRecord(R)
    BY <2>2, <2>3 DEF AskRecord
  <2>5. AskOK(sg, hon, R)
    <3>1. /\ R.quorum = A.quorum /\ R.begun = A.begun /\ R.tries = A.tries /\ R.mode = Normal /\ R.live = A.live
          /\ R.need = A.need /\ R.awaiting = A.awaiting /\ R.waiting_dir = A.waiting_dir
          /\ R.outcome = A.outcome /\ R.out = A.out
      BY <1>6, <2>3
    <3>2. R.tries =< MaxTries /\ R.live \in 0..R.tries /\ R.tries \in 0..(MaxTries + 1)
      BY <3>1 DEF AskOK, InferenceConstants
    <3>3. R.live # 0 => R.begun = TRUE /\ R.need >= Quorum
      BY <3>1 DEF AskOK
    <3>4. R.mode \in Modes /\ R.mode # Lockdown
      BY <3>1 DEF Modes, Normal, Lockdown
    <3> QED BY <2>4, <3>1, <3>2, <3>3, <3>4 DEF AskOK
  <2>6. Ends(R, "refused", None, T)
    BY <1>1, <1>7, <2>1 DEF Ends
  <2>7. AskOK(sg, hon, T) /\ T.outcome.status = "refused" /\ T.begun = R.begun /\ \A m : Armed(m, T)
    <3>1. PICK st, no : st = "refused" /\ Ends(R, st, no, T)
      BY <2>6
    <3>2. st # "accepted"
      BY <3>1
    <3>3. AskOK(sg, hon, T) /\ T.outcome.status = st /\ T.begun = R.begun /\ \A m : Armed(m, T)
      BY <2>5, <3>1, <3>2, FinishedIsOK
    <3> QED BY <3>1, <3>3
  <2> QED BY <1>6, <2>3, <2>7 DEF Kept
<1>8. CASE fresh # {}
  <2>1. PICK R1 : R1 = [A EXCEPT !.mode = Normal]
    OBVIOUS
  <2>2. PICK R2 : R2 = [R1 EXCEPT !.tries = n]
    OBVIOUS
  <2>3. PICK R3 : R3 = [R2 EXCEPT !.live = n]
    OBVIOUS
  <2>4. PICK R4 : R4 = [R3 EXCEPT !.need = A.quorum]
    OBVIOUS
  <2>5. PICK R5 : R5 = [R4 EXCEPT !.pins = {}]
    OBVIOUS
  <2>6. PICK R6 : R6 = [R5 EXCEPT !.awaiting = to]
    OBVIOUS
  <2>7. PICK R7 : R7 = [R6 EXCEPT !.tried = td]
    OBVIOUS
  <2>8. T = [R7 EXCEPT !.out = o]
    BY <1>1, <1>8, <2>1, <2>2, <2>3, <2>4, <2>5, <2>6, <2>7, Zenon
  <2>9. R1 = [quorum |-> a1, begun |-> a2, tries |-> a3, mode |-> Normal, live |-> a5,
             late |-> a6, need |-> a7, pins |-> a8, tried |-> a9, forwarder |-> b1,
             awaiting |-> b2, unresponsive |-> b3, waiting_dir |-> b4, outcome |-> b5,
             out |-> b6]
    BY <1>6, <2>1
  <2>10. R2 = [quorum |-> a1, begun |-> a2, tries |-> n, mode |-> Normal, live |-> a5,
             late |-> a6, need |-> a7, pins |-> a8, tried |-> a9, forwarder |-> b1,
             awaiting |-> b2, unresponsive |-> b3, waiting_dir |-> b4, outcome |-> b5,
             out |-> b6]
    BY <2>9, <2>2
  <2>11. R3 = [quorum |-> a1, begun |-> a2, tries |-> n, mode |-> Normal, live |-> n, late |-> a6,
             need |-> a7, pins |-> a8, tried |-> a9, forwarder |-> b1, awaiting |-> b2,
             unresponsive |-> b3, waiting_dir |-> b4, outcome |-> b5, out |-> b6]
    BY <2>10, <2>3
  <2>12. R4 = [quorum |-> a1, begun |-> a2, tries |-> n, mode |-> Normal, live |-> n, late |-> a6,
             need |-> a1, pins |-> a8, tried |-> a9, forwarder |-> b1, awaiting |-> b2,
             unresponsive |-> b3, waiting_dir |-> b4, outcome |-> b5, out |-> b6]
    BY <1>6, <2>11, <2>4
  <2>13. R5 = [quorum |-> a1, begun |-> a2, tries |-> n, mode |-> Normal, live |-> n, late |-> a6,
             need |-> a1, pins |-> {}, tried |-> a9, forwarder |-> b1, awaiting |-> b2,
             unresponsive |-> b3, waiting_dir |-> b4, outcome |-> b5, out |-> b6]
    BY <2>12, <2>5
  <2>14. R6 = [quorum |-> a1, begun |-> a2, tries |-> n, mode |-> Normal, live |-> n, late |-> a6,
             need |-> a1, pins |-> {}, tried |-> a9, forwarder |-> b1, awaiting |-> to,
             unresponsive |-> b3, waiting_dir |-> b4, outcome |-> b5, out |-> b6]
    BY <2>13, <2>6
  <2>15. R7 = [quorum |-> a1, begun |-> a2, tries |-> n, mode |-> Normal, live |-> n, late |-> a6,
             need |-> a1, pins |-> {}, tried |-> td, forwarder |-> b1, awaiting |-> to,
             unresponsive |-> b3, waiting_dir |-> b4, outcome |-> b5, out |-> b6]
    BY <2>14, <2>7
  <2>16. T = [quorum |-> a1, begun |-> a2, tries |-> n, mode |-> Normal, live |-> n, late |-> a6,
            need |-> a1, pins |-> {}, tried |-> td, forwarder |-> b1, awaiting |-> to,
            unresponsive |-> b3, waiting_dir |-> b4, outcome |-> b5, out |-> o]
    BY <2>15, <2>8
  <2>17. /\ T.quorum = a1 /\ T.begun = a2 /\ T.tries = n /\ T.mode = Normal /\ T.live = n
        /\ T.late = a6 /\ T.need = a1 /\ T.pins = {} /\ T.tried = td /\ T.forwarder = b1
        /\ T.awaiting = to /\ T.unresponsive = b3 /\ T.waiting_dir = b4 /\ T.outcome = b5 /\ T.out = o
    BY <2>16
  <2>18. AskRecord(T)
    BY <2>16, <2>17 DEF AskRecord
  <2>19. /\ T.quorum = Quorum /\ T.begun = TRUE /\ T.waiting_dir \in BOOLEAN /\ T.need = Quorum
        /\ (A.outcome # None => (A.outcome.status = "accepted" => AgreedIn(sg, A.outcome)))
        /\ T.outcome = A.outcome
    BY <1>6, <2>17 DEF AskOK
  <2>20. AskOK(sg, hon, T)
    BY <1>3, <1>4, <1>5, <2>17, <2>18, <2>19 DEF AskOK, Modes, Normal, Lockdown, InferenceConstants
  <2> QED BY <2>19, <2>20 DEF Kept, Armed
<1> QED BY <1>7, <1>8

LEMMA LockdownIsOK ==
  ASSUME InferenceConstants, NEW sg, NEW hon, NEW A, AskOK(sg, hon, A), A.begun = TRUE, A.tries =< MaxTries,
         NEW l, TargetsOK(hon, l), NEW known, NEW T, T = _submit_lockdown(A, l, known)
  PROVE  AskOK(sg, hon, T) /\ Kept(A, T) /\ T.begun = TRUE /\ \A m : Armed(m, T)
<1> DEFINE L == [A EXCEPT !.mode = Lockdown, !.live = 0, !.awaiting = {}]
           fs == {i \in DOMAIN Standby : Standby[i] \notin A.unresponsive /\ ~excludes(l, Standby[i])}
           need == IF A.quorum > LockdownQuorum THEN A.quorum ELSE LockdownQuorum
           pins == pick_pins({p \in known : p \notin A.unresponsive /\ ~Ineligible(l, p)}, need)
           n == A.tries + 1
           to == Standby[Min(fs)]
           td == L.tried \cup {to}
           asks == L.out \cup {frame(to, "dir?", [from |-> Client])}
           o == L.out \cup {frame(to, "submit", [n |-> n, quorum |-> need, pins |-> pins])}
                  \cup (IF l = {} THEN {} ELSE {frame(to, "incident", [targets |-> l])})
<1>1. T = IF fs = {} THEN Finish(L, "refused", None)
          ELSE IF Cardinality(pins) < need
               THEN IF A.waiting_dir THEN Finish(L, "refused", None)
                    ELSE [L EXCEPT !.waiting_dir = TRUE, !.forwarder = to, !.tried = td, !.out = asks]
          ELSE [L EXCEPT !.waiting_dir = FALSE, !.tries = n, !.live = n, !.need = need, !.pins = pins,
                         !.forwarder = to, !.tried = td, !.awaiting = {to}, !.out = o]
  BY Zenon DEF _submit_lockdown
<1>2. fs # {} => to \in Servers
  <2>1. fs \subseteq DOMAIN Standby
    OBVIOUS
  <2>2. fs \subseteq Nat
    BY <2>1, LenProperties DEF InferenceConstants
  <2>3. fs # {} => Min(fs) \in fs
    BY <2>2, MinIsIn
  <2>4. \A i \in DOMAIN Standby : Standby[i] \in Servers
    BY DEF InferenceConstants, Servers
  <2> QED BY <2>1, <2>3, <2>4
<1>3. need \in Nat /\ need >= Quorum /\ need >= 2
  BY DEF AskOK, LockdownQuorum, InferenceConstants
<1> HIDE DEF fs, pins
<1>4. n \in Requests /\ n \in 0..n /\ n # 0 /\ n \in 0..(MaxTries + 1)
  BY DEF AskOK, Requests, InferenceConstants
<1> HIDE DEF to, n, need
<1>5. PICK M : M = L
  OBVIOUS
<1>6. PICK a1, a2, a3, a4, a5, a6, a7, a8, a9, b1, b2, b3, b4, b5, b6 :
        /\ A = [quorum |-> a1, begun |-> a2, tries |-> a3, mode |-> a4, live |-> a5, late |-> a6,
            need |-> a7, pins |-> a8, tried |-> a9, forwarder |-> b1, awaiting |-> b2,
            unresponsive |-> b3, waiting_dir |-> b4, outcome |-> b5, out |-> b6]
        /\ a1 = A.quorum /\ a2 = A.begun /\ a3 = A.tries /\ a4 = A.mode /\ a5 = A.live /\ a6 = A.late
        /\ a7 = A.need /\ a8 = A.pins /\ a9 = A.tried /\ b1 = A.forwarder /\ b2 = A.awaiting
        /\ b3 = A.unresponsive /\ b4 = A.waiting_dir /\ b5 = A.outcome /\ b6 = A.out
  BY DEF AskOK, AskRecord
<1>7. M = [quorum |-> a1, begun |-> a2, tries |-> a3, mode |-> Lockdown, live |-> 0,
           late |-> a6, need |-> a7, pins |-> a8, tried |-> a9, forwarder |-> b1,
           awaiting |-> {}, unresponsive |-> b3, waiting_dir |-> b4, outcome |-> b5, out |-> b6]
  <2>1. PICK R1 : R1 = [A EXCEPT !.mode = Lockdown]
    OBVIOUS
  <2>2. PICK R2 : R2 = [R1 EXCEPT !.live = 0]
    OBVIOUS
  <2>3. M = [R2 EXCEPT !.awaiting = {}]
    BY <1>5, <2>1, <2>2, Zenon
  <2>4. R1 = [quorum |-> a1, begun |-> a2, tries |-> a3, mode |-> Lockdown, live |-> a5,
             late |-> a6, need |-> a7, pins |-> a8, tried |-> a9, forwarder |-> b1,
             awaiting |-> b2, unresponsive |-> b3, waiting_dir |-> b4, outcome |-> b5,
             out |-> b6]
    BY <1>6, <2>1
  <2>5. R2 = [quorum |-> a1, begun |-> a2, tries |-> a3, mode |-> Lockdown, live |-> 0,
             late |-> a6, need |-> a7, pins |-> a8, tried |-> a9, forwarder |-> b1,
             awaiting |-> b2, unresponsive |-> b3, waiting_dir |-> b4, outcome |-> b5,
             out |-> b6]
    BY <2>4, <2>2
  <2>6. M = [quorum |-> a1, begun |-> a2, tries |-> a3, mode |-> Lockdown, live |-> 0,
            late |-> a6, need |-> a7, pins |-> a8, tried |-> a9, forwarder |-> b1,
            awaiting |-> {}, unresponsive |-> b3, waiting_dir |-> b4, outcome |-> b5,
            out |-> b6]
    BY <2>5, <2>3
  <2> QED BY <2>6
<1>8. /\ M.quorum = a1 /\ M.begun = a2 /\ M.tries = a3 /\ M.mode = Lockdown /\ M.live = 0
      /\ M.late = a6 /\ M.need = a7 /\ M.pins = a8 /\ M.tried = a9 /\ M.forwarder = b1
      /\ M.awaiting = {} /\ M.unresponsive = b3 /\ M.waiting_dir = b4 /\ M.outcome = b5 /\ M.out = b6
  BY <1>7
<1>9. AskRecord(M)
  BY <1>7, <1>8 DEF AskRecord
<1>10. AskOK(sg, hon, M)
  <2>1. /\ M.quorum = A.quorum /\ M.begun = A.begun /\ M.tries = A.tries /\ M.mode = Lockdown /\ M.live = 0
        /\ M.need = A.need /\ M.awaiting = {} /\ M.waiting_dir = A.waiting_dir
        /\ M.outcome = A.outcome /\ M.out = A.out
    BY <1>6, <1>8
  <2>2. M.live \in 0..M.tries /\ M.mode \in Modes
    BY <2>1 DEF AskOK, Modes
  <2> QED BY <1>9, <2>1, <2>2 DEF AskOK
<1>11. Quiet(sg, hon, M.out) /\ M.begun = TRUE /\ M.outcome = A.outcome /\ M.tries = A.tries
  BY <1>6, <1>8, <1>10 DEF AskOK
<1>12. PICK mt, ask1, out1 : mt = td /\ ask1 = asks /\ out1 = o
  OBVIOUS
<1>13. fs # {} => Quiet(sg, hon, ask1)
  <2> SUFFICES ASSUME fs # {}, NEW f \in ask1 PROVE Sound(sg, hon, f) /\ ~IsReply(f)
    BY DEF Quiet
  <2>1. f \in M.out \/ f = [to |-> to, k |-> "dir?", x |-> [from |-> Client]]
    BY <1>5, <1>12 DEF frame
  <2>2. CASE f = [to |-> to, k |-> "dir?", x |-> [from |-> Client]]
    <3>1. f.k = "dir?" /\ f.to = to
      BY <2>2
    <3> QED BY <1>2, <3>1 DEF Sound, IsReply
  <2> QED BY <1>11, <2>1, <2>2 DEF Quiet
<1>14. Quiet(sg, hon, out1)
  <2> SUFFICES ASSUME NEW f \in out1 PROVE Sound(sg, hon, f) /\ ~IsReply(f)
    BY DEF Quiet
  <2>1. \/ f \in M.out \/ f = [to |-> to, k |-> "submit", x |-> [n |-> n, quorum |-> need, pins |-> pins]]
        \/ f = [to |-> to, k |-> "incident", x |-> [targets |-> l]]
    BY <1>5, <1>12 DEF frame
  <2>2. CASE f = [to |-> to, k |-> "submit", x |-> [n |-> n, quorum |-> need, pins |-> pins]]
    <3>1. f.k = "submit" /\ f.x.n = n
      BY <2>2
    <3> QED BY <1>4, <3>1 DEF Sound, IsReply
  <2>3. CASE f = [to |-> to, k |-> "incident", x |-> [targets |-> l]]
    <3>1. f.k = "incident" /\ f.x.targets = l
      BY <2>3
    <3> QED BY <3>1 DEF Sound, IsReply
  <2> QED BY <1>11, <2>1, <2>2, <2>3 DEF Quiet
<1>15. \/ T = Finish(M, "refused", None)
       \/ /\ fs # {} /\ A.waiting_dir # TRUE
          /\ T = [M EXCEPT !.waiting_dir = TRUE, !.forwarder = to, !.tried = mt, !.out = ask1]
       \/ /\ fs # {}
          /\ T = [M EXCEPT !.waiting_dir = FALSE, !.tries = n, !.live = n, !.need = need, !.pins = pins,
                           !.forwarder = to, !.tried = mt, !.awaiting = {to}, !.out = out1]
  BY <1>1, <1>5, <1>12, Zenon
<1> HIDE DEF L, td, asks, o
<1>16. CASE T = Finish(M, "refused", None)
  <2>1. PICK st, no : st = "refused" /\ Ends(M, st, no, T)
    BY <1>16 DEF Ends
  <2>2. st # "accepted"
    BY <2>1
  <2>3. AskOK(sg, hon, T) /\ T.outcome.status = st /\ T.begun = M.begun /\ \A m : Armed(m, T)
    BY <1>10, <2>1, <2>2, FinishedIsOK
  <2>4. Kept(A, T)
    BY <2>1, <2>3 DEF Kept
  <2>5. T.begun = TRUE
    BY <1>11, <2>3
  <2> QED BY <2>3, <2>4, <2>5
<1>17. CASE /\ fs # {} /\ A.waiting_dir # TRUE
            /\ T = [M EXCEPT !.waiting_dir = TRUE, !.forwarder = to, !.tried = mt, !.out = ask1]
  <2>1. PICK R1 : R1 = [M EXCEPT !.waiting_dir = TRUE]
    OBVIOUS
  <2>2. PICK R2 : R2 = [R1 EXCEPT !.forwarder = to]
    OBVIOUS
  <2>3. PICK R3 : R3 = [R2 EXCEPT !.tried = mt]
    OBVIOUS
  <2>4. T = [R3 EXCEPT !.out = ask1]
    BY <1>17, <2>1, <2>2, <2>3, Zenon
  <2>5. R1 = [quorum |-> a1, begun |-> a2, tries |-> a3, mode |-> Lockdown, live |-> 0,
             late |-> a6, need |-> a7, pins |-> a8, tried |-> a9, forwarder |-> b1,
             awaiting |-> {}, unresponsive |-> b3, waiting_dir |-> TRUE, outcome |-> b5,
             out |-> b6]
    BY <1>7, <2>1
  <2>6. R2 = [quorum |-> a1, begun |-> a2, tries |-> a3, mode |-> Lockdown, live |-> 0,
             late |-> a6, need |-> a7, pins |-> a8, tried |-> a9, forwarder |-> to,
             awaiting |-> {}, unresponsive |-> b3, waiting_dir |-> TRUE, outcome |-> b5,
             out |-> b6]
    BY <2>5, <2>2
  <2>7. R3 = [quorum |-> a1, begun |-> a2, tries |-> a3, mode |-> Lockdown, live |-> 0,
             late |-> a6, need |-> a7, pins |-> a8, tried |-> mt, forwarder |-> to,
             awaiting |-> {}, unresponsive |-> b3, waiting_dir |-> TRUE, outcome |-> b5,
             out |-> b6]
    BY <2>6, <2>3
  <2>8. T = [quorum |-> a1, begun |-> a2, tries |-> a3, mode |-> Lockdown, live |-> 0,
            late |-> a6, need |-> a7, pins |-> a8, tried |-> mt, forwarder |-> to,
            awaiting |-> {}, unresponsive |-> b3, waiting_dir |-> TRUE, outcome |-> b5,
            out |-> ask1]
    BY <2>7, <2>4
  <2>9. /\ T.quorum = a1 /\ T.begun = a2 /\ T.tries = a3 /\ T.mode = Lockdown /\ T.live = 0
        /\ T.late = a6 /\ T.need = a7 /\ T.pins = a8 /\ T.tried = mt /\ T.forwarder = to
        /\ T.awaiting = {} /\ T.unresponsive = b3 /\ T.waiting_dir = TRUE /\ T.outcome = b5 /\ T.out = ask1
    BY <2>8
  <2>10. AskRecord(T)
    BY <2>8, <2>9 DEF AskRecord
  <2>11. /\ T.quorum = M.quorum /\ T.begun = M.begun /\ T.tries = M.tries /\ T.mode = Lockdown /\ T.live = 0
        /\ T.need = M.need /\ T.awaiting = {} /\ T.waiting_dir = TRUE
        /\ T.outcome = M.outcome /\ T.out = ask1
    BY <1>8, <2>9
  <2>12. T.live \in 0..T.tries /\ T.mode \in Modes /\ T.tries =< MaxTries
    <3>1. T.live \in 0..T.tries
      BY <1>11, <2>11 DEF AskOK
    <3>2. T.mode \in Modes /\ T.tries =< MaxTries
      BY <1>11, <2>11 DEF Modes
    <3> QED BY <3>1, <3>2
  <2>13. AskOK(sg, hon, T)
    <3>1. T.begun = TRUE /\ T.outcome # None => (T.outcome.status = "accepted" => AgreedIn(sg, T.outcome))
      BY <1>10, <2>11 DEF AskOK
    <3>2. T.begun = TRUE
      BY <1>11, <2>11
    <3>3. T.quorum = Quorum /\ T.need \in Nat /\ T.tries \in 0..(MaxTries + 1)
      BY <1>10, <2>11 DEF AskOK
    <3> QED BY <1>13, <1>17, <2>10, <2>11, <2>12, <3>1, <3>2, <3>3 DEF AskOK
  <2> QED BY <1>11, <2>11, <2>13 DEF Kept, Armed
<1>18. CASE /\ fs # {}
            /\ T = [M EXCEPT !.waiting_dir = FALSE, !.tries = n, !.live = n, !.need = need, !.pins = pins,
                             !.forwarder = to, !.tried = mt, !.awaiting = {to}, !.out = out1]
  <2>1. PICK R1 : R1 = [M EXCEPT !.waiting_dir = FALSE]
    OBVIOUS
  <2>2. PICK R2 : R2 = [R1 EXCEPT !.tries = n]
    OBVIOUS
  <2>3. PICK R3 : R3 = [R2 EXCEPT !.live = n]
    OBVIOUS
  <2>4. PICK R4 : R4 = [R3 EXCEPT !.need = need]
    OBVIOUS
  <2>5. PICK R5 : R5 = [R4 EXCEPT !.pins = pins]
    OBVIOUS
  <2>6. PICK R6 : R6 = [R5 EXCEPT !.forwarder = to]
    OBVIOUS
  <2>7. PICK R7 : R7 = [R6 EXCEPT !.tried = mt]
    OBVIOUS
  <2>8. PICK R8 : R8 = [R7 EXCEPT !.awaiting = {to}]
    OBVIOUS
  <2>9. T = [R8 EXCEPT !.out = out1]
    BY <1>18, <2>1, <2>2, <2>3, <2>4, <2>5, <2>6, <2>7, <2>8, Zenon
  <2>10. R1 = [quorum |-> a1, begun |-> a2, tries |-> a3, mode |-> Lockdown, live |-> 0,
             late |-> a6, need |-> a7, pins |-> a8, tried |-> a9, forwarder |-> b1,
             awaiting |-> {}, unresponsive |-> b3, waiting_dir |-> FALSE, outcome |-> b5,
             out |-> b6]
    BY <1>7, <2>1
  <2>11. R2 = [quorum |-> a1, begun |-> a2, tries |-> n, mode |-> Lockdown, live |-> 0,
             late |-> a6, need |-> a7, pins |-> a8, tried |-> a9, forwarder |-> b1,
             awaiting |-> {}, unresponsive |-> b3, waiting_dir |-> FALSE, outcome |-> b5,
             out |-> b6]
    BY <2>10, <2>2
  <2>12. R3 = [quorum |-> a1, begun |-> a2, tries |-> n, mode |-> Lockdown, live |-> n,
             late |-> a6, need |-> a7, pins |-> a8, tried |-> a9, forwarder |-> b1,
             awaiting |-> {}, unresponsive |-> b3, waiting_dir |-> FALSE, outcome |-> b5,
             out |-> b6]
    BY <2>11, <2>3
  <2>13. R4 = [quorum |-> a1, begun |-> a2, tries |-> n, mode |-> Lockdown, live |-> n,
             late |-> a6, need |-> need, pins |-> a8, tried |-> a9, forwarder |-> b1,
             awaiting |-> {}, unresponsive |-> b3, waiting_dir |-> FALSE, outcome |-> b5,
             out |-> b6]
    BY <2>12, <2>4
  <2>14. R5 = [quorum |-> a1, begun |-> a2, tries |-> n, mode |-> Lockdown, live |-> n,
             late |-> a6, need |-> need, pins |-> pins, tried |-> a9, forwarder |-> b1,
             awaiting |-> {}, unresponsive |-> b3, waiting_dir |-> FALSE, outcome |-> b5,
             out |-> b6]
    BY <2>13, <2>5
  <2>15. R6 = [quorum |-> a1, begun |-> a2, tries |-> n, mode |-> Lockdown, live |-> n,
             late |-> a6, need |-> need, pins |-> pins, tried |-> a9, forwarder |-> to,
             awaiting |-> {}, unresponsive |-> b3, waiting_dir |-> FALSE, outcome |-> b5,
             out |-> b6]
    BY <2>14, <2>6
  <2>16. R7 = [quorum |-> a1, begun |-> a2, tries |-> n, mode |-> Lockdown, live |-> n,
             late |-> a6, need |-> need, pins |-> pins, tried |-> mt, forwarder |-> to,
             awaiting |-> {}, unresponsive |-> b3, waiting_dir |-> FALSE, outcome |-> b5,
             out |-> b6]
    BY <2>15, <2>7
  <2>17. R8 = [quorum |-> a1, begun |-> a2, tries |-> n, mode |-> Lockdown, live |-> n,
             late |-> a6, need |-> need, pins |-> pins, tried |-> mt, forwarder |-> to,
             awaiting |-> {to}, unresponsive |-> b3, waiting_dir |-> FALSE, outcome |-> b5,
             out |-> b6]
    BY <2>16, <2>8
  <2>18. T = [quorum |-> a1, begun |-> a2, tries |-> n, mode |-> Lockdown, live |-> n,
            late |-> a6, need |-> need, pins |-> pins, tried |-> mt, forwarder |-> to,
            awaiting |-> {to}, unresponsive |-> b3, waiting_dir |-> FALSE, outcome |-> b5,
            out |-> out1]
    BY <2>17, <2>9
  <2>19. /\ T.quorum = a1 /\ T.begun = a2 /\ T.tries = n /\ T.mode = Lockdown /\ T.live = n
        /\ T.late = a6 /\ T.need = need /\ T.pins = pins /\ T.tried = mt /\ T.forwarder = to
        /\ T.awaiting = {to} /\ T.unresponsive = b3 /\ T.waiting_dir = FALSE /\ T.outcome = b5 /\ T.out = out1
    BY <2>18
  <2>20. AskRecord(T)
    BY <2>18, <2>19 DEF AskRecord
  <2>21. T.quorum = M.quorum /\ T.begun = M.begun /\ T.outcome = M.outcome
    BY <1>8, <2>19
  <2>22. T.mode \in Modes /\ T.mode # Normal /\ T.awaiting \subseteq Servers
    BY <1>2, <1>18, <2>19 DEF Modes, Normal, Lockdown
  <2>23. AskOK(sg, hon, T)
    <3>1. /\ T.tries = n /\ T.live = n /\ T.need = need /\ T.begun = TRUE /\ T.waiting_dir = FALSE
          /\ T.out = out1
      BY <1>11, <2>19, <2>21
    <3>2. T.tries \in 0..(MaxTries + 1) /\ T.live \in 0..T.tries
      BY <1>4, <3>1
    <3>3. T.mode = Normal \/ T.waiting_dir = TRUE => T.tries =< MaxTries
      BY <2>22, <3>1
    <3>4. T.quorum = Quorum /\ T.begun \in BOOLEAN /\ T.waiting_dir \in BOOLEAN
      BY <1>10, <2>21, <3>1 DEF AskOK
    <3>5. T.outcome # None => (T.outcome.status = "accepted" => AgreedIn(sg, T.outcome))
      BY <1>10, <2>21 DEF AskOK
    <3> QED BY <1>3, <1>14, <2>20, <2>22, <3>1, <3>2, <3>3, <3>4, <3>5 DEF AskOK
  <2>24. T.begun = TRUE /\ T.mode = Lockdown /\ T.outcome = A.outcome
    BY <1>11, <2>19, <2>21
  <2> QED BY <2>23, <2>24 DEF Kept, Armed
<1> QED BY <1>15, <1>16, <1>17, <1>18

LEMMA SubmitIsOK ==
  ASSUME InferenceConstants, NEW sg, NEW hon, NEW A, AskOK(sg, hon, A), A.begun = TRUE,
         NEW l, TargetsOK(hon, l), NEW known, NEW T, T = _submit(A, l, known)
  PROVE  AskOK(sg, hon, T) /\ Kept(A, T) /\ T.begun = TRUE /\ Armed(l, T)
<1>1. CASE A.outcome # None
  BY <1>1 DEF _submit, Kept, Armed
<1>2. CASE A.outcome = None /\ A.tries >= MaxTries
  <2>1. PICK st, no : st = "refused" /\ Ends(A, st, no, T)
    BY <1>2, Zenon DEF _submit, Ends
  <2>2. st # "accepted"
    BY <2>1
  <2>3. AskOK(sg, hon, T) /\ T.outcome.status = st /\ T.begun = A.begun /\ \A m : Armed(m, T)
    BY <2>1, <2>2, FinishedIsOK
  <2> QED BY <2>1, <2>3 DEF Kept
<1>3. CASE A.outcome = None /\ ~(A.tries >= MaxTries) /\ l # {}
  <2>1. T = _submit_lockdown(A, l, known)
    BY <1>3, Zenon DEF _submit
  <2>2. A.tries =< MaxTries
    BY <1>3 DEF AskOK, InferenceConstants
  <2> QED BY <2>1, <2>2, LockdownIsOK
<1>4. CASE A.outcome = None /\ ~(A.tries >= MaxTries) /\ l = {}
  <2>1. T = _submit_normal(A, l)
    BY <1>4, Zenon DEF _submit
  <2>2. A.tries < MaxTries
    BY <1>4 DEF AskOK, InferenceConstants
  <2>3. AskOK(sg, hon, T) /\ Kept(A, T) /\ T.begun = TRUE /\ \A m : m = {} => Armed(m, T)
    BY <2>1, <2>2, NormalIsOK
  <2> QED BY <1>4, <2>3
<1> QED BY <1>1, <1>2, <1>3, <1>4

LEMMA HearsIsOK ==
  ASSUME InferenceConstants, NEW sg, NEW hon, NEW A, AskOK(sg, hon, A), Armed(led[Client], A),
         NEW ts, TargetsOK(hon, ts), TargetsOK(hon, led[Client]), NEW known, NEW T, T = Hears(A, ts, known)
  PROVE  AskOK(sg, hon, T) /\ Kept(A, T) /\ Armed(led[Client] \cup ts, T)
<1>1. CASE ts \subseteq led[Client]
  BY <1>1 DEF Hears, Kept
<1>2. CASE A.begun # TRUE
  <2>1. T = A /\ A.live = 0
    BY <1>2 DEF Hears, AskOK
  <2> QED BY <2>1 DEF Kept, Armed
<1>3. CASE A.mode = Lockdown
  BY <1>3 DEF Hears, Kept, Armed
<1>4. CASE ~(ts \subseteq led[Client]) /\ A.begun = TRUE /\ A.mode # Lockdown
  <2>1. PICK l : l = led[Client] \cup ts /\ T = _submit(A, l, known)
    BY <1>4, Zenon DEF Hears
  <2>2. TargetsOK(hon, l)
    BY <2>1 DEF TargetsOK
  <2>3. AskOK(sg, hon, T) /\ Kept(A, T) /\ T.begun = TRUE /\ Armed(l, T)
    BY <1>4, <2>1, <2>2, SubmitIsOK
  <2> QED BY <2>1, <2>3
<1> QED BY <1>1, <1>2, <1>3, <1>4

-----------------------------------------------------------------------------
(* The invariant. *)

Protected == IF restarts = 0 THEN {target_node(p) : p \in Providers \ rogues} ELSE {}
LedInv(hon) == led = [m \in Everyone |-> led[m]] /\ \A m \in Everyone : TargetsOK(hon, led[m])
ServersInv(sg, hon) ==
  /\ pending = [s \in Servers |-> pending[s]] /\ finished = [s \in Servers |-> finished[s]]
  /\ \A s \in Servers :
       /\ HandlerOK(sg, hon, finished[s], s, ServerState(s))
       /\ \A n \in Requests : pending[s][n] # None => pending[s][n].open # {}
WireInv(sg, hon) ==
  \A f \in wire : Sound(sg, hon, f) /\ (IsReply(f) => Matches(f, f.x.from, finished[f.x.from]))
ClientInv(sg, hon) ==
  /\ AskOK(sg, hon, ask) /\ Armed(led[Client], ask) /\ knows \subseteq Providers
  /\ seen \subseteq Item /\ \A r \in seen : vote(r) \in sg
StateInv(sg, hon) == LedInv(hon) /\ ServersInv(sg, hon) /\ WireInv(sg, hon) /\ ClientInv(sg, hon)
AnswersInv ==
  /\ served = [p \in Providers |-> [n \in Requests |-> served[p][n]]]
  /\ \A p \in Providers, n \in Requests : served[p][n] \in Outputs \cup {"error", None}
  /\ signed \subseteq Vote
  /\ restarts = 0 => \A r \in signed : r.provider \notin rogues =>
       r.output \notin {"leak", None} /\ served[r.provider][r.n] = r.output
AskInv ==
  /\ rogues \subseteq Providers /\ restarts \in Nat
  /\ AnswersInv /\ StateInv(signed, Protected)

LEMMA SettingHolds ==
  ASSUME AskInv
  PROVE  Setting(signed, Protected)
<1>1. Protected \subseteq {target_node(p) : p \in Providers}
  BY DEF Protected
<1>2. ASSUME NEW r \in signed, NEW q \in signed, target_node(r.provider) \in Protected
      PROVE  r.output # "leak" /\ (q.provider = r.provider /\ q.n = r.n => q.output = r.output)
  <2>1. restarts = 0 /\ r.provider \notin rogues
    BY <1>2 DEF Protected, target_node
  <2> QED BY <2>1 DEF AskInv, AnswersInv
<1> QED BY <1>1, <1>2 DEF Setting, OneAnswer, AskInv, AnswersInv

LEMMA StateGrows ==
  ASSUME InferenceConstants, NEW sg, NEW hon, StateInv(sg, hon), NEW sg2, sg \subseteq sg2, NEW hon2, hon2 \subseteq hon
  PROVE  StateInv(sg2, hon2)
<1>1. \A ts : TargetsOK(hon, ts) => TargetsOK(hon2, ts)
  BY SoundGrows
<1>2. \A f : Sound(sg, hon, f) => Sound(sg2, hon2, f)
  BY SoundGrows
<1>3. \A P, n : PendingOK(sg, P, n) => PendingOK(sg2, P, n)
  <2>1. \A is, n : ItemsOK(sg, is, n) => ItemsOK(sg2, is, n)
    BY SoundGrows
  <2> QED BY <2>1 DEF PendingOK
<1>4. \A F, n : ReplyOK(sg, F, n) => ReplyOK(sg2, F, n)
  BY SoundGrows
<1>5. \A fin, s, S : HandlerOK(sg, hon, fin, s, S) => HandlerOK(sg2, hon2, fin, s, S)
  BY <1>1, <1>2, <1>3, <1>4 DEF HandlerOK
<1>6. LedInv(hon2) /\ ServersInv(sg2, hon2) /\ WireInv(sg2, hon2)
  BY <1>1, <1>2, <1>5 DEF StateInv, LedInv, ServersInv, WireInv
<1>7. ASSUME NEW o, AgreedIn(sg, o) PROVE AgreedIn(sg2, o)
  <2>1. SignersOf(sg, o.n, o.output) \subseteq SignersOf(sg2, o.n, o.output)
    BY DEF SignersOf
  <2>2. IsFiniteSet(SignersOf(sg2, o.n, o.output))
    BY FS_Subset DEF InferenceConstants, SignersOf
  <2>3. /\ Cardinality(SignersOf(sg, o.n, o.output)) =< Cardinality(SignersOf(sg2, o.n, o.output))
        /\ Cardinality(SignersOf(sg, o.n, o.output)) \in Nat
        /\ Cardinality(SignersOf(sg2, o.n, o.output)) \in Nat
    BY <2>1, <2>2, FS_Subset, FS_CardinalityType
  <2> QED BY <1>7, <2>3 DEF AgreedIn, InferenceConstants
<1>8. AskOK(sg2, hon2, ask)
  <2>1. AskOK(sg, hon, ask)
    BY DEF StateInv, ClientInv
  <2>2. Quiet(sg2, hon2, ask.out)
    BY <2>1, <1>2 DEF AskOK, Quiet
  <2> QED BY <2>1, <2>2, <1>7 DEF AskOK
<1>9. ClientInv(sg2, hon2)
  BY <1>8 DEF StateInv, ClientInv
<1> QED BY <1>6, <1>9 DEF StateInv

LEMMA Places ==
  ASSUME InferenceConstants
  PROVE  /\ Client \notin Servers /\ Client \in Everyone /\ Servers \subseteq Everyone
         /\ Providers \subseteq Everyone /\ Client \notin Providers
BY DEF InferenceConstants, Everyone

(* A step of a serving node.                                                *)
LEMMA BecomesOK ==
  ASSUME InferenceConstants, AskInv, NEW s \in Servers, NEW S,
         HandlerOK(signed, Protected, finished[s], s, S),
         \A m \in Requests : S.pending[m] # None => S.pending[m].open # {},
         Becomes(s, S), rogues' = rogues
  PROVE  AskInv'
<1>1. /\ led' = [led EXCEPT ![s] = S.led] /\ pending' = [pending EXCEPT ![s] = S.pending]
      /\ finished' = [finished EXCEPT ![s] = S.finished] /\ wire' = wire \cup S.out
      /\ served' = served /\ ask' = ask /\ knows' = knows /\ seen' = seen /\ signed' = signed
      /\ restarts' = restarts /\ rogues' = rogues
  BY DEF Becomes
<1>2. PICK sg, hon : sg = signed /\ hon = Protected
  OBVIOUS
<1>3. signed' = sg /\ Protected' = hon
  BY <1>1, <1>2 DEF Protected
<1>4. LedInv(hon) /\ ServersInv(sg, hon) /\ WireInv(sg, hon) /\ ClientInv(sg, hon)
  BY <1>2 DEF AskInv, StateInv
<1>5. HandlerOK(sg, hon, finished[s], s, S)
  BY <1>2
<1>6. AnswersInv' /\ rogues' \subseteq Providers /\ restarts' \in Nat
  BY <1>1 DEF AskInv, AnswersInv
<1>7. /\ led' = [m \in Everyone |-> led'[m]] /\ led'[s] = S.led
      /\ \A m \in Everyone \ {s} : led'[m] = led[m]
  BY <1>1, <1>4, Places DEF LedInv
<1>8. /\ pending' = [t \in Servers |-> pending'[t]] /\ finished' = [t \in Servers |-> finished'[t]]
      /\ pending'[s] = S.pending /\ finished'[s] = S.finished
      /\ \A t \in Servers \ {s} : pending'[t] = pending[t] /\ finished'[t] = finished[t]
  BY <1>1, <1>4 DEF ServersInv
<1>9. TargetsOK(hon, S.led)
  BY <1>5 DEF HandlerOK
<1>10. \A m \in Everyone : TargetsOK(hon, led'[m])
  BY <1>4, <1>7, <1>9 DEF LedInv
<1>11. ASSUME NEW t \in Servers, NEW n \in Requests, pending'[t][n] # None PROVE pending'[t][n].open # {}
  <2>1. CASE t = s
    BY <1>8, <1>11, <2>1
  <2>2. CASE t # s
    BY <1>4, <1>8, <1>11, <2>2 DEF ServersInv
  <2> QED BY <2>1, <2>2
<1>12. ASSUME NEW t \in Servers
       PROVE  HandlerOK(sg, hon, finished'[t], t, [led |-> led'[t], pending |-> pending'[t],
                        finished |-> finished'[t], out |-> {}, again |-> FALSE])
  <2>1. CASE t = s
    <3>1. PICK R : R = [led |-> S.led, pending |-> S.pending, finished |-> S.finished, out |-> {}, again |-> FALSE]
      OBVIOUS
    <3>2. R.led = S.led /\ R.pending = S.pending /\ R.finished = S.finished /\ R.out = {} /\ R.again = FALSE
      BY <3>1
    <3>3. HandlerOK(sg, hon, S.finished, s, R)
      BY <1>5, <3>1, <3>2 DEF HandlerOK
    <3> QED BY <1>7, <1>8, <2>1, <3>1, <3>3
  <2>2. CASE t # s
    <3>1. HandlerOK(sg, hon, finished[t], t, ServerState(t))
      BY <1>4 DEF ServersInv
    <3>2. led'[t] = led[t] /\ pending'[t] = pending[t] /\ finished'[t] = finished[t]
      BY <1>7, <1>8, <2>2, Places
    <3> QED BY <3>1, <3>2 DEF ServerState
  <2> QED BY <2>1, <2>2
<1>13. ASSUME NEW f \in wire'
       PROVE  Sound(sg, hon, f) /\ (IsReply(f) => Matches(f, f.x.from, finished'[f.x.from]))
  <2>1. CASE f \in wire
    <3>1. Sound(sg, hon, f) /\ (IsReply(f) => Matches(f, f.x.from, finished[f.x.from]))
      BY <1>4, <2>1 DEF WireInv
    <3>2. CASE IsReply(f) /\ f.x.from = s
      <4>1. f.x.n \in Requests
        BY <3>1, <3>2 DEF Sound
      <4>2. f.k = finished[s][f.x.n].k /\ f.k # "none"
        BY <3>1, <3>2 DEF Matches, IsReply
      <4>3. finished[s][f.x.n] # NoReply
        BY <4>2 DEF NoReply
      <4>4. S.finished[f.x.n] = finished[s][f.x.n]
        BY <1>5, <4>1, <4>3 DEF HandlerOK
      <4> QED BY <1>8, <3>1, <3>2, <4>4 DEF Matches
    <3>3. CASE IsReply(f) /\ f.x.from # s
      <4>1. f.x.from \in Servers
        BY <3>1, <3>3 DEF Sound
      <4> QED BY <1>8, <3>1, <3>3, <4>1
    <3> QED BY <3>1, <3>2, <3>3
  <2>2. CASE f \in S.out
    <3>1. Sound(sg, hon, f) /\ (IsReply(f) => Matches(f, s, S.finished))
      BY <1>5, <2>2 DEF HandlerOK
    <3> QED BY <1>8, <3>1 DEF Matches
  <2> QED BY <1>1, <2>1, <2>2
<1>14. StateInv(sg, hon)'
  <2>1. LedInv(hon)'
    BY <1>7, <1>10 DEF LedInv
  <2>2. ServersInv(sg, hon)'
    BY <1>8, <1>11, <1>12 DEF ServersInv, ServerState
  <2>3. WireInv(sg, hon)'
    BY <1>13 DEF WireInv
  <2>4. led'[Client] = led[Client]
    BY <1>7, Places
  <2>5. ClientInv(sg, hon)'
    BY <1>1, <1>4, <2>4 DEF ClientInv, AskOK, Armed, AskRecord, Quiet, AgreedIn, SignersOf
  <2> QED BY <2>1, <2>2, <2>3, <2>5 DEF StateInv
<1> QED BY <1>3, <1>6, <1>14 DEF AskInv

(* A handler of server s edits its request n, and may settle it.            *)
LEMMA EditIsOK ==
  ASSUME AskInv, NEW s \in Servers, NEW n \in Requests, finished[s][n] = NoReply,
         NEW Q, PendingOK(signed, Q, n), NEW S, Edits(ServerState(s), n, Q, S)
  PROVE  /\ HandlerOK(signed, Protected, finished[s], s, S) /\ Waits(signed, S, n) /\ OthersOpen(S, n)
         /\ IsAt(S, n, Q)
<1>1. PICK sg, hon, fin, R : sg = signed /\ hon = Protected /\ fin = finished[s] /\ R = ServerState(s)
  OBVIOUS
<1>2. HandlerOK(sg, hon, fin, s, R) /\ \A m \in Requests : pending[s][m] # None => pending[s][m].open # {}
  BY <1>1 DEF AskInv, StateInv, ServersInv
<1>3. R.finished[n] = NoReply /\ R.pending = pending[s] /\ R.again = FALSE
  BY <1>1 DEF ServerState
<1>4. PendingOK(sg, Q, n) /\ Edits(R, n, Q, S)
  BY <1>1
<1>5. /\ HandlerOK(sg, hon, fin, s, S) /\ Waits(sg, S, n) /\ S.pending[n] = Q /\ SameBut(n, R, S)
      /\ S.led = R.led /\ S.finished = R.finished /\ S.out = R.out /\ S.again = R.again
  BY <1>2, <1>3, <1>4, EditedIsOK
<1>6. OthersOpen(S, n)
  BY <1>2, <1>3, <1>5 DEF OthersOpen, SameBut
<1>7. IsAt(S, n, Q)
  BY <1>3, <1>5 DEF IsAt
<1> QED BY <1>1, <1>5, <1>6, <1>7

LEMMA SettlesIsOK ==
  ASSUME InferenceConstants, AskInv, NEW s \in Servers, NEW n \in Requests, NEW S,
         HandlerOK(signed, Protected, finished[s], s, S), Waits(signed, S, n), OthersOpen(S, n),
         S.again = FALSE, NEW gone, NEW T, T = AsOften(s, _settle(s, S, n), n, gone)
  PROVE  /\ HandlerOK(signed, Protected, finished[s], s, T)
         /\ AllOpen(T)
<1>1. PICK sg, hon, fin, U : /\ sg = signed /\ hon = Protected /\ fin = finished[s] /\ U = _settle(s, S, n)
                             /\ Setting(sg, hon)
  BY SettingHolds
<1>2. HandlerOK(sg, hon, fin, s, S) /\ Waits(sg, S, n)
  BY <1>1
<1>3. HandlerOK(sg, hon, fin, s, U) /\ OpenOr(sg, U, n, S.pending[n].attempt + 1)
  BY <1>1, <1>2, SettleIsOK
<1>4. S.pending[n].attempt \in Nat
  BY <1>2 DEF Waits, PendingOK, InferenceConstants
<1>5. OpenOr(sg, U, n, 1)
  BY <1>3, <1>4 DEF OpenOr, Waits, PendingOK, InferenceConstants
<1>6. T = AsOften(s, U, n, gone)
  BY <1>1
<1>7. HandlerOK(sg, hon, fin, s, T) /\ \A m \in Requests : T.pending[m] # None => T.pending[m].open # {}
  BY <1>1, <1>3, <1>5, <1>6, AsOftenIsOK
<1> QED BY <1>1, <1>7 DEF AllOpen

LEMMA WaitingFacts ==
  ASSUME AskInv, NEW s \in Servers, NEW n \in Requests, pending[s][n] # None
  PROVE  PendingOK(signed, pending[s][n], n) /\ finished[s][n] = NoReply
<1>1. HandlerOK(signed, Protected, finished[s], s, ServerState(s))
  BY DEF AskInv, StateInv, ServersInv
<1> QED BY <1>1 DEF HandlerOK, ServerState

LEMMA FrameIsSound ==
  ASSUME AskInv, NEW f \in wire
  PROVE  Sound(signed, Protected, f) /\ (IsReply(f) => Matches(f, f.x.from, finished[f.x.from]))
BY DEF AskInv, StateInv, WireInv

LEMMA HeardIsOK ==
  ASSUME NEW sg, NEW n, NEW P, PendingOK(sg, P, n), NEW x, x.answer \in Item, x.answer.n = n,
         Backed(sg, x.answer)
  PROVE  /\ PendingOK(sg, Heard(P, x), n)
         /\ Heard(P, x).open = {} => x.d = P.decision \/ P.open = {}
<1>1. PICK is : is = IF Contains(P.items, x.answer) THEN P.items ELSE Append(P.items, x.answer)
  OBVIOUS
<1>2. PICK op : op = IF x.d = P.decision THEN P.open \ {x.leg} ELSE P.open
  OBVIOUS
<1>3. ItemsOK(sg, P.items, n)
  BY DEF PendingOK
<1>4. ItemsOK(sg, is, n)
  <2>1. CASE is = P.items
    BY <1>3, <2>1
  <2>2. CASE is = Append(P.items, x.answer)
    BY <1>3, <2>2 DEF ItemsOK
  <2> QED BY <1>1, <2>1, <2>2
<1>5. PICK Q : Q = WithItems(P, is)
  OBVIOUS
<1>6. PendingOK(sg, Q, n) /\ Q.open = P.open
  BY <1>4, <1>5, PendingEdits
<1>7. Heard(P, x) = WithOpen(Q, op)
  BY <1>1, <1>2, <1>5, Zenon DEF Heard, WithItems, WithOpen
<1>8. PendingOK(sg, Heard(P, x), n) /\ Heard(P, x).open = op
  BY <1>6, <1>7, PendingEdits
<1> QED BY <1>2, <1>8

LEMMA TurnedBackIsOK ==
  ASSUME NEW sg, NEW n, NEW P, PendingOK(sg, P, n), NEW x
  PROVE  PendingOK(sg, TurnedBack(P, x), n)
<1>1. PICK Q : Q = WithAvoid(P, P.avoid \cup {x.unreachable})
  OBVIOUS
<1>2. PendingOK(sg, Q, n)
  BY <1>1, PendingEdits
<1>3. TurnedBack(P, x) = WithOpen(Q, P.open \ {x.leg})
  BY <1>1, Zenon DEF TurnedBack, WithAvoid, WithOpen
<1> QED BY <1>2, <1>3, PendingEdits

LEMMA ExpiredIsOK ==
  ASSUME NEW sg, NEW n, NEW P, PendingOK(sg, P, n)
  PROVE  PendingOK(sg, Expired(P), n)
<1>1. PICK Q : Q = WithOpen(P, {})
  OBVIOUS
<1>2. PendingOK(sg, Q, n)
  BY <1>1, PendingEdits
<1>3. \E av : Expired(P) = WithAvoid(Q, av)
  BY <1>1, Zenon DEF Expired, WithAvoid, WithOpen
<1> QED BY <1>2, <1>3, PendingEdits

(* Each handler of a server.                                                *)
LEMMA CollectIsOK ==
  ASSUME InferenceConstants, AskInv, NEW f \in wire, NEW gone, collect(f, gone), rogues' = rogues
  PROVE  AskInv'
<1>1. PICK s, x, n, P : s = f.to /\ x = f.x /\ n = x.d.n /\ P = pending[s][n]
  OBVIOUS
<1>2. PICK S : S = [ServerState(s) EXCEPT !.pending[n] = Heard(P, x)]
  OBVIOUS
<1>3. PICK T : T = IF x.d = P.decision /\ S.pending[n].open = {} THEN AsOften(s, _settle(s, S, n), n, gone) ELSE S
  OBVIOUS
<1>4. f.k = "resp" /\ s \in Servers /\ P # None /\ Becomes(s, T)
  BY <1>1, <1>2, <1>3, Zenon DEF collect
<1>5. /\ x.d.n \in Requests /\ x.answer \in Item /\ x.answer.n = n /\ Backed(signed, x.answer)
  BY <1>1, <1>4, FrameIsSound DEF Sound, DecisionOK
<1>6. PendingOK(signed, P, n) /\ finished[s][n] = NoReply /\ P.open # {}
  <2>1. P.open # {}
    BY <1>1, <1>4, <1>5 DEF AskInv, StateInv, ServersInv
  <2> QED BY <1>1, <1>4, <1>5, <2>1, WaitingFacts
<1>7. PICK Q : Q = Heard(P, x)
  OBVIOUS
<1>8. PendingOK(signed, Q, n) /\ (Q.open = {} => x.d = P.decision \/ P.open = {})
  BY <1>5, <1>6, <1>7, HeardIsOK
<1>9. Edits(ServerState(s), n, Q, S)
  BY <1>2, <1>7, Zenon DEF Edits
<1>10. /\ HandlerOK(signed, Protected, finished[s], s, S) /\ Waits(signed, S, n) /\ OthersOpen(S, n)
       /\ S.again = FALSE /\ S.pending[n] = Q
  <2>1. s \in Servers /\ n \in Requests /\ finished[s][n] = NoReply
    BY <1>1, <1>4, <1>5, <1>6
  <2>2. HandlerOK(signed, Protected, finished[s], s, S)
    BY <1>8, <1>9, <2>1, EditIsOK, Zenon
  <2>3. Waits(signed, S, n) /\ OthersOpen(S, n)
    BY <1>8, <1>9, <2>1, EditIsOK, Zenon
  <2>4. IsAt(S, n, Q)
    BY <1>8, <1>9, <2>1, EditIsOK, Zenon
  <2> QED BY <2>2, <2>3, <2>4 DEF IsAt
<1>11. CASE x.d = P.decision /\ S.pending[n].open = {}
  <2>1. T = AsOften(s, _settle(s, S, n), n, gone)
    BY <1>3, <1>11
  <2>2. n \in Requests
    BY <1>1, <1>5
  <2>3. HandlerOK(signed, Protected, finished[s], s, T)
    BY <1>4, <1>10, <2>1, <2>2, SettlesIsOK, Zenon
  <2>4. AllOpen(T)
    BY <1>4, <1>10, <2>1, <2>2, SettlesIsOK, Zenon
  <2> QED BY <1>4, <2>3, <2>4, BecomesOK DEF AllOpen
<1>12. CASE ~(x.d = P.decision /\ S.pending[n].open = {})
  <2>1. T = S
    BY <1>3, <1>12
  <2>2. \A m \in Requests : S.pending[m] # None => S.pending[m].open # {}
    BY <1>6, <1>8, <1>10, <1>12 DEF OthersOpen
  <2> QED BY <1>4, <1>10, <2>1, <2>2, BecomesOK
<1> QED BY <1>11, <1>12

LEMMA LegFailedIsOK ==
  ASSUME InferenceConstants, AskInv, NEW f \in wire, NEW gone, leg_failed(f, gone), rogues' = rogues
  PROVE  AskInv'
<1>1. PICK s, x, n, P : s = f.to /\ x = f.x /\ n = x.d.n /\ P = pending[s][n]
  OBVIOUS
<1>2. PICK S : S = [ServerState(s) EXCEPT !.pending[n] = TurnedBack(P, x)]
  OBVIOUS
<1>3. PICK T : T = IF S.pending[n].open = {} THEN AsOften(s, _settle(s, S, n), n, gone) ELSE S
  OBVIOUS
<1>4. f.k = "nack" /\ s \in Servers /\ P # None /\ Becomes(s, T)
  BY <1>1, <1>2, <1>3, Zenon DEF leg_failed
<1>5. n \in Requests
  BY <1>1, <1>4, FrameIsSound DEF Sound, DecisionOK
<1>6. PendingOK(signed, P, n) /\ finished[s][n] = NoReply
  BY <1>1, <1>4, <1>5, WaitingFacts
<1>7. PICK Q : Q = TurnedBack(P, x)
  OBVIOUS
<1>8. PendingOK(signed, Q, n)
  BY <1>6, <1>7, TurnedBackIsOK
<1>9. Edits(ServerState(s), n, Q, S)
  BY <1>2, <1>7, Zenon DEF Edits
<1>10. /\ HandlerOK(signed, Protected, finished[s], s, S) /\ Waits(signed, S, n) /\ OthersOpen(S, n)
       /\ S.again = FALSE /\ S.pending[n] = Q
  <2>1. s \in Servers /\ n \in Requests /\ finished[s][n] = NoReply
    BY <1>1, <1>4, <1>5, <1>6
  <2>2. HandlerOK(signed, Protected, finished[s], s, S)
    BY <1>8, <1>9, <2>1, EditIsOK, Zenon
  <2>3. Waits(signed, S, n) /\ OthersOpen(S, n)
    BY <1>8, <1>9, <2>1, EditIsOK, Zenon
  <2>4. IsAt(S, n, Q)
    BY <1>8, <1>9, <2>1, EditIsOK, Zenon
  <2> QED BY <2>2, <2>3, <2>4 DEF IsAt
<1>11. CASE S.pending[n].open = {}
  <2>1. T = AsOften(s, _settle(s, S, n), n, gone)
    BY <1>3, <1>11
  <2>2. HandlerOK(signed, Protected, finished[s], s, T)
    BY <1>4, <1>5, <1>10, <2>1, SettlesIsOK, Zenon
  <2>3. AllOpen(T)
    BY <1>4, <1>5, <1>10, <2>1, SettlesIsOK, Zenon
  <2> QED BY <1>4, <2>2, <2>3, BecomesOK DEF AllOpen
<1>12. CASE S.pending[n].open # {}
  <2>1. T = S
    BY <1>3, <1>12
  <2>2. \A m \in Requests : S.pending[m] # None => S.pending[m].open # {}
    BY <1>10, <1>12 DEF OthersOpen
  <2> QED BY <1>4, <1>10, <2>1, <2>2, BecomesOK
<1> QED BY <1>11, <1>12

LEMMA ServerTickIsOK ==
  ASSUME InferenceConstants, AskInv, NEW s \in Servers, NEW n \in Requests, NEW gone, ServerTick(s, n, gone),
         rogues' = rogues
  PROVE  AskInv'
<1>1. PICK P, S, T : /\ P = pending[s][n] /\ S = [ServerState(s) EXCEPT !.pending[n] = Expired(P)]
                     /\ T = AsOften(s, _settle(s, S, n), n, gone)
  OBVIOUS
<1>2. P # None /\ Becomes(s, T)
  BY <1>1, Zenon DEF ServerTick
<1>3. PendingOK(signed, P, n) /\ finished[s][n] = NoReply
  BY <1>1, <1>2, WaitingFacts
<1>4. PICK Q : Q = Expired(P)
  OBVIOUS
<1>5. PendingOK(signed, Q, n)
  BY <1>3, <1>4, ExpiredIsOK
<1>6. Edits(ServerState(s), n, Q, S)
  BY <1>1, <1>4, Zenon DEF Edits
<1>7. /\ HandlerOK(signed, Protected, finished[s], s, S) /\ Waits(signed, S, n) /\ OthersOpen(S, n)
      /\ S.again = FALSE /\ S.pending[n] = Q
  <2>1. HandlerOK(signed, Protected, finished[s], s, S)
    BY <1>3, <1>5, <1>6, EditIsOK, Zenon
  <2>2. Waits(signed, S, n) /\ OthersOpen(S, n)
    BY <1>3, <1>5, <1>6, EditIsOK, Zenon
  <2>3. IsAt(S, n, Q)
    BY <1>3, <1>5, <1>6, EditIsOK, Zenon
  <2> QED BY <2>1, <2>2, <2>3 DEF IsAt
<1>8. HandlerOK(signed, Protected, finished[s], s, T) /\ AllOpen(T)
  <2>1. T = AsOften(s, _settle(s, S, n), n, gone)
    BY <1>1
  <2>2. HandlerOK(signed, Protected, finished[s], s, T)
    BY <1>7, <2>1, SettlesIsOK, Zenon
  <2>3. AllOpen(T)
    BY <1>7, <2>1, SettlesIsOK, Zenon
  <2> QED BY <2>2, <2>3
<1> QED BY <1>2, <1>8, BecomesOK DEF AllOpen

LEMMA ServerIncidentIsOK ==
  ASSUME InferenceConstants, AskInv, NEW f \in wire, ServerIncident(f), rogues' = rogues
  PROVE  AskInv'
<1>1. PICK s, R, S, T, none : /\ s = f.to /\ R = ServerState(s) /\ none = {}
                        /\ S = [R EXCEPT !.led = R.led \cup f.x.targets]
                        /\ T = Refuse(s, S, Waiting(S), Why("lockdown"))
  OBVIOUS
<1>2. f.k = "incident" /\ s \in Servers /\ Becomes(s, T)
  BY <1>1, Zenon DEF ServerIncident
<1>3. TargetsOK(Protected, f.x.targets)
  BY <1>2, FrameIsSound DEF Sound
<1>4. /\ HandlerOK(signed, Protected, finished[s], s, R)
      /\ \A m \in Requests : R.pending[m] # None => R.pending[m].open # {}
  BY <1>1, <1>2 DEF AskInv, StateInv, ServersInv, ServerState
<1>5. Grows(R, f.x.targets, none, S)
  <2>1. PICK a1, b1, c1, d1, e1 :
          R = [led |-> a1, pending |-> b1, finished |-> c1, out |-> d1, again |-> e1]
    BY <1>4 DEF HandlerOK
  <2> QED BY <1>1, <2>1 DEF Grows
<1>6. \A y \in none : Sound(signed, Protected, y) /\ ~IsReply(y)
  BY <1>1
<1>7. PICK sg, hon, fin, ts : sg = signed /\ hon = Protected /\ fin = finished[s] /\ ts = f.x.targets
  OBVIOUS
<1>8. /\ HandlerOK(sg, hon, fin, s, S) /\ S.pending = R.pending /\ S.again = R.again
      /\ S.finished = R.finished
  <2>1. HandlerOK(sg, hon, fin, s, R) /\ TargetsOK(hon, ts) /\ Grows(R, ts, none, S)
    BY <1>3, <1>4, <1>5, <1>7
  <2>2. \A y \in none : Sound(sg, hon, y) /\ ~IsReply(y)
    BY <1>1
  <2> QED BY <2>1, <2>2, GrownIsOK
<1>9. Waiting(S) \in SUBSET Requests /\ \A m \in Waiting(S) : S.pending[m] # None
  BY DEF Waiting
<1>10. Refuses(s, S, Waiting(S), Why("lockdown"), T)
  BY <1>1 DEF Refuses
<1>11. HandlerOK(sg, hon, fin, s, T) /\ T.again = S.again /\ FewerPending(S, T)
  BY <1>2, <1>8, <1>9, <1>10, RefuseIsOK
<1>12. \A m \in Requests : T.pending[m] # None => T.pending[m].open # {}
  BY <1>4, <1>8, <1>11 DEF FewerPending
<1> QED BY <1>2, <1>7, <1>11, <1>12, BecomesOK

LEMMA OnSubmitIsOK ==
  ASSUME InferenceConstants, AskInv, NEW f \in wire, NEW gone, _on_submit(f, gone), rogues' = rogues
  PROVE  AskInv'
<1> DEFINE s == f.to
           r == f.x
           S == ServerState(s)
           isLocked == S.led # {}
           forward == s \notin ToSet(Serving)
           why == IF isLocked # forward THEN (IF isLocked THEN "lockdown" ELSE "not serving")
                  ELSE IF excludes(S.led, s) THEN "latched" ELSE None
           P == [n |-> r.n, pins |-> r.pins, lockdown |-> isLocked, attempt |-> 0, decision |-> None,
                 quorum |-> IF isLocked /\ r.quorum < LockdownQuorum THEN LockdownQuorum ELSE r.quorum,
                 open |-> {}, avoid |-> {}, decisions |-> {}, items |-> <<>>]
<1>1. /\ f.k = "submit" /\ s \in Servers /\ S.pending[r.n] = None
      /\ Becomes(s, IF Replied(S, r.n)
                    THEN [S EXCEPT !.out = {Reply(s, r.n, S.finished[r.n].k, S.finished[r.n].x)}]
                    ELSE IF why # None THEN _finish(s, S, r.n, "refused", Why(why))
                    ELSE AsOften(s, _decide(s, [S EXCEPT !.pending[r.n] = P], r.n, gone), r.n, gone))
  BY Zenon DEF _on_submit
<1>2. PICK n, F, Q, y, t : n = r.n /\ F = S.finished[n] /\ Q = P /\ y = why /\ t = s
  OBVIOUS
<1>3. PICK R : R = S
  OBVIOUS
<1>4. f.k = "submit" /\ t = f.to /\ n = f.x.n /\ R = ServerState(t) /\ t \in Servers /\ R.pending[n] = None
  BY <1>1, <1>2, <1>3
<1>5. \E lk, qn, pn : Q = [n |-> n, pins |-> pn, lockdown |-> lk, attempt |-> 0, decision |-> None,
                 quorum |-> qn, open |-> {}, avoid |-> {}, decisions |-> {}, items |-> <<>>]
  BY <1>2, Zenon
<1>6. F = R.finished[n]
  BY <1>2, <1>3
<1>7. \/ F # NoReply /\ Becomes(t, [R EXCEPT !.out = {Reply(t, n, F.k, F.x)}])
      \/ F = NoReply /\ \E z : Becomes(t, _finish(t, R, n, "refused", z))
      \/ F = NoReply /\ Becomes(t, AsOften(t, _decide(t, [R EXCEPT !.pending[n] = Q], n, gone), n, gone))
  <2>1. s = t /\ S = R /\ r.n = n /\ P = Q
    BY <1>2, <1>3
  <2>2. Becomes(t, IF Replied(R, n) THEN [R EXCEPT !.out = {Reply(t, n, R.finished[n].k, R.finished[n].x)}]
                    ELSE IF why # None THEN _finish(t, R, n, "refused", Why(why))
                    ELSE AsOften(t, _decide(t, [R EXCEPT !.pending[n] = Q], n, gone), n, gone))
    BY <1>1, <2>1, Zenon
  <2>3. CASE Replied(R, n)
    BY <1>6, <2>2, <2>3, Zenon DEF Replied
  <2>4. CASE ~Replied(R, n) /\ why # None
    BY <1>6, <2>2, <2>4, Zenon DEF Replied
  <2>5. CASE ~Replied(R, n) /\ ~(why # None)
    BY <1>6, <2>2, <2>5, Zenon DEF Replied
  <2> QED BY <2>3, <2>4, <2>5
<1> HIDE DEF s, r, S, isLocked, forward, why, P
<1>8. n \in Requests
  BY <1>4, FrameIsSound DEF Sound
<1>9. PICK sg, hon, fin : sg = signed /\ hon = Protected /\ fin = finished[t] /\ Setting(sg, hon)
  BY SettingHolds
<1>10. /\ HandlerOK(sg, hon, fin, t, R) /\ R.again = FALSE /\ fin = R.finished
       /\ \A m \in Requests : R.pending[m] # None => R.pending[m].open # {}
  BY <1>4, <1>9 DEF AskInv, StateInv, ServersInv, ServerState
<1>11. SUFFICES ASSUME NEW T, Becomes(t, T)
                PROVE  \/ ~(F # NoReply /\ T = [R EXCEPT !.out = {Reply(t, n, F.k, F.x)}])
                             /\ ~(F = NoReply /\ \E z : T = _finish(t, R, n, "refused", z))
                             /\ ~(F = NoReply /\ T = AsOften(t, _decide(t, [R EXCEPT !.pending[n] = Q], n, gone), n, gone))
                       \/ HandlerOK(sg, hon, fin, t, T) /\ \A m \in Requests : T.pending[m] # None => T.pending[m].open # {}
  BY <1>4, <1>7, <1>9, BecomesOK
<1>12. CASE F # NoReply /\ T = [R EXCEPT !.out = {Reply(t, n, F.k, F.x)}]
  <2>1. PICK a, b, c, d, e :
          /\ R = [led |-> a, pending |-> b, finished |-> c, out |-> d, again |-> e]
          /\ a = R.led /\ b = R.pending /\ c = R.finished /\ d = R.out /\ e = R.again
    BY <1>10 DEF HandlerOK
  <2>2. PICK o : o = {Reply(t, n, F.k, F.x)} /\ T = [R EXCEPT !.out = o]
    BY <1>12
  <2>3. T = [led |-> a, pending |-> b, finished |-> c, out |-> o, again |-> e]
    BY <2>1, <2>2
  <2>4. T.led = R.led /\ T.pending = R.pending /\ T.finished = R.finished /\ T.out = o /\ T.again = R.again
    BY <2>1, <2>3
  <2>5. ReplyOK(sg, F, n)
    BY <1>6, <1>8, <1>10 DEF HandlerOK
  <2>6. F = [k |-> F.k, x |-> F.x] /\ F.k \in {"result", "refused"} /\ (F.k = "result" => ItemsOK(sg, F.x.items, n))
    BY <1>12, <2>5 DEF ReplyOK
  <2>7. PICK k, x, G : k = F.k /\ x = F.x /\ G = T.finished
    OBVIOUS
  <2>8. G[n] = [k |-> k, x |-> x] /\ k \in {"result", "refused"} /\ (k = "result" => ItemsOK(sg, x.items, n))
    BY <1>6, <2>4, <2>6, <2>7
  <2>9. Sound(sg, hon, Reply(t, n, k, x)) /\ Matches(Reply(t, n, k, x), t, G)
    BY <1>4, <1>8, <2>8, ReplyIsSound
  <2>10. \A g \in T.out : Sound(sg, hon, g) /\ (IsReply(g) => Matches(g, t, T.finished))
    BY <2>2, <2>4, <2>7, <2>9
  <2>11. T = [led |-> T.led, pending |-> T.pending, finished |-> T.finished, out |-> T.out, again |-> T.again]
    BY <2>1, <2>3, <2>4
  <2>12. HandlerOK(sg, hon, fin, t, T)
    BY <1>10, <2>4, <2>10, <2>11 DEF HandlerOK
  <2> QED BY <1>10, <2>4, <2>12
<1>13. ASSUME NEW z, F = NoReply, T = _finish(t, R, n, "refused", z)
       PROVE  HandlerOK(sg, hon, fin, t, T) /\ \A m \in Requests : T.pending[m] # None => T.pending[m].open # {}
  <2>1. R.finished[n] = NoReply /\ Finishes(t, R, n, "refused", z, T)
    BY <1>6, <1>13, Zenon DEF Finishes
  <2>2. OthersOpen(R, n)
    BY <1>10 DEF OthersOpen
  <2>3. HandlerOK(sg, hon, fin, t, R)
    BY <1>10
  <2>4. HandlerOK(sg, hon, fin, t, T)
    BY <1>4, <1>8, <2>1, <2>2, <2>3, RefusedIsOK, Zenon
  <2>5. AllOpen(T)
    BY <1>4, <1>8, <2>1, <2>2, <2>3, RefusedIsOK, Zenon
  <2> QED BY <2>4, <2>5 DEF AllOpen
<1>14. CASE F = NoReply /\ T = AsOften(t, _decide(t, [R EXCEPT !.pending[n] = Q], n, gone), n, gone)
  <2>1. PICK U, V : Edits(R, n, Q, U) /\ V = _decide(t, U, n, gone)
    BY DEF Edits
  <2>2. T = AsOften(t, V, n, gone)
    BY <1>14, <2>1, Zenon DEF Edits
  <2>3. PendingOK(sg, Q, n) /\ Q.attempt = 0
    <3>1. PICK lk, qn, pn : Q = [n |-> n, pins |-> pn, lockdown |-> lk, attempt |-> 0, decision |-> None,
                 quorum |-> qn, open |-> {}, avoid |-> {}, decisions |-> {}, items |-> <<>>]
      BY <1>5
    <3>2. Q.attempt = 0 /\ Q.items = <<>>
      BY <3>1
    <3>3. Q = [n |-> Q.n, pins |-> Q.pins, lockdown |-> Q.lockdown, attempt |-> Q.attempt,
          decision |-> Q.decision, quorum |-> Q.quorum, open |-> Q.open, avoid |-> Q.avoid,
          decisions |-> Q.decisions, items |-> Q.items]
      BY <3>1
    <3>4. ItemsOK(sg, <<>>, n)
      BY DEF ItemsOK
    <3>5. 0 \in 0..(MaxAttempts - 1)
      BY DEF InferenceConstants
    <3> QED BY <3>2, <3>3, <3>4, <3>5 DEF PendingOK
  <2>4. R.finished[n] = NoReply
    BY <1>6, <1>14
  <2>5. /\ HandlerOK(sg, hon, fin, t, U) /\ Waits(sg, U, n) /\ U.pending[n] = Q /\ SameBut(n, R, U)
        /\ U.led = R.led /\ U.finished = R.finished /\ U.out = R.out /\ U.again = R.again
    BY <1>8, <1>10, <2>1, <2>3, <2>4, EditedIsOK
  <2>6. OthersOpen(U, n) /\ U.again = FALSE
    BY <1>10, <2>5 DEF OthersOpen, SameBut
  <2>7. HandlerOK(sg, hon, fin, t, V) /\ OpenOr(sg, V, n, U.pending[n].attempt + 1)
    BY <1>4, <1>8, <1>9, <2>1, <2>5, <2>6, DecideIsOK
  <2>8. OpenOr(sg, V, n, 1)
    BY <2>3, <2>5, <2>7
  <2>9. HandlerOK(sg, hon, fin, t, V) /\ Setting(sg, hon) /\ t \in Servers
    BY <1>4, <1>9, <2>7
  <2> QED BY <1>8, <2>2, <2>8, <2>9, AsOftenIsOK, Zenon
<1> QED BY <1>12, <1>13, <1>14

(* Carrying and answering.                                                  *)
LEMMA WireGrows ==
  ASSUME InferenceConstants, AskInv, NEW o, Quiet(signed, Protected, o), wire' = wire \cup o,
         UNCHANGED <<rogues, led, pending, finished, served, ask, knows, seen, signed, restarts>>
  PROVE  AskInv'
<1>1. /\ AnswersInv /\ LedInv(Protected) /\ ServersInv(signed, Protected) /\ WireInv(signed, Protected)
      /\ ClientInv(signed, Protected) /\ rogues \subseteq Providers /\ restarts \in Nat
  BY DEF AskInv, StateInv
<1>2. PICK sg, hon : sg = signed /\ hon = Protected
  OBVIOUS
<1>3. signed' = sg /\ Protected' = hon
  BY <1>2 DEF Protected
<1>4. LedInv(hon)'
  BY <1>1, <1>2 DEF LedInv
<1>5. ServersInv(sg, hon)'
  BY <1>1, <1>2 DEF ServersInv, ServerState
<1>6. WireInv(sg, hon)'
  BY <1>1, <1>2 DEF WireInv, Quiet
<1>7. ClientInv(sg, hon)'
  BY <1>1, <1>2 DEF ClientInv, AskOK, Armed, AskRecord, Quiet, AgreedIn, SignersOf
<1>8. AnswersInv' /\ rogues' \subseteq Providers /\ restarts' \in Nat
  BY <1>1 DEF AnswersInv
<1> QED BY <1>3, <1>4, <1>5, <1>6, <1>7, <1>8 DEF AskInv, StateInv

LEMMA CarriedIsOK ==
  ASSUME InferenceConstants, AskInv, NEW m, NEW o, Quiet(signed, Protected, o), Carries(m, o), rogues' = rogues
  PROVE  AskInv'
BY WireGrows DEF Carries

(* A leg turned back is as sound as the frame that it answers.              *)
LEMMA BackIsQuiet ==
  ASSUME NEW sg, NEW hon, NEW x, DecisionOK(x.d), NEW h
  PROVE  /\ \A u : Quiet(sg, hon, Back(x, "nack", [d |-> x.d, leg |-> x.leg, hop |-> h, unreachable |-> u]))
         /\ \A r : r \in Item /\ r.n = x.d.n /\ Backed(sg, r) =>
              Quiet(sg, hon, Back(x, "resp", [d |-> x.d, leg |-> x.leg, hop |-> h, answer |-> r]))
<1>1. ASSUME NEW u
      PROVE  Quiet(sg, hon, Back(x, "nack", [d |-> x.d, leg |-> x.leg, hop |-> h, unreachable |-> u]))
  <2>1. PICK to, hh, y : /\ Back(x, "nack", [d |-> x.d, leg |-> x.leg, hop |-> h, unreachable |-> u]) =
                              {[to |-> to, k |-> "nack", x |-> y]}
                     /\ y = [[d |-> x.d, leg |-> x.leg, hop |-> h, unreachable |-> u] EXCEPT !.hop = hh]
    BY Zenon DEF Back, frame
  <2>2. y = [d |-> x.d, leg |-> x.leg, hop |-> hh, unreachable |-> u]
    BY <2>1
  <2>3. y.d = x.d /\ y = [d |-> y.d, leg |-> y.leg, hop |-> y.hop, unreachable |-> y.unreachable]
    BY <2>2
  <2>4. PICK g : g = [to |-> to, k |-> "nack", x |-> y]
    OBVIOUS
  <2>6. g.k = "nack" /\ g.x = y
    BY <2>4
  <2>5. Sound(sg, hon, g) /\ ~IsReply(g)
    BY <2>3, <2>6 DEF Sound, IsReply
  <2> QED BY <2>1, <2>4, <2>5 DEF Quiet
<1>2. ASSUME NEW r, r \in Item, r.n = x.d.n, Backed(sg, r)
      PROVE  Quiet(sg, hon, Back(x, "resp", [d |-> x.d, leg |-> x.leg, hop |-> h, answer |-> r]))
  <2>1. PICK to, hh, y : /\ Back(x, "resp", [d |-> x.d, leg |-> x.leg, hop |-> h, answer |-> r]) =
                              {[to |-> to, k |-> "resp", x |-> y]}
                     /\ y = [[d |-> x.d, leg |-> x.leg, hop |-> h, answer |-> r] EXCEPT !.hop = hh]
    BY Zenon DEF Back, frame
  <2>2. y = [d |-> x.d, leg |-> x.leg, hop |-> hh, answer |-> r]
    BY <2>1
  <2>3. y.d = x.d /\ y.answer = r /\ y = [d |-> y.d, leg |-> y.leg, hop |-> y.hop, answer |-> y.answer]
    BY <2>2
  <2>4. PICK g : g = [to |-> to, k |-> "resp", x |-> y]
    OBVIOUS
  <2>6. g.k = "resp" /\ g.x = y
    BY <2>4
  <2>5. Sound(sg, hon, g) /\ ~IsReply(g)
    BY <1>2, <2>3, <2>6 DEF Sound, IsReply
  <2> QED BY <2>1, <2>4, <2>5 DEF Quiet
<1> QED BY <1>1, <1>2

LEMMA NackIsQuiet ==
  ASSUME NEW sg, NEW hon, NEW x, DecisionOK(x.d), NEW u
  PROVE  Quiet(sg, hon, nack(x, u))
<1>1. PICK h : h = 0 /\ nack(x, u) = Back(x, "nack", [d |-> x.d, leg |-> x.leg, hop |-> h, unreachable |-> u])
  BY DEF nack
<1>2. \A w : Quiet(sg, hon, Back(x, "nack", [d |-> x.d, leg |-> x.leg, hop |-> h, unreachable |-> w]))
  BY BackIsQuiet
<1> QED BY <1>1, <1>2

LEMMA ForwardIsOK ==
  ASSUME InferenceConstants, AskInv, NEW f \in wire, Forward(f), rogues' = rogues
  PROVE  AskInv'
<1>1. PICK x, nxt, o :
        /\ x = f.x /\ f.k = "req" /\ Carries(f.to, o)
        /\ o = {frame(nxt, "req", [x EXCEPT !.hop = x.hop + 1])} \/ o = nack(x, nxt)
  BY Zenon DEF Forward
<1>2. x = [d |-> x.d, leg |-> x.leg, hop |-> x.hop] /\ DecisionOK(x.d)
  BY <1>1, FrameIsSound DEF Sound
<1>3. CASE o = {frame(nxt, "req", [x EXCEPT !.hop = x.hop + 1])}
  <2>1. PICK y : y = [x EXCEPT !.hop = x.hop + 1] /\ o = {[to |-> nxt, k |-> "req", x |-> y]}
    BY <1>3 DEF frame
  <2>2. y = [d |-> x.d, leg |-> x.leg, hop |-> x.hop + 1]
    BY <1>2, <2>1
  <2>3. y.d = x.d /\ y = [d |-> y.d, leg |-> y.leg, hop |-> y.hop]
    BY <2>2
  <2>4. PICK g : g = [to |-> nxt, k |-> "req", x |-> y]
    OBVIOUS
  <2>5. g.k = "req" /\ g.x = y
    BY <2>4
  <2>6. Sound(signed, Protected, g) /\ ~IsReply(g)
    BY <1>2, <2>3, <2>5 DEF Sound, IsReply
  <2>7. Quiet(signed, Protected, o)
    BY <2>1, <2>4, <2>6 DEF Quiet
  <2> QED BY <1>1, <2>7, CarriedIsOK
<1>4. CASE o = nack(x, nxt)
  <2>1. Quiet(signed, Protected, o)
    BY <1>2, <1>4, NackIsQuiet
  <2> QED BY <1>1, <2>1, CarriedIsOK
<1> QED BY <1>1, <1>3, <1>4

LEMMA ReturnIsOK ==
  ASSUME InferenceConstants, AskInv, NEW f \in wire, Return(f), rogues' = rogues
  PROVE  AskInv'
<1>1. PICK x, o : x = f.x /\ o = Back(x, f.k, x) /\ f.k \in {"resp", "nack"} /\ Carries(f.to, o)
  BY DEF Return
<1>2. Sound(signed, Protected, f)
  BY FrameIsSound
<1>3. CASE f.k = "resp"
  <2>1. /\ x = [d |-> x.d, leg |-> x.leg, hop |-> x.hop, answer |-> x.answer] /\ DecisionOK(x.d)
        /\ x.answer \in Item /\ x.answer.n = x.d.n /\ Backed(signed, x.answer)
    BY <1>1, <1>2, <1>3 DEF Sound
  <2>2. PICK sg, hon, h, r : sg = signed /\ hon = Protected /\ h = x.hop /\ r = x.answer
    OBVIOUS
  <2>3. Quiet(sg, hon, Back(x, "resp", [d |-> x.d, leg |-> x.leg, hop |-> h, answer |-> r]))
    BY <2>1, <2>2, BackIsQuiet
  <2>4. o = Back(x, "resp", [d |-> x.d, leg |-> x.leg, hop |-> h, answer |-> r])
    BY <1>1, <1>3, <2>1, <2>2
  <2> QED BY <1>1, <2>2, <2>3, <2>4, CarriedIsOK
<1>4. CASE f.k = "nack"
  <2>1. /\ x = [d |-> x.d, leg |-> x.leg, hop |-> x.hop, unreachable |-> x.unreachable] /\ DecisionOK(x.d)
    BY <1>1, <1>2, <1>4 DEF Sound
  <2>2. PICK sg, hon, h, u : sg = signed /\ hon = Protected /\ h = x.hop /\ u = x.unreachable
    OBVIOUS
  <2>3. \A w : Quiet(sg, hon, Back(x, "nack", [d |-> x.d, leg |-> x.leg, hop |-> h, unreachable |-> w]))
    BY <2>1, BackIsQuiet
  <2>4. o = Back(x, "nack", [d |-> x.d, leg |-> x.leg, hop |-> h, unreachable |-> u])
    BY <1>1, <1>4, <2>1, <2>2
  <2> QED BY <1>1, <2>2, <2>3, <2>4, CarriedIsOK
<1> QED BY <1>1, <1>3, <1>4

LEMMA DirectoryQueryIsOK ==
  ASSUME InferenceConstants, AskInv, NEW f \in wire, _on_directory_query(f), rogues' = rogues
  PROVE  AskInv'
<1>1. PICK ts, o : /\ ts = led[f.to] /\ o = {[to |-> Client, k |-> "dir", x |-> [targets |-> ts]]}
                   /\ f.k = "dir?" /\ Carries(f.to, o)
  BY DEF _on_directory_query, frame
<1>2. f.to \in Everyone
  BY <1>1, FrameIsSound, Places DEF Sound
<1>3. TargetsOK(Protected, ts)
  BY <1>1, <1>2 DEF AskInv, StateInv, LedInv
<1>4. PICK g : g = [to |-> Client, k |-> "dir", x |-> [targets |-> ts]]
  OBVIOUS
<1>5. g.k = "dir" /\ g.x.targets = ts
  BY <1>4
<1>6. Sound(signed, Protected, g) /\ ~IsReply(g)
  BY <1>3, <1>5 DEF Sound, IsReply
<1>7. Quiet(signed, Protected, o)
  BY <1>1, <1>4, <1>6 DEF Quiet
<1> QED BY <1>1, <1>7, CarriedIsOK

LEMMA HelloIsOK ==
  ASSUME InferenceConstants, AskInv, Hello, rogues' = rogues
  PROVE  AskInv'
<1>1. PICK o : o = {frame(s, "dir?", [from |-> Client]) : s \in Servers} /\ wire' = wire \cup o
  BY DEF Hello
<1>2. ASSUME NEW g \in o PROVE Sound(signed, Protected, g) /\ ~IsReply(g)
  <2>1. PICK s \in Servers : g.to = s /\ g.k = "dir?"
    BY <1>1 DEF frame
  <2> QED BY <2>1 DEF Sound, IsReply
<1>3. Quiet(signed, Protected, o)
  BY <1>2 DEF Quiet
<1> QED BY <1>1, <1>3, WireGrows DEF Hello

(* A step of a member that neither serves nor asks.                         *)
LEMMA MemberMoves ==
  ASSUME InferenceConstants, AskInv, signed \subseteq signed', Protected' \subseteq Protected, AnswersInv',
         rogues' = rogues, restarts' \in Nat, LedInv(Protected'), NEW hon, hon = Protected', LedInv(hon)',
         led'[Client] = led[Client], NEW o, Quiet(signed', hon, o), wire' = wire \cup o,
         UNCHANGED <<pending, finished, ask, knows, seen>>
  PROVE  AskInv'
<1>1. PICK sg : sg = signed'
  OBVIOUS
<1>2. StateInv(sg, hon)
  <2>1. PICK sg0, hon0 : sg0 = signed /\ hon0 = Protected
    OBVIOUS
  <2>2. StateInv(sg0, hon0) /\ sg0 \subseteq sg /\ hon \subseteq hon0
    BY <1>1, <2>1 DEF AskInv
  <2> QED BY <2>2, StateGrows
<1>3. /\ ServersInv(sg, hon) /\ WireInv(sg, hon) /\ ClientInv(sg, hon)
  BY <1>2 DEF StateInv
<1>4. ASSUME NEW s \in Servers
      PROVE  HandlerOK(sg, hon, finished[s], s, [led |-> led'[s], pending |-> pending[s],
                       finished |-> finished[s], out |-> {}, again |-> FALSE])
  <2>1. HandlerOK(sg, hon, finished[s], s, ServerState(s))
    BY <1>3 DEF ServersInv
  <2>2. PICK R, T :
          /\ R = [led |-> led[s], pending |-> pending[s], finished |-> finished[s], out |-> {}, again |-> FALSE]
          /\ T = [led |-> led'[s], pending |-> pending[s], finished |-> finished[s], out |-> {}, again |-> FALSE]
    OBVIOUS
  <2>3. /\ R = ServerState(s) /\ R.pending = pending[s] /\ R.finished = finished[s]
        /\ T.led = led'[s] /\ T.pending = pending[s] /\ T.finished = finished[s]
        /\ T.out = {} /\ T.again = FALSE
    BY <2>2 DEF ServerState
  <2>4. TargetsOK(hon, T.led)
    BY <2>3, Places DEF LedInv
  <2>5. HandlerOK(sg, hon, finished[s], s, T)
    BY <2>1, <2>2, <2>3, <2>4 DEF HandlerOK
  <2> QED BY <2>2, <2>5
<1>5. ServersInv(sg, hon)'
  BY <1>3, <1>4 DEF ServersInv, ServerState
<1>6. WireInv(sg, hon)'
  BY <1>1, <1>3 DEF WireInv, Quiet
<1>7. ClientInv(sg, hon)'
  BY <1>3 DEF ClientInv, AskOK, Armed, AskRecord, Quiet, AgreedIn, SignersOf
<1>8. rogues' \subseteq Providers
  BY DEF AskInv
<1> QED BY <1>1, <1>5, <1>6, <1>7, <1>8 DEF AskInv, StateInv

LEMMA LedGrows ==
  ASSUME AskInv, NEW m, NEW ts, TargetsOK(Protected, ts),
         led' = [led EXCEPT ![m] = led[m] \cup ts], NEW hon, hon = Protected
  PROVE  LedInv(hon)'
<1>1. LedInv(hon)
  BY DEF AskInv, StateInv
<1>2. led' = [x \in Everyone |-> led'[x]]
  BY <1>1 DEF LedInv
<1>3. \A x \in Everyone : led'[x] = led[x] \/ led'[x] = led[x] \cup ts
  BY <1>1 DEF LedInv
<1> QED BY <1>1, <1>2, <1>3 DEF LedInv, TargetsOK

LEMMA SignIsOK ==
  ASSUME InferenceConstants, AskInv, NEW p \in Providers, NEW x, DecisionOK(x.d), NEW o \in Said, Sign(p, x, o),
         AnswersInv', UNCHANGED <<rogues, led, pending, finished, ask, knows, seen, restarts>>
  PROVE  AskInv'
<1>1. PICK fs, sg, hon, h, r :
        /\ sg = signed' /\ hon = Protected /\ h = 0 /\ r = Response(p, x.d.n, o, x.d)
        /\ fs = Back(x, "resp", [d |-> x.d, leg |-> x.leg, hop |-> h, answer |-> r])
  OBVIOUS
<1>2. wire' = wire \cup fs /\ signed' = signed \cup {[provider |-> p, n |-> x.d.n, output |-> o]}
  BY <1>1, Zenon DEF Sign
<1>3. r = [provider |-> p, n |-> x.d.n, output |-> o, decider |-> x.d.decider, mode |-> x.d.mode]
  BY <1>1 DEF Response
<1>4. r \in Item /\ r.n = x.d.n
  BY <1>3 DEF DecisionOK, Item
<1>5. vote(r) \in sg
  BY <1>1, <1>2, <1>3 DEF vote
<1>6. Quiet(sg, hon, fs)
  <2>1. Backed(sg, r)
    BY <1>5 DEF Backed
  <2>2. \A q : q \in Item /\ q.n = x.d.n /\ Backed(sg, q) =>
          Quiet(sg, hon, Back(x, "resp", [d |-> x.d, leg |-> x.leg, hop |-> h, answer |-> q]))
    BY BackIsQuiet
  <2> QED BY <1>1, <1>4, <2>1, <2>2
<1>7. Protected' = Protected
  BY DEF Protected
<1>8. LedInv(hon) /\ LedInv(hon)' /\ restarts' \in Nat
  BY <1>1 DEF AskInv, StateInv, LedInv
<1> QED BY <1>1, <1>2, <1>6, <1>7, <1>8, MemberMoves

LEMMA RestartIsOK ==
  ASSUME InferenceConstants, AskInv, NEW p \in Providers, Restart(p), rogues' = rogues
  PROVE  AskInv'
<1>1. PICK hon, o : hon = {} /\ o = {}
  OBVIOUS
<1>2. restarts' \in Nat /\ restarts' # 0
  BY DEF Restart, AskInv
<1>3. Protected' = hon
  BY <1>1, <1>2 DEF Protected
<1>4. AnswersInv'
  <2>1. served' = [served EXCEPT ![p] = [n \in Requests |-> None]] /\ signed' = signed
    BY DEF Restart
  <2>2. served' = [q \in Providers |-> [n \in Requests |-> served'[q][n]]]
    BY <2>1 DEF AskInv, AnswersInv
  <2>3. \A q \in Providers, n \in Requests : served'[q][n] \in Outputs \cup {"error", None}
    BY <2>1 DEF AskInv, AnswersInv
  <2> QED BY <1>2, <2>1, <2>2, <2>3 DEF AskInv, AnswersInv
<1>5. LedInv(hon)
  BY <1>1 DEF AskInv, StateInv, LedInv, TargetsOK
<1>6. led' = [led EXCEPT ![p] = {}]
  BY DEF Restart
<1>7. LedInv(hon)'
  <2>1. led' = [m \in Everyone |-> led'[m]]
    BY <1>5, <1>6 DEF LedInv
  <2>2. \A m \in Everyone : led'[m] = led[m] \/ led'[m] = {}
    BY <1>5, <1>6 DEF LedInv
  <2> QED BY <1>5, <2>1, <2>2 DEF LedInv, TargetsOK
<1>8. led'[Client] = led[Client]
  BY <1>5, <1>6, Places DEF LedInv
<1>9. Quiet(signed', hon, o) /\ wire' = wire \cup o
  BY <1>1 DEF Quiet, Restart
<1>10. signed \subseteq signed' /\ UNCHANGED <<pending, finished, ask, knows, seen>>
  BY DEF Restart
<1> QED BY <1>1, <1>2, <1>3, <1>4, <1>5, <1>7, <1>8, <1>9, <1>10, MemberMoves

LEMMA LearnIsOK ==
  ASSUME InferenceConstants, AskInv, NEW f \in wire, Learn(f), rogues' = rogues
  PROVE  AskInv'
<1>1. PICK hon, o, ts, m : hon = Protected /\ o = {} /\ ts = f.x.targets /\ m = f.to
  OBVIOUS
<1>2. TargetsOK(Protected, ts)
  BY <1>1, FrameIsSound DEF Sound, Learn
<1>3. led' = [led EXCEPT ![m] = led[m] \cup ts] /\ m # Client
  BY <1>1 DEF Learn
<1>4. LedInv(hon)'
  BY <1>1, <1>2, <1>3, LedGrows
<1>5. LedInv(hon)
  BY <1>1 DEF AskInv, StateInv
<1>6. led'[Client] = led[Client]
  BY <1>3, <1>5, Places DEF LedInv
<1>7. /\ UNCHANGED <<pending, finished, served, ask, knows, seen, signed, wire, restarts>>
  BY DEF Learn
<1>8. AnswersInv' /\ Protected' = Protected /\ restarts' \in Nat
  BY <1>7 DEF AskInv, AnswersInv, Protected
<1>9. Quiet(signed', hon, o) /\ wire' = wire \cup o
  BY <1>1, <1>7 DEF Quiet
<1> QED BY <1>1, <1>4, <1>5, <1>6, <1>7, <1>8, <1>9, MemberMoves

LEMMA OutputsAreSaid ==
  ASSUME InferenceConstants
  PROVE  /\ Outputs \cup {"error"} \subseteq Said /\ Outputs \cup {"leak"} \subseteq Said
         /\ \A o \in Outputs \cup {"error"} : o \notin {"leak", None}
BY DEF InferenceConstants, Said

Answers(F) == F = [q \in Providers |-> [m \in Requests |-> F[q][m]]]
Answered(F, p, n, o, G) == G = [F EXCEPT ![p][n] = o]
SetAt(F, p, n, o, G) ==
  /\ G[p][n] = o /\ \A q \in Providers, m \in Requests : (q = p /\ m = n) \/ G[q][m] = F[q][m]
LEMMA AnswerSet ==
  ASSUME NEW F, Answers(F), NEW p \in Providers, NEW n \in Requests, NEW o, NEW G, Answered(F, p, n, o, G)
  PROVE  Answers(G) /\ SetAt(F, p, n, o, G)
<1>1. PICK A : A = [F[p] EXCEPT ![n] = o]
  OBVIOUS
<1>2. G = [F EXCEPT ![p] = A]
  BY <1>1 DEF Answered
<1>3. \A q \in Providers : F[q] = [m \in Requests |-> F[q][m]]
  BY DEF Answers
<1>4. A = [m \in Requests |-> A[m]] /\ A[n] = o /\ \A m \in Requests \ {n} : A[m] = F[p][m]
  BY <1>1, <1>3
<1>5. DOMAIN F = Providers
  BY DEF Answers
<1>6. G[p] = A /\ \A q \in Providers \ {p} : G[q] = F[q]
  BY <1>2, <1>5
<1>7. G = [q \in Providers |-> G[q]]
  BY <1>2, <1>5
<1>8. \A q \in Providers : G[q] = [m \in Requests |-> G[q][m]]
  BY <1>3, <1>4, <1>6
<1>9. Answers(G)
  BY <1>7, <1>8 DEF Answers
<1>10. SetAt(F, p, n, o, G)
  BY <1>4, <1>6 DEF SetAt
<1> QED BY <1>9, <1>10

LEMMA ServeIsOK ==
  ASSUME InferenceConstants, AskInv, NEW f \in wire, serve(f), rogues' = rogues
  PROVE  AskInv'
<1>1. PICK p, x, n : p = f.to /\ x = f.x /\ n = x.d.n
  OBVIOUS
<1>2. f.k = "req" /\ p \in Providers
  BY <1>1 DEF serve
<1>3. DecisionOK(x.d) /\ n \in Requests
  BY <1>1, <1>2, FrameIsSound DEF Sound, DecisionOK
<1>4. \/ Carries(p, nack(x, p))
      \/ /\ served[p][n] # None /\ Sign(p, x, served[p][n]) /\ served' = served
         /\ UNCHANGED <<led, pending, finished, ask, knows, seen, restarts>>
      \/ /\ served[p][n] = None
         /\ \E o \in Outputs \cup {"error"} : served' = [served EXCEPT ![p][n] = o] /\ Sign(p, x, o)
         /\ UNCHANGED <<led, pending, finished, ask, knows, seen, restarts>>
  BY <1>1 DEF serve, Remembered
<1>5. CASE Carries(p, nack(x, p))
  <2>1. PICK o : o = nack(x, p)
    OBVIOUS
  <2>2. Quiet(signed, Protected, o)
    BY <1>3, <2>1, NackIsQuiet
  <2> QED BY <1>5, <2>1, <2>2, CarriedIsOK
<1>6. /\ served = [q \in Providers |-> [m \in Requests |-> served[q][m]]]
      /\ \A q \in Providers, m \in Requests : served[q][m] \in Outputs \cup {"error", None}
      /\ signed \subseteq Vote
      /\ restarts = 0 => \A r \in signed : r.provider \notin rogues =>
           r.output \notin {"leak", None} /\ served[r.provider][r.n] = r.output
  BY DEF AskInv, AnswersInv
<1>7. CASE /\ served[p][n] # None /\ Sign(p, x, served[p][n]) /\ served' = served
           /\ UNCHANGED <<led, pending, finished, ask, knows, seen, restarts>>
  <2>1. PICK o : o = served[p][n]
    OBVIOUS
  <2>2. o \in Outputs \cup {"error"} /\ Sign(p, x, o)
    BY <1>2, <1>3, <1>6, <1>7, <2>1
  <2>3. PICK v : /\ v = [provider |-> p, n |-> n, output |-> o] /\ v.provider = p /\ v.n = n /\ v.output = o
                 /\ signed' = signed \cup {v}
    BY <1>1, <2>2 DEF Sign
  <2>4. o \in Said /\ o \notin {"leak", None}
    BY <2>2, OutputsAreSaid
  <2>5. v \in Vote
    BY <1>2, <1>3, <2>3, <2>4 DEF Vote
  <2>6. AnswersInv'
    <3>1. signed' \subseteq Vote
      BY <1>6, <2>3, <2>5
    <3>2. ASSUME restarts = 0, NEW r \in signed', r.provider \notin rogues
          PROVE  r.output \notin {"leak", None} /\ served[r.provider][r.n] = r.output
      BY <1>6, <2>1, <2>3, <2>4, <3>2
    <3>3. served' = served /\ restarts' = restarts /\ rogues' = rogues
      BY <1>7
    <3> QED BY <1>6, <3>1, <3>2, <3>3 DEF AnswersInv
  <2> QED BY <1>2, <1>3, <1>7, <2>2, <2>4, <2>6, SignIsOK
<1>8. ASSUME served[p][n] = None, NEW o \in Outputs \cup {"error"}, served' = [served EXCEPT ![p][n] = o],
             Sign(p, x, o), UNCHANGED <<led, pending, finished, ask, knows, seen, restarts>>
      PROVE  AskInv'
  <2>1. PICK v : /\ v = [provider |-> p, n |-> n, output |-> o] /\ v.provider = p /\ v.n = n /\ v.output = o
                 /\ signed' = signed \cup {v}
    BY <1>1, <1>8 DEF Sign
  <2>2. o \in Said /\ o \notin {"leak", None}
    BY OutputsAreSaid
  <2>3. v \in Vote
    BY <1>2, <1>3, <2>1, <2>2 DEF Vote
  <2>4. /\ served' = [q \in Providers |-> [m \in Requests |-> served'[q][m]]] /\ served'[p][n] = o
        /\ \A q \in Providers, m \in Requests : (q = p /\ m = n) \/ served'[q][m] = served[q][m]
    <3>1. PICK F, G : F = served /\ G = served'
      OBVIOUS
    <3>2. Answers(F) /\ Answered(F, p, n, o, G)
      BY <1>2, <1>3, <1>6, <1>8, <3>1 DEF Answers, Answered
    <3>3. Answers(G) /\ SetAt(F, p, n, o, G)
      BY <1>2, <1>3, <1>6, <1>8, <3>2, AnswerSet
    <3> QED BY <3>1, <3>3 DEF Answers, SetAt
  <2>5. \A q \in Providers, m \in Requests : served'[q][m] \in Outputs \cup {"error", None}
    BY <1>6, <2>4
  <2>6. signed' \subseteq Vote
    BY <1>6, <2>1, <2>3
  <2>7. ASSUME restarts' = 0, NEW r \in signed', r.provider \notin rogues'
        PROVE  r.output \notin {"leak", None} /\ served'[r.provider][r.n] = r.output
    <3>1. CASE r = v
      BY <2>1, <2>2, <2>4, <3>1
    <3>2. CASE r \in signed
      <4>1. r.output \notin {"leak", None} /\ served[r.provider][r.n] = r.output
        BY <1>6, <1>8, <2>7, <3>2
      <4>2. r.provider \in Providers /\ r.n \in Requests
        BY <1>6, <3>2 DEF Vote
      <4>3. ~(r.provider = p /\ r.n = n)
        BY <1>8, <4>1
      <4> QED BY <2>4, <4>1, <4>2, <4>3
    <3> QED BY <2>1, <3>1, <3>2
  <2>8. AnswersInv'
    BY <2>4, <2>5, <2>6, <2>7 DEF AnswersInv
  <2> QED BY <1>2, <1>3, <1>8, <2>2, <2>8, SignIsOK
<1> QED BY <1>4, <1>5, <1>7, <1>8

LEMMA MisanswerIsOK ==
  ASSUME InferenceConstants, AskInv, NEW f \in wire, Misanswer(f), rogues' = rogues
  PROVE  AskInv'
<1>1. PICK p, x, n, o : /\ p = f.to /\ x = f.x /\ n = x.d.n /\ f.k = "req" /\ p \in rogues
                        /\ o \in Outputs \cup {"leak"} /\ Sign(p, x, o)
  BY DEF Misanswer
<1>2. UNCHANGED <<led, pending, finished, served, ask, knows, seen, restarts>>
  BY DEF Misanswer
<1>3. DecisionOK(x.d) /\ n \in Requests /\ p \in Providers
  BY <1>1, FrameIsSound DEF Sound, DecisionOK, AskInv
<1>4. PICK v : /\ v = [provider |-> p, n |-> n, output |-> o] /\ v.provider = p
               /\ signed' = signed \cup {v}
  BY <1>1 DEF Sign
<1>5. o \in Said
  BY <1>1, OutputsAreSaid
<1>6. v \in Vote
  BY <1>3, <1>4, <1>5 DEF Vote
<1>7. AnswersInv'
  BY <1>1, <1>2, <1>4, <1>6 DEF AskInv, AnswersInv
<1> QED BY <1>1, <1>2, <1>3, <1>5, <1>7, SignIsOK

LEMMA SelfReportIsOK ==
  ASSUME InferenceConstants, AskInv, NEW f \in wire, SelfReport(f), rogues' = rogues
  PROVE  AskInv'
<1>1. PICK p, x, n, ts, hon, sg : /\ p = f.to /\ x = f.x /\ n = x.d.n /\ ts = {target_model(ModelOf[p])}
                              /\ hon = Protected /\ sg = signed
  OBVIOUS
<1>2. PICK r, h, bs : /\ r = Response(p, n, "error", x.d) /\ h = 0
                  /\ bs = Back(x, "resp", [d |-> x.d, leg |-> x.leg, hop |-> h, answer |-> r])
  OBVIOUS
<1>3. /\ f.k = "req" /\ p \in Providers /\ served[p][n] = None
      /\ served' = [served EXCEPT ![p][n] = "error"] /\ led' = [led EXCEPT ![p] = led[p] \cup ts]
      /\ UNCHANGED <<pending, finished, ask, knows, seen, signed, restarts>>
  BY <1>1 DEF SelfReport
<1>4. wire' = wire \cup Incident(p, ts) \cup bs
  BY <1>1, <1>2, Zenon DEF SelfReport
<1>5. DecisionOK(x.d) /\ n \in Requests
  BY <1>1, <1>3, FrameIsSound DEF Sound, DecisionOK
<1>6. TargetsOK(hon, ts)
  BY <1>1 DEF TargetsOK, Protected, target_node, target_model, Tags
<1>7. Quiet(sg, hon, bs)
  <2>1. r = [provider |-> p, n |-> n, output |-> "error", decider |-> x.d.decider, mode |-> x.d.mode]
    BY <1>2 DEF Response
  <2>2. r \in Item /\ r.n = x.d.n /\ r.output = "error"
    BY <1>1, <1>3, <1>5, <2>1 DEF DecisionOK, Item, Said
  <2>3. Backed(sg, r)
    BY <2>2 DEF Backed
  <2>4. \A q : q \in Item /\ q.n = x.d.n /\ Backed(sg, q) =>
          Quiet(sg, hon, Back(x, "resp", [d |-> x.d, leg |-> x.leg, hop |-> h, answer |-> q]))
    BY <1>5, BackIsQuiet
  <2> QED BY <1>2, <2>2, <2>3, <2>4
<1>8. \A g \in Incident(p, ts) : Sound(sg, hon, g) /\ ~IsReply(g)
  BY <1>6, IncidentIsSound
<1>9. PICK o : o = Incident(p, ts) \cup bs
  OBVIOUS
<1>10. Quiet(sg, hon, o) /\ wire' = wire \cup o
  BY <1>4, <1>7, <1>8, <1>9 DEF Quiet
<1>11. /\ served = [q \in Providers |-> [m \in Requests |-> served[q][m]]]
       /\ \A q \in Providers, m \in Requests : served[q][m] \in Outputs \cup {"error", None}
       /\ signed \subseteq Vote
       /\ restarts = 0 => \A v \in signed : v.provider \notin rogues =>
            v.output \notin {"leak", None} /\ served[v.provider][v.n] = v.output
  BY DEF AskInv, AnswersInv
<1>12. /\ served' = [q \in Providers |-> [m \in Requests |-> served'[q][m]]] /\ served'[p][n] = "error"
       /\ \A q \in Providers, m \in Requests : (q = p /\ m = n) \/ served'[q][m] = served[q][m]
  <2>1. PICK F, G : F = served /\ G = served'
    OBVIOUS
  <2>2. Answers(F) /\ Answered(F, p, n, "error", G)
    <3>1. F = [q \in Providers |-> [m \in Requests |-> F[q][m]]]
      BY <1>11, <2>1
    <3>2. G = [F EXCEPT ![p][n] = "error"]
      BY <1>3, <2>1
    <3> QED BY <3>1, <3>2 DEF Answers, Answered
  <2>3. Answers(G) /\ SetAt(F, p, n, "error", G)
    BY <1>3, <1>5, <1>11, <2>2, AnswerSet
  <2> QED BY <2>1, <2>3 DEF Answers, SetAt
<1>13. ASSUME restarts' = 0, NEW v \in signed', v.provider \notin rogues'
       PROVE  v.output \notin {"leak", None} /\ served'[v.provider][v.n] = v.output
  <2>1. v.output \notin {"leak", None} /\ served[v.provider][v.n] = v.output
    BY <1>3, <1>11, <1>13
  <2>2. v.provider \in Providers /\ v.n \in Requests
    BY <1>3, <1>11, <1>13 DEF Vote
  <2>3. ~(v.provider = p /\ v.n = n)
    BY <1>3, <2>1
  <2> QED BY <1>12, <2>1, <2>2, <2>3
<1>14. AnswersInv'
  BY <1>3, <1>11, <1>12, <1>13 DEF AnswersInv
<1>15. LedInv(hon)'
  BY <1>1, <1>3, <1>6, LedGrows
<1>16. LedInv(hon)
  BY <1>1 DEF AskInv, StateInv
<1>17. led'[Client] = led[Client]
  BY <1>3, <1>16, Places DEF LedInv
<1>18. Protected' = Protected /\ restarts' \in Nat
  BY <1>3 DEF Protected, AskInv
<1> QED BY <1>1, <1>3, <1>10, <1>14, <1>15, <1>16, <1>17, <1>18, MemberMoves

(* A step of the client.  Timely: it accepts no ordinary answer once it knows  *)
(* of a mutiny.                                                             *)
Timely(T) == Kept(ask, T) \/ T.outcome.mode = Lockdown \/ led[Client] = {}

LEMMA ClientMoves ==
  ASSUME InferenceConstants, AskInv, NEW ts, TargetsOK(Protected, ts),
         led' = [led EXCEPT ![Client] = led[Client] \cup ts], knows' \subseteq Providers,
         seen' \subseteq Item, \A r \in seen' : vote(r) \in signed,
         AskOK(signed, Protected, ask'), Armed(led'[Client], ask'),
         NEW o, Quiet(signed, Protected, o), wire' = wire \cup o,
         UNCHANGED <<rogues, pending, finished, served, signed, restarts>>
  PROVE  AskInv'
<1>1. PICK sg, hon : sg = signed /\ hon = Protected
  OBVIOUS
<1>2. signed' = sg /\ Protected' = hon
  BY <1>1 DEF Protected
<1>3. LedInv(hon)'
  BY <1>1, LedGrows
<1>4. ServersInv(sg, hon) /\ WireInv(sg, hon)
  BY <1>1 DEF AskInv, StateInv
<1>5. \A s \in Servers : led'[s] = led[s]
  BY Places DEF AskInv, StateInv, LedInv
<1>6. ServersInv(sg, hon)'
  BY <1>4, <1>5 DEF ServersInv, ServerState
<1>7. WireInv(sg, hon)'
  BY <1>1, <1>4 DEF WireInv, Quiet
<1>8. AskOK(sg, hon, ask')
  BY <1>1
<1>9. ClientInv(sg, hon)'
  BY <1>1, <1>8 DEF ClientInv, AskOK, Armed, AskRecord, Quiet, AgreedIn, SignersOf
<1>10. AnswersInv' /\ rogues' \subseteq Providers /\ restarts' \in Nat
  BY DEF AskInv, AnswersInv
<1> QED BY <1>2, <1>3, <1>6, <1>7, <1>9, <1>10 DEF AskInv, StateInv

LEMMA AskBecomesOK ==
  ASSUME InferenceConstants, AskInv, NEW ts, TargetsOK(Protected, ts),
         led' = [led EXCEPT ![Client] = led[Client] \cup ts], knows' \subseteq Providers,
         seen' \subseteq Item, \A r \in seen' : vote(r) \in signed,
         NEW A, AskOK(signed, Protected, A), Armed(led'[Client], A), Timely(A), AskBecomes(A),
         rogues' = rogues
  PROVE  AskInv' /\ NotOrdinary
<1>1. PICK sg, hon, o, none, l : sg = signed /\ hon = Protected /\ o = A.out /\ none = {} /\ l = led'[Client]
  OBVIOUS
<1>2. PICK T : T = ask'
  OBVIOUS
<1>3. Sends(A, none, T)
  BY <1>1, <1>2 DEF AskBecomes, Sends
<1>4. AskOK(sg, hon, A)
  BY <1>1
<1>5. Near(A, T) /\ T.out = none
  <2>1. \A y : Sends(A, y, T) => Near(A, T) /\ T.out = y /\ T.begun = A.begun
    BY <1>4, EditsAreNear
  <2> QED BY <1>3, <2>1
<1>6. Quiet(sg, hon, T.out)
  BY <1>1, <1>5 DEF Quiet
<1>7. AskOK(sg, hon, T) /\ \A m : Armed(m, A) => Armed(m, T)
  BY <1>4, <1>5, <1>6, NearIsOK
<1>8. Quiet(sg, hon, o)
  BY <1>1, <1>4 DEF AskOK
<1>9. wire' = wire \cup o /\ UNCHANGED <<pending, finished, served, signed, restarts>>
  BY <1>1 DEF AskBecomes
<1>10. AskInv'
  BY <1>1, <1>2, <1>7, <1>8, <1>9, ClientMoves
<1>11. NotOrdinary
  <2>1. ask'.outcome = A.outcome
    BY <1>2, <1>5 DEF Near
  <2> QED BY <2>1 DEF NotOrdinary, Timely, Kept, Normal, Lockdown
<1> QED BY <1>10, <1>11

LEMMA ClientFacts ==
  ASSUME AskInv, InferenceConstants
  PROVE  /\ AskOK(signed, Protected, ask) /\ Armed(led[Client], ask) /\ knows \subseteq Providers
         /\ seen \subseteq Item /\ \A r \in seen : vote(r) \in signed
         /\ TargetsOK(Protected, led[Client]) /\ Quiet(signed, Protected, ask.out)
         /\ led = [led EXCEPT ![Client] = led[Client] \cup {}] /\ TargetsOK(Protected, {})
<1>1. LedInv(Protected) /\ ClientInv(signed, Protected)
  BY DEF AskInv, StateInv
<1>2. led = [led EXCEPT ![Client] = led[Client] \cup {}]
  BY <1>1, Places DEF LedInv
<1>3. TargetsOK(Protected, led[Client]) /\ TargetsOK(Protected, {})
  BY <1>1, Places DEF LedInv, TargetsOK
<1> QED BY <1>1, <1>2, <1>3 DEF ClientInv, AskOK

LEMMA AskStepIsOK ==
  ASSUME InferenceConstants, AskInv, Ask, rogues' = rogues
  PROVE  AskInv' /\ NotOrdinary
<1>1. PICK sg, hon, l, ts : sg = signed /\ hon = Protected /\ l = led[Client] /\ ts = {}
  OBVIOUS
<1>2. PICK B, T : Begins(ask, B) /\ T = _submit(B, l, knows)
  BY DEF Begins
<1>3. AskBecomes(T) /\ UNCHANGED <<led, knows, seen>>
  BY <1>1, <1>2, Zenon DEF Ask, Begins
<1>4. AskOK(sg, hon, ask) /\ TargetsOK(hon, l) /\ Quiet(sg, hon, ask.out)
  BY <1>1, ClientFacts
<1>5. Near(ask, B) /\ B.out = ask.out /\ B.begun = TRUE
  BY <1>2, <1>4, EditsAreNear
<1>6. AskOK(sg, hon, B) /\ Kept(ask, B)
  BY <1>4, <1>5, NearIsOK
<1>7. AskOK(sg, hon, T) /\ Kept(B, T) /\ Armed(l, T)
  BY <1>2, <1>4, <1>5, <1>6, SubmitIsOK
<1>8. Timely(T)
  BY <1>6, <1>7 DEF Timely, Kept
<1> QED BY <1>1, <1>3, <1>7, <1>8, ClientFacts, AskBecomesOK

LEMMA ClientTickIsOK ==
  ASSUME InferenceConstants, AskInv, ClientTick, rogues' = rogues
  PROVE  AskInv' /\ NotOrdinary
<1>1. PICK sg, hon, l, ts, u : /\ sg = signed /\ hon = Protected /\ l = led[Client] /\ ts = {}
                               /\ u = ask.unresponsive \cup {ask.forwarder}
  OBVIOUS
<1>2. PICK B : B = IF ask.mode = Lockdown THEN [ask EXCEPT !.unresponsive = u, !.waiting_dir = FALSE] ELSE ask
  OBVIOUS
<1>3. PICK T : T = _submit(B, l, knows)
  OBVIOUS
<1>4. ask.begun /\ AskBecomes(T) /\ UNCHANGED <<led, knows, seen>>
  BY <1>1, <1>2, <1>3, Zenon DEF ClientTick
<1>5. AskOK(sg, hon, ask) /\ TargetsOK(hon, l) /\ Quiet(sg, hon, ask.out)
  BY <1>1, ClientFacts
<1>6. AskOK(sg, hon, B) /\ Kept(ask, B) /\ B.begun = TRUE
  <2>1. CASE ask.mode # Lockdown
    BY <1>2, <1>4, <1>5, <2>1 DEF Kept, AskOK
  <2>2. CASE ask.mode = Lockdown
    <3>1. Times(ask, u, B)
      BY <1>2, <2>2, Zenon DEF Times
    <3>2. Near(ask, B) /\ B.out = ask.out /\ B.begun = ask.begun
      BY <1>5, <3>1, EditsAreNear
    <3>3. AskOK(sg, hon, B) /\ Kept(ask, B)
      BY <1>5, <3>2, NearIsOK
    <3> QED BY <1>4, <3>2, <3>3 DEF AskOK
  <2> QED BY <2>1, <2>2
<1>7. AskOK(sg, hon, T) /\ Kept(B, T) /\ Armed(l, T)
  BY <1>3, <1>5, <1>6, SubmitIsOK
<1>8. Timely(T)
  BY <1>6, <1>7 DEF Timely, Kept
<1> QED BY <1>1, <1>4, <1>7, <1>8, ClientFacts, AskBecomesOK

LEMMA ClientIncidentIsOK ==
  ASSUME InferenceConstants, AskInv, NEW f \in wire, ClientIncident(f), rogues' = rogues
  PROVE  AskInv' /\ NotOrdinary
<1>1. PICK sg, hon, ts, T : sg = signed /\ hon = Protected /\ ts = f.x.targets /\ T = Hears(ask, ts, knows)
  OBVIOUS
<1>2. /\ f.k = "incident" /\ led' = [led EXCEPT ![Client] = led[Client] \cup ts] /\ AskBecomes(T)
      /\ UNCHANGED <<knows, seen>>
  BY <1>1 DEF ClientIncident
<1>3. TargetsOK(hon, ts)
  BY <1>1, <1>2, FrameIsSound DEF Sound
<1>4. AskOK(sg, hon, ask) /\ Armed(led[Client], ask) /\ TargetsOK(hon, led[Client])
  BY <1>1, ClientFacts
<1>5. AskOK(sg, hon, T) /\ Kept(ask, T) /\ Armed(led[Client] \cup ts, T)
  BY <1>1, <1>3, <1>4, HearsIsOK
<1>6. led'[Client] = led[Client] \cup ts
  BY <1>2, Places DEF AskInv, StateInv, LedInv
<1>7. Timely(T)
  BY <1>5 DEF Timely
<1> QED BY <1>1, <1>2, <1>3, <1>5, <1>6, <1>7, ClientFacts, AskBecomesOK

LEMMA DirectoryIsOK ==
  ASSUME InferenceConstants, AskInv, NEW f \in wire, _on_directory(f), rogues' = rogues
  PROVE  AskInv' /\ NotOrdinary
<1>1. PICK sg, hon, ts, B, l, all : /\ sg = signed /\ hon = Protected /\ ts = f.x.targets /\ all = Providers
                           /\ B = Hears(ask, ts, all) /\ l = led[Client] \cup ts
  OBVIOUS
<1>2. PICK T : T = IF B.waiting_dir /\ B.outcome = None THEN _submit_lockdown(B, l, all) ELSE B
  OBVIOUS
<1>3. /\ f.k = "dir" /\ led' = [led EXCEPT ![Client] = l] /\ AskBecomes(T)
      /\ knows' = Providers /\ UNCHANGED seen
  BY <1>1, <1>2, Zenon DEF _on_directory
<1>4. TargetsOK(hon, ts)
  BY <1>1, <1>3, FrameIsSound DEF Sound
<1>5. AskOK(sg, hon, ask) /\ Armed(led[Client], ask) /\ TargetsOK(hon, led[Client])
  BY <1>1, ClientFacts
<1>6. AskOK(sg, hon, B) /\ Kept(ask, B) /\ Armed(led[Client] \cup ts, B)
  BY <1>1, <1>4, <1>5, HearsIsOK
<1>7. TargetsOK(hon, l)
  BY <1>1, <1>4, <1>5 DEF TargetsOK
<1>8. AskOK(sg, hon, T) /\ Kept(B, T) /\ Armed(l, T)
  <2>1. CASE B.waiting_dir = TRUE /\ B.outcome = None
    <3>1. T = _submit_lockdown(B, l, all)
      BY <1>2, <2>1
    <3>2. B.begun = TRUE /\ B.tries =< MaxTries
      BY <1>6, <2>1 DEF AskOK
    <3>3. AskOK(sg, hon, T) /\ Kept(B, T) /\ T.begun = TRUE /\ \A m : Armed(m, T)
      BY <1>6, <1>7, <3>1, <3>2, LockdownIsOK
    <3> QED BY <3>3
  <2>2. CASE ~(B.waiting_dir = TRUE /\ B.outcome = None)
    <3>1. B.waiting_dir \in BOOLEAN
      BY <1>6 DEF AskOK
    <3>2. T = B
      BY <1>2, <2>2, <3>1
    <3> QED BY <1>1, <1>6, <3>2 DEF Kept
  <2> QED BY <2>1, <2>2
<1>9. led'[Client] = l
  BY <1>3, Places DEF AskInv, StateInv, LedInv
<1>10. Timely(T)
  BY <1>6, <1>8 DEF Timely, Kept
<1> QED BY <1>1, <1>3, <1>4, <1>8, <1>9, <1>10, ClientFacts, AskBecomesOK

LEMMA OnRefusedIsOK ==
  ASSUME InferenceConstants, AskInv, NEW f \in wire, _on_refused(f), rogues' = rogues
  PROVE  AskInv' /\ NotOrdinary
<1>1. PICK sg, hon, l, ts, x : sg = signed /\ hon = Protected /\ l = led[Client] /\ ts = {} /\ x = f.x
  OBVIOUS
<1>2. PICK w, u, A, B : /\ w = ask.awaiting \ {x.from} /\ A = [ask EXCEPT !.awaiting = w]
                        /\ u = A.unresponsive \cup {x.x.who}
                        /\ B = IF ask.mode = Lockdown /\ x.x.who # None THEN [A EXCEPT !.unresponsive = u] ELSE A
  OBVIOUS
<1>3. PICK T : T = IF x.x.why = "intercepted" THEN Finish(A, "intercepted", None)
                   ELSE IF x.x.why = "lockdown" /\ ask.mode # Lockdown THEN _submit_lockdown(A, l, knows)
                   ELSE IF A.awaiting # {} THEN A ELSE _submit(B, l, knows)
  OBVIOUS
<1>4. /\ f.k = "refused" /\ x.n = ask.live /\ AskBecomes(T) /\ UNCHANGED <<led, knows, seen>>
  BY <1>1, <1>2, <1>3, Zenon DEF _on_refused
<1>5. AskOK(sg, hon, ask) /\ Armed(l, ask) /\ TargetsOK(hon, l) /\ Quiet(sg, hon, ask.out)
  BY <1>1, ClientFacts
<1>6. ask.live # 0
  <2>1. Sound(signed, Protected, f) /\ IsReply(f)
    BY <1>4, FrameIsSound DEF IsReply
  <2>2. x.n \in Requests
    BY <1>1, <2>1, Zenon DEF Sound
  <2> QED BY <1>4, <2>2 DEF Requests, InferenceConstants
<1>7. ask.begun = TRUE /\ ask.awaiting \subseteq Servers /\ (ask.mode = Normal => ask.tries =< MaxTries)
  BY <1>5, <1>6 DEF AskOK
<1>8. /\ AskOK(sg, hon, A) /\ Kept(ask, A) /\ Armed(l, A) /\ A.begun = TRUE /\ A.tries = ask.tries
      /\ A.mode = ask.mode /\ A.out = ask.out
  <2>1. Hands(ask, w, A) /\ w \subseteq Servers
    BY <1>2, <1>7 DEF Hands
  <2>2. Near(ask, A) /\ A.out = ask.out /\ A.begun = ask.begun
    BY <1>5, <2>1, HandIsNear
  <2>3. AskOK(sg, hon, A) /\ Kept(ask, A) /\ \A m : Armed(m, ask) => Armed(m, A)
    BY <1>5, <2>2, NearIsOK
  <2> QED BY <1>5, <1>7, <2>2, <2>3 DEF Near
<1>9. AskOK(sg, hon, B) /\ Kept(A, B) /\ B.begun = TRUE
  <2>1. CASE B = A
    BY <1>8, <2>1 DEF Kept
  <2>2. CASE Blames(A, u, B)
    <3>1. Near(A, B) /\ B.out = A.out /\ B.begun = A.begun
      BY <1>8, <2>2, BlameIsNear
    <3>2. Quiet(sg, hon, A.out)
      BY <1>5, <1>8
    <3>3. AskOK(sg, hon, B) /\ Kept(A, B)
      BY <1>8, <3>1, <3>2, NearIsOK
    <3> QED BY <1>8, <3>1, <3>3
  <2> QED BY <1>2, <2>1, <2>2 DEF Blames
<1>10. AskOK(sg, hon, T) /\ Armed(l, T) /\ (Kept(A, T) \/ Kept(B, T))
  <2>1. CASE x.x.why = "intercepted"
    <3>1. PICK st, no : st = "intercepted" /\ Ends(A, st, no, T)
      BY <1>3, <2>1, Zenon DEF Ends
    <3>2. st # "accepted"
      BY <3>1
    <3>3. AskOK(sg, hon, T) /\ T.outcome.status = st /\ \A m : Armed(m, T)
      BY <1>8, <3>1, <3>2, FinishedIsOK
    <3> QED BY <3>1, <3>3 DEF Kept
  <2>2. CASE x.x.why # "intercepted" /\ x.x.why = "lockdown" /\ ask.mode # Lockdown
    <3>1. T = _submit_lockdown(A, l, knows)
      BY <1>3, <2>2
    <3>2. A.tries =< MaxTries
      BY <1>5, <1>7, <1>8, <2>2 DEF AskOK, Modes
    <3>3. AskOK(sg, hon, T) /\ Kept(A, T) /\ T.begun = TRUE /\ \A m : Armed(m, T)
      BY <1>5, <1>8, <3>1, <3>2, LockdownIsOK
    <3> QED BY <3>3
  <2>3. CASE x.x.why # "intercepted" /\ ~(x.x.why = "lockdown" /\ ask.mode # Lockdown) /\ A.awaiting # {}
    <3>1. T = A
      BY <1>3, <2>3
    <3> QED BY <1>8, <3>1 DEF Kept
  <2>4. CASE x.x.why # "intercepted" /\ ~(x.x.why = "lockdown" /\ ask.mode # Lockdown) /\ A.awaiting = {}
    <3>1. T = _submit(B, l, knows)
      BY <1>3, <2>4
    <3>2. AskOK(sg, hon, T) /\ Kept(B, T) /\ T.begun = TRUE /\ Armed(l, T)
      BY <1>5, <1>9, <3>1, SubmitIsOK
    <3> QED BY <3>2
  <2> QED BY <2>1, <2>2, <2>3, <2>4
<1>11. Timely(T)
  BY <1>8, <1>9, <1>10 DEF Timely, Kept
<1> QED BY <1>1, <1>4, <1>10, <1>11, ClientFacts, AskBecomesOK

(* What the client does with the answers of the request it waits for.       *)
Judges(l, known, v, from, answered, B) ==
  B = IF v.evidence # {} THEN Finish(ask, "intercepted", None)
      ELSE IF v.status \in {"accepted", "intercepted"} THEN Finish(ask, v.status, v.output)
      ELSE IF ask.mode = Lockdown
           THEN _submit([ask EXCEPT !.unresponsive = @ \cup (ask.pins \ answered)], l, known)
      ELSE LET C == [ask EXCEPT !.awaiting = @ \ {from}]
           IN IF from \notin ask.awaiting \/ C.awaiting # {} THEN C ELSE _submit(C, l, known)

ResultOK(sg, hon, l, v, B) ==
  /\ AskOK(sg, hon, B) /\ Armed(l, B) /\ (v.evidence # {} => \A m : Armed(m, B))
  /\ Kept(ask, B) \/ B.outcome.mode = ask.mode
LEMMA ResultIsOK ==
  ASSUME InferenceConstants, NEW sg, NEW hon, AskOK(sg, hon, ask), ask.live # 0,
         NEW l, TargetsOK(hon, l), Armed(l, ask), NEW known, NEW memory, NEW items, ItemsOK(sg, items, ask.live),
         NEW v, v = adjudicate(items, memory, l, ask.need), NEW from, NEW answered,
         NEW B, Judges(l, known, v, from, answered, B)
  PROVE  ResultOK(sg, hon, l, v, B)
<1> SUFFICES /\ AskOK(sg, hon, B) /\ Armed(l, B) /\ (v.evidence # {} => \A m : Armed(m, B))
             /\ Kept(ask, B) \/ B.outcome.mode = ask.mode
  BY DEF ResultOK
<1>1. PICK u, w, C, D : /\ u = ask.unresponsive \cup (ask.pins \ answered) /\ C = [ask EXCEPT !.unresponsive = u]
                        /\ w = ask.awaiting \ {from} /\ D = [ask EXCEPT !.awaiting = w]
  OBVIOUS
<1>2. \/ v.evidence # {} /\ B = Finish(ask, "intercepted", None)
      \/ v.evidence = {} /\ v.status = "intercepted" /\ B = Finish(ask, v.status, v.output)
      \/ v.evidence = {} /\ v.status = "accepted" /\ B = Finish(ask, v.status, v.output)
      \/ v.evidence = {} /\ B = _submit(C, l, known)
      \/ v.evidence = {} /\ B = D
      \/ v.evidence = {} /\ B = _submit(D, l, known)
  BY <1>1 DEF Judges
<1>3. /\ ask.begun = TRUE /\ ask.awaiting \subseteq Servers /\ Quiet(sg, hon, ask.out)
      /\ ask.need \in Nat /\ ask.need >= Quorum /\ (ask.mode = Lockdown => ask.need >= 2)
  BY DEF AskOK
<1>4. AskOK(sg, hon, C) /\ Kept(ask, C) /\ C.begun = TRUE
  <2>1. Blames(ask, u, C)
    BY <1>1 DEF Blames
  <2>2. Near(ask, C) /\ C.out = ask.out /\ C.begun = ask.begun
    BY <2>1, BlameIsNear
  <2> QED BY <1>3, <2>2, NearIsOK
<1>5. AskOK(sg, hon, D) /\ Kept(ask, D) /\ D.begun = TRUE /\ Armed(l, D)
  <2>1. Hands(ask, w, D) /\ w \subseteq Servers
    BY <1>1, <1>3 DEF Hands
  <2>2. Near(ask, D) /\ D.out = ask.out /\ D.begun = ask.begun
    BY <2>1, HandIsNear
  <2>3. AskOK(sg, hon, D) /\ Kept(ask, D) /\ \A m : Armed(m, ask) => Armed(m, D)
    BY <1>3, <2>2, NearIsOK
  <2> QED BY <1>3, <2>2, <2>3
<1>6. ASSUME NEW st, NEW out, B = Finish(ask, st, out), st # "accepted" \/ AgreedIn(sg, OutcomeOf(ask, st, out))
      PROVE  AskOK(sg, hon, B) /\ (\A m : Armed(m, B)) /\ B.outcome.mode = ask.mode
  <2>1. Ends(ask, st, out, B)
    BY <1>6 DEF Ends
  <2>2. /\ AskOK(sg, hon, B) /\ B.live = 0 /\ B.outcome.status = st /\ B.outcome.mode = ask.mode
        /\ B.out = ask.out /\ B.mode = ask.mode /\ B.begun = ask.begun /\ \A m : Armed(m, B)
    BY <1>6, <2>1, FinishedIsOK
  <2> QED BY <2>2
<1>7. CASE v.evidence # {} /\ B = Finish(ask, "intercepted", None)
  <2>1. PICK st, out : st = "intercepted" /\ B = Finish(ask, st, out)
    BY <1>7
  <2>2. st # "accepted"
    BY <2>1
  <2> QED BY <1>6, <2>1, <2>2
<1>8. CASE v.evidence = {} /\ v.status = "intercepted" /\ B = Finish(ask, v.status, v.output)
  <2>1. PICK st, out : st = v.status /\ B = Finish(ask, st, out)
    BY <1>8
  <2>2. st # "accepted"
    BY <1>8, <2>1
  <2> QED BY <1>6, <1>8, <2>1, <2>2
<1>9. CASE v.evidence = {} /\ v.status = "accepted" /\ B = Finish(ask, v.status, v.output)
  <2>1. PICK st, out, need, n : st = v.status /\ out = v.output /\ B = Finish(ask, st, out) /\ need = ask.need
                             /\ n = ask.live
    BY <1>9
  <2>2. Cardinality(SignersOf(sg, n, v.output)) >= need
    BY <1>3, <1>9, <2>1, AcceptedHasSigners
  <2>3. Cardinality(SignersOf(sg, n, out)) \in Nat
    <3>1. SignersOf(sg, n, out) \subseteq Providers
      BY DEF SignersOf
    <3>2. IsFiniteSet(SignersOf(sg, n, out))
      BY <3>1, FS_Subset DEF InferenceConstants
    <3> QED BY <3>2, FS_CardinalityType
  <2>4. PICK o : o = OutcomeOf(ask, st, out)
    OBVIOUS
  <2>6. o.n = n /\ o.output = out /\ o.mode = ask.mode
    BY <2>1, <2>4 DEF OutcomeOf
  <2>5. AgreedIn(sg, o)
    BY <1>3, <2>1, <2>2, <2>3, <2>6 DEF AgreedIn, InferenceConstants
  <2> QED BY <1>6, <1>9, <2>1, <2>4, <2>5
<1>10. CASE v.evidence = {} /\ B = _submit(C, l, known)
  <2>1. AskOK(sg, hon, B) /\ Kept(C, B) /\ B.begun = TRUE /\ Armed(l, B)
    BY <1>4, <1>10, SubmitIsOK
  <2> QED BY <1>4, <1>10, <2>1 DEF Kept
<1>11. CASE v.evidence = {} /\ B = D
  BY <1>5, <1>11
<1>12. CASE v.evidence = {} /\ B = _submit(D, l, known)
  <2>1. AskOK(sg, hon, B) /\ Kept(D, B) /\ B.begun = TRUE /\ Armed(l, B)
    BY <1>5, <1>12, SubmitIsOK
  <2> QED BY <1>5, <1>12, <2>1 DEF Kept
<1> QED BY <1>2, <1>7, <1>8, <1>9, <1>10, <1>11, <1>12

LEMMA OnResultIsOK ==
  ASSUME InferenceConstants, AskInv, NEW f \in wire, _on_result(f), rogues' = rogues
  PROVE  AskInv' /\ NotOrdinary
<1> DEFINE x == f.x
           items == x.x.items
           k == knows \cup {items[i].provider : i \in DOMAIN items}
           mine == ask.live = x.n /\ ask.outcome = None
           late == ask.late = x.n /\ ask.outcome # None
           v == adjudicate(items, seen, led[Client], ask.need)
           answered == {items[i].provider : i \in DOMAIN items}
           B == IF v.evidence # {} THEN Finish(ask, "intercepted", None)
             ELSE IF v.status \in {"accepted", "intercepted"} THEN Finish(ask, v.status, v.output)
             ELSE IF ask.mode = Lockdown
                  THEN _submit([ask EXCEPT !.unresponsive = @ \cup (ask.pins \ answered)], led[Client], k)
             ELSE LET C == [ask EXCEPT !.awaiting = @ \ {x.from}]
                  IN IF x.from \notin ask.awaiting \/ C.awaiting # {} THEN C ELSE _submit(C, led[Client], k)
           out == IF v.evidence # {} THEN Incident(Client, v.evidence) ELSE {}
<1>1. /\ f.k = "result" /\ knows' = k
      /\ IF mine \/ late
         THEN /\ seen' = seen \cup Remember(items, led[Client])
              /\ led' = [led EXCEPT ![Client] = @ \cup v.evidence]
              /\ AskBecomes([(IF mine THEN B ELSE ask) EXCEPT !.out = @ \cup out])
         ELSE UNCHANGED <<seen, led, ask, wire, pending, finished, served, signed, restarts>>
  BY Zenon DEF _on_result
<1>2. PICK sg, hon, is, n, l, kn, from, ans, need, memory :
        /\ sg = signed /\ hon = Protected /\ is = f.x.x.items /\ n = f.x.n /\ l = led[Client]
        /\ kn = knows \cup {is[i].provider : i \in DOMAIN is} /\ from = f.x.from
        /\ ans = {is[i].provider : i \in DOMAIN is} /\ need = ask.need /\ memory = seen
  OBVIOUS
<1>3. PICK w : w = adjudicate(is, memory, l, need)
  OBVIOUS
<1>4. PICK D : Judges(l, kn, w, from, ans, D) /\ D = IF w.evidence # {} THEN Finish(ask, "intercepted", None)
             ELSE IF w.status \in {"accepted", "intercepted"} THEN Finish(ask, w.status, w.output)
             ELSE IF ask.mode = Lockdown
                  THEN _submit([ask EXCEPT !.unresponsive = @ \cup (ask.pins \ ans)], l, kn)
             ELSE LET C == [ask EXCEPT !.awaiting = @ \ {from}]
                  IN IF from \notin ask.awaiting \/ C.awaiting # {} THEN C ELSE _submit(C, l, kn)
  BY Zenon DEF Judges
<1>5. PICK o : o = IF w.evidence # {} THEN Incident(Client, w.evidence) ELSE {}
  OBVIOUS
<1>6. /\ f.k = "result" /\ knows' = kn
      /\ \/ /\ \/ ask.live = n /\ ask.outcome = None /\ AskBecomes([D EXCEPT !.out = @ \cup o])
               \/ /\ ~(ask.live = n /\ ask.outcome = None) /\ ask.outcome # None
                  /\ AskBecomes([ask EXCEPT !.out = @ \cup o])
            /\ seen' = seen \cup Remember(is, l)
            /\ led' = [led EXCEPT ![Client] = led[Client] \cup w.evidence]
         \/ UNCHANGED <<seen, led, ask, wire, pending, finished, served, signed, restarts>>
  <2>1. x = f.x /\ items = is /\ k = kn /\ v = w /\ answered = ans
    BY <1>2, <1>3, Zenon
  <2>2. B = D
    BY <1>2, <1>4, <2>1, Zenon
  <2>3. out = o
    BY <1>5, <2>1, Zenon
  <2>4. mine <=> (ask.live = n /\ ask.outcome = None)
    BY <1>2
  <2>5. late => ask.outcome # None
    OBVIOUS
  <2> HIDE DEF items, k, mine, late, v, answered, B, out
  <2>6. CASE mine
    <3>1. AskBecomes([D EXCEPT !.out = @ \cup o])
      BY <1>1, <2>2, <2>3, <2>6, Zenon
    <3> QED BY <1>1, <1>2, <2>1, <2>4, <2>6, <3>1
  <2>7. CASE ~mine /\ late
    <3>1. AskBecomes([ask EXCEPT !.out = @ \cup o])
      BY <1>1, <2>3, <2>7, Zenon
    <3> QED BY <1>1, <1>2, <2>1, <2>4, <2>5, <2>7, <3>1
  <2>8. CASE ~mine /\ ~late
    BY <1>1, <2>1, <2>8
  <2> QED BY <2>6, <2>7, <2>8
<1> HIDE DEF x, items, k, mine, late, v, answered, B, out
<1>7. n \in Requests /\ ItemsOK(sg, is, n)
  BY <1>2, <1>6, FrameIsSound DEF Sound, IsReply
<1>8. /\ AskOK(sg, hon, ask) /\ Armed(l, ask) /\ TargetsOK(hon, l) /\ Quiet(sg, hon, ask.out)
      /\ memory \subseteq Item /\ \A r \in memory : vote(r) \in sg
  BY <1>2, ClientFacts
<1>9. knows' \subseteq Providers
  <2>1. \A i \in DOMAIN is : is[i].provider \in Providers
    <3>1. \A i \in DOMAIN is : is[i] \in Item
      BY <1>7 DEF ItemsOK
    <3>2. \A r \in Item : r.provider \in Providers
      BY DEF Item
    <3> QED BY <3>1, <3>2
  <2> QED BY <1>2, <1>6, <2>1, ClientFacts
<1>10. Remember(is, l) \subseteq Item /\ \A r \in Remember(is, l) : vote(r) \in sg
  BY <1>7, JudgedIsSigned DEF Remember
<1>11. TargetsOK(hon, w.evidence)
  <2>1. Setting(sg, hon)
    BY <1>2, SettingHolds
  <2>2. TargetsOK(hon, Evidence(is, memory, l))
    BY <1>7, <1>8, <2>1, EvidenceIsSound
  <2>3. w.evidence \subseteq Evidence(is, memory, l)
    BY <1>3, VerdictFacts
  <2> QED BY <2>2, <2>3 DEF TargetsOK
<1>12. Quiet(sg, hon, o)
  <2>1. \A g \in Incident(Client, w.evidence) : Sound(sg, hon, g) /\ ~IsReply(g)
    BY <1>11, IncidentIsSound
  <2> QED BY <1>5, <2>1 DEF Quiet
<1>13. CASE UNCHANGED <<seen, led, ask, wire, pending, finished, served, signed, restarts>>
  <2>1. PICK ts, none : ts = {} /\ none = {}
    OBVIOUS
  <2>2. TargetsOK(hon, ts) /\ led' = [led EXCEPT ![Client] = led[Client] \cup ts]
    BY <1>2, <1>13, <2>1, ClientFacts
  <2>3. seen' \subseteq Item /\ \A r \in seen' : vote(r) \in signed
    BY <1>2, <1>8, <1>13
  <2>4. AskOK(signed, Protected, ask') /\ Armed(led'[Client], ask')
    BY <1>2, <1>8, <1>13
  <2>5. Quiet(signed, Protected, none) /\ wire' = wire \cup none
    BY <1>13, <2>1 DEF Quiet
  <2>6. AskInv'
    BY <1>2, <1>9, <1>13, <2>2, <2>3, <2>4, <2>5, ClientMoves
  <2> QED BY <1>13, <2>6 DEF NotOrdinary
<1>14. ASSUME NEW E, AskOK(sg, hon, E), Armed(l \cup w.evidence, E), Timely(E),
              AskBecomes([E EXCEPT !.out = @ \cup o]), seen' = seen \cup Remember(is, l),
              led' = [led EXCEPT ![Client] = led[Client] \cup w.evidence]
       PROVE  AskInv' /\ NotOrdinary
  <2>1. PICK oo, T : oo = E.out \cup o /\ T = [E EXCEPT !.out = oo]
    OBVIOUS
  <2>2. AskBecomes(T)
    BY <1>14, <2>1, Zenon
  <2>3. Sends(E, oo, T)
    BY <2>1 DEF Sends
  <2>4. Near(E, T) /\ T.out = oo
    BY <1>14, <2>3, SendIsNear
  <2>5. Quiet(sg, hon, T.out)
    BY <1>12, <1>14, <2>1, <2>4 DEF Quiet, AskOK
  <2>6. AskOK(sg, hon, T) /\ \A m : Armed(m, E) => Armed(m, T)
    BY <1>14, <2>4, <2>5, NearIsOK
  <2>7. Timely(T)
    BY <1>14, <2>4 DEF Timely, Kept, Near
  <2>8. led'[Client] = l \cup w.evidence
    BY <1>2, <1>14, Places DEF AskInv, StateInv, LedInv
  <2>9. seen' \subseteq Item /\ \A r \in seen' : vote(r) \in signed
    BY <1>2, <1>8, <1>10, <1>14
  <2>10. Armed(led'[Client], T)
    BY <1>14, <2>6, <2>8
  <2>11. PICK ts : ts = w.evidence
    OBVIOUS
  <2>12. TargetsOK(Protected, ts) /\ led' = [led EXCEPT ![Client] = led[Client] \cup ts]
    BY <1>2, <1>11, <1>14, <2>11
  <2> QED BY <1>2, <1>9, <2>2, <2>6, <2>7, <2>9, <2>10, <2>12, AskBecomesOK
<1>15. CASE /\ ask.live = n /\ ask.outcome = None /\ AskBecomes([D EXCEPT !.out = @ \cup o])
            /\ seen' = seen \cup Remember(is, l)
            /\ led' = [led EXCEPT ![Client] = led[Client] \cup w.evidence]
  <2>1. ask.live # 0 /\ ItemsOK(sg, is, ask.live)
    BY <1>7, <1>15 DEF Requests
  <2>2. w = adjudicate(is, memory, l, ask.need)
    BY <1>2, <1>3
  <2>3. /\ AskOK(sg, hon, D) /\ Armed(l, D) /\ (w.evidence # {} => \A m : Armed(m, D))
        /\ Kept(ask, D) \/ D.outcome.mode = ask.mode
    <3>1. Judges(l, kn, w, from, ans, D)
      BY <1>4
    <3>2. AskOK(sg, hon, ask) /\ Armed(l, ask) /\ TargetsOK(hon, l)
      BY <1>8
    <3>3. ResultOK(sg, hon, l, w, D)
      BY <2>1, <2>2, <3>1, <3>2, ResultIsOK
    <3> QED BY <3>3 DEF ResultOK
  <2>4. Armed(l \cup w.evidence, D)
    <3>1. CASE w.evidence = {}
      <4>1. l \cup w.evidence = l
        BY <3>1
      <4> QED BY <2>3, <4>1
    <3>2. CASE w.evidence # {}
      BY <2>3, <3>2
    <3> QED BY <3>1, <3>2
  <2>5. Timely(D)
    BY <1>2, <1>8, <1>15, <2>1, <2>3 DEF Timely, Armed
  <2> QED BY <1>14, <1>15, <2>3, <2>4, <2>5
<1>16. CASE /\ ask.outcome # None /\ AskBecomes([ask EXCEPT !.out = @ \cup o])
            /\ seen' = seen \cup Remember(is, l)
            /\ led' = [led EXCEPT ![Client] = led[Client] \cup w.evidence]
  <2>1. Armed(l \cup w.evidence, ask) /\ Timely(ask)
    BY <1>16 DEF Armed, Timely, Kept
  <2> QED BY <1>8, <1>14, <1>16, <2>1
<1> QED BY <1>6, <1>13, <1>15, <1>16

LEMMA AskInvInit ==
  ASSUME InferenceConstants, AskInit
  PROVE  AskInv
<1>1. PICK sg, hon : sg = signed /\ hon = Protected
  OBVIOUS
<1>2. /\ rogues \subseteq Providers /\ restarts = 0 /\ signed = {} /\ wire = {} /\ seen = {} /\ knows = {}
      /\ led = [m \in Everyone |-> {}] /\ pending = [s \in Servers |-> [n \in Requests |-> None]]
      /\ finished = [s \in Servers |-> [n \in Requests |-> NoReply]]
      /\ served = [p \in Providers |-> [n \in Requests |-> None]]
  BY DEF AskInit
<1>3. AnswersInv
  BY <1>2 DEF AnswersInv
<1>4. LedInv(hon)
  BY <1>2 DEF LedInv, TargetsOK
<1>5. ServersInv(sg, hon)
  <2>1. ASSUME NEW s \in Servers PROVE HandlerOK(sg, hon, finished[s], s, ServerState(s))
    <3>1. PICK S : S = ServerState(s)
      OBVIOUS
    <3>2. S = [led |-> led[s], pending |-> pending[s], finished |-> finished[s], out |-> {}, again |-> FALSE]
      BY <3>1 DEF ServerState
    <3>3. /\ S.led = led[s] /\ S.pending = pending[s] /\ S.finished = finished[s] /\ S.out = {} /\ S.again = FALSE
      BY <3>2
    <3>4. /\ S.pending = [n \in Requests |-> S.pending[n]] /\ S.finished = [n \in Requests |-> S.finished[n]]
          /\ \A n \in Requests : S.pending[n] = None /\ S.finished[n] = NoReply
      BY <1>2, <3>3
    <3>5. \A n \in Requests : ReplyOK(sg, NoReply, n)
      BY DEF ReplyOK, NoReply
    <3>6. TargetsOK(hon, S.led)
      BY <1>4, <3>3, Places DEF LedInv
    <3>7. HandlerOK(sg, hon, finished[s], s, S)
      BY <3>2, <3>3, <3>4, <3>5, <3>6 DEF HandlerOK
    <3> QED BY <3>1, <3>7
  <2> QED BY <1>2, <2>1 DEF ServersInv
<1>6. WireInv(sg, hon)
  BY <1>2 DEF WireInv
<1>7. AskOK(sg, hon, ask) /\ ask.live = 0
  <2>1. ask = [quorum |-> Quorum, begun |-> FALSE, tries |-> 0, mode |-> Normal, live |-> 0, late |-> 0,
            need |-> Quorum, pins |-> {}, tried |-> {}, forwarder |-> None, awaiting |-> {},
            unresponsive |-> {}, waiting_dir |-> FALSE, outcome |-> None, out |-> {}]
    BY DEF AskInit
  <2>2. /\ ask.quorum = Quorum /\ ask.begun = FALSE /\ ask.tries = 0 /\ ask.mode = Normal /\ ask.live = 0
        /\ ask.need = Quorum /\ ask.awaiting = {} /\ ask.waiting_dir = FALSE /\ ask.outcome = None /\ ask.out = {}
        /\ ask.late = 0 /\ ask.pins = {} /\ ask.tried = {} /\ ask.forwarder = None /\ ask.unresponsive = {}
    BY <2>1
  <2>3. AskRecord(ask)
    BY <2>1, <2>2 DEF AskRecord
  <2>4. ask.tries \in 0..(MaxTries + 1) /\ ask.live \in 0..ask.tries /\ ask.tries =< MaxTries
    BY <2>2 DEF InferenceConstants
  <2>5. Quiet(sg, hon, ask.out)
    BY <2>2 DEF Quiet
  <2> QED BY <2>2, <2>3, <2>4, <2>5 DEF AskOK, InferenceConstants, Modes
<1>8. ClientInv(sg, hon)
  BY <1>2, <1>7 DEF ClientInv, Armed
<1> QED BY <1>1, <1>2, <1>3, <1>4, <1>5, <1>6, <1>8 DEF AskInv, StateInv

LEMMA AskInvNext ==
  ASSUME InferenceConstants, AskInv, [AskNext]_askVars
  PROVE  AskInv' /\ NotOrdinary
<1>1. CASE UNCHANGED askVars
  <2>1. AskInv'
    <3>1. PICK none : none = {}
      OBVIOUS
    <3>2. Quiet(signed, Protected, none) /\ wire' = wire \cup none
      BY <1>1, <3>1 DEF askVars, Quiet
    <3> QED BY <1>1, <3>2, WireGrows DEF askVars
  <2> QED BY <1>1, <2>1 DEF askVars, NotOrdinary
<1>2. CASE AskNext /\ (Ask \/ ClientTick)
  BY <1>2, AskStepIsOK, ClientTickIsOK DEF AskNext
<1>3. ASSUME rogues' = rogues, NEW f \in wire, _on_result(f) \/ _on_refused(f) \/ ClientIncident(f) \/ _on_directory(f)
      PROVE  AskInv' /\ NotOrdinary
  BY <1>3, OnResultIsOK, OnRefusedIsOK, ClientIncidentIsOK, DirectoryIsOK
<1>4. ASSUME rogues' = rogues, NEW f \in wire, NEW gone, _on_submit(f, gone) \/ collect(f, gone) \/ leg_failed(f, gone)
      PROVE  AskInv' /\ ask' = ask
  <2>1. AskInv'
    BY <1>4, OnSubmitIsOK, CollectIsOK, LegFailedIsOK
  <2>2. ask' = ask
    BY <1>4 DEF _on_submit, collect, leg_failed, Becomes
  <2> QED BY <2>1, <2>2
<1>5. ASSUME rogues' = rogues, NEW f \in wire,
             ServerIncident(f) \/ Forward(f) \/ Return(f) \/ serve(f) \/ SelfReport(f) \/ Misanswer(f) \/ Learn(f)
             \/ _on_directory_query(f)
      PROVE  AskInv' /\ ask' = ask
  <2>1. AskInv'
    BY <1>5, ServerIncidentIsOK, ForwardIsOK, ReturnIsOK, ServeIsOK, SelfReportIsOK, MisanswerIsOK, LearnIsOK,
       DirectoryQueryIsOK
  <2>2. ask' = ask
    BY <1>5, Zenon DEF ServerIncident, Becomes, Forward, Return, serve, SelfReport, Misanswer, Learn,
                       _on_directory_query, Carries
  <2> QED BY <2>1, <2>2
<1>6. ASSUME rogues' = rogues, NEW s \in Servers, NEW n \in Requests, NEW gone, ServerTick(s, n, gone)
      PROVE  AskInv' /\ ask' = ask
  BY <1>6, ServerTickIsOK DEF ServerTick, Becomes
<1>7. ASSUME rogues' = rogues, NEW p \in Providers, Restart(p)
      PROVE  AskInv' /\ ask' = ask
  BY <1>7, RestartIsOK DEF Restart
<1>8. ASSUME rogues' = rogues, Hello
      PROVE  AskInv' /\ ask' = ask
  BY <1>8, HelloIsOK DEF Hello
<1>9. ask' = ask => NotOrdinary
  BY DEF NotOrdinary
<1>10. CASE AskNext /\ ~(Ask \/ ClientTick)
  <2>1. /\ rogues' = rogues
        /\ \/ Hello
           \/ \E f \in wire :
                \/ \E gone \in SUBSET MayExclude : _on_submit(f, gone) \/ collect(f, gone) \/ leg_failed(f, gone)
                \/ ServerIncident(f) \/ Forward(f) \/ Return(f) \/ serve(f) \/ SelfReport(f) \/ Misanswer(f) \/ Learn(f)
                \/ _on_result(f) \/ _on_refused(f) \/ ClientIncident(f) \/ _on_directory_query(f) \/ _on_directory(f)
           \/ \E s \in Servers, n \in Requests, gone \in SUBSET MayExclude : ServerTick(s, n, gone)
           \/ \E p \in Providers : Restart(p)
    BY <1>10, Zenon DEF AskNext
  <2>2. CASE Hello
    BY <1>8, <1>9, <2>1, <2>2
  <2>3. ASSUME NEW f \in wire,
                \/ \E gone \in SUBSET MayExclude : _on_submit(f, gone) \/ collect(f, gone) \/ leg_failed(f, gone)
                \/ ServerIncident(f) \/ Forward(f) \/ Return(f) \/ serve(f) \/ SelfReport(f) \/ Misanswer(f) \/ Learn(f)
                \/ _on_result(f) \/ _on_refused(f) \/ ClientIncident(f) \/ _on_directory_query(f) \/ _on_directory(f)
        PROVE  AskInv' /\ NotOrdinary
    BY <1>3, <1>4, <1>5, <1>9, <2>1, <2>3, Zenon
  <2>4. ASSUME NEW s \in Servers, NEW n \in Requests, NEW gone \in SUBSET MayExclude, ServerTick(s, n, gone)
        PROVE  AskInv' /\ NotOrdinary
    BY <1>6, <1>9, <2>1, <2>4
  <2>5. ASSUME NEW p \in Providers, Restart(p)
        PROVE  AskInv' /\ NotOrdinary
    BY <1>7, <1>9, <2>1, <2>5
  <2> QED BY <2>1, <2>2, <2>3, <2>4, <2>5, Zenon
<1> QED BY <1>1, <1>2, <1>10

LEMMA AskInvGives ==
  ASSUME InferenceConstants, AskInv
  PROVE  AskTypeOK /\ AcceptedIsAgreed /\ HonestIsNotConvicted
<1>1. /\ LedInv(Protected) /\ ServersInv(signed, Protected) /\ WireInv(signed, Protected)
      /\ ClientInv(signed, Protected) /\ rogues \subseteq Providers
  BY DEF AskInv, StateInv
<1>2. AskTypeOK
  <2>1. \A m \in Everyone : \A t \in led[m] : t[1] \in Tags
    BY <1>1 DEF LedInv, TargetsOK
  <2>2. ASSUME NEW s \in Servers, NEW n \in Requests, pending[s][n] # None
        PROVE  pending[s][n].attempt < MaxAttempts /\ pending[s][n].open # {}
    <3>1. PendingOK(signed, pending[s][n], n)
      BY <2>2, WaitingFacts
    <3>2. pending[s][n].open # {}
      BY <1>1, <2>2 DEF ServersInv
    <3> QED BY <3>1, <3>2 DEF PendingOK, InferenceConstants
  <2>3. ask.tries \in Requests \cup {0} /\ ask.live \in 0..ask.tries /\ ask.awaiting \subseteq Servers
    BY <1>1 DEF ClientInv, AskOK, Requests, InferenceConstants
  <2> QED BY <1>1, <2>1, <2>2, <2>3 DEF AskTypeOK, ClientInv
<1>3. AcceptedIsAgreed
  <2>1. \A n, o : Signers(n, o) = SignersOf(signed, n, o)
    BY DEF Signers, SignersOf
  <2>2. ask.outcome # None => (ask.outcome.status = "accepted" => Agreed(ask.outcome))
    BY <1>1, <2>1 DEF ClientInv, AskOK, AgreedIn, Agreed, LockdownQuorum
  <2>3. ASSUME NEW f \in wire, NEW g \in wire, IsReply(f), IsReply(g), f.x.from = g.x.from, f.x.n = g.x.n
        PROVE  f = g
    <3>1. /\ Sound(signed, Protected, f) /\ Matches(f, f.x.from, finished[f.x.from])
          /\ Sound(signed, Protected, g) /\ Matches(g, g.x.from, finished[g.x.from])
      BY <1>1, <2>3 DEF WireInv
    <3>2. f.k = g.k /\ f.x.x = g.x.x
      BY <2>3, <3>1 DEF Matches
    <3>3. /\ f = frame(Client, f.k, [from |-> f.x.from, n |-> f.x.n, x |-> f.x.x])
          /\ g = frame(Client, g.k, [from |-> g.x.from, n |-> g.x.n, x |-> g.x.x])
      BY <2>3, <3>1 DEF Sound
    <3> QED BY <2>3, <3>2, <3>3
  <2>4. OneReply
    BY <2>3 DEF OneReply, IsReply
  <2> QED BY <2>2, <2>4 DEF AcceptedIsAgreed
<1>4. HonestIsNotConvicted
  <2>1. SUFFICES ASSUME restarts = 0, NEW m \in DOMAIN led, NEW p \in Providers \ rogues
                 PROVE  target_node(p) \notin led[m]
    BY DEF HonestIsNotConvicted
  <2>2. m \in Everyone
    BY <1>1 DEF LedInv
  <2>3. target_node(p) \in Protected
    BY <2>1 DEF Protected
  <2> QED BY <1>1, <2>2, <2>3 DEF LedInv, TargetsOK
<1> QED BY <1>2, <1>3, <1>4

(* In every run of a request the servers, the frames and the client are as  *)
(* AskInv describes them.                                                   *)
THEOREM AskHolds == AskSpec => []AskInv
<1>1. AskInit => AskInv
  BY InferenceConstants, AskInvInit
<1>2. AskInv /\ [AskNext]_askVars => AskInv'
  BY InferenceConstants, AskInvNext
<1> QED BY <1>1, <1>2, PTL DEF AskSpec

(* Every variable of a request keeps its type, and a request a server keeps *)
(* has a leg still open (MeshNode._decide, collect, leg_failed).            *)
THEOREM AskTypeCorrect == AskSpec => []AskTypeOK
<1>1. AskInv => AskTypeOK
  BY InferenceConstants, AskInvGives
<1> QED BY <1>1, AskHolds, PTL

(* An answer the client accepts was signed, for that request, by as many    *)
(* different model nodes as the user asked for, two at least in lockdown,   *)
(* and a server gives one reply to a request - whatever is late, repeated,  *)
(* reordered or lost (SafetyLayer.adjudicate, MeshNode._finish).            *)
THEOREM AcceptedAnswersAreAgreed == AskSpec => []AcceptedIsAgreed
<1>1. AskInv => AcceptedIsAgreed
  BY InferenceConstants, AskInvGives
<1> QED BY <1>1, AskHolds, PTL

(* No member latches a model node that answers honestly, as long as none is *)
(* restarted (MeshNode.serve, SafetyLayer.inspect).                         *)
THEOREM HonestNodesAreNotConvicted == AskSpec => []HonestIsNotConvicted
<1>1. AskInv => HonestIsNotConvicted
  BY InferenceConstants, AskInvGives
<1> QED BY <1>1, AskHolds, PTL

(* A client that knows of a mutiny accepts no answer to an ordinary request *)
(* (UserClient.on_incident, _on_result).                                    *)
THEOREM NoOrdinaryAnswer == AskSpec => NoOrdinaryAnswerInLockdown
<1>1. AskInv /\ [AskNext]_askVars => [NotOrdinary]_askVars
  BY InferenceConstants, AskInvNext
<1> QED BY <1>1, AskHolds, PTL DEF AskSpec, NoOrdinaryAnswerInLockdown

=============================================================================
