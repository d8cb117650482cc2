------------------------- MODULE TrustPolicyProofs --------------------------
(* Proofs about TrustPolicy, for every value of its constants. *)
EXTENDS TrustPolicy, FiniteSetTheorems, TLAPS

-----------------------------------------------------------------------------
(* Types *)

LEMMA FileTypes ==
    ASSUME NEW f \in StoreFile, NEW o \in Obj, NEW how
    PROVE  Appended(f, o) \in StoreFile /\ CutOff(f, o, how) \in StoreFile
BY DEF StoreFile, Appended, CutOff

LEMMA LoadType ==
    ASSUME PolicyTypeOK, NEW s \in Store
    PROVE  load(s) \subseteq Obj
BY DEF PolicyTypeOK, load, StoreFile

LEMMA FreshType ==
    ASSUME TrustConstants, NEW p \in Process, NEW S \in SUBSET Obj
    PROVE  /\ {IdOf[o] : o \in Fresh(p, S)} \subseteq Id
           /\ UNION {Revokes[o] : o \in Fresh(p, S)} \subseteq Did
BY DEF TrustConstants, Fresh, Id

LEMMA RememberType ==
    ASSUME TrustConstants, PolicyTypeOK, NEW p \in Process, NEW S \in SUBSET Obj, Remember(p, S)
    PROVE  /\ known' \in [Process -> SUBSET Id]
           /\ revoked' \in [Process -> SUBSET Did]
           /\ refused' \in [Process -> SUBSET Did]
BY FreshType DEF PolicyTypeOK, Remember

LEMMA NotifyType ==
    ASSUME PolicyTypeOK, NEW p \in Process, NEW new, Notify(p, new)
    PROVE  /\ told' \in [Process -> [Did -> Nat]]
           /\ life' \in [Process -> {"down", "loaded", "checked", "running", "halted"}]
           /\ slipped' \subseteq Process
<1>1. CASE p \in subscribed
  <2>1. [d \in Did |-> told[p][d] + (IF d \in new THEN 1 ELSE 0)] \in [Did -> Nat]
    BY DEF PolicyTypeOK
  <2> QED BY <1>1, <2>1 DEF PolicyTypeOK, Notify
<1>2. CASE p \notin subscribed
  BY <1>2 DEF PolicyTypeOK, Notify, Untold
<1> QED BY <1>1, <1>2

LEMMA ApplyType ==
    ASSUME TrustConstants, PolicyTypeOK, NEW p \in Process, NEW o \in Obj, NEW consumed,
           apply(p, o, consumed)
    PROVE  PolicyTypeOK'
<1>1. known' \in [Process -> SUBSET Id] /\ revoked' \in [Process -> SUBSET Did]
      /\ refused' \in [Process -> SUBSET Did]
  BY RememberType DEF apply
<1>2. told' \in [Process -> [Did -> Nat]]
      /\ life' \in [Process -> {"down", "loaded", "checked", "running", "halted"}]
      /\ slipped' \subseteq Process
  BY NotifyType DEF apply, Untold, PolicyTypeOK
<1>3. Flood(p, o) \subseteq [to : Process, obj : Obj]
  BY DEF Flood, TrustConstants
<1>4. net' \subseteq [to : Process, obj : Obj]
  BY <1>3 DEF apply, PolicyTypeOK
<1>5. faults' \in 0 .. MaxFault
  BY DEF apply, PolicyTypeOK, TrustConstants
<1>6. file' \in [Store -> StoreFile]
  <2>1. CASE file' = file
    BY <2>1 DEF PolicyTypeOK
  <2>2. CASE file' # file
    <3> DEFINE f == file[StoreOf[p]]
    <3>1. StoreOf[p] \in Store /\ f \in StoreFile
      BY <2>2 DEF apply, TrustConstants, PolicyTypeOK
    <3>2. \/ file' = [file EXCEPT ![StoreOf[p]] = Appended(f, o)]
          \/ \E how : file' = [file EXCEPT ![StoreOf[p]] = CutOff(f, o, how)]
      BY <2>2 DEF apply
    <3>3. Appended(f, o) \in StoreFile /\ \A how : CutOff(f, o, how) \in StoreFile
      BY <3>1, FileTypes
    <3> HIDE DEF f
    <3> QED BY SMTT(30), <3>1, <3>2, <3>3 DEF PolicyTypeOK
  <2> QED BY <2>1, <2>2
<1>7. UNCHANGED <<seen, reading, subscribed>>
  BY DEF apply
<1> QED BY <1>1, <1>2, <1>4, <1>5, <1>6, <1>7 DEF PolicyTypeOK

\* Every variable keeps its type.
THEOREM TypeCorrect == PolicySpec => []PolicyTypeOK
<1> USE TrustConstants
<1>1. PolicyInit => PolicyTypeOK
  BY DEF PolicyInit, PolicyTypeOK, StoreFile, TrustConstants
<1>2. PolicyTypeOK /\ [PolicyNext]_policyVars => PolicyTypeOK'
  <2> SUFFICES ASSUME PolicyTypeOK, [PolicyNext]_policyVars PROVE PolicyTypeOK'
    OBVIOUS
  <2>1. ASSUME NEW p \in Process, StartPolicy(p) PROVE PolicyTypeOK'
    <3> DEFINE S == IF StoreOf[p] = NoStore THEN {} ELSE {o \in load(StoreOf[p]) : Verifies(o)}
               ds == UNION {Revokes[o] : o \in S}
    <3>1. S \subseteq Obj
      <4>1. StoreOf[p] # NoStore => load(StoreOf[p]) \subseteq Obj
        BY LoadType DEF TrustConstants
      <4> QED BY <4>1
    <3>2. ds \subseteq Did /\ {IdOf[o] : o \in S} \subseteq Id
      <4> HIDE DEF S
      <4> QED BY <3>1 DEF TrustConstants, Id
    <3>3. (IF StoreOf[p] = NoStore THEN 0 ELSE file[StoreOf[p]].writes) \in Nat
      BY DEF TrustConstants, PolicyTypeOK, StoreFile
    <3>4. known' = [known EXCEPT ![p] = {IdOf[o] : o \in S}] /\ revoked' = [revoked EXCEPT ![p] = ds]
          /\ refused' = [refused EXCEPT ![p] = @ \cup ds]
      BY <2>1 DEF StartPolicy
    <3> HIDE DEF ds, S
    <3>5. known' \in [Process -> SUBSET Id] /\ revoked' \in [Process -> SUBSET Did]
          /\ refused' \in [Process -> SUBSET Did]
      BY <3>2, <3>4 DEF PolicyTypeOK
    <3>6. life' \in [Process -> {"down", "loaded", "checked", "running", "halted"}]
          /\ seen' \in [Process -> Nat] /\ told' \in [Process -> [Did -> Nat]]
      BY <2>1, <3>3 DEF PolicyTypeOK, StartPolicy
    <3>7. reading' \subseteq Process \X Ticker /\ subscribed' \subseteq Process
          /\ slipped' \subseteq Process
          /\ UNCHANGED <<file, net, faults>>
      BY <2>1 DEF PolicyTypeOK, StartPolicy
    <3> QED BY <3>5, <3>6, <3>7 DEF PolicyTypeOK
  <2>2. ASSUME NEW p \in Process, CheckSelf(p) \/ on_change(p) PROVE PolicyTypeOK'
    BY <2>2 DEF PolicyTypeOK, CheckSelf, on_change
  <2>2a. ASSUME NEW p \in Process, Crash(p) PROVE PolicyTypeOK'
    <3>1. told' \in [Process -> [Did -> Nat]]
      BY <2>2a DEF PolicyTypeOK, Crash
    <3> QED BY <2>2a, <3>1 DEF PolicyTypeOK, Crash
  <2>3. ASSUME NEW p \in Process, NEW t \in Ticker, refresh_stat(p, t) PROVE PolicyTypeOK'
    <3>1. file[StoreOf[p]].writes \in Nat
      BY <2>3 DEF refresh_stat, Ticking, PolicyTypeOK, StoreFile, TrustConstants
    <3> QED BY <2>3, <3>1 DEF PolicyTypeOK, refresh_stat
  <2>4. ASSUME NEW p \in Process, NEW t \in Ticker, refresh_load(p, t) PROVE PolicyTypeOK'
    <3>1. StoreOf[p] \in Store
      BY <2>4 DEF refresh_load, Ticking, TrustConstants
    <3>2. load(StoreOf[p]) \subseteq Obj
      BY <3>1, LoadType
    <3> QED BY <2>4, <3>2, RememberType, NotifyType DEF PolicyTypeOK, refresh_load
  <2>5. ASSUME NEW p \in Process, NEW t \in Ticker, refresh_raises(p, t) PROVE PolicyTypeOK'
    BY <2>5 DEF PolicyTypeOK, refresh_raises, TrustConstants
  <2>6. ASSUME NEW p \in Process, NEW o \in Obj, announce(p, o) PROVE PolicyTypeOK'
    BY <2>6, ApplyType DEF announce
  <2>7. ASSUME NEW msg \in net, _on_frame(msg) PROVE PolicyTypeOK'
    BY <2>7, ApplyType DEF _on_frame, PolicyTypeOK
  <2>8. ASSUME NEW msg \in net, Lose(msg) PROVE PolicyTypeOK'
    BY <2>8 DEF Lose, PolicyTypeOK
  <2>9. ASSUME NEW s \in Store, NEW o \in Obj, _revoke_apply(s, o) \/ Tamper(s, o) PROVE PolicyTypeOK'
    <3>1. file' \in [Store -> StoreFile]
      <4> DEFINE f == file[s]
      <4>1. f \in StoreFile
        BY DEF PolicyTypeOK
      <4>2. \/ file' = [file EXCEPT ![s] = Appended(f, o)]
            \/ \E how : file' = [file EXCEPT ![s] = CutOff(f, o, how)]
        BY <2>9 DEF _revoke_apply, Tamper
      <4>3. Appended(f, o) \in StoreFile /\ \A how : CutOff(f, o, how) \in StoreFile
        BY <4>1, FileTypes
      <4> HIDE DEF f
      <4> QED BY <4>2, <4>3 DEF PolicyTypeOK
    <3> QED BY <2>9, <3>1 DEF _revoke_apply, Tamper, PolicyTypeOK, TrustConstants
  <2>10. CASE UNCHANGED policyVars
    BY <2>10 DEF policyVars, PolicyTypeOK
  <2> QED BY <2>1, <2>2, <2>2a, <2>3, <2>4, <2>5, <2>6, <2>7, <2>8, <2>9, <2>10
          DEF PolicyNext, Startup, Refresher
<1> QED BY <1>1, <1>2, PTL DEF PolicySpec

-----------------------------------------------------------------------------
(* What a step does to the memory of a policy *)

\* Process p merges the records S; told and life stay when a failed append made
\* apply raise.
Merges(p, S) ==
    /\ p \in Gossips \/ life[p] = "running" \/ p \in EarlyTicker
    /\ Remember(p, S)
    /\ Notify(p, Newly(p, S)) \/ (p \in Gossips /\ Untold(p, Newly(p, S)))
    /\ UNCHANGED subscribed

LEMMA StepKinds ==
    ASSUME TrustConstants, PolicyTypeOK, [PolicyNext]_policyVars
    PROVE  \/ \E p \in Process, S \in SUBSET Obj : Merges(p, S)
           \/ \E p \in Process : StartPolicy(p) \/ CheckSelf(p) \/ on_change(p) \/ Crash(p)
           \/ UNCHANGED <<life, known, revoked, subscribed, told, refused, slipped>>
<1>1. ASSUME NEW p \in Process, NEW t \in Ticker, refresh_load(p, t)
      PROVE  \E S \in SUBSET Obj : Merges(p, S)
  <2>1. StoreOf[p] \in Store
    BY <1>1 DEF refresh_load, Ticking, TrustConstants
  <2>2. load(StoreOf[p]) \subseteq Obj
    BY <2>1, LoadType
  <2>3. Merges(p, load(StoreOf[p]))
    BY <1>1 DEF refresh_load, Merges, Ticking
  <2> QED BY <2>2, <2>3
<1>2. ASSUME NEW p \in Process, NEW o \in Obj, NEW consumed, p \in Gossips, apply(p, o, consumed)
      PROVE  Merges(p, {o})
  BY <1>2 DEF apply, Merges
<1>3. ASSUME NEW p \in Process, NEW o \in Obj, announce(p, o)
      PROVE  Merges(p, {o})
  BY <1>2, <1>3 DEF announce
<1>4. ASSUME NEW msg \in net, _on_frame(msg)
      PROVE  \E p \in Process, S \in SUBSET Obj : Merges(p, S)
  <2>1. msg.to \in Process /\ msg.obj \in Obj
    BY DEF PolicyTypeOK
  <2>2. Merges(msg.to, {msg.obj})
    BY <1>2, <1>4, <2>1 DEF _on_frame, Listening
  <2> QED BY <2>1, <2>2
<1>5. ASSUME NEW p \in Process, NEW t \in Ticker, refresh_stat(p, t) \/ refresh_raises(p, t)
      PROVE  UNCHANGED <<life, known, revoked, subscribed, told, refused, slipped>>
  BY <1>5 DEF refresh_stat, refresh_raises
<1>6. ASSUME NEW msg \in net, Lose(msg)
      PROVE  UNCHANGED <<life, known, revoked, subscribed, told, refused, slipped>>
  BY <1>6 DEF Lose
<1>7. ASSUME NEW s \in Store, NEW o \in Obj, _revoke_apply(s, o) \/ Tamper(s, o)
      PROVE  UNCHANGED <<life, known, revoked, subscribed, told, refused, slipped>>
  BY <1>7 DEF _revoke_apply, Tamper
<1>8. CASE UNCHANGED policyVars
  BY <1>8 DEF policyVars
<1> QED BY <1>1, <1>3, <1>4, <1>5, <1>6, <1>7, <1>8 DEF PolicyNext, Startup, Refresher

-----------------------------------------------------------------------------
(* Only a threshold of masters revokes *)

Justified(d) == \E o \in Obj : Verifies(o) /\ d \in Revokes[o]

\* A finite set has a subset of every smaller size.
LEMMA SubsetOfSize ==
    ASSUME NEW S, IsFiniteSet(S), NEW k \in 1 .. Cardinality(S)
    PROVE  \E T \in SUBSET S : Cardinality(T) = k
<1> DEFINE n == Cardinality(S)
<1>1. n \in Nat /\ ExistsBijection(1 .. n, S)
  BY FS_CardinalityType
<1>2. PICK f : f \in Bijection(1 .. n, S)
  BY <1>1 DEF ExistsBijection
<1> DEFINE T == {f[i] : i \in 1 .. k}
           g == [i \in 1 .. k |-> f[i]]
<1>3. T \in SUBSET S
  BY <1>1, <1>2 DEF Bijection, Injection, Surjection
<1>4. g \in Bijection(1 .. k, T)
  <2>1. g \in [1 .. k -> T] /\ \A i, j \in 1 .. k : g[i] = g[j] => i = j
    BY <1>1, <1>2 DEF Bijection, Injection, Surjection, IsInjective
  <2>2. \A t \in T : \E i \in 1 .. k : g[i] = t
    OBVIOUS
  <2> QED BY <2>1, <2>2 DEF Bijection, Injection, Surjection, IsInjective
<1>5. Cardinality(T) = k
  BY <1>4, FS_CountingElements DEF ExistsBijection
<1> QED BY <1>3, <1>5

LEMMA SignersOf ==
    ASSUME TrustConstants, NEW o \in Obj, Verifies(o)
    PROVE  \E M \in SUBSET Master :
              /\ Cardinality(M) = Threshold
              /\ \A m \in M : \E i \in DOMAIN Sigs[o] : Sigs[o][i] = m
<1> DEFINE A == {m \in Master : \E i \in DOMAIN Sigs[o] : Sigs[o][i] = m}
<1>1. IsFiniteSet(A) /\ Cardinality(A) \in Nat
  BY FS_Subset, FS_CardinalityType DEF TrustConstants, MasterSetOK
<1>2. Threshold \in 1 .. Cardinality(A)
  <2>1. Threshold \in Nat /\ Threshold >= 1
    BY FS_CardinalityType DEF TrustConstants, MasterSetOK
  <2> QED BY <1>1, <2>1 DEF Verifies
<1>3. PICK M \in SUBSET A : Cardinality(M) = Threshold
  BY <1>1, <1>2, SubsetOfSize
<1> QED BY <1>3

-----------------------------------------------------------------------------
(* What a policy remembers, and what its subscriber was told of it *)

\* The strengthening.  Heed: past the check for its own DID a process that refuses
\* itself has slipped past its halt, and whoever serves has subscribed it; to slip
\* takes a gossip handler or a refresher that is early.  Told: who was told of a DID
\* still refuses it, so that it can never be new again.
Backed == \A p \in Process : \A d \in revoked[p] : Justified(d)
Heed == \A p \in Process :
           /\ life[p] \in {"checked", "running"} /\ SelfOf[p] \in revoked[p] => p \in slipped
           /\ life[p] = "running" => p \in subscribed
           /\ p \in slipped => p \in Gossips \cup EarlyTicker
Told == \A p \in Process, d \in Did : told[p][d] =< 1 /\ (d \notin revoked[p] => told[p][d] = 0)
MemoryInv == PolicyTypeOK /\ Backed /\ Heed /\ Told

LEMMA MergeKeeps ==
    ASSUME TrustConstants, MemoryInv, NEW p \in Process, NEW S \in SUBSET Obj, Merges(p, S)
    PROVE  Backed' /\ Heed' /\ Told'
<1> DEFINE R == UNION {Revokes[o] : o \in Fresh(p, S)}
<1>1. revoked' = [revoked EXCEPT ![p] = @ \cup R] /\ Newly(p, S) = R \ revoked[p]
  BY DEF Merges, Remember, Newly
<1>2. revoked'[p] = revoked[p] \cup R /\ \A q \in Process : q # p => revoked'[q] = revoked[q]
  BY <1>1 DEF MemoryInv, PolicyTypeOK
<1>3. Backed'
  <2>1. \A d \in R : Justified(d)
    BY DEF Fresh, Justified
  <2>2. ASSUME NEW q \in Process, NEW d \in revoked'[q] PROVE Justified(d)
    BY <2>1, <2>2, <1>2 DEF MemoryInv, Backed
  <2> QED BY <2>2 DEF Backed, Justified, Verifies
<1> HIDE DEF R
<1>4. Heed'
  <2> SUFFICES ASSUME NEW q \in Process
               PROVE  /\ life'[q] \in {"checked", "running"} /\ SelfOf[q] \in revoked'[q]
                            => q \in slipped'
                      /\ life'[q] = "running" => q \in subscribed'
                      /\ q \in slipped' => q \in Gossips \cup EarlyTicker
    BY DEF Heed
  <2>1. subscribed' = subscribed
    BY DEF Merges
  <2>2. Notify(p, Newly(p, S)) \/ (p \in Gossips /\ Untold(p, Newly(p, S)))
    BY DEF Merges
  <2>3. CASE q # p
    <3>1. life'[q] = life[q] /\ (q \in slipped' <=> q \in slipped)
      BY <2>2, <2>3 DEF Notify, Untold, MemoryInv, PolicyTypeOK
    <3> QED BY <2>1, <2>3, <3>1, <1>2 DEF MemoryInv, Heed
  <2>4. CASE q = p /\ p \in subscribed /\ ~Untold(p, Newly(p, S))
    <3>1. /\ life'[p] = IF SelfOf[p] \in Newly(p, S) THEN "halted" ELSE life[p]
          /\ slipped' = slipped
      BY <2>2, <2>4 DEF Notify, MemoryInv, PolicyTypeOK
    <3> QED BY <2>1, <2>4, <3>1, <1>1, <1>2 DEF MemoryInv, Heed
  <2>5. CASE q = p /\ Untold(p, Newly(p, S))
    <3>1. /\ life' = life /\ slipped \subseteq slipped'
          /\ SelfOf[p] \in Newly(p, S) /\ life[p] # "loaded" => p \in slipped'
      BY <2>5 DEF Untold
    <3>2. p \in Gossips \cup EarlyTicker \/ p \in subscribed
      BY DEF Merges, MemoryInv, Heed
    <3>3. p \in Gossips \cup EarlyTicker \/ slipped' = slipped
      BY <2>2, <3>2 DEF Notify
    <3> QED BY <2>1, <2>5, <3>1, <3>3, <1>1, <1>2 DEF MemoryInv, Heed
  <2>6. p \notin subscribed => Untold(p, Newly(p, S))
    BY <2>2 DEF Notify
  <2> QED BY <2>3, <2>4, <2>5, <2>6
<1>5. Told'
  <2> SUFFICES ASSUME NEW q \in Process, NEW d \in Did
               PROVE  told'[q][d] =< 1 /\ (d \notin revoked'[q] => told'[q][d] = 0)
    BY DEF Told
  <2>1. told[q][d] \in Nat /\ told[q][d] =< 1 /\ (d \notin revoked[q] => told[q][d] = 0)
    BY DEF MemoryInv, Told, PolicyTypeOK
  <2>2. CASE told' = told
    BY <2>1, <2>2, <1>2
  <2>3. CASE told' # told /\ q # p
    <3>1. told'[q] = told[q]
      BY <2>3 DEF Merges, Notify, Untold, MemoryInv, PolicyTypeOK
    <3> QED BY <2>1, <2>3, <3>1, <1>2
  <2>4. CASE told' # told /\ q = p
    <3>1. told'[p][d] = told[p][d] + (IF d \in Newly(p, S) THEN 1 ELSE 0)
      BY <2>4 DEF Merges, Notify, Untold, MemoryInv, PolicyTypeOK
    <3> QED BY <2>1, <2>4, <3>1, <1>1, <1>2
  <2> QED BY <2>2, <2>3, <2>4
<1> QED BY <1>3, <1>4, <1>5

LEMMA StartKeeps ==
    ASSUME TrustConstants, MemoryInv, NEW p \in Process, StartPolicy(p)
    PROVE  Backed' /\ Heed' /\ Told'
<1> DEFINE S == IF StoreOf[p] = NoStore THEN {} ELSE {o \in load(StoreOf[p]) : Verifies(o)}
           ds == UNION {Revokes[o] : o \in S}
<1>1. \A d \in ds : Justified(d)
  <2>1. StoreOf[p] # NoStore => load(StoreOf[p]) \subseteq Obj
    BY LoadType DEF TrustConstants, MemoryInv
  <2>2. \A o \in S : o \in Obj /\ Verifies(o)
    BY <2>1
  <2> QED BY <2>2 DEF Justified
<1>2. revoked' = [revoked EXCEPT ![p] = ds]
  BY DEF StartPolicy
<1> HIDE DEF ds, S
<1>3. Backed'
  <2>1. \A q \in Process : revoked'[q] = IF q = p THEN ds ELSE revoked[q]
    BY <1>2 DEF MemoryInv, PolicyTypeOK
  <2>2. ASSUME NEW q \in Process, NEW d \in revoked'[q] PROVE Justified(d)
    BY <2>1, <2>2, <1>1 DEF MemoryInv, Backed
  <2> QED BY <2>2 DEF Backed, Justified, Verifies
<1>4. Heed'
  BY <1>2 DEF StartPolicy, MemoryInv, Heed, PolicyTypeOK
<1>5. Told'
  <2>1. \A q \in Process : told'[q] = IF q = p THEN [d \in Did |-> 0] ELSE told[q]
    BY DEF StartPolicy, MemoryInv, PolicyTypeOK
  <2>2. \A q \in Process : q # p => revoked'[q] = revoked[q]
    BY <1>2 DEF MemoryInv, PolicyTypeOK
  <2> QED BY <2>1, <2>2 DEF MemoryInv, Told
<1> QED BY <1>3, <1>4, <1>5

LEMMA MemoryKept ==
    ASSUME TrustConstants, MemoryInv, [PolicyNext]_policyVars, PolicyTypeOK'
    PROVE  MemoryInv'
<1>1. ASSUME NEW p \in Process, CheckSelf(p) \/ on_change(p) PROVE Backed' /\ Heed' /\ Told'
  <2>1. UNCHANGED <<revoked, told>>
    BY <1>1 DEF CheckSelf, on_change
  <2>2. Backed' /\ Told'
    BY <2>1 DEF MemoryInv, Backed, Told, Justified, Verifies
  <2>3. Heed'
    <3>1. CASE CheckSelf(p)
      BY <2>1, <3>1 DEF CheckSelf, MemoryInv, PolicyTypeOK, Heed
    <3>2. CASE on_change(p)
      BY <2>1, <3>2 DEF on_change, MemoryInv, PolicyTypeOK, Heed
    <3> QED BY <1>1, <3>1, <3>2
  <2> QED BY <2>2, <2>3
<1>3. ASSUME NEW p \in Process, Crash(p) PROVE Backed' /\ Heed' /\ Told'
  <2>1. \A q \in Process : /\ revoked'[q] = (IF q = p THEN {} ELSE revoked[q])
                            /\ life'[q] = (IF q = p THEN "down" ELSE life[q])
                            /\ told'[q] = (IF q = p THEN [d \in Did |-> 0] ELSE told[q])
    BY <1>3 DEF Crash, MemoryInv, PolicyTypeOK
  <2>2. subscribed' = subscribed \ {p}
    BY <1>3 DEF Crash
  <2>3. Backed'
    <3>1. ASSUME NEW q \in Process, NEW d \in revoked'[q] PROVE Justified(d)
      BY <2>1, <3>1 DEF MemoryInv, Backed
    <3> QED BY <3>1 DEF Backed, Justified, Verifies
  <2>4. Heed'
    BY <2>1, <2>2, <1>3 DEF Crash, MemoryInv, Heed
  <2>5. Told'
    BY <2>1 DEF MemoryInv, Told
  <2> QED BY <2>3, <2>4, <2>5
<1>4. CASE UNCHANGED <<life, known, revoked, subscribed, told, refused, slipped>>
  BY <1>4 DEF MemoryInv, Backed, Heed, Told, Justified, Verifies
<1>5. PolicyTypeOK
  BY DEF MemoryInv
<1> QED BY <1>1, <1>3, <1>4, <1>5, MergeKeeps, StartKeeps, StepKinds DEF MemoryInv

THEOREM MemoryHolds == PolicySpec => []MemoryInv
<1> USE TrustConstants
<1>1. PolicyInit => Backed /\ Heed /\ Told
  BY DEF PolicyInit, Backed, Heed, Told
<1>2. PolicyInit /\ PolicyTypeOK => MemoryInv
  BY <1>1 DEF MemoryInv
<1>3. MemoryInv /\ [PolicyNext]_policyVars /\ PolicyTypeOK' => MemoryInv'
  BY MemoryKept
<1> QED BY <1>2, <1>3, TypeCorrect, PTL DEF PolicySpec

\* No path makes a policy refuse a DID that a threshold of distinct masters has not
\* signed away (TrustPolicy._merge, RevocationStore.load).
THEOREM RevocationIsSigned == PolicySpec => []OnlyMastersRevoke
<1>1. MemoryInv => OnlyMastersRevoke
  BY TrustConstants, SignersOf DEF MemoryInv, Backed, Justified, OnlyMastersRevoke
<1> QED BY <1>1, MemoryHolds, PTL

\* A subscriber hears of a DID at most once in a life of its process.
THEOREM SubscriberToldOnce == PolicySpec => []ToldOnce
<1>1. MemoryInv => ToldOnce
  BY DEF MemoryInv, Told, ToldOnce
<1> QED BY <1>1, MemoryHolds, PTL

-----------------------------------------------------------------------------
(* Nothing accepted is forgotten while no append fails *)

OnFile(s, d) == \E o \in file[s].whole : Verifies(o) /\ d \in Revokes[o]

\* The strengthening: no line is unterminated, and whatever a policy with a store
\* has ever refused is on a line of it, for the next start to find.
Terminated == \A s \in Store : file[s].tail = NoLine
Persisted == \A p \in Process : StoreOf[p] # NoStore =>
                \A d \in refused[p] : OnFile(StoreOf[p], d)
Remembered == \A p \in Process : StoreOf[p] # NoStore /\ life[p] # "down" =>
                 refused[p] \subseteq revoked[p]
Kept == faults = 0 => Terminated /\ Persisted /\ Remembered
KeptInv == PolicyTypeOK /\ Kept

LEMMA LoadIsWhole ==
    ASSUME TrustConstants, NEW s \in Store, Terminated
    PROVE  load(s) = file[s].whole
BY DEF TrustConstants, Terminated, load

\* Whole lines stay, and every line ends, whoever appends.
FilesGrow == \A s \in Store : file'[s].tail = NoLine /\ file[s].whole \subseteq file'[s].whole

LEMMA AppendGrows ==
    ASSUME TrustConstants, PolicyTypeOK, Terminated, NEW s \in Store, NEW o \in Obj,
           file' = [file EXCEPT ![s] = Appended(file[s], o)]
    PROVE  FilesGrow /\ o \in file'[s].whole
<1>1. file[s].tail = NoLine
  BY DEF Terminated
<1>2. Appended(file[s], o).tail = NoLine /\ Appended(file[s], o).whole = file[s].whole \cup {o}
  BY <1>1 DEF Appended
<1>3. \A r \in Store : file'[r] = IF r = s THEN Appended(file[s], o) ELSE file[r]
  BY DEF PolicyTypeOK
<1> QED BY <1>2, <1>3 DEF Terminated, FilesGrow

\* What is kept of a policy that learns nothing new.
LEMMA StaysKept ==
    ASSUME TrustConstants, PolicyTypeOK, Terminated, FilesGrow, NEW p \in Process, StoreOf[p] # NoStore,
           \A d \in refused[p] : OnFile(StoreOf[p], d), refused'[p] = refused[p]
    PROVE  \A d \in refused'[p] : OnFile(StoreOf[p], d)'
BY DEF OnFile, FilesGrow, TrustConstants, Verifies

LEMMA RememberKept ==
    ASSUME TrustConstants, PolicyTypeOK, Terminated, Persisted, Remembered, FilesGrow,
           NEW p \in Process, NEW S \in SUBSET Obj, Remember(p, S), life[p] # "down",
           StoreOf[p] # NoStore => Fresh(p, S) \subseteq file'[StoreOf[p]].whole,
           life' = life \/ Notify(p, Newly(p, S))
    PROVE  Terminated' /\ Persisted' /\ Remembered'
<1> DEFINE R == UNION {Revokes[o] : o \in Fresh(p, S)}
<1>1. \A q \in Process : /\ refused'[q] = (IF q = p THEN refused[q] \cup R ELSE refused[q])
                          /\ revoked'[q] = (IF q = p THEN revoked[q] \cup R ELSE revoked[q])
  BY DEF Remember, PolicyTypeOK
<1>2. \A q \in Process : q # p => life'[q] = life[q]
  BY DEF Notify, Untold, PolicyTypeOK
<1>3. StoreOf[p] # NoStore => \A d \in R : OnFile(StoreOf[p], d)'
  BY DEF Fresh, OnFile, Verifies
<1> HIDE DEF R
<1>4. Terminated'
  BY DEF FilesGrow, Terminated
<1>5. Persisted'
  <2> SUFFICES ASSUME NEW q \in Process, StoreOf[q] # NoStore, NEW d \in refused'[q]
               PROVE  OnFile(StoreOf[q], d)'
    BY DEF Persisted
  <2>1. CASE d \in refused[q]
    <3>1. PICK o \in file[StoreOf[q]].whole : Verifies(o) /\ d \in Revokes[o]
      BY <2>1 DEF Persisted, OnFile
    <3>2. o \in file'[StoreOf[q]].whole
      BY <3>1 DEF FilesGrow, TrustConstants
    <3> QED BY <3>1, <3>2 DEF OnFile, Verifies
  <2>2. CASE d \notin refused[q]
    BY <2>2, <1>1, <1>3
  <2> QED BY <2>1, <2>2
<1>6. Remembered'
  BY <1>1, <1>2 DEF Remembered
<1> QED BY <1>4, <1>5, <1>6

LEMMA ApplyKept ==
    ASSUME TrustConstants, KeptInv, NEW p \in Process, NEW o \in Obj, NEW consumed,
           life[p] # "down", apply(p, o, consumed)
    PROVE  Kept'
<1> SUFFICES ASSUME faults' = 0 PROVE Terminated' /\ Persisted' /\ Remembered'
  BY DEF Kept
<1> DEFINE writes == StoreOf[p] # NoStore /\ Fresh(p, {o}) # {}
<1>1. faults = 0 /\ Terminated /\ Persisted /\ Remembered
  BY DEF apply, KeptInv, Kept, PolicyTypeOK
<1>2. /\ Remember(p, {o}) /\ Notify(p, Newly(p, {o}))
      /\ file' = IF writes THEN [file EXCEPT ![StoreOf[p]] = Appended(file[StoreOf[p]], o)] ELSE file
  <2>1. faults' # faults + 1
    BY <1>1
  <2> QED BY <2>1, Zenon DEF apply
<1>3. FilesGrow /\ (StoreOf[p] # NoStore => Fresh(p, {o}) \subseteq file'[StoreOf[p]].whole)
  <2>1. CASE writes
    <3>1. StoreOf[p] \in Store
      BY <2>1 DEF TrustConstants
    <3>2. Fresh(p, {o}) \subseteq {o}
      BY DEF Fresh
    <3>3. file' = [file EXCEPT ![StoreOf[p]] = Appended(file[StoreOf[p]], o)]
      BY <1>2, <2>1
    <3> QED BY <3>1, <3>2, <3>3, <1>1, AppendGrows DEF KeptInv
  <2>2. CASE ~writes
    BY <2>2, <1>1, <1>2 DEF FilesGrow, Terminated
  <2> QED BY <2>1, <2>2
<1> QED BY <1>1, <1>2, <1>3, RememberKept DEF KeptInv

LEMMA StartKept ==
    ASSUME TrustConstants, KeptInv, NEW p \in Process, StartPolicy(p)
    PROVE  Kept'
<1> SUFFICES ASSUME faults' = 0 PROVE Terminated' /\ Persisted' /\ Remembered'
  BY DEF Kept
<1> DEFINE S == IF StoreOf[p] = NoStore THEN {} ELSE {o \in load(StoreOf[p]) : Verifies(o)}
           ds == UNION {Revokes[o] : o \in S}
<1>1. UNCHANGED <<file, faults>> /\ Terminated /\ Persisted /\ Remembered
  BY DEF StartPolicy, KeptInv, Kept
<1>2. StoreOf[p] # NoStore => S = {o \in file[StoreOf[p]].whole : Verifies(o)}
  BY <1>1, LoadIsWhole DEF TrustConstants
<1>3. revoked' = [revoked EXCEPT ![p] = ds] /\ refused' = [refused EXCEPT ![p] = @ \cup ds]
  BY DEF StartPolicy
<1>4. StoreOf[p] # NoStore => /\ \A d \in ds : OnFile(StoreOf[p], d)
                             /\ refused[p] \subseteq ds
  <2> SUFFICES ASSUME StoreOf[p] # NoStore
               PROVE  (\A d \in ds : OnFile(StoreOf[p], d)) /\ refused[p] \subseteq ds
    OBVIOUS
  <2>1. \A d \in ds : OnFile(StoreOf[p], d)
    BY <1>2 DEF OnFile
  <2>2. \A d \in refused[p] : d \in ds
    BY <1>1, <1>2 DEF Persisted, OnFile
  <2> QED BY <2>1, <2>2
<1>5. \A q \in Process : q # p => life'[q] = life[q]
  BY DEF StartPolicy, KeptInv, PolicyTypeOK
<1> HIDE DEF S, ds
<1>6. \A q \in Process : /\ refused'[q] = (IF q = p THEN refused[q] \cup ds ELSE refused[q])
                          /\ revoked'[q] = (IF q = p THEN ds ELSE revoked[q])
  BY <1>3 DEF KeptInv, PolicyTypeOK
<1>7. Terminated'
  BY <1>1 DEF Terminated
<1>8. Persisted'
  BY <1>1, <1>4, <1>6 DEF Persisted, OnFile, Verifies
<1>9. Remembered'
  BY <1>1, <1>4, <1>5, <1>6 DEF Remembered
<1> QED BY <1>7, <1>8, <1>9

LEMMA KeptKept ==
    ASSUME TrustConstants, KeptInv, [PolicyNext]_policyVars
    PROVE  Kept'
<1> USE DEF KeptInv
<1>1. ASSUME NEW p \in Process, StartPolicy(p) PROVE Kept'
  BY <1>1, StartKept
<1>2. ASSUME NEW p \in Process, CheckSelf(p) \/ on_change(p) PROVE Kept'
  <2>1. UNCHANGED <<file, revoked, refused, faults>>
        /\ \A q \in Process : life[q] = "down" => life'[q] = "down"
    BY <1>2 DEF CheckSelf, on_change, PolicyTypeOK
  <2> QED BY <2>1 DEF Kept, Terminated, Persisted, Remembered, OnFile, Verifies
<1>3. ASSUME NEW p \in Process, Crash(p) PROVE Kept'
  <2>1. UNCHANGED <<file, refused, faults>> /\ life'[p] = "down"
        /\ \A q \in Process : q # p => life'[q] = life[q] /\ revoked'[q] = revoked[q]
    BY <1>3 DEF Crash, PolicyTypeOK
  <2> QED BY <2>1 DEF Kept, Terminated, Persisted, Remembered, OnFile, Verifies
<1>4. ASSUME NEW p \in Process, NEW t \in Ticker, refresh_load(p, t) PROVE Kept'
  <2> DEFINE L == load(StoreOf[p])
  <2>1. StoreOf[p] \in Store /\ life[p] # "down" /\ UNCHANGED <<file, faults>>
        /\ Remember(p, L) /\ Notify(p, Newly(p, L))
    BY <1>4 DEF refresh_load, Ticking, TrustConstants
  <2>2. L \subseteq Obj
    BY <2>1, LoadType
  <2>3. ASSUME Terminated PROVE FilesGrow /\ Fresh(p, L) \subseteq file'[StoreOf[p]].whole
    BY <2>1, <2>3, LoadIsWhole DEF FilesGrow, Terminated, Fresh
  <2> HIDE DEF L
  <2> QED BY <2>1, <2>2, <2>3, RememberKept DEF Kept
<1>5. ASSUME NEW p \in Process, NEW o \in Obj, announce(p, o) PROVE Kept'
  BY <1>5, ApplyKept DEF announce
<1>6. ASSUME NEW msg \in net, _on_frame(msg) PROVE Kept'
  BY <1>6, ApplyKept DEF _on_frame, Listening, PolicyTypeOK
<1>7. ASSUME NEW s \in Store, NEW o \in Obj, _revoke_apply(s, o) \/ Tamper(s, o) PROVE Kept'
  <2> SUFFICES ASSUME faults' = 0 PROVE Terminated' /\ Persisted' /\ Remembered'
    BY DEF Kept
  <2>1. /\ Terminated /\ Persisted /\ Remembered
        /\ UNCHANGED <<life, revoked, refused>>
        /\ file' = [file EXCEPT ![s] = Appended(file[s], o)]
    BY <1>7 DEF _revoke_apply, Tamper, Kept, PolicyTypeOK
  <2>2. FilesGrow
    BY <2>1, AppendGrows
  <2>3. Terminated' /\ Remembered'
    BY <2>1, <2>2 DEF FilesGrow, Terminated, Remembered
  <2>4. Persisted'
    BY <2>1, <2>2, StaysKept DEF Persisted
  <2> QED BY <2>3, <2>4
<1>8. ASSUME UNCHANGED <<file, life, revoked, refused>> /\ faults' \in Nat /\ faults' >= faults
      PROVE  Kept'
  <2>1. faults' = 0 => faults = 0
    BY <1>8 DEF PolicyTypeOK
  <2>2. Terminated /\ Persisted /\ Remembered => Terminated' /\ Persisted' /\ Remembered'
    BY <1>8 DEF Terminated, Persisted, Remembered, OnFile, Verifies
  <2> QED BY <2>1, <2>2 DEF Kept
<1>9. ASSUME NEW p \in Process, NEW t \in Ticker, refresh_stat(p, t) \/ refresh_raises(p, t) PROVE Kept'
  BY <1>8, <1>9 DEF refresh_stat, refresh_raises, PolicyTypeOK
<1>10. ASSUME NEW msg \in net, Lose(msg) PROVE Kept'
  BY <1>8, <1>10 DEF Lose, PolicyTypeOK
<1>11. CASE UNCHANGED policyVars
  BY <1>8, <1>11 DEF policyVars, PolicyTypeOK
<1> QED BY <1>1, <1>2, <1>3, <1>4, <1>5, <1>6, <1>7, <1>9, <1>10, <1>11
        DEF PolicyNext, Startup, Refresher

\* As long as no append fails a policy with a store refuses, after any number of
\* restarts, every DID it has ever refused.
THEOREM RevocationIsPermanent == PolicySpec => []NeverForgets
<1> USE TrustConstants
<1>1. PolicyInit => Kept
  BY DEF PolicyInit, Kept, Terminated, Persisted, Remembered
<1>2. Kept /\ PolicyTypeOK /\ [PolicyNext]_policyVars => Kept'
  BY KeptKept DEF KeptInv
<1>3. Kept => NeverForgets
  BY DEF Kept, Remembered, NeverForgets
<1> QED BY <1>1, <1>2, <1>3, TypeCorrect, PTL DEF PolicySpec

\* Whoever serves although it refuses itself, now or with a store in any earlier life,
\* merged the record between its check and its halt callback, or with a failed
\* append, in this life (halt_on_self_revocation, the start-up sequences).
THEOREM RevokedHalts == PolicySpec => []NoRevokedRunner
<1>1. MemoryInv /\ NeverForgets => NoRevokedRunner
  BY DEF MemoryInv, Heed, NeverForgets, NoRevokedRunner
<1> QED BY <1>1, MemoryHolds, RevocationIsPermanent, PTL

=============================================================================
