--------------------------- MODULE OperatorProofs ---------------------------
(***************************************************************************)
(* Proofs about Operator and its gate for every set of actions, every      *)
(* grant, goal and known failure, and any number of steps: what the gate's *)
(* verdict implies, and that neither a signature nor an approval in words  *)
(* serves any step but its own.                                            *)
(***************************************************************************)
EXTENDS Operator, Focus, TLAPS

-----------------------------------------------------------------------------
(* The gate. *)

\* A destructive action passes only with an authorization that verifies.
LEMMA GateAuthorizes ==
    ASSUME NEW a, NEW c, c.require_authorization, destructive(a), gate(a, c).findings \cap BLOCKING = {}
    PROVE  verify_authorization(c.authorization, a, c)
  <1>1. gate(a, c).findings = REOBSERVE(a, c) \cup REJECT(a, c) \cup REWRITE(a, c)
    BY DEF gate
  <1>2. "unauthorized-action" \notin REJECT(a, c)
    BY <1>1 DEF BLOCKING
  <1> QED BY <1>2 DEF REJECT, _check_authorization

\* The gate allows only what it has no finding against.
LEMMA AllowsTheFaultless ==
    ASSUME NEW a, NEW c, gate(a, c).verdict = "allow" PROVE gate(a, c).findings = {}
  <1>1. /\ gate(a, c).findings = REOBSERVE(a, c) \cup REJECT(a, c) \cup REWRITE(a, c)
        /\ gate(a, c).verdict = CASE REOBSERVE(a, c) # {} -> "reobserve"
                    [] REOBSERVE(a, c) = {} /\ REJECT(a, c) # {} -> "reject"
                    [] REOBSERVE(a, c) \cup REJECT(a, c) = {} /\ REWRITE(a, c) # {} -> "rewrite"
                    [] OTHER -> "allow"
    BY DEF gate
  <1> QED BY <1>1

-----------------------------------------------------------------------------
(* The invariant. *)

\* What the App sent and showed: an approval on its way was given for its own
\* challenge, and a challenge still shown is not settled.
AppSide ==
    /\ \A p \in net : p.kind = "response" => p.what \in {"approve", "deny"} /\ (p.what = "approve" => how[p.id] = "approved")
    /\ \A p \in net : p.kind = "answer" => p.what \in {"Approve", "Deny"}
    /\ \A s \in pending : how[s] = "none"

\* Where the loop is in its step, and what it holds of a signature for it.
Signed ==
    /\ pc # "model" => step \in Step
    /\ pc = "wait" => challenge.id = step
    /\ challenge.response = "approve" => challenge.id \in Step /\ how[challenge.id] = "approved"
    /\ token # {} => step \in Step /\ how[step] = "approved"
    /\ pc \in {"confirm", "probe", "execute"} /\ destructive(act) => how[step] = "approved"
    /\ \A e \in done : e.step \in Step
    /\ ExecutedIsSigned

\* A step has one probe, opened in its own confirmation and answered once.
Asked ==
    /\ \A s \in Step : s > step => ledger[s] = "unknown"
    /\ pc \in {"wait", "signed", "judge", "confirm"} => ledger[step] = "unknown"
    /\ \A s \in Step : answer[s] # "none" => ledger[s] = "answered"
    /\ pc = "confirm" /\ confirmed_key # NoKey => findings = {}
    /\ pc = "execute" /\ act.high_risk /\ findings # {} => answer[step] = "Approve"
    /\ ObjectionIsAsked

OperatorInv == TypeOK /\ AppSide /\ Signed /\ Asked

Challenge == [id : 0 .. MaxStep, response : {"none", "approve", "deny"}, hash : Hash, dead : BOOLEAN]
Packets == [kind : {"challenge", "response", "probe", "answer", "status"}, id : Step,
            what : {"none", "approve", "deny", "Approve", "Deny"}, hash : Hash]
Tokens == [signer : {"operator"}, hash : Hash, subject : {"node"}, expired : {FALSE}]

LEMMA HashFacts == NoKey \in Hash /\ \A a \in Actions : action_hash(a) \in Hash /\ action_hash(a) # NoKey
  BY DEF Hash, NoKey, action_hash

LEMMA PacketType ==
    ASSUME NEW k \in {"challenge", "response", "probe", "answer", "status"}, NEW i \in Step,
           NEW w \in {"none", "approve", "deny", "Approve", "Deny"}, NEW h \in Hash
    PROVE  Packet(k, i, w, h) \in Packets /\ Packet(k, i, w, h).kind = k /\ Packet(k, i, w, h).id = i
           /\ Packet(k, i, w, h).what = w
  BY DEF Packet, Packets

\* The history is cut to the window the gate sees.
LEMMA RecordedType ==
    ASSUME recent \in Seq(Actions), Len(recent) =< Window, act \in Actions, Recorded
    PROVE  recent' \in Seq(Actions) /\ Len(recent') =< Window
  <1> DEFINE r == Append(recent, act)
             lo == Max(1, Len(recent) + 2 - Window)
  <1>1. r \in Seq(Actions) /\ Len(r) = Len(recent) + 1 /\ Len(recent) \in Nat
    OBVIOUS
  <1>2. Window \in Nat /\ Window >= 1
    BY OperatorConstants
  <1>3. lo \in 1 .. Len(recent) + 1 /\ Len(recent) + 1 - lo + 1 =< Window
    BY <1>1, <1>2 DEF Max
  <1>4. recent' = SubSeq(r, lo, Len(recent) + 1)
    BY DEF Recorded
  <1> HIDE DEF r, lo
  <1>5. \A i \in 1 .. Len(r) : r[i] \in Actions
    BY <1>1
  <1> QED BY <1>1, <1>2, <1>3, <1>4, <1>5

-----------------------------------------------------------------------------
(* Types. *)

LEMMA LoopTypes == ASSUME OperatorInv, Loop PROVE TypeOK'
  <1> USE DEF TypeOK
  <1>0. TypeOK /\ (pc # "model" => step \in Step)
    BY DEF OperatorInv, Signed
  <1>1. MaxStep \in Nat /\ NoKey \in Hash /\ \A a \in Actions : action_hash(a) \in Hash
    BY OperatorConstants, HashFacts
  <1>2. ASSUME NEW a \in Actions, next_action(a) PROVE TypeOK'
    <2>1. /\ step < MaxStep /\ step' = step + 1 /\ act' = a /\ token' = {} /\ pc' \in {"wait", "judge"}
          /\ UNCHANGED <<recent, findings, done, confirmed_key, ledger, answer, pending, how, shown, unlocking, questions, stale, trusted, downs>>
          /\ last_authorized' \in Hash
          /\ challenge' = [Nobody EXCEPT !.id = step + 1] \/ challenge' = challenge
          /\ net' \subseteq net \cup {Packet("challenge", step + 1, "none", action_hash(a))}
      BY <1>0, <1>1, <1>2 DEF next_action, probeVars, appVars, worldVars
    <2>2. step' \in 0 .. MaxStep /\ step + 1 \in Step
      BY <1>0, <1>1, <2>1 DEF Step
    <2>3. challenge' \in Challenge
      BY <1>0, <1>1, <2>1, <2>2 DEF Challenge, Nobody, Step
    <2>4. net' \subseteq Packets
      <3>1. Packet("challenge", step + 1, "none", action_hash(a)) \in Packets
        BY <1>1, <2>2, PacketType
      <3> QED BY <1>0, <2>1, <3>1 DEF Packets
    <2> QED BY <1>0, <2>1, <2>2, <2>3, <2>4 DEF Challenge, Packets
  <1>3. CASE authorized
    <2>1. /\ challenge' = Nobody /\ pc' \in {"signed", "judge"}
          /\ UNCHANGED <<step, act, recent, findings, done, last_authorized, confirmed_key, ledger, answer, pending, how, shown, unlocking, questions, net, stale, trusted, downs>>
          /\ token' \subseteq {[signer |-> "operator", hash |-> challenge.hash, subject |-> "node", expired |-> FALSE]}
      BY <1>3 DEF authorized, probeVars, appVars, worldVars
    <2>2. challenge' \in Challenge /\ challenge.hash \in Hash
      BY <1>0, <1>1, <2>1 DEF Challenge, Nobody
    <2>3. token' \subseteq Tokens
      <3> HIDE DEF TypeOK
      <3> DEFINE t == [signer |-> "operator", hash |-> challenge.hash, subject |-> "node", expired |-> FALSE]
      <3>1. t \in Tokens
        BY <2>2 DEF Tokens
      <3> QED BY <2>1, <3>1
    <2> HIDE DEF TypeOK
    <2> QED BY <1>0, <2>1, <2>2, <2>3 DEF TypeOK, Challenge, Tokens
  <1>4. CASE remember
    BY <1>0, <1>1, <1>4 DEF remember, probeVars, appVars, worldVars
  <1>5. CASE plan_gate
    <2>1. /\ pc' \in {"model", "confirm", "execute"} /\ last_authorized' = NoKey
          /\ confirmed_key' = NoKey \/ confirmed_key' = action_hash(act)
          /\ Recorded \/ recent' = recent
          /\ UNCHANGED <<step, act, done, challenge, token, ledger, answer, pending, how, shown, unlocking, questions, net, stale, trusted, downs>>
      BY <1>5 DEF plan_gate, observe, probeVars, appVars, worldVars
    <2>2. recent' \in Seq(Actions) /\ Len(recent') =< Window
      BY <1>0, <2>1, RecordedType
    <2> QED BY <1>0, <1>1, <2>1, <2>2
  <1>6. CASE confirm
    <2>1. /\ pc = "confirm" /\ pc' \in {"execute", "probe"} /\ confirmed_key' = NoKey
          /\ UNCHANGED <<step, act, recent, findings, done, challenge, last_authorized, token, answer, pending, how, shown, unlocking, questions, stale, trusted, downs>>
          /\ ledger' = [ledger EXCEPT ![step] = "open"] \/ ledger' = ledger
          /\ net' \subseteq net \cup {Packet("probe", step, "none", NoKey)}
      BY <1>6 DEF confirm, appVars, worldVars
    <2>2. net' \subseteq Packets
      <3>1. Packet("probe", step, "none", NoKey) \in Packets
        BY <1>0, <1>1, <2>1, PacketType
      <3> QED BY <1>0, <2>1, <3>1 DEF Packets
    <2>3. ledger' \in [Step -> {"unknown", "open", "answered", "expired"}]
      BY <1>0, <2>1
    <2> QED BY <1>0, <1>1, <2>1, <2>2, <2>3 DEF Packets
  <1>7. CASE asked
    <2>1. /\ pc = "probe" /\ pc' \in {"model", "execute"}
          /\ UNCHANGED <<step, act, findings, done, challenge, last_authorized, confirmed_key, token, answer, pending, how, shown, unlocking, questions, stale, trusted, downs>>
          /\ Recorded \/ recent' = recent
          /\ ledger' = [ledger EXCEPT ![step] = IF @ = "open" THEN "expired" ELSE @]
          /\ net' = net \cup {Packet("status", step, "none", NoKey)}
      BY <1>7 DEF asked, bridgeVars, appVars, worldVars
    <2>2. net' \subseteq Packets
      <3>1. Packet("status", step, "none", NoKey) \in Packets
        BY <1>0, <1>1, <2>1, PacketType
      <3> QED BY <1>0, <2>1, <3>1 DEF Packets
    <2>3. ledger' \in [Step -> {"unknown", "open", "answered", "expired"}]
      BY <1>0, <2>1
    <2>4. recent' \in Seq(Actions) /\ Len(recent') =< Window
      BY <1>0, <2>1, RecordedType
    <2> QED BY <1>0, <1>1, <2>1, <2>2, <2>3, <2>4 DEF Packets
  <1>8. CASE execute
    <2>1. /\ pc' = "model" /\ Recorded
          /\ UNCHANGED <<step, act, findings, challenge, last_authorized, confirmed_key, token, ledger, answer, pending, how, shown, unlocking, questions, net, stale, trusted, downs>>
      BY <1>8 DEF execute, bridgeVars, probeVars, appVars, worldVars
    <2>2. recent' \in Seq(Actions) /\ Len(recent') =< Window
      BY <1>0, <2>1, RecordedType
    <2> QED BY <1>0, <2>1, <2>2
  <1> QED BY <1>2, <1>3, <1>4, <1>5, <1>6, <1>7, <1>8 DEF Loop

LEMMA NodeTypes == ASSUME OperatorInv, Node PROVE TypeOK'
  <1> USE DEF TypeOK
  <1>0. TypeOK /\ AppSide
    BY DEF OperatorInv
  <1>1. ASSUME NEW p \in net, on_response(p) PROVE TypeOK'
    <2>1. /\ UNCHANGED <<pc, step, act, recent, findings, done, last_authorized, confirmed_key, token, ledger, answer, pending, how, shown, unlocking, questions, stale, trusted, downs>>
          /\ net' \subseteq net
          /\ challenge' = [challenge EXCEPT !.response = p.what, !.hash = p.hash] \/ challenge' = challenge
          /\ p.what \in {"approve", "deny"} /\ p.hash \in Hash
      BY <1>0, <1>1 DEF on_response, loopVars, probeVars, appVars, worldVars, AppSide
    <2>2. challenge' \in Challenge
      BY <1>0, <2>1 DEF Challenge
    <2> QED BY <1>0, <2>1, <2>2 DEF Challenge
  <1>2. ASSUME NEW p \in net, NEW late \in BOOLEAN, resolve(p, late) PROVE TypeOK'
    <2>1. /\ UNCHANGED <<pc, step, act, recent, findings, done, challenge, last_authorized, confirmed_key, token, pending, how, shown, unlocking, questions, stale, trusted, downs>>
          /\ net' \subseteq net
          /\ ledger' = ledger \/ ledger' = [ledger EXCEPT ![p.id] = "expired"] \/ ledger' = [ledger EXCEPT ![p.id] = "answered"]
          /\ answer' = answer \/ answer' = [answer EXCEPT ![p.id] = p.what]
          /\ p.what \in {"Approve", "Deny"}
      BY <1>0, <1>2 DEF resolve, loopVars, bridgeVars, probeVars, appVars, worldVars, AppSide
    <2>2. ledger' \in [Step -> {"unknown", "open", "answered", "expired"}]
      BY <1>0, <2>1
    <2>3. answer' \in [Step -> {"none", "Approve", "Deny"}]
      BY <1>0, <2>1
    <2> QED BY <1>0, <2>1, <2>2, <2>3
  <1>3. CASE on_peer_down
    <2>1. /\ UNCHANGED <<pc, step, act, recent, findings, done, token, answer, pending, how, shown, unlocking, questions, net, stale, trusted>>
          /\ downs < MaxDown /\ downs' = downs + 1
          /\ challenge' = [challenge EXCEPT !.dead = TRUE] \/ challenge' = challenge
          /\ last_authorized' = NoKey /\ confirmed_key' = NoKey
          /\ ledger' = [s \in Step |-> IF ledger[s] = "open" THEN "expired" ELSE ledger[s]]
      BY <1>3 DEF on_peer_down, loopVars, appVars
    <2>2. challenge' \in Challenge
      BY <1>0, <2>1 DEF Challenge
    <2>3. downs' \in 0 .. MaxDown
      BY OperatorConstants, <1>0, <2>1
    <2> QED BY <1>0, <2>1, <2>2, <2>3, HashFacts DEF Challenge
  <1> QED BY <1>1, <1>2, <1>3 DEF Node

LEMMA AppTypes == ASSUME OperatorInv, App PROVE TypeOK'
  <1> USE DEF TypeOK
  <1>0. TypeOK /\ AppSide /\ NoKey \in Hash
    BY HashFacts DEF OperatorInv
  <1>1. ASSUME NEW p \in net, app_receives(p) PROVE TypeOK'
    <2>1. p.id \in Step /\ p.hash \in Hash
      BY <1>0
    <2>2. /\ UNCHANGED <<pc, step, act, recent, findings, done, challenge, last_authorized, confirmed_key, token, ledger, answer, how, unlocking, stale, trusted, downs>>
          /\ net' \subseteq net /\ pending' \subseteq pending \cup {p.id} /\ questions' \subseteq questions \cup {p.id}
          /\ shown' = shown \/ shown' = [shown EXCEPT ![p.id] = p.hash]
      BY <1>1 DEF app_receives, loopVars, bridgeVars, probeVars, worldVars
    <2>3. shown' \in [Step -> Hash]
      BY <1>0, <2>1, <2>2
    <2> QED BY <1>0, <2>1, <2>2, <2>3
  <1>2. ASSUME NEW id \in Step, approve(id) PROVE TypeOK'
    <2>1. /\ UNCHANGED <<pc, step, act, recent, findings, done, challenge, last_authorized, confirmed_key, token, ledger, answer, pending, how, shown, questions, net, stale, trusted, downs>>
          /\ unlocking' = unlocking \cup {id}
      BY <1>2 DEF approve, loopVars, bridgeVars, probeVars, worldVars
    <2> QED BY <1>0, <2>1
  <1>3. ASSUME NEW id \in Step, approve_signed(id) \/ deny(id) PROVE TypeOK'
    <2>1. /\ UNCHANGED <<pc, step, act, recent, findings, done, challenge, last_authorized, confirmed_key, token, ledger, answer, shown, questions, stale, trusted, downs>>
          /\ unlocking' \subseteq unlocking /\ pending' \subseteq pending
          /\ how' = how \/ how' = [how EXCEPT ![id] = "approved"] \/ how' = [how EXCEPT ![id] = "denied"]
          /\ net' \subseteq net \cup {Packet("response", id, "approve", shown[id]), Packet("response", id, "deny", shown[id])}
      BY <1>3 DEF approve_signed, deny, loopVars, bridgeVars, probeVars, worldVars
    <2>2. net' \subseteq Packets
      <3>1. Packet("response", id, "approve", shown[id]) \in Packets /\ Packet("response", id, "deny", shown[id]) \in Packets
        BY <1>0, PacketType
      <3> QED BY <1>0, <2>1, <3>1 DEF Packets
    <2>3. how' \in [Step -> {"none", "approved", "denied", "dropped"}]
      BY <1>0, <2>1
    <2> QED BY <1>0, <2>1, <2>2, <2>3 DEF Packets
  <1>4. ASSUME NEW id \in Step, NEW text \in {"Approve", "Deny"}, app_answer(id, text) PROVE TypeOK'
    <2>1. net' \subseteq Packets
      <3>1. Packet("answer", id, text, NoKey) \in Packets
        BY <1>0, PacketType
      <3> QED BY <1>0, <1>4, <3>1 DEF app_answer, Packets
    <2> QED BY <1>0, <1>4, <2>1 DEF app_answer, loopVars, bridgeVars, probeVars, worldVars, Packets
  <1>5. CASE app_tick
    BY <1>0, <1>5 DEF app_tick, loopVars, bridgeVars, probeVars, worldVars
  <1>6. CASE _gone
    <2>1. downs' \in 0 .. MaxDown
      BY OperatorConstants, <1>0, <1>6 DEF _gone
    <2> QED BY <1>0, <1>6, <2>1 DEF _gone, loopVars, bridgeVars, probeVars
  <1> QED BY <1>1, <1>2, <1>3, <1>4, <1>5, <1>6 DEF App

LEMMA WorldTypes == ASSUME OperatorInv, World PROVE TypeOK'
  BY DEF World, expire, revoke, OperatorInv, TypeOK, loopVars, bridgeVars, probeVars, appVars

LEMMA Types == ASSUME OperatorInv, [Next]_vars PROVE TypeOK'
  <1>1. CASE UNCHANGED vars
    BY <1>1 DEF OperatorInv, TypeOK, vars, loopVars, bridgeVars, probeVars, appVars, worldVars
  <1> QED BY <1>1, LoopTypes, NodeTypes, AppTypes, WorldTypes DEF Next

-----------------------------------------------------------------------------
(* The App. *)

\* Only a challenge that is still shown is settled, and no step of the node or the
\* loop touches what the App keeps.
LEMMA SettledStep == ASSUME OperatorInv, [Next]_vars PROVE Settled
  <1> USE DEF Settled
  <1>1. how \in [Step -> {"none", "approved", "denied", "dropped"}] /\ \A s \in pending : s \in Step /\ how[s] = "none"
    BY DEF OperatorInv, TypeOK, AppSide
  <1>2. ASSUME NEW id \in Step, approve_signed(id) PROVE Settled
    BY <1>1, <1>2 DEF approve_signed
  <1>3. ASSUME NEW id \in Step, deny(id) PROVE Settled
    BY <1>1, <1>3 DEF deny
  <1>4. CASE app_tick
    BY <1>1, <1>4 DEF app_tick
  <1>5. CASE _gone
    BY <1>1, <1>5 DEF _gone
  <1>6. CASE Loop \/ Node \/ World \/ UNCHANGED vars
    <2>1. how' = how
      BY <1>6 DEF Loop, Node, World, next_action, authorized, remember, plan_gate, confirm, asked, execute,
         on_peer_down, on_response, resolve, revoke, expire, vars, appVars
    <2> QED BY <2>1
  <1>7. ASSUME NEW p \in net, app_receives(p) PROVE Settled
    BY <1>7 DEF app_receives
  <1>8. ASSUME NEW id \in Step, approve(id) PROVE Settled
    BY <1>8 DEF approve
  <1>9. ASSUME NEW id \in Step, NEW text, app_answer(id, text) PROVE Settled
    BY <1>9 DEF app_answer
  <1> QED BY <1>2, <1>3, <1>4, <1>5, <1>6, <1>7, <1>8, <1>9 DEF Next, App

\* An approval is sent in the step that settles its challenge with it.
LEMMA AppSideKeeps == ASSUME OperatorInv, [Next]_vars PROVE AppSide'
  <1>0. /\ Settled /\ TypeOK' /\ AppSide
        /\ how \in [Step -> {"none", "approved", "denied", "dropped"}] /\ pending \subseteq Step
        /\ \A p \in net : p.id \in Step
    BY SettledStep, Types DEF OperatorInv, TypeOK
  <1> DEFINE Fine(p) == /\ p.kind = "response" => p.what \in {"approve", "deny"} /\ (p.what = "approve" => how'[p.id] = "approved")
                        /\ p.kind = "answer" => p.what \in {"Approve", "Deny"}
  <1>1. \A p \in net : Fine(p)
    BY <1>0 DEF AppSide, Settled
  <1>2. ASSUME pending' \subseteq pending, how' = how, NEW q, Fine(q), net' \subseteq net \cup {q} PROVE AppSide'
    BY <1>0, <1>1, <1>2 DEF AppSide
  <1>3. ASSUME pending' \subseteq pending, how' = how, net' \subseteq net PROVE AppSide'
    BY <1>0, <1>1, <1>3 DEF AppSide
  <1>4. ASSUME NEW a \in Actions, next_action(a) PROVE AppSide'
    <2> DEFINE q == Packet("challenge", step + 1, "none", action_hash(a))
    <2>1. pending' \subseteq pending /\ how' = how /\ net' \subseteq net \cup {q}
      BY <1>4 DEF next_action, appVars
    <2>2. Fine(q)
      BY DEF Packet
    <2> QED BY <1>2, <2>1, <2>2
  <1>5. CASE confirm \/ asked
    <2> DEFINE q == Packet(IF confirm THEN "probe" ELSE "status", step, "none", NoKey)
    <2>1. pending' \subseteq pending /\ how' = how /\ net' \subseteq net \cup {q}
      BY <1>5 DEF confirm, asked, appVars
    <2>2. Fine(q)
      BY DEF Packet
    <2> QED BY <1>2, <2>1, <2>2
  <1>6. CASE authorized \/ remember \/ plan_gate \/ execute \/ Node \/ World \/ UNCHANGED vars
    <2>1. pending' \subseteq pending /\ how' = how /\ net' \subseteq net
      BY <1>6 DEF Node, World, authorized, remember, plan_gate, execute,
         on_peer_down, on_response, resolve, revoke, expire, vars, appVars
    <2> QED BY <1>3, <2>1
  <1>7. ASSUME NEW p \in net, app_receives(p) PROVE AppSide'
    <2>1. net' \subseteq net /\ how' = how /\ \A s \in pending' : s \in pending \/ how[s] = "none"
      BY <1>7 DEF app_receives
    <2> QED BY <1>0, <1>1, <2>1 DEF AppSide
  <1>8. ASSUME NEW id \in Step, approve(id) PROVE AppSide'
    BY <1>3, <1>8 DEF approve
  <1>9. ASSUME NEW id \in Step, approve_signed(id) PROVE AppSide'
    <2> DEFINE q == Packet("response", id, "approve", shown[id])
    <2>1. net' \subseteq net \/ (net' = net \cup {q} /\ how'[id] = "approved")
      BY <1>0, <1>9 DEF approve_signed
    <2>2. q.kind = "response" /\ q.what = "approve" /\ q.id = id
      BY DEF Packet
    <2>3. \A s \in pending' : s \in pending /\ how'[s] = how[s]
      BY <1>0, <1>9 DEF approve_signed
    <2>4. \A p \in net' : Fine(p)
      BY <1>1, <2>1, <2>2
    <2> QED BY <1>0, <2>3, <2>4 DEF AppSide
  <1>10. ASSUME NEW id \in Step, deny(id) PROVE AppSide'
    <2> DEFINE q == Packet("response", id, "deny", shown[id])
    <2>1. net' = net \cup {q}
      BY <1>10 DEF deny
    <2>2. q.kind = "response" /\ q.what = "deny"
      BY DEF Packet
    <2>3. \A s \in pending' : s \in pending /\ how'[s] = how[s]
      BY <1>0, <1>10 DEF deny
    <2>4. \A p \in net' : Fine(p)
      BY <1>1, <2>1, <2>2
    <2> QED BY <1>0, <2>3, <2>4 DEF AppSide
  <1>11. ASSUME NEW id \in Step, NEW text \in {"Approve", "Deny"}, app_answer(id, text) PROVE AppSide'
    <2> DEFINE q == Packet("answer", id, text, NoKey)
    <2>1. pending' \subseteq pending /\ how' = how /\ net' \subseteq net \cup {q}
      BY <1>11 DEF app_answer
    <2>2. Fine(q)
      BY DEF Packet
    <2> QED BY <1>2, <2>1, <2>2
  <1>12. CASE app_tick \/ _gone
    <2>1. net' = net /\ \A s \in pending' : s \in pending /\ how'[s] = how[s]
      BY <1>0, <1>12 DEF app_tick, _gone
    <2> QED BY <1>0, <1>1, <2>1 DEF AppSide
  <1> QED BY <1>4, <1>5, <1>6, <1>7, <1>8, <1>9, <1>10, <1>11, <1>12 DEF Next, Loop, App

-----------------------------------------------------------------------------
(* The signature. *)

LEMMA SignedKeeps == ASSUME OperatorInv, [Next]_vars PROVE Signed'
  <1>0. Settled /\ Signed /\ AppSide /\ TypeOK /\ TypeOK'
    BY SettledStep, Types DEF OperatorInv
  \* What was approved stays approved; most steps touch nothing else.
  <1>1. \A s \in Step : how[s] = "approved" => how'[s] = "approved"
    BY <1>0 DEF Settled
  <1>2. ASSUME UNCHANGED <<pc, step, act, done, token>>,
               challenge'.id = challenge.id, challenge'.response = challenge.response
        PROVE  Signed'
    BY <1>0, <1>1, <1>2 DEF Signed, ExecutedIsSigned
  <1>3. ASSUME NEW a \in Actions, next_action(a) PROVE Signed'
    <2>1. /\ step' = step + 1 /\ token' = {} /\ done' = done /\ pc' \in {"wait", "judge"}
          /\ pc' = "wait" => challenge'.id = step'
          /\ challenge' = challenge \/ challenge'.response = "none"
          /\ step' \in Step
      BY OperatorConstants, <1>0, <1>3 DEF next_action, Nobody, Step, TypeOK
    <2> QED BY <1>0, <1>1, <2>1 DEF Signed, ExecutedIsSigned
  <1>4. CASE authorized
    <2>1. /\ UNCHANGED <<step, act, done>> /\ pc = "wait" /\ pc' \in {"signed", "judge"} /\ challenge'.response = "none"
          /\ token' # {} => challenge.response = "approve"
      BY <1>4 DEF authorized, Nobody
    <2> QED BY <1>0, <1>1, <2>1 DEF Signed, ExecutedIsSigned
  <1>5. CASE remember
    BY <1>0, <1>1, <1>5 DEF remember, Signed, ExecutedIsSigned
  <1>6. CASE plan_gate
    <2>1. /\ UNCHANGED <<step, act, done, challenge, token>> /\ pc = "judge" /\ pc' \in {"model", "confirm", "execute"}
          /\ pc' # "model" => gate(act, Context).findings \cap BLOCKING = {}
      BY <1>6 DEF plan_gate
    <2>2. Context.require_authorization /\ Context.authorization = {[t EXCEPT !.expired = step \in stale] : t \in token}
      BY DEF Context
    <2>3. ASSUME pc' # "model", destructive(act) PROVE token # {}
      <3>1. verify_authorization(Context.authorization, act, Context)
        BY <2>1, <2>2, <2>3, GateAuthorizes
      <3> QED BY <2>2, <3>1 DEF verify_authorization
    <2> QED BY <1>0, <1>1, <2>1, <2>3 DEF Signed, ExecutedIsSigned
  <1>7. CASE confirm
    <2>1. UNCHANGED <<step, act, done, challenge, token>> /\ pc = "confirm" /\ pc' \in {"execute", "probe"}
      BY <1>7 DEF confirm
    <2> QED BY <1>0, <1>1, <2>1 DEF Signed, ExecutedIsSigned
  <1>8. CASE asked
    <2>1. UNCHANGED <<step, act, done, challenge, token>> /\ pc = "probe" /\ pc' \in {"execute", "model"}
      BY <1>8 DEF asked, bridgeVars
    <2> QED BY <1>0, <1>1, <2>1 DEF Signed, ExecutedIsSigned
  <1>9. CASE execute
    <2>1. /\ UNCHANGED <<step, act, challenge, token>> /\ pc = "execute" /\ pc' = "model"
          /\ done' = done \cup {[step |-> step, act |-> act, findings |-> findings]}
      BY <1>9 DEF execute, bridgeVars
    <2> QED BY <1>0, <1>1, <2>1 DEF Signed, ExecutedIsSigned
  <1>10. ASSUME NEW p \in net, on_response(p) PROVE Signed'
    <2>1. /\ UNCHANGED <<pc, step, act, done, token>> /\ p \in net /\ p.kind = "response"
          /\ challenge' = challenge \/ (challenge.id = p.id /\ challenge' = [challenge EXCEPT !.response = p.what, !.hash = p.hash])
      BY <1>10 DEF on_response, loopVars, Matching
    <2>2. challenge' # challenge => challenge'.id = p.id /\ challenge.id = p.id /\ challenge'.response = p.what
      BY ZenonT(30), <1>0, <2>1 DEF TypeOK
    <2>3. p.id \in Step /\ (p.what = "approve" => how[p.id] = "approved")
      BY <1>0, <2>1 DEF TypeOK, AppSide
    <2> QED BY <1>0, <1>1, <2>1, <2>2, <2>3 DEF Signed, ExecutedIsSigned
  <1>11. CASE on_peer_down
    <2>1. challenge'.id = challenge.id /\ challenge'.response = challenge.response
      BY <1>0, <1>11 DEF on_peer_down, TypeOK
    <2> QED BY <1>2, <1>11, <2>1 DEF on_peer_down, loopVars
  <1>12. ASSUME NEW p \in net, NEW late \in BOOLEAN, resolve(p, late) PROVE Signed'
    BY <1>2, <1>12 DEF resolve, loopVars, bridgeVars
  <1>13. CASE App \/ World \/ UNCHANGED vars
    <2>1. UNCHANGED <<pc, step, act, done, token, challenge>>
      BY <1>13 DEF App, World, app_receives, approve, approve_signed, deny, app_answer, app_tick, _gone,
         expire, revoke, vars, loopVars, bridgeVars
    <2> QED BY <1>2, <2>1
  <1> QED BY <1>3, <1>4, <1>5, <1>6, <1>7, <1>8, <1>9, <1>10, <1>11, <1>12, <1>13 DEF Next, Loop, Node

-----------------------------------------------------------------------------
(* The question. *)

LEMMA AskedKeeps == ASSUME OperatorInv, [Next]_vars PROVE Asked'
  <1>0. /\ Asked /\ TypeOK /\ TypeOK' /\ AppSide /\ (pc # "model" => step \in Step) /\ step \in Nat
        /\ \A e \in done : e.step \in Step
        /\ ledger \in [Step -> {"unknown", "open", "answered", "expired"}] /\ answer \in [Step -> {"none", "Approve", "Deny"}]
        /\ \A s \in Step : s \in Nat
    <2>1. Asked /\ TypeOK /\ TypeOK' /\ AppSide /\ (pc # "model" => step \in Step) /\ \A e \in done : e.step \in Step
      BY Types DEF OperatorInv, Signed
    <2>2. step \in Nat /\ \A s \in Step : s \in Nat
      BY <2>1 DEF TypeOK, Step
    <2> QED BY <2>1, <2>2 DEF TypeOK
  <1>1. ASSUME UNCHANGED <<pc, step, act, done, findings, confirmed_key, ledger, answer>> PROVE Asked'
    BY <1>0, <1>1 DEF Asked, ObjectionIsAsked
  <1>2. ASSUME NEW a \in Actions, next_action(a) PROVE Asked'
    <2>1. UNCHANGED <<done, ledger, answer>> /\ step' = step + 1 /\ pc' \in {"wait", "judge"} /\ step' \in Step
      BY OperatorConstants, <1>0, <1>2 DEF next_action, probeVars, TypeOK, Step
    <2> QED BY <1>0, <2>1 DEF Asked, ObjectionIsAsked
  <1>3. CASE authorized \/ remember
    <2>1. UNCHANGED <<step, act, done, ledger, answer>> /\ pc \in {"wait", "signed"} /\ pc' \in {"signed", "judge"}
      BY <1>3 DEF authorized, remember, probeVars
    <2> QED BY <1>0, <2>1 DEF Asked, ObjectionIsAsked
  <1>4. CASE plan_gate
    <2>1. /\ UNCHANGED <<step, act, done, ledger, answer>> /\ pc = "judge" /\ pc' \in {"model", "confirm", "execute"}
          /\ pc' = "execute" => ~act.high_risk
          /\ findings' = gate(act, Context).findings
          /\ confirmed_key' # NoKey => gate(act, Context).verdict = "allow"
      BY <1>4 DEF plan_gate, observe, probeVars
    <2>2. confirmed_key' # NoKey => findings' = {}
      BY <2>1, AllowsTheFaultless
    <2> QED BY <1>0, <2>1, <2>2 DEF Asked, ObjectionIsAsked
  <1>5. CASE confirm
    <2>1. UNCHANGED <<step, act, done, answer, findings>> /\ pc = "confirm" /\ confirmed_key' = NoKey
      BY <1>5 DEF confirm
    <2>2. \/ confirmed_key # NoKey /\ pc' = "execute" /\ ledger' = ledger
          \/ pc' = "probe" /\ ledger' = [ledger EXCEPT ![step] = "open"]
      BY <1>5 DEF confirm
    <2>3. answer[step] = "none"
      BY <1>0, <2>1 DEF Asked
    <2>4. \A s \in Step : s # step => ledger'[s] = ledger[s]
      BY <1>0, <2>2
    <2> QED BY <1>0, <2>1, <2>2, <2>3, <2>4 DEF Asked, ObjectionIsAsked
  <1>6. CASE asked
    <2>1. /\ UNCHANGED <<step, act, done, findings, answer>> /\ pc = "probe" /\ pc' \in {"execute", "model"}
          /\ pc' = "execute" => answer[step] = "Approve"
          /\ ledger' = [ledger EXCEPT ![step] = IF @ = "open" THEN "expired" ELSE @]
      BY <1>6 DEF asked
    <2>2. \A s \in Step : /\ s # step => ledger'[s] = ledger[s]
                          /\ ledger[s] = "answered" => ledger'[s] = "answered"
      BY <1>0, <2>1
    <2> QED BY <1>0, <2>1, <2>2 DEF Asked, ObjectionIsAsked
  <1>7. CASE execute
    <2>1. /\ UNCHANGED <<step, act, findings, ledger, answer>> /\ pc = "execute" /\ pc' = "model"
          /\ done' = done \cup {[step |-> step, act |-> act, findings |-> findings]}
      BY <1>7 DEF execute, probeVars
    <2> QED BY <1>0, <2>1 DEF Asked, ObjectionIsAsked
  <1>8. ASSUME NEW p \in net, NEW late \in BOOLEAN, resolve(p, late) PROVE Asked'
    <2>1. UNCHANGED <<pc, step, act, done, findings, confirmed_key>> /\ p \in net /\ p.kind = "answer" /\ p.id \in Step
      BY <1>0, <1>8 DEF resolve, loopVars, bridgeVars, TypeOK
    <2>2. CASE UNCHANGED probeVars
      BY <1>1, <2>1, <2>2 DEF probeVars
    <2>3. CASE ledger[p.id] = "open" /\ ledger' = [ledger EXCEPT ![p.id] = "expired"] /\ answer' = answer
      <3>1. \A s \in Step : ledger[s] # "open" => ledger'[s] = ledger[s]
        BY <1>0, <2>3
      <3> QED BY <1>0, <2>1, <2>3, <3>1 DEF Asked, ObjectionIsAsked
    <2>4. CASE /\ ledger[p.id] = "open" /\ ledger' = [ledger EXCEPT ![p.id] = "answered"]
               /\ answer' = [answer EXCEPT ![p.id] = p.what]
      <3>1. /\ \A s \in Step : ledger[s] # "open" => ledger'[s] = ledger[s] /\ answer'[s] = answer[s]
            /\ \A s \in Step : s # p.id => ledger'[s] = ledger[s] /\ answer'[s] = answer[s]
            /\ ledger'[p.id] = "answered"
        BY <1>0, <2>1, <2>4
      <3>2. \A s \in Step : answer[s] = "Approve" => answer'[s] = "Approve"
        BY <1>0, <3>1 DEF Asked
      <3> QED BY <1>0, <2>1, <2>4, <3>1, <3>2 DEF Asked, ObjectionIsAsked
    <2> QED BY <1>8, <2>2, <2>3, <2>4 DEF resolve
  <1>9. CASE on_peer_down
    <2>1. UNCHANGED <<pc, step, act, done, findings, answer>> /\ confirmed_key' = NoKey
      BY <1>9 DEF on_peer_down, loopVars
    <2>2. \A s \in Step : ledger[s] # "open" => ledger'[s] = ledger[s]
      BY <1>0, <1>9 DEF on_peer_down
    <2> QED BY <1>0, <2>1, <2>2 DEF Asked, ObjectionIsAsked
  <1>10. ASSUME NEW p \in net, on_response(p) PROVE Asked'
    BY <1>1, <1>10 DEF on_response, loopVars, probeVars
  <1>11. CASE App \/ World \/ UNCHANGED vars
    <2>1. UNCHANGED <<pc, step, act, done, findings, confirmed_key, ledger, answer>>
      BY <1>11 DEF App, World, app_receives, approve, approve_signed, deny, app_answer, app_tick, _gone,
         expire, revoke, vars, loopVars, bridgeVars, probeVars
    <2> QED BY <1>1, <2>1
  <1> QED BY <1>2, <1>3, <1>4, <1>5, <1>6, <1>7, <1>8, <1>9, <1>10, <1>11 DEF Next, Loop, Node

-----------------------------------------------------------------------------
(* The theorems. *)

THEOREM OperatorHolds == Spec => []OperatorInv
  <1>1. Init => OperatorInv
    <2> SUFFICES ASSUME Init PROVE OperatorInv
      OBVIOUS
    <2> USE DEF Init
    <2>1. TypeOK
      <3>1. challenge \in Challenge
        BY OperatorConstants, HashFacts DEF Nobody, Challenge
      <3>2. recent \in Seq(Actions) /\ Len(recent) =< Window
        BY OperatorConstants
      <3> QED BY OperatorConstants, <3>1, <3>2, HashFacts DEF TypeOK, Challenge
    <2>2. AppSide
      BY DEF AppSide
    <2>3. Signed
      BY DEF Signed, ExecutedIsSigned, Nobody
    <2>4. Asked
      BY DEF Asked, ObjectionIsAsked
    <2> QED BY <2>1, <2>2, <2>3, <2>4 DEF OperatorInv
  <1>2. OperatorInv /\ [Next]_vars => OperatorInv'
    BY Types, AppSideKeeps, SignedKeeps, AskedKeeps DEF OperatorInv
  <1> QED BY <1>1, <1>2, PTL DEF Spec

\* Every variable keeps its type.
THEOREM TypeCorrect == Spec => []TypeOK
  BY OperatorHolds, PTL DEF OperatorInv

\* A destructive action runs only in the step whose own challenge the operator
\* signed (authorize, on_envelope, verify_authorization, _settle).
THEOREM ActsOnItsOwnSignature == Spec => []ExecutedIsSigned
  BY OperatorHolds, PTL DEF OperatorInv, Signed

\* A high-risk action the gate has any objection to runs only after the operator
\* approved that step in words (observe, confirm).
THEOREM AsksOverObjections == Spec => []ObjectionIsAsked
  BY OperatorHolds, PTL DEF OperatorInv, Asked

\* How a challenge was settled never changes (approve, deny, tick, _gone).
THEOREM SettlesOnce == Spec => SettledOnce
  <1>1. OperatorInv /\ [Next]_vars => [Settled]_vars
    BY SettledStep
  <1> QED BY <1>1, OperatorHolds, PTL DEF Spec, SettledOnce

-----------------------------------------------------------------------------
(* Focus: where the agent's input lands, and what it leaves behind. *)

Places ==
    {"launch", "menu", "key", "keying", "task", "asking", "plan", "begin", "begun", "step", "capture",
     "choose", "native", "reach", "hit", "holding", "paste", "restore", "raise", "poll", "stopped"}
Landings == {"begun", "capture", "hit", "reach"}

\* The agent's place, and its own window in front only while it is shown.
Placed ==
    /\ place \in Places
    /\ after \in Landings \cup {"launch"} /\ (place \in {"raise", "poll"} => after \in Landings)
    /\ front = Gui => place \in {"menu", "keying", "asking"}

\* What was borrowed is given back on every way out, unless something came
\* between: keys are down only while held, and while the agent's text is on the
\* clipboard what the user had there is saved.
Borrowed ==
    /\ "keys" \notin spoiled => held = 0 \/ place = "holding"
    /\ "clip" \notin spoiled =>
          IF place \in {"paste", "restore"} THEN previous = own ELSE clip = own

\* A confirmation holds until someone moves the focus.
Aimed == pinned /\ confirmed /\ ~stolen /\ place \in {"capture", "hit", "reach"} => front = target

FocusInv == FocusTypeOK /\ TokenIsTheUsers /\ Placed /\ Borrowed /\ Aimed

LEMMA FocusInitHolds == FocusInit => FocusInv
  <1> SUFFICES ASSUME FocusInit PROVE FocusInv
    OBVIOUS
  <1>1. hidden \in [Windows -> BOOLEAN]
    BY DEF FocusInit
  <1>2. tier \in [Windows -> Tiers]
    BY DEF FocusInit, Tiers
  <1> QED BY <1>1, <1>2, FocusConstants
        DEF FocusInit, FocusInv, FocusTypeOK, TokenIsTheUsers, Placed, Borrowed, Aimed, Places, Landings

\* Asking for a window: it is in front already, or it has to be raised.
LEMMA BringsTo ==
    ASSUME FocusInv, NEW next \in Landings, NEW w \in Windows, Bring(w, next)
    PROVE  /\ target' = w /\ place' \in {next, "raise"} /\ after' \in Landings \cup {"launch"}
           /\ place' = "raise" => after' = next
           /\ place' # "raise" => front = target'
  BY DEF Bring, Settles, FocusInv, Placed, Landings

LEMMA ActivationBrings ==
    ASSUME FocusInv, NEW next \in Landings, activate_title(next)
    PROVE  /\ target' \in Windows \cup {Nowhere} /\ place' \in {next, "raise"} /\ after' \in Landings \cup {"launch"}
           /\ place' = "raise" => after' = next
           /\ place' # "raise" /\ confirmed' => front = target'
  <1>1. CASE \E w \in BestMatches : Bring(w, next)
    BY <1>1, BringsTo DEF BestMatches
  <1>2. CASE Fails(next)
    BY <1>2 DEF Fails, Settles, FocusInv, Placed, Landings
  <1> QED BY <1>1, <1>2 DEF activate_title

LEMMA ActivatedBrings ==
    ASSUME FocusInv, NEW next \in Landings, Activated(next)
    PROVE  /\ target' \in Windows \cup {Nowhere} /\ place' \in {next, "raise"} /\ after' \in Landings \cup {"launch"}
           /\ place' = "raise" => after' = next
           /\ pinned /\ place' # "raise" /\ confirmed' => front = target'
  <1>1. CASE pinned /\ activate_title(next)
    BY <1>1, ActivationBrings
  <1>2. CASE ~pinned /\ target' = Nowhere /\ Settles(next, TRUE) /\ UNCHANGED after
    BY <1>2 DEF Settles, FocusInv, Placed, Landings
  <1> QED BY <1>1, <1>2 DEF Activated

\* The agent's windows come and go; what was in front before the first of them
\* is remembered.
LEMMA LaunchKeeps ==
    ASSUME FocusInv,
           \/ OfferMenu \/ MenuPicked
           \/ Prompt("key", "keying") \/ Skip("key", "task") \/ Answered("keying", "task")
           \/ Prompt("task", "asking") \/ Skip("task", "plan") \/ Answered("asking", "plan")
    PROVE  FocusInv'
  <1> USE FocusConstants
      DEF FocusInv, FocusTypeOK, TokenIsTheUsers, Placed, Borrowed, Aimed, Places, Landings, run, desk
  <1>1. CASE OfferMenu
    BY <1>1 DEF OfferMenu, Remembered, current_foreground
  <1>2. CASE MenuPicked
    BY <1>2 DEF MenuPicked, CloseGui
  <1>3. ASSUME NEW here \in {"key", "task"}, NEW showing \in {"keying", "asking"}, Prompt(here, showing)
        PROVE  FocusInv'
    BY <1>3 DEF Prompt, Remembered, current_foreground
  <1>4. ASSUME NEW here \in {"key", "task"}, NEW next \in {"task", "plan"}, Skip(here, next) PROVE FocusInv'
    BY <1>4 DEF Skip
  <1>5. ASSUME NEW showing \in {"keying", "asking"}, NEW next \in {"task", "plan"}, Answered(showing, next)
        PROVE  FocusInv'
    BY <1>5 DEF Answered, CloseGui
  <1> QED BY <1>1, <1>2, <1>3, <1>4, <1>5

\* Activations: the first focus, and the one before each frame and input.
LEMMA ActivationKeeps ==
    ASSUME FocusInv,
           InitialFocus \/ _present \/ (\E k \in Kinds : Choose(k)) \/ Invoke \/ ReachKey
           \/ RaiseOnce \/ confirm_foreground
    PROVE  FocusInv'
  <1> DEFINE Brought(next) ==
        /\ target' \in Windows \cup {Nowhere} /\ place' \in {next, "raise"} /\ after' \in Landings \cup {"launch"}
        /\ place' = "raise" => after' = next
        /\ pinned /\ place' # "raise" /\ confirmed' => front = target'
  <1>1. ASSUME NEW next \in Landings, Activated(next) PROVE Brought(next)
    BY <1>1, ActivatedBrings
  <1>2. ASSUME NEW next \in Landings, Brought(next), place \in Places \ {"holding", "paste", "restore"},
               front # Gui,
               UNCHANGED <<server, pinned, tier, hidden, front, fg, before, clip, previous, own, held, spoiled,
                           moves>>,
               acts' \in 0 .. MaxActions, landed' \in {landed, front}
        PROVE  FocusInv'
    BY <1>2, FocusConstants
       DEF FocusInv, FocusTypeOK, TokenIsTheUsers, Placed, Borrowed, Aimed, Places, Landings
  <1>3. ASSUME UNCHANGED <<server, pinned, tier, hidden, front, fg, before, after, target, clip, previous, own,
                           held, spoiled, moves>>,
               place \in Places \ {"holding", "paste", "restore"}, front # Gui, place' = "step",
               acts' \in 0 .. MaxActions, landed' \in {landed, front}
        PROVE  FocusInv'
    BY <1>3 DEF FocusInv, FocusTypeOK, TokenIsTheUsers, Placed, Borrowed, Aimed, Places, Landings
  <1> HIDE DEF Brought
  <1>4. place \in {"begin", "step", "choose", "native", "reach", "raise", "poll"} => front # Gui
    BY DEF FocusInv, Placed
  <1>5. acts \in 0 .. MaxActions
    BY DEF FocusInv, FocusTypeOK
  <1>6. CASE InitialFocus
    <2> USE <1>6 DEF InitialFocus, run, desk, Landings, Places
    <2>1. CASE pinned /\ activate_title("begun")
      <3>1. Brought("begun")
        BY <2>1, ActivationBrings DEF Brought
      <3> QED BY <1>2, <1>4, <1>5, <3>1
    <2>2. CASE ~pinned /\ fg # Nowhere /\ restore_foreground("begun")
      <3>1. fg \in Windows
        BY <2>2 DEF FocusInv, FocusTypeOK, TokenIsTheUsers
      <3>2. CASE Bring(fg, "begun")
        <4>1. Brought("begun")
          BY <3>1, <3>2, BringsTo DEF Brought
        <4> QED BY <1>2, <1>4, <1>5, <4>1
      <3>3. CASE Fails("begun")
        <4>1. Brought("begun")
          BY <2>2, <3>3 DEF Fails, Settles, FocusInv, Placed, Brought
        <4> QED BY <1>2, <1>4, <1>5, <4>1
      <3> QED BY <2>2, <3>2, <3>3 DEF restore_foreground
    <2>3. CASE ~pinned /\ fg = Nowhere /\ place' = "step" /\ UNCHANGED <<after, target, confirmed, stolen>>
      BY <1>3, <1>4, <1>5, <2>3
    <2> QED BY <2>1, <2>2, <2>3
  <1>7. CASE _present
    BY <1>1, <1>2, <1>4, <1>5, <1>7 DEF _present, run, desk, Landings, Places
  <1>8. ASSUME NEW k \in Kinds, Choose(k) PROVE FocusInv'
    <2>1. acts' \in 0 .. MaxActions
      BY <1>5, <1>8, FocusConstants DEF Choose
    <2>2. CASE Activated("hit")
      BY <1>1, <1>2, <1>4, <1>8, <2>1, <2>2 DEF Choose, run, desk, Landings, Places
    <2>3. CASE place' = "step" /\ UNCHANGED <<after, target, confirmed, stolen>>
      BY <1>3, <1>4, <1>8, <2>1, <2>3 DEF Choose, run, desk, Places
    <2>4. CASE place' = "native" /\ UNCHANGED <<after, target, confirmed, stolen>>
      BY <1>8, <2>1, <2>4 DEF Choose, run, desk,
         FocusInv, FocusTypeOK, TokenIsTheUsers, Placed, Borrowed, Aimed, Places, Landings
    <2> QED BY <1>8, <2>2, <2>3, <2>4 DEF Choose
  <1>9. CASE Invoke
    <2>1. CASE \E next \in {"reach", "hit"} : Activated(next)
      BY <1>1, <1>2, <1>4, <1>5, <1>9, <2>1 DEF Invoke, run, desk, Landings, Places
    <2>2. CASE place' = "step" /\ UNCHANGED <<after, target, confirmed, stolen>>
      BY <1>3, <1>4, <1>5, <1>9, <2>2 DEF Invoke, run, desk, Places
    <2> QED BY <1>9, <2>1, <2>2 DEF Invoke
  <1>10. CASE ReachKey
    <2>1. CASE \E next \in {"reach", "hit"} : Activated(next)
      BY <1>1, <1>2, <1>4, <1>5, <1>10, <2>1 DEF ReachKey, Lands, run, desk, Landings, Places
    <2>2. CASE place' = "step" /\ UNCHANGED <<after, target, confirmed, stolen>>
      BY <1>3, <1>4, <1>5, <1>10, <2>2 DEF ReachKey, Lands, run, desk, Places
    <2> QED BY <1>10, <2>1, <2>2 DEF ReachKey
  <1>11. CASE RaiseOnce
    BY <1>11, FocusConstants
       DEF RaiseOnce, run, FocusInv, FocusTypeOK, TokenIsTheUsers, Placed, Borrowed, Aimed, Places, Landings
  <1>12. CASE confirm_foreground
    BY <1>12 DEF confirm_foreground, Settles, Confirms, run, desk,
       FocusInv, FocusTypeOK, TokenIsTheUsers, Placed, Borrowed, Aimed, Places, Landings
  <1> QED BY <1>6, <1>7, <1>8, <1>9, <1>10, <1>11, <1>12

\* Frames and inputs, and what they borrow.
LEMMA ActingKeeps ==
    ASSUME FocusInv,
           \/ BuildPlan \/ Begun \/ capture \/ Input \/ HoldKeys \/ ReleaseKeys
           \/ PasteCopy \/ PasteHotkey \/ PasteRestore \/ Finished
    PROVE  FocusInv'
  <1> USE FocusConstants
      DEF FocusInv, FocusTypeOK, TokenIsTheUsers, Placed, Borrowed, Aimed, Places, Landings, run, desk, Lands
  <1>1. CASE BuildPlan
    BY <1>1 DEF BuildPlan
  <1>2. CASE Begun
    BY <1>2 DEF Begun
  <1>3. CASE capture
    BY <1>3 DEF capture
  <1>4. CASE Input
    BY <1>4 DEF Input
  <1>5. CASE HoldKeys
    <2> USE <1>5 DEF HoldKeys
    <2>1. CASE held' = 2 /\ place' = "holding" /\ UNCHANGED spoiled
      BY <2>1
    <2>2. CASE /\ held' \in {held, held + 1} \cap 0..2 /\ place' = "step"
               /\ spoiled' = spoiled \cup {"keys"}
      <3>1. Borrowed'
        BY <2>2
      <3> QED BY <2>2, <3>1
    <2> QED BY <2>1, <2>2
  <1>6. CASE ReleaseKeys
    <2> USE <1>6 DEF ReleaseKeys
    <2>1. CASE /\ held' \in (IF "keys" \in spoiled THEN 0..2 ELSE {0})
               /\ UNCHANGED spoiled
      <3>1. held' \in 0..2 /\ ("keys" \notin spoiled => held' = 0)
        BY <2>1
      <3> QED BY <2>1, <3>1
    <2>2. CASE held' \in 1..2 /\ spoiled' = spoiled \cup {"keys"}
      <3>1. Borrowed'
        BY <2>2
      <3> QED BY <2>2, <3>1
    <2> QED BY <2>1, <2>2
  <1>7. CASE PasteCopy
    <2> USE <1>7 DEF PasteCopy
    <2>1. CASE previous' = clip /\ clip' = Typed /\ place' = "paste" /\ UNCHANGED spoiled
      BY <2>1
    <2>2. CASE /\ previous' = Empty /\ clip' = Typed /\ place' = "paste"
               /\ spoiled' = spoiled \cup {"clip"}
      <3>1. Borrowed'
        BY <2>2
      <3> QED BY <2>2, <3>1
    <2>3. CASE place' = "step" /\ UNCHANGED <<previous, clip, spoiled>>
      BY <2>3
    <2> QED BY <2>1, <2>2, <2>3
  <1>8. CASE PasteHotkey
    BY <1>8 DEF PasteHotkey, PasteGoesOn
  <1>9. CASE PasteRestore
    BY <1>9 DEF PasteRestore
  <1>10. CASE Finished
    BY <1>10 DEF Finished
  <1> QED BY <1>1, <1>2, <1>3, <1>4, <1>5, <1>6, <1>7, <1>8, <1>9, <1>10

\* The user and the other programs.
LEMMA UserKeeps ==
    ASSUME FocusInv, CopyText \/ \E w \in Windows : TakeFocus(w) \/ \E t \in Tiers : Retitle(w, t)
    PROVE  FocusInv'
  <1> USE FocusConstants
      DEF FocusInv, FocusTypeOK, TokenIsTheUsers, Placed, Borrowed, Aimed, Places, Landings, run, desk, Interferes
  <1>1. CASE CopyText
    <2>1. /\ "clip" \notin spoiled' => place \notin {"paste", "restore"}
          /\ "keys" \notin spoiled' => "keys" \notin spoiled
          /\ spoiled' \subseteq {"keys", "clip"}
      BY <1>1 DEF CopyText
    <2> QED BY <1>1, <2>1 DEF CopyText
  <1>2. ASSUME NEW w \in Windows, TakeFocus(w) PROVE FocusInv'
    BY <1>2 DEF TakeFocus
  <1>3. ASSUME NEW w \in Windows, NEW t \in Tiers, Retitle(w, t) PROVE FocusInv'
    BY <1>3 DEF Retitle
  <1> QED BY <1>1, <1>2, <1>3

LEMMA FocusHolds == FocusSpec => []FocusInv
  <1>1. FocusInv /\ [FocusNext]_focusVars => FocusInv'
    <2>1. ASSUME FocusInv, FocusNext PROVE FocusInv'
      BY <2>1, LaunchKeeps, ActivationKeeps, ActingKeeps, UserKeeps DEF FocusNext, Agent
    <2>2. ASSUME FocusInv, UNCHANGED focusVars PROVE FocusInv'
      BY <2>2 DEF focusVars, run, desk, FocusInv, FocusTypeOK, TokenIsTheUsers, Placed, Borrowed, Aimed
    <2> QED BY <2>1, <2>2
  <1> QED BY <1>1, FocusInitHolds, PTL DEF FocusSpec

\* Every variable of the focus keeps its type.
THEOREM FocusTypeCorrect == FocusSpec => []FocusTypeOK
  BY FocusHolds, PTL DEF FocusInv

\* Whatever raises, refuses or interferes, between two actions no key is held unless
\* a keyDown or keyUp raised, and the clipboard holds what the user last put on it
\* unless reading or writing it failed or the user copied within the paste; and the
\* window to restore is the user's (type_text, hold_key, capture_foreground).
THEOREM HandsComeOff == FocusSpec => []HandsOff
  <1>1. FocusInv => HandsOff
    BY DEF FocusInv, Borrowed, HandsOff, NothingIsHeld
  <1> QED BY <1>1, FocusHolds, PTL

\* A frame or an input of a pinned run that carries no warning is of the window
\* that was asked for, unless someone moved the focus after it was confirmed
\* (_apply_focus, activate_title).
THEOREM UntaggedHitsItsTarget == FocusSpec => UntaggedIsOnTarget
  <1>1. ASSUME FocusInv, FocusNext PROVE OnTarget
    <2> SUFFICES ASSUME landed' # landed \/ tagged' # tagged, pinned, place \in {"capture", "hit", "reach"},
                        ~tagged', ~stolen
                 PROVE  landed' = target
      BY DEF OnTarget
    <2>1. CASE capture
      BY <1>1, <2>1 DEF capture, FocusInv, Aimed
    <2>2. CASE ReachKey \/ Input \/ HoldKeys
      BY <1>1, <2>2 DEF ReachKey, Input, HoldKeys, Lands, FocusInv, Aimed
    <2>3. CASE ~(capture \/ ReachKey \/ Input \/ HoldKeys)
      <3>1. UNCHANGED <<landed, tagged>>
        BY <1>1, <2>3 DEF FocusNext, Agent, OfferMenu, MenuPicked, Prompt, Skip, Answered, BuildPlan, InitialFocus,
           Begun, RaiseOnce, confirm_foreground, _present, Choose, Invoke, ReleaseKeys, PasteCopy, PasteHotkey,
           PasteRestore, Finished, TakeFocus, Retitle, CopyText
      <3> QED BY <3>1
    <2> QED BY <2>1, <2>2, <2>3
  <1>2. FocusInv /\ [FocusNext]_focusVars => [OnTarget]_focusVars
    BY <1>1
  <1> QED BY <1>2, FocusHolds, PTL DEF FocusSpec, UntaggedIsOnTarget

=============================================================================
