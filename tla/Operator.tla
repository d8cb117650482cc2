------------------------------ MODULE Operator ------------------------------
(***************************************************************************)
(* A destructive step of the agent loop between the node and the operator: *)
(* the loop's gate, confirmation and execution (agent/loop.py, citadel     *)
(* loop_gate.py), the node's OperatorBridge and ProbeLedger (dialogue      *)
(* agent_bridge.py, dialogue.py) and the App's challenges and questions    *)
(* (app.py, guard.py, dialogue.py Conversation).                           *)
(* The loop thread, the node's session thread, the App's session thread    *)
(* and the operator interleave; a lock section is a step.  The session     *)
(* hands a packet over at most once and may lose it (module Session).      *)
(* A step has at most one challenge and one probe, named by its number.    *)
(*                                                                         *)
(* First comes the gate: citadel/action_gate.py with the pieces it calls,  *)
(* authz.py's token check, socratic.py's verdict on unattended posting and *)
(* capability.py's scopes.  A check is a predicate on a planned action and *)
(* a context; the gate collects the findings and takes the verdict of      *)
(* highest precedence.  Of an instruction the gate only tells whether the  *)
(* instruction gate finds it asks to post unattended; of a text, whether   *)
(* it is empty.                                                            *)
(***************************************************************************)
EXTENDS Integers, Sequences, FiniteSets

CONSTANTS
    Actions,        \* the actions the model may choose
    Grants,         \* capability grants of this node
    Issuers,        \* issuers it trusts
    Unattended,     \* the instruction asks to post unattended
    KnownFailures,  \* hashes of consolidated failures
    Goals,          \* active goals
    RequireIntent,
    Window,         \* _GATE_WINDOW: the recent actions the gate sees
    MaxStep,        \* bound on the steps of the run
    MaxDown         \* bound on the times either side loses the other

ASSUME OperatorConstants ==
    /\ MaxStep \in Nat /\ MaxDown \in Nat /\ Window \in Nat \ {0}

-----------------------------------------------------------------------------
\* The gate.

GRANTABLE_SCOPES == {"observe.read", "physical.click", "physical.type", "physical.key", "physical.scroll",
                     "physical.drag", "system.open", "process.run", "network.post", "network.send"}

READ_KINDS == {"read", "observe", "get", "inspect", "screenshot", "wait", "poll"}
POSTING_KINDS == {"post", "publish", "submit", "send", "reply", "comment", "tweet", "dm"}
DESTRUCTIVE_KINDS == {"delete", "overwrite", "format", "drop", "uninstall", "run_elevated"}

CAPABILITY_FOR(kind) ==
    CASE kind \in {"click", "press"} -> "physical.click"
      [] kind \in {"type"} -> "physical.type"
      [] kind \in {"key"} -> "physical.key"
      [] kind \in {"scroll"} -> "physical.scroll"
      [] kind \in {"drag"} -> "physical.drag"
      [] kind \in {"open"} -> "system.open"
      [] kind \in {"run"} -> "process.run"
      [] kind \in {"run_elevated"} -> "process.run_elevated"
      [] kind \in {"post", "publish", "submit", "comment"} -> "network.post"
      [] kind \in {"send", "reply"} -> "network.send"
      [] kind \in {"read", "observe"} -> "observe.read"
      [] OTHER -> "none"

mutating(a) == a.kind \notin READ_KINDS
destructive(a) == a.high_risk \/ a.kind \in DESTRUCTIVE_KINDS
signature(a) == <<a.kind, a.target, a.text>>

\* The fields an authorization commits to.
action_hash(a) == <<a.kind, a.target, a.text, a.high_risk>>

allows(granted, required) == required \in GRANTABLE_SCOPES /\ required \in granted

\* effective_scopes: the scopes of the grants that verify now.
effective_scopes(grants, issuers, subject) ==
    UNION {g.scopes : g \in {h \in grants : /\ h.issuer \in issuers
                                            /\ h.subject = subject
                                            /\ h.valid
                                            /\ h.scopes # {} /\ h.scopes \subseteq GRANTABLE_SCOPES}}

\* verify_authorization: a token of a trusted operator for exactly this action on
\* this node, within its time.
verify_authorization(token, a, ctx) ==
    /\ token # {}
    /\ \A t \in token : /\ t.signer \in ctx.operators
                        /\ t.hash = action_hash(a)
                        /\ t.subject = ctx.subject
                        /\ ~t.expired

Last(s) == s[Len(s)]

_check_stale_target(a, c) == a.generation # 0 /\ c.generation # 0 /\ a.generation # c.generation
_check_target_present(a, c) == a.target # "" /\ c.present # {} /\ a.target \notin c.present
_check_no_op(a, c) == c.recent # << >> /\ signature(Last(c.recent)) = signature(a) /\ mutating(a)
_check_repeated(a, c) ==
    Cardinality({i \in DOMAIN c.recent : signature(c.recent[i]) = signature(a)}) >= c.repeat_threshold
_check_polling(a, c) ==
    LET n == c.poll_window - 1 IN
    /\ ~mutating(a)
    /\ n > 0 /\ Len(c.recent) >= n
    /\ \A i \in Len(c.recent) - n + 1 .. Len(c.recent) : ~mutating(c.recent[i])
_check_destructive_chain(a, c) == destructive(a) /\ c.recent # << >> /\ destructive(Last(c.recent))
_check_missing_verification(a, c) == c.requires_verification /\ mutating(a) /\ ~a.expected
_check_excessive_cost(a, c) == c.budget > 0 /\ a.cost > c.budget
_check_capability(a, c) ==
    /\ c.enforce \/ c.capabilities # {}
    /\ IF CAPABILITY_FOR(a.kind) = "none" THEN mutating(a)
       ELSE ~allows(c.capabilities, CAPABILITY_FOR(a.kind))
_check_unattended_posting(a, c) == a.kind \in POSTING_KINDS /\ c.unattended
_check_intent_unproven(a, c) ==
    /\ c.require_intent /\ mutating(a)
    /\ a.purpose = "" \/ (destructive(a) /\ ~a.rollback /\ ~a.irreversible)
_check_intent_contradiction(a, c) ==
    \/ a.irreversible /\ a.rollback
    \/ a.purpose # "" /\ c.goals # {} /\ a.purpose \notin c.goals
_check_preconditions(a, c) == c.present # {} /\ ~(a.requires \subseteq c.present)
_check_known_failure(a, c) == action_hash(a) \in c.known_failures

_check_authorization(a, c) ==
    c.require_authorization /\ destructive(a) /\ ~verify_authorization(c.authorization, a, c)

REOBSERVE(a, c) ==
    (IF _check_stale_target(a, c) THEN {"stale-target"} ELSE {}) \cup
    (IF _check_target_present(a, c) THEN {"target-mismatch"} ELSE {}) \cup
    (IF _check_preconditions(a, c) THEN {"precondition-failed"} ELSE {})

REJECT(a, c) ==
    (IF _check_no_op(a, c) THEN {"no-op"} ELSE {}) \cup
    (IF _check_repeated(a, c) THEN {"repeated"} ELSE {}) \cup
    (IF _check_polling(a, c) THEN {"polling"} ELSE {}) \cup
    (IF _check_destructive_chain(a, c) THEN {"destructive-chain"} ELSE {}) \cup
    (IF _check_excessive_cost(a, c) THEN {"excessive-cost"} ELSE {}) \cup
    (IF _check_capability(a, c) THEN {"out-of-capability"} ELSE {}) \cup
    (IF _check_unattended_posting(a, c) THEN {"unattended-posting"} ELSE {}) \cup
    (IF _check_intent_unproven(a, c) THEN {"intent-unproven"} ELSE {}) \cup
    (IF _check_intent_contradiction(a, c) THEN {"intent-contradiction"} ELSE {}) \cup
    (IF _check_known_failure(a, c) THEN {"known-failure"} ELSE {}) \cup
    (IF _check_authorization(a, c) THEN {"unauthorized-action"} ELSE {})

REWRITE(a, c) == IF _check_missing_verification(a, c) THEN {"missing-verification"} ELSE {}

\* The verdict of highest precedence; a rewrite adds the expected observation.
gate(a, c) ==
    [ findings |-> REOBSERVE(a, c) \cup REJECT(a, c) \cup REWRITE(a, c),
      verdict |-> CASE REOBSERVE(a, c) # {} -> "reobserve"
                    [] REOBSERVE(a, c) = {} /\ REJECT(a, c) # {} -> "reject"
                    [] REOBSERVE(a, c) \cup REJECT(a, c) = {} /\ REWRITE(a, c) # {} -> "rewrite"
                    [] OTHER -> "allow",
      replacement |-> IF REOBSERVE(a, c) \cup REJECT(a, c) = {} /\ REWRITE(a, c) # {}
                      THEN {[a EXCEPT !.expected = TRUE]} ELSE {} ]

\* loop_gate.py: the findings that stop the loop; the others are notes.
BLOCKING == {"out-of-capability", "unattended-posting", "known-failure", "intent-contradiction",
             "intent-unproven", "unauthorized-action"}

-----------------------------------------------------------------------------
\* The loop, the bridge and the App.

VARIABLES
    pc, step, act,          \* the loop: where it is, the step, its action
    recent,                 \* history, the part the gate sees
    challenge,              \* _challenges of the bridge: the one being waited for
    last_authorized,        \* _last_authorized
    confirmed_key,          \* _confirmed_key
    token,                  \* what authorize returned
    findings,               \* findings of the gate for this step
    ledger, answer,         \* the status and the answer of each step's probe
    pending, how,           \* App: challenges shown, and how each was settled
    shown,                  \* App: the hash of the action each challenge shows
    unlocking,              \* App: challenges whose approval waits for the key
    questions,              \* App: probes shown
    net,                    \* packets under way
    stale,                  \* challenges past their expiry
    trusted,                \* the operator is on the node's trust set
    downs,
    done                    \* the actions executed

loopVars == <<pc, step, act, recent, findings, done>>
bridgeVars == <<challenge, last_authorized, confirmed_key, token>>
probeVars == <<ledger, answer>>
appVars == <<pending, how, shown, unlocking, questions>>
worldVars == <<stale, trusted, downs>>
vars == <<loopVars, bridgeVars, probeVars, appVars, net, worldVars>>

Step == 1 .. MaxStep
NoKey == << >>
Nobody == [id |-> 0, response |-> "none", hash |-> NoKey, dead |-> FALSE]

Max(a, b) == IF a > b THEN a ELSE b

Init ==
    /\ pc = "model" /\ step = 0 /\ act \in Actions /\ recent = << >> /\ findings = {} /\ done = {}
    /\ challenge = Nobody /\ last_authorized = NoKey /\ confirmed_key = NoKey /\ token = {}
    /\ ledger = [s \in Step |-> "unknown"] /\ answer = [s \in Step |-> "none"]
    /\ pending = {} /\ how = [s \in Step |-> "none"] /\ shown = [s \in Step |-> NoKey] /\ unlocking = {} /\ questions = {}
    /\ net = {} /\ stale = {} /\ trusted = TRUE /\ downs = 0

Packet(kind, id, what, hash) == [kind |-> kind, id |-> id, what |-> what, hash |-> hash]

\* Mutation of Recorded: the history is not cut.
RecordedAll == recent' = Append(recent, act)

\* record_result: the step joins the history whatever became of it.
Recorded == recent' = SubSeq(Append(recent, act), Max(1, Len(recent) + 2 - Window), Len(recent) + 1)

(***************************************************************************)
(* The loop thread.                                                        *)
(***************************************************************************)

\* The model chose an action; plan_gate asks authorize for a destructive one:
\* a challenge is recorded, then sent.
next_action(a) ==
    /\ pc = "model" /\ step < MaxStep
    /\ step' = step + 1 /\ act' = a /\ token' = {}
    /\ IF destructive(a)
       THEN /\ pc' = "wait"
            /\ challenge' = [Nobody EXCEPT !.id = step + 1]
            /\ last_authorized' = NoKey
            /\ net' = net \cup {Packet("challenge", step + 1, "none", action_hash(a))}
       ELSE pc' = "judge" /\ UNCHANGED <<challenge, last_authorized, net>>
    /\ UNCHANGED <<recent, findings, done, confirmed_key, probeVars, appVars, worldVars>>

\* authorize, end of the wait: answered, or dead, or past the deadline.
authorized ==
    /\ pc = "wait"
    /\ challenge' = Nobody
    /\ IF challenge.response = "approve" /\ challenge.hash = action_hash(act)
       THEN /\ pc' = "signed"
            /\ token' = {[signer |-> "operator", hash |-> challenge.hash, subject |-> "node",
                          expired |-> FALSE]}
       ELSE pc' = "judge" /\ token' = {}
    /\ UNCHANGED <<step, act, recent, findings, done, last_authorized, confirmed_key,
                   probeVars, appVars, net, worldVars>>

\* authorize, second lock: the approval is remembered for observe.
remember ==
    /\ pc = "signed"
    /\ pc' = "judge"
    /\ last_authorized' = action_hash(act)
    /\ UNCHANGED <<step, act, recent, findings, done, challenge, confirmed_key, token,
                   probeVars, appVars, net, worldVars>>

\* make_plan_gate: the context the loop's gate judges in.
Context ==
    [ generation |-> 0, present |-> {}, recent |-> recent, repeat_threshold |-> 2, poll_window |-> 3,
      requires_verification |-> FALSE, budget |-> 0, enforce |-> TRUE,
      capabilities |-> effective_scopes(Grants, Issuers, "node"), unattended |-> Unattended,
      require_intent |-> RequireIntent, goals |-> Goals, known_failures |-> KnownFailures,
      require_authorization |-> TRUE, subject |-> "node",
      authorization |-> {[t EXCEPT !.expired = step \in stale] : t \in token},
      operators |-> IF trusted THEN {"operator"} ELSE {} ]

\* Mutation of observe: the verdict of the gate is not looked at.
ObserveSigned(decision) ==
    IF last_authorized = action_hash(act) /\ destructive(act) THEN action_hash(act) ELSE NoKey

\* observe: a fresh signature for this action and a clean verdict confirm the step.
observe(decision) ==
    IF last_authorized = action_hash(act) /\ decision.verdict = "allow" /\ destructive(act)
    THEN action_hash(act) ELSE NoKey

\* plan_gate, then the loop: a blocking finding ends the step, a high-risk action
\* is confirmed, another one runs.
plan_gate ==
    LET decision == gate(act, Context) IN
    /\ pc = "judge"
    /\ findings' = decision.findings
    /\ last_authorized' = NoKey
    /\ confirmed_key' = observe(decision)
    /\ IF decision.findings \cap BLOCKING # {}
       THEN pc' = "model" /\ Recorded
       ELSE pc' = (IF act.high_risk THEN "confirm" ELSE "execute") /\ UNCHANGED recent
    /\ UNCHANGED <<step, act, done, challenge, token, probeVars, appVars, net, worldVars>>

\* confirm: the signature was the confirmation, used once; otherwise the operator
\* is asked in words.
confirm ==
    /\ pc = "confirm"
    /\ confirmed_key' = NoKey
    /\ IF confirmed_key # NoKey
       THEN pc' = "execute" /\ UNCHANGED <<ledger, net>>
       ELSE /\ pc' = "probe"
            /\ ledger' = [ledger EXCEPT ![step] = "open"]
            /\ net' = net \cup {Packet("probe", step, "none", NoKey)}
    /\ UNCHANGED <<step, act, recent, findings, done, challenge, last_authorized, token,
                   answer, appVars, worldVars>>

\* ask, end of ledger.wait: an open probe is expired by the deadline.
asked ==
    /\ pc = "probe"
    /\ ledger' = [ledger EXCEPT ![step] = IF @ = "open" THEN "expired" ELSE @]
    /\ net' = net \cup {Packet("status", step, "none", NoKey)}
    /\ IF answer[step] = "Approve" THEN pc' = "execute" /\ UNCHANGED recent
       ELSE pc' = "model" /\ Recorded
    /\ UNCHANGED <<step, act, findings, done, bridgeVars, answer, appVars, worldVars>>

execute ==
    /\ pc = "execute"
    /\ pc' = "model" /\ Recorded
    /\ done' = done \cup {[step |-> step, act |-> act, findings |-> findings]}
    /\ UNCHANGED <<step, act, findings, bridgeVars, probeVars, appVars, net, worldVars>>

(***************************************************************************)
(* The node's session thread.                                              *)
(***************************************************************************)

\* Mutation of Matching: the id of the challenge is not compared.
MatchingAny(p) == challenge.id # 0 /\ challenge.response = "none"

\* on_envelope: the first response to the challenge waited for counts.
Matching(p) == challenge.id = p.id /\ challenge.response = "none"

on_response(p) ==
    /\ p \in net /\ p.kind = "response"
    /\ net' = net \ {p}
    /\ challenge' = IF Matching(p) THEN [challenge EXCEPT !.response = p.what, !.hash = p.hash] ELSE challenge
    /\ UNCHANGED <<loopVars, last_authorized, confirmed_key, token, probeVars, appVars, worldVars>>

\* ProbeLedger.resolve: only an open probe takes an answer, within its time.
resolve(p, late) ==
    /\ p \in net /\ p.kind = "answer"
    /\ net' = net \ {p}
    /\ IF ledger[p.id] # "open" THEN UNCHANGED probeVars
       ELSE IF late THEN ledger' = [ledger EXCEPT ![p.id] = "expired"] /\ UNCHANGED answer
       ELSE ledger' = [ledger EXCEPT ![p.id] = "answered"] /\ answer' = [answer EXCEPT ![p.id] = p.what]
    /\ UNCHANGED <<loopVars, bridgeVars, appVars, worldVars>>

\* The node finds the App gone (silence or its goodbye): every wait fails now.
on_peer_down ==
    /\ downs < MaxDown /\ downs' = downs + 1
    /\ challenge' = IF challenge.id # 0 THEN [challenge EXCEPT !.dead = TRUE] ELSE challenge
    /\ last_authorized' = NoKey /\ confirmed_key' = NoKey
    /\ ledger' = [s \in Step |-> IF ledger[s] = "open" THEN "expired" ELSE ledger[s]]
    /\ UNCHANGED <<loopVars, token, answer, appVars, net, stale, trusted>>

(***************************************************************************)
(* The App.                                                                *)
(***************************************************************************)

\* _challenge, and Conversation.receive of a question or of the status closing it.
app_receives(p) ==
    /\ p \in net /\ p.kind \in {"challenge", "probe", "status"}
    /\ net' = net \ {p}
    /\ pending' = IF p.kind = "challenge" /\ how[p.id] = "none" THEN pending \cup {p.id} ELSE pending
    /\ shown' = IF p.kind = "challenge" THEN [shown EXCEPT ![p.id] = p.hash] ELSE shown
    /\ questions' = CASE p.kind = "probe" -> questions \cup {p.id}
                      [] p.kind = "status" -> questions \ {p.id}
                      [] OTHER -> questions
    /\ UNCHANGED <<loopVars, bridgeVars, probeVars, how, unlocking, worldVars>>

\* approve, first half: the challenge is reviewed, the key is asked for.
approve(id) ==
    /\ id \in pending \ unlocking /\ id \notin stale
    /\ unlocking' = unlocking \cup {id}
    /\ UNCHANGED <<loopVars, bridgeVars, probeVars, pending, how, shown, questions, net, worldVars>>

\* Mutation of approve_signed: the challenge is not looked up again.
SignUnsettled(id) ==
    /\ id \in unlocking
    /\ unlocking' = unlocking \ {id}
    /\ IF id \notin stale
       THEN /\ pending' = pending \ {id} /\ how' = [how EXCEPT ![id] = "approved"]
            /\ net' = net \cup {Packet("response", id, "approve", shown[id])}
       ELSE UNCHANGED <<pending, how, net>>
    /\ UNCHANGED <<loopVars, bridgeVars, probeVars, shown, questions, worldVars>>

\* approve, second half: reviewed again (it may have expired meanwhile), signed and
\* settled, unless it was settled meanwhile; nothing is sent then.
approve_signed(id) ==
    /\ id \in unlocking
    /\ unlocking' = unlocking \ {id}
    /\ IF id \notin stale /\ id \in pending
       THEN /\ pending' = pending \ {id} /\ how' = [how EXCEPT ![id] = "approved"]
            /\ net' = net \cup {Packet("response", id, "approve", shown[id])}
       ELSE UNCHANGED <<pending, how, net>>
    /\ UNCHANGED <<loopVars, bridgeVars, probeVars, shown, questions, worldVars>>

deny(id) ==
    /\ id \in pending
    /\ pending' = pending \ {id} /\ how' = [how EXCEPT ![id] = "denied"]
    /\ net' = net \cup {Packet("response", id, "deny", shown[id])}
    /\ UNCHANGED <<loopVars, bridgeVars, probeVars, shown, unlocking, questions, worldVars>>

app_answer(id, text) ==
    /\ id \in questions
    /\ questions' = questions \ {id}
    /\ net' = net \cup {Packet("answer", id, text, NoKey)}
    /\ UNCHANGED <<loopVars, bridgeVars, probeVars, pending, how, shown, unlocking, worldVars>>

\* tick: challenges past their expiry are dropped.
app_tick ==
    /\ pending \cap stale # {}
    /\ pending' = pending \ stale
    /\ how' = [s \in Step |-> IF s \in pending \cap stale THEN "dropped" ELSE how[s]]
    /\ UNCHANGED <<loopVars, bridgeVars, probeVars, shown, unlocking, questions, net, worldVars>>

\* _gone: the App finds the node gone (silence or its goodbye).
_gone ==
    /\ downs < MaxDown /\ downs' = downs + 1
    /\ pending' = {} /\ questions' = {}
    /\ how' = [s \in Step |-> IF s \in pending THEN "dropped" ELSE how[s]]
    /\ UNCHANGED <<loopVars, bridgeVars, probeVars, shown, unlocking, net, stale, trusted>>

\* The expiry of a challenge passes on the clocks of both sides.
expire(id) ==
    /\ id <= step /\ id \notin stale
    /\ stale' = stale \cup {id}
    /\ UNCHANGED <<loopVars, bridgeVars, probeVars, appVars, net, trusted, downs>>

revoke ==
    /\ trusted /\ trusted' = FALSE
    /\ UNCHANGED <<loopVars, bridgeVars, probeVars, appVars, net, stale, downs>>

Loop == (\E a \in Actions : next_action(a)) \/ authorized \/ remember \/ plan_gate \/ confirm \/ asked \/ execute

Node == on_peer_down \/ \E p \in net : on_response(p) \/ \E late \in BOOLEAN : resolve(p, late)

App ==
    \/ \E p \in net : app_receives(p)
    \/ \E id \in Step : approve(id) \/ approve_signed(id) \/ deny(id)
    \/ \E id \in Step, text \in {"Approve", "Deny"} : app_answer(id, text)
    \/ app_tick \/ _gone

World == revoke \/ \E id \in Step : expire(id)

Next == Loop \/ Node \/ App \/ World

Spec == Init /\ [][Next]_vars

(***************************************************************************)
(* Properties.                                                             *)
(***************************************************************************)
Hash == {NoKey} \cup {action_hash(a) : a \in Actions}

TypeOK ==
    /\ pc \in {"model", "wait", "signed", "judge", "confirm", "probe", "execute"}
    /\ step \in 0 .. MaxStep /\ act \in Actions /\ recent \in Seq(Actions) /\ Len(recent) <= Window
    /\ challenge \in [id : 0 .. MaxStep, response : {"none", "approve", "deny"}, hash : Hash, dead : BOOLEAN]
    /\ {last_authorized, confirmed_key} \subseteq Hash
    /\ token \subseteq [signer : {"operator"}, hash : Hash, subject : {"node"}, expired : {FALSE}]
    /\ ledger \in [Step -> {"unknown", "open", "answered", "expired"}]
    /\ answer \in [Step -> {"none", "Approve", "Deny"}]
    /\ how \in [Step -> {"none", "approved", "denied", "dropped"}] /\ shown \in [Step -> Hash]
    /\ pending \cup unlocking \cup questions \cup stale \subseteq Step
    /\ net \subseteq [kind : {"challenge", "response", "probe", "answer", "status"}, id : Step,
                      what : {"none", "approve", "deny", "Approve", "Deny"}, hash : Hash]
    /\ trusted \in BOOLEAN /\ downs \in 0 .. MaxDown

\* A destructive action runs only in the step whose own challenge the operator
\* signed: an approval that is late, or was given for an earlier step or for another
\* action, lets nothing run, however the waits, the answers and the losses of either
\* side interleave (authorize, on_envelope, verify_authorization, _settle).
ExecutedIsSigned ==
    \A e \in done : destructive(e.act) => how[e.step] = "approved"

\* When the gate has any objection to a high-risk action, even one that does not
\* block it, the signature alone does not let it run: the operator also approved
\* that step in words (observe, confirm).
ObjectionIsAsked ==
    \A e \in done : e.act.high_risk /\ e.findings # {} => answer[e.step] = "Approve"

Settled == \A s \in Step : how[s] # "none" => how'[s] = how[s]

\* A challenge is settled once: a verdict the App sent or a drop it reported to the
\* operator is never replaced by another one (approve waits for the key without
\* the lock, while deny, tick and _gone run).
SettledOnce == [][Settled]_vars

=============================================================================
