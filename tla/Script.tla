-------------------------------- MODULE Script --------------------------------
(***************************************************************************)
(* The headless operator (dialogue/app.py: run_script and the parts of     *)
(* AppController it drives): a script of steps run in order against a node *)
(* whose questions, challenges and replies arrive on another thread.       *)
(*                                                                         *)
(* The controller's lock is held while a step looks for what it waits for, *)
(* and released before the step acts on what it found; challenges expire   *)
(* and the node goes away in between.  A request the session gave up on    *)
(* may have reached the node all the same.                                 *)
(***************************************************************************)
EXTENDS Integers, Sequences, FiniteSets

CONSTANTS
    Scripts,        \* the scripts considered: sequences of [op, kind, target]
    Kinds, Targets, \* what an action is and what it acts on
    CanUnlock,      \* whether an operator key is configured
    MaxChallenges, MaxStatuses, MaxDrops

Ops == {"control", "approve", "deny", "answer", "expect", "resync", "malformed"}
Actions == [kind : Kinds, target : Targets]
None == 0

VARIABLES
    script,         \* the steps
    at,             \* the step under way
    pc,             \* where the runner is in it
    rc,             \* run_script's result, None while it runs
    found,          \* the challenge or question the step found
    requests,       \* [step]: AppController._requests
    wire,           \* requests on their way to the node
    replies,        \* the node's replies on their way back
    accepted, refused, \* steps whose request the node carried out, refused
    challenges,     \* AppController._challenges: [id, action]
    issued,         \* challenges the node issued so far
    signed,         \* history: [step, action] of each signature
    denied,         \* history: challenge ids denied
    questions,      \* pending probes of the conversation
    answered,       \* history: probes answered
    statuses, seen, \* the transcript's length, and how far expect_status consumed it
    drops

ctl == <<challenges, questions, statuses>>
net == <<wire, replies, accepted, refused>>
hist == <<signed, denied, answered>>
vars == <<script, at, pc, rc, found, requests, net, ctl, issued, hist, seen, drops>>

Step == script[at]
Fresh == [sent |-> FALSE, reply |-> "none", undelivered |-> FALSE]

-----------------------------------------------------------------------------
(* The runner *)

\* check_step on every step, before the first one runs.
check_step(s) == s.op # "malformed"

Fail == rc' = 1 /\ pc' = "end" /\ UNCHANGED <<at, found>>
Succeed ==
    /\ found' = None
    /\ IF at = Len(script) THEN rc' = 0 /\ pc' = "end" /\ UNCHANGED at
       ELSE at' = at + 1 /\ pc' = "run" /\ UNCHANGED rc

CheckAll ==
    /\ pc = "check"
    /\ IF \A i \in DOMAIN script : check_step(script[i])
       THEN pc' = "run" /\ UNCHANGED <<at, rc, found>>
       ELSE Fail
    /\ UNCHANGED <<script, requests, net, ctl, issued, hist, seen, drops>>

\* AppController._request, for the ops that carry one.
_request ==
    /\ pc = "run" /\ Step.op = "control"
    /\ requests' = [requests EXCEPT ![at] = [Fresh EXCEPT !.sent = TRUE]]
    /\ wire' = wire \cup {at}
    /\ pc' = "reply"
    /\ UNCHANGED <<script, at, rc, found, replies, accepted, refused, ctl, issued, hist, seen, drops>>

\* _await_reply: whichever of a reply and "never delivered" comes first; a
\* request that was given up fails even when its reply came too.
Done(r) == ~r.undelivered /\ r.reply = "ok"

_await_reply ==
    LET r == requests[at]
    IN /\ pc = "reply"
       /\ r.reply # "none" \/ r.undelivered
       /\ IF Done(r) THEN Succeed ELSE Fail
       /\ UNCHANGED <<script, requests, net, ctl, issued, hist, seen, drops>>

\* _wait gave up: the timeout of whatever the step waits for.
TimesOut ==
    /\ pc \in {"run", "reply"} /\ Step.op \notin {"resync"}
    /\ Step.op = "control" => pc = "reply"
    /\ Fail
    /\ UNCHANGED <<script, requests, net, ctl, issued, hist, seen, drops>>

\* _action_matches: every field the step names.
_action_matchesKind(s, a) == s.kind = a.kind
_action_matches(s, a) == s.kind = a.kind /\ s.target = a.target

FindChallenge(c) ==
    /\ pc = "run" /\ Step.op \in {"approve", "deny"}
    /\ c \in challenges /\ _action_matches(Step, c.action)
    /\ IF Step.op = "approve" /\ ~CanUnlock THEN Fail
       ELSE found' = c.id /\ pc' = Step.op /\ UNCHANGED <<at, rc>>
    /\ UNCHANGED <<script, requests, net, ctl, issued, hist, seen, drops>>

Pending == \E c \in challenges : c.id = found

\* AppController.approve: looked up, then the key is unlocked (which may fail)
\* without the lock.
ApproveBegins ==
    /\ pc = "approve"
    /\ \/ Pending /\ pc' = "unlocked" /\ UNCHANGED <<at, rc, found>>
       \/ Fail
    /\ UNCHANGED <<script, requests, net, ctl, issued, hist, seen, drops>>

\* Settled meanwhile: nothing is sent.
ApproveSigns ==
    /\ pc = "unlocked"
    /\ IF Pending
       THEN LET c == CHOOSE d \in challenges : d.id = found
            IN /\ challenges' = challenges \ {c}
               /\ signed' = signed \cup {[step |-> at, action |-> c.action]}
               /\ Succeed
       ELSE Fail /\ UNCHANGED <<challenges, signed>>
    /\ UNCHANGED <<script, requests, net, questions, statuses, issued, denied, answered, seen, drops>>

deny ==
    /\ pc = "deny"
    /\ IF Pending
       THEN /\ challenges' = {c \in challenges : c.id # found}
            /\ denied' = denied \cup {found}
            /\ Succeed
       ELSE Fail /\ UNCHANGED <<challenges, denied>>
    /\ UNCHANGED <<script, requests, net, questions, statuses, issued, signed, answered, seen, drops>>

FindQuestion(q) ==
    /\ pc = "run" /\ Step.op = "answer" /\ q \in questions
    /\ found' = q /\ pc' = "answer"
    /\ UNCHANGED <<script, at, rc, requests, net, ctl, issued, hist, seen, drops>>

answer ==
    /\ pc = "answer"
    /\ IF found \in questions
       THEN /\ questions' = questions \ {found}
            /\ answered' = answered \cup {found}
            /\ Succeed
       ELSE Fail /\ UNCHANGED <<questions, answered>>
    /\ UNCHANGED <<script, requests, net, challenges, statuses, issued, signed, denied, seen, drops>>

\* expect_status consumes the transcript in order: one entry at or after seen.
expect_status(j) ==
    /\ pc = "run" /\ Step.op = "expect"
    /\ j \in seen + 1..statuses
    /\ seen' = j
    /\ Succeed
    /\ UNCHANGED <<script, requests, net, ctl, issued, hist, drops>>

request_resync ==
    /\ pc = "run" /\ Step.op = "resync"
    /\ Succeed
    /\ UNCHANGED <<script, requests, net, ctl, issued, hist, seen, drops>>

-----------------------------------------------------------------------------
(* The node and the session *)

\* The node carries a request out, or refuses it, and replies.
NodeHandles(i, ok) ==
    /\ i \in wire
    /\ wire' = wire \ {i}
    /\ accepted' = IF ok THEN accepted \cup {i} ELSE accepted
    /\ refused' = IF ok THEN refused ELSE refused \cup {i}
    /\ replies' = replies \cup {i}
    /\ statuses' = IF statuses < MaxStatuses THEN statuses + 1 ELSE statuses
    /\ UNCHANGED <<script, at, pc, rc, found, requests, challenges, questions, issued, hist, seen, drops>>

\* AppController._dialogue: a status that answers a request settles it.
_dialogue(i) ==
    /\ i \in replies
    /\ replies' = replies \ {i}
    /\ requests' = [requests EXCEPT ![i].reply = IF i \in accepted THEN "ok" ELSE "refused"]
    /\ UNCHANGED <<script, at, pc, rc, found, wire, accepted, refused, ctl, issued, hist, seen, drops>>

\* The session gives a request up: it may have arrived, or still arrive.
on_undeliverable(i, lost) ==
    /\ drops < MaxDrops /\ drops' = drops + 1
    /\ requests[i].sent /\ ~requests[i].undelivered
    /\ requests' = [requests EXCEPT ![i].undelivered = TRUE]
    /\ wire' = IF lost THEN wire \ {i} ELSE wire
    /\ UNCHANGED <<script, at, pc, rc, found, replies, accepted, refused, ctl, issued, hist, seen>>

\* AppController._challenge.
_challenge(a) ==
    /\ issued < MaxChallenges
    /\ issued' = issued + 1
    /\ challenges' = challenges \cup {[id |-> issued + 1, action |-> a]}
    /\ UNCHANGED <<script, at, pc, rc, found, requests, net, questions, statuses, hist, seen, drops>>

Ask ==
    /\ issued < MaxChallenges
    /\ issued' = issued + 1
    /\ questions' = questions \cup {issued + 1}
    /\ UNCHANGED <<script, at, pc, rc, found, requests, net, challenges, statuses, hist, seen, drops>>

\* AppController.tick: a challenge expires.
Expire(c) ==
    /\ c \in challenges
    /\ challenges' = challenges \ {c}
    /\ UNCHANGED <<script, at, pc, rc, found, requests, net, questions, statuses, issued, hist, seen, drops>>

\* AppController._gone: every open wait is dropped.
_gone ==
    /\ challenges # {} \/ questions # {}
    /\ drops < MaxDrops /\ drops' = drops + 1
    /\ challenges' = {} /\ questions' = {}
    /\ UNCHANGED <<script, at, pc, rc, found, requests, net, statuses, issued, hist, seen>>

-----------------------------------------------------------------------------
Init ==
    /\ script \in Scripts
    /\ at = 1 /\ pc = "check" /\ rc = 2 /\ found = None
    /\ requests = [i \in DOMAIN script |-> Fresh]
    /\ wire = {} /\ replies = {} /\ accepted = {} /\ refused = {}
    /\ challenges = {} /\ questions = {} /\ issued = 0
    /\ statuses = 0 /\ seen = 0
    /\ signed = {} /\ denied = {} /\ answered = {} /\ drops = 0

Runner ==
    \/ CheckAll \/ _request \/ _await_reply \/ TimesOut
    \/ \E c \in challenges : FindChallenge(c)
    \/ ApproveBegins \/ ApproveSigns \/ deny
    \/ \E q \in questions : FindQuestion(q)
    \/ answer \/ \E j \in 1..statuses : expect_status(j) \/ request_resync

Node ==
    \/ \E i \in wire : \E ok \in BOOLEAN : NodeHandles(i, ok)
    \/ \E i \in replies : _dialogue(i)
    \/ \E i \in DOMAIN script : \E lost \in BOOLEAN : on_undeliverable(i, lost)
    \/ (\E a \in Actions : _challenge(a)) \/ Ask
    \/ (\E c \in challenges : Expire(c)) \/ _gone

Next == Runner \/ Node

Spec == Init /\ [][Next]_vars

-----------------------------------------------------------------------------
TypeOK ==
    /\ at \in DOMAIN script /\ rc \in 0..2
    /\ found \in 0..MaxChallenges
    /\ wire \cup replies \cup accepted \cup refused \subseteq DOMAIN script
    /\ seen \in 0..statuses /\ statuses \in 0..MaxStatuses
    /\ \A c \in challenges : c.id \in 1..MaxChallenges /\ c.action \in Actions

\* The steps the runner reported as succeeded.
Reported == {i \in DOMAIN script : i < at \/ rc = 0}

\* "a script can never approve whatever comes" (check_step), and a step that is
\* reported ok was done: the node carried its request out; every signature is
\* of an action the step named, one for each approval reported, and none of a
\* step the script never reached -- whatever expires, is lost or arrives late.
OkMeansDone ==
    /\ \A i \in Reported : script[i].op = "control" => i \in accepted
    /\ \A i \in Reported : script[i].op = "approve" => \E s \in signed : s.step = i
    /\ \A s \in signed :
          /\ s.step \in Reported /\ script[s.step].op = "approve"
          /\ s.action = [kind |-> script[s.step].kind, target |-> script[s.step].target]
    /\ \A i \in DOMAIN script \ Reported : i > at => ~requests[i].sent

\* "... was never delivered" (_await_reply): what the runner says of a request
\* it fails is so.
GivenUpWasNotDone ==
    rc = 1 /\ script[at].op = "control" /\ requests[at].undelivered => at \notin accepted
=============================================================================
