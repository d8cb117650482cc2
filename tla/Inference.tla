----------------------------- MODULE Inference ------------------------------
(***************************************************************************)
(* One request through the inference mesh: the user's client that asks and *)
(* asks again (client.py), the serving node that routes it, collects the   *)
(* answers and judges them (node.py, router.py, safety.py), the nodes that *)
(* carry its legs hop by hop (participant.py) and the model nodes that     *)
(* answer (node.py); in lockdown, the standby forwarder instead of the     *)
(* serving node.                                                           *)
(*                                                                         *)
(* Frames stay in `wire': each may come late, again, out of order or never. *)
(* Deadlines may pass at any time.  What a serving node avoids for other   *)
(* reasons than this request - suspects, open breakers, quarantines, stale *)
(* links - is any set of MayExclude each time it looks.  Ledgers are sets  *)
(* of latched targets here; resets are in module Mutiny.                   *)
(***************************************************************************)
EXTENDS Integers, Sequences, FiniteSets, SequencesExt

CONSTANTS
  None,         \* no value
  Client,
  Serving,      \* the client's serving nodes, in its order
  Standby,      \* its standby forwarders, in its order
  Providers,    \* the model nodes
  ModelOf,      \* the model each of them answers with
  Transit,      \* other nodes a leg may pass through
  Coordinator,
  LinkState,    \* the links of the signed link state, as <<from, to>>
  Broken,       \* the links on which send fails
  MayExclude,   \* nodes a view may leave out
  Greets,       \* whether the client's periodic hello falls into the ask
  Order,        \* the order of DIDs
  Outputs,      \* what a model may answer
  Quorum, Fanout, MaxTries, MaxAttempts, MaxRestarts

LockdownQuorum == 2
Servers == ToSet(Serving) \cup ToSet(Standby)
Everyone == Servers \cup Providers \cup Transit \cup {Coordinator, Client}
Requests == 1..(MaxTries + 1)   \* _on_refused turns to lockdown without counting its tries

(* MAX_ATTEMPTS is 3. *)
ASSUME InferenceConstants ==
  /\ IsFiniteSet(Providers) /\ Quorum \in Nat /\ MaxTries \in Nat
  /\ MaxAttempts \in 1..3 /\ Serving \in Seq(ToSet(Serving)) /\ Standby \in Seq(ToSet(Standby))
  /\ Client \notin Servers \cup Providers
  /\ {"leak", "error", None} \cap Outputs = {} /\ None # "error"

target_node(x) == <<"node", x>>
target_decider(x) == <<"decider", x>>
target_model(m) == <<"model", m>>
excludes(l, x) == target_node(x) \in l \/ target_decider(x) \in l
Ineligible(l, p) == excludes(l, p) \/ target_model(ModelOf[p]) \in l

VARIABLES
  rogues,    \* the model nodes that sign anything
  led,       \* the targets latched in each member's ledger
  pending,   \* server, request |-> the _Pending, or None
  finished,  \* server, request |-> the reply it gave, or NoReply
  served,    \* provider, request |-> the answer it gives, or None
  ask,       \* the client's _Ask
  knows,     \* the providers whose leases are in the client's book
  seen,      \* the answers the client's safety layer has judged
  signed,    \* history: every answer signed
  wire,
  restarts

askVars == <<rogues, led, pending, finished, served, ask, knows, seen, signed, wire, restarts>>
Normal == "normal"
Lockdown == "lockdown"

-----------------------------------------------------------------------------
(* Routing. *)

Linked(x, y) == <<x, y>> \in LinkState \/ <<y, x>> \in LinkState
Interiors == UNION {[1..k -> Transit] : k \in 0..Cardinality(Transit)}
interior(path) == {path[i] : i \in 2..(Len(path) - 1)}

(* The mesh paths from s to p over live nodes, and their order. *)
Paths(s, p, avoid) ==
  {q \in {<<s>> \o m \o <<p>> : m \in {x \in Interiors : IsInjective(x) /\ s \notin ToSet(x)}} :
     p \notin avoid /\ interior(q) \cap avoid = {} /\ \A i \in 1..(Len(q) - 1) : Linked(q[i], q[i + 1])}
Before(q, r) ==
  \/ Len(q) < Len(r)
  \/ Len(q) = Len(r) /\ \E i \in 1..Len(q) : Order[q[i]] < Order[r[i]] /\ \A j \in 1..(i - 1) : q[j] = r[j]
shortest_path(s, p, avoid) ==
  LET all == Paths(s, p, avoid)
  IN IF all = {} THEN <<>> ELSE CHOOSE q \in all : \A r \in all \ {q} : Before(q, r)

leg(p, path, via) == [provider |-> p, path |-> path, via |-> via]
Models(legs) == {ModelOf[legs[i].provider] : i \in DOMAIN legs}
Taken(legs) == {legs[i].provider : i \in DOMAIN legs}

(* Router._pick: up to n of the candidates, best first: if asked, one for   *)
(* each model that has none yet before any other.                           *)
FirstOfModel(cands, models) ==
  {q \in cands : /\ ModelOf[Last(q)] \notin models
                 /\ \A r \in cands \ {q} : ModelOf[Last(r)] = ModelOf[Last(q)] => Before(q, r)}
Upto(n, seq) == SubSeq(seq, 1, IF n < Len(seq) THEN n ELSE Len(seq))
Ranked(first, others) == SetToSortSeq(first, Before) \o SetToSortSeq(others \ first, Before)
_pick(cands, n, models, distinct) ==
  Upto(n, Ranked(IF distinct THEN FirstOfModel(cands, models) ELSE {}, cands))

(* Router.plan for server s that leaves out `gone': mesh legs, on disjoint  *)
(* interiors where there are, then central legs; <<>> is NoRoute.           *)
Disjoint(paths, avoid) ==
  LET Other(q, used) == IF used = {} THEN <<>> ELSE shortest_path(q[1], Last(q), avoid \cup used)
      Own(q, other) == leg(Last(q), IF other = <<>> THEN q ELSE other, "mesh")
      Add(legs, q) == Append(legs, Own(q, Other(q, UNION {interior(legs[i].path) : i \in DOMAIN legs})))
  IN FoldLeft(Add, <<>>, paths)

Central(s, cands, out, mesh) ==
  IF Linked(s, Coordinator) /\ Coordinator \notin out
  THEN {<<s, Coordinator, p>> : p \in {x \in cands \ Taken(mesh) : Linked(Coordinator, x)}} ELSE {}
CentralLegs(paths) == [i \in DOMAIN paths |-> leg(paths[i][3], paths[i], "central")]
IfQuorate(legs, quorum) == IF Len(legs) < quorum THEN <<>> ELSE legs
Completed(s, cands, out, mesh, quorum) ==
  IfQuorate(mesh \o CentralLegs(_pick(Central(s, cands, out, mesh), quorum - Len(mesh), Models(mesh), TRUE)), quorum)
PlanOver(s, cands, out, quorum) ==
  LET direct == {shortest_path(s, p, out) : p \in cands} \ {<<>>}
  IN Completed(s, cands, out, Disjoint(_pick(direct, quorum, {}, quorum > 1), out), quorum)
plan(s, gone, l, quorum, avoid) ==
  PlanOver(s, {p \in Providers \ gone : ~Ineligible(l, p)},
           avoid \cup gone \cup {x \in Everyone : excludes(l, x)}, quorum)

(* MeshNode._self_check: no leg passes through a node left out or avoided.  *)
_self_check(legs, gone, l, avoid) ==
  \A i \in DOMAIN legs : \A j \in 2..Len(legs[i].path) :
     LET x == legs[i].path[j] IN x \notin gone \cup avoid /\ ~excludes(l, x)

(* MeshNode._lockdown_legs: straight to the pins, if they are eligible.     *)
_lockdown_legs(s, l, pins) ==
  IF Cardinality(pins) < LockdownQuorum \/ \E p \in pins : Ineligible(l, p) THEN <<>>
  ELSE LET o == SetToSortSeq(pins, LAMBDA p, q : Order[p] < Order[q])
       IN [i \in DOMAIN o |-> leg(o[i], <<s, o[i]>>, "mesh")]

NotEligible(pins, l) ==
  LET bad == {p \in pins : Ineligible(l, p)}
  IN [why |-> "not eligible", items |-> <<>>,
      who |-> IF bad = {} THEN None ELSE CHOOSE p \in bad : \A q \in bad : Order[p] <= Order[q]]

-----------------------------------------------------------------------------
(* The safety layer: items are answers with the decision they came under.   *)

Response(p, n, out, d) == [provider |-> p, n |-> n, output |-> out, decider |-> d.decider, mode |-> d.mode]

(* SafetyLayer.inspect: the answers that count, by their place, and the     *)
(* proof of a mutiny - two answers of one node to one request, or lease     *)
(* material in an answer.                                                   *)
Judged(items, l) ==
  {i \in DOMAIN items : /\ items[i].mode = Lockdown \/ target_decider(items[i].decider) \notin l
                        /\ ~Ineligible(l, items[i].provider) /\ items[i].output \in Outputs \cup {"leak"}}
Remember(items, l) == {items[i] : i \in Judged(items, l)}
Evidence(items, memory, l) ==
  LET js == Remember(items, l)
  IN {target_node(r.provider) : r \in {x \in js : \/ x.output = "leak"
         \/ \E y \in js \cup memory : y.provider = x.provider /\ y.n = x.n /\ y.output # x.output}}

EnoughOne(votes, need) == votes >= 1
Enough(votes, need) == votes >= need

(* SafetyLayer.adjudicate: one answer counts per node, the largest group of *)
(* equal answers wins, the first of them on a tie.                          *)
Voters(items, ok, o) == {p \in Providers : \E i \in ok : items[i].provider = p /\ items[i].output = o}
Votes(items, ok, o) == Cardinality(Voters(items, ok, o))
FirstOf(items, best) == items[CHOOSE i \in best : \A j \in best : i <= j].output
Verdict(status, ev, output) == [status |-> status, evidence |-> ev, output |-> output]
Count(items, ok, ev, output, need) ==
  IF ev # {} THEN Verdict("intercepted", ev, None)
  ELSE IF ~Enough(Cardinality({items[i].provider : i \in ok}), need) THEN Verdict("insufficient", {}, None)
  ELSE IF ~Enough(Votes(items, ok, output), need) THEN Verdict("intercepted", {}, None)
  ELSE Verdict("accepted", {}, output)
adjudicate(items, memory, l, need) ==
  LET ok == {i \in Judged(items, l) : items[i].output # "leak"}
      best == {i \in ok : \A j \in ok : Votes(items, ok, items[j].output) <= Votes(items, ok, items[i].output)}
  IN Count(items, ok, Evidence(items, memory, l), FirstOf(items, best), need)

-----------------------------------------------------------------------------
(* The serving node.  A handler maps its state S - ledger, pending requests *)
(* and replies - and the frames sent so far to the next ones.               *)

frame(to, k, x) == [to |-> to, k |-> k, x |-> x]
Incident(s, ts) == {frame(m, "incident", [targets |-> ts]) : m \in Everyone \ {s}}
Why(w) == [why |-> w, who |-> None, items |-> <<>>]
Items(is) == [why |-> None, who |-> None, items |-> is]
Reply(s, n, k, x) == frame(Client, k, [from |-> s, n |-> n, x |-> x])

NoReply == [k |-> "none", x |-> None]

(* _finish and _settle_refused. *)
_finish(s, S, n, k, x) ==
  [S EXCEPT !.pending[n] = None, !.finished[n] = [k |-> k, x |-> x], !.out = @ \cup {Reply(s, n, k, x)}]

(* publish of an incident: latched here, the ordinary requests refused      *)
(* (on_incident), and on its way to everyone.                               *)
Refuse(s, S, ns, why) ==
  [S EXCEPT !.pending = [n \in Requests |-> IF n \in ns THEN None ELSE S.pending[n]],
            !.finished = [n \in Requests |-> IF n \in ns THEN [k |-> "refused", x |-> why] ELSE S.finished[n]],
            !.out = @ \cup {Reply(s, n, "refused", why) : n \in ns}]
Waiting(S) == {n \in Requests : S.pending[n] # None /\ ~S.pending[n].lockdown}
publish(s, S, ts) ==
  IF ts = {} THEN S
  ELSE LET T == [S EXCEPT !.led = @ \cup ts, !.out = @ \cup Incident(s, ts)]
       IN Refuse(s, T, Waiting(T), Why("lockdown"))

(* Whether a request has attempts left, and whether it was replied to.      *)
AttemptsLeft(P) == P.attempt + 1 < MaxAttempts
Replied(S, n) == S.finished[n] # NoReply

(* _settle: judge the answers and reply, or decide again. *)
SettledBy(s, S, n, P, v) ==
  IF P.lockdown THEN publish(s, _finish(s, S, n, "result", Items(P.items)), v.evidence)
  ELSE IF S.led # {} THEN _finish(s, S, n, "refused", Why("lockdown"))
  ELSE IF v.status = "accepted" THEN _finish(s, S, n, "result", Items(P.items))
  ELSE IF v.status = "intercepted" THEN publish(s, _finish(s, S, n, "refused", Why("intercepted")), v.evidence)
  ELSE IF AttemptsLeft(P) THEN [S EXCEPT !.pending[n].attempt = @ + 1, !.again = TRUE]
  ELSE _finish(s, S, n, "refused", Why("no quorum"))
_settle(s, S, n) ==
  SettledBy(s, S, n, S.pending[n], adjudicate(S.pending[n].items, {}, S.led, S.pending[n].quorum))

(* _decide: plan, check the plan, sign it and send its legs; a leg whose    *)
(* first hop cannot be reached has failed at once.                          *)
Decision(s, n, P, legs) ==
  [decider |-> s, n |-> n, attempt |-> P.attempt, legs |-> legs, mode |-> IF P.lockdown THEN Lockdown ELSE Normal]
Decided(P, legs, sent, d) ==
  [P EXCEPT !.decision = d, !.decisions = @ \cup {d}, !.open = sent,
            !.avoid = @ \cup {legs[i].path[2] : i \in DOMAIN legs \ sent}]
Dispatched(S, n, legs, sent, d) ==
  [S EXCEPT !.pending[n] = Decided(@, legs, sent, d),
            !.out = @ \cup {frame(legs[i].path[2], "req", [d |-> d, leg |-> i, hop |-> 2]) : i \in sent}]
Planned(s, S, n, gone, P, legs) ==
  LET sent == {i \in DOMAIN legs : <<s, legs[i].path[2]>> \notin Broken}
      T == Dispatched(S, n, legs, sent, Decision(s, n, P, legs))
  IN IF legs = <<>> THEN _finish(s, S, n, "refused", IF P.lockdown THEN NotEligible(P.pins, S.led) ELSE Why("no route"))
     ELSE IF ~_self_check(legs, gone, S.led, P.avoid)
     THEN publish(s, _finish(s, S, n, "refused", Why("lockdown")),
                  IF s \in ToSet(Serving) THEN {target_decider(s)} ELSE {})
     ELSE IF sent = {} THEN _settle(s, T, n) ELSE T
LegsFor(s, P, l, gone) ==
  IF P.lockdown THEN _lockdown_legs(s, l, P.pins) ELSE plan(s, gone, l, P.quorum, P.avoid)
_decide(s, S, n, gone) == Planned(s, S, n, gone, S.pending[n], LegsFor(s, S.pending[n], S.led, gone))

(* A server that settles may decide again, at most MaxAttempts - 1 times.   *)
Again(s, S, n, gone) == IF S.again THEN _decide(s, [S EXCEPT !.again = FALSE], n, gone) ELSE S
AsOften(s, S, n, gone) == Again(s, Again(s, S, n, gone), n, gone)

ServerState(s) == [led |-> led[s], pending |-> pending[s], finished |-> finished[s], out |-> {}, again |-> FALSE]
Becomes(s, S) ==
  /\ led' = [led EXCEPT ![s] = S.led]
  /\ pending' = [pending EXCEPT ![s] = S.pending]
  /\ finished' = [finished EXCEPT ![s] = S.finished]
  /\ wire' = wire \cup S.out
  /\ <<led', pending', finished', wire'>> # <<led, pending, finished, wire>>
  /\ UNCHANGED <<served, ask, knows, seen, signed, restarts>>

(* _on_submit. *)
_on_submit(f, gone) ==
  LET s == f.to
      r == f.x
      S == ServerState(s)
      isLocked == S.led # {}
      forward == s \notin ToSet(Serving)   \* a standby forwarder serves nothing else
      why == IF isLocked # forward THEN (IF isLocked THEN "lockdown" ELSE "not serving")
             ELSE IF excludes(S.led, s) THEN "latched" ELSE None
      P == [n |-> r.n, pins |-> r.pins, lockdown |-> isLocked, attempt |-> 0, decision |-> None,
            quorum |-> IF isLocked /\ r.quorum < LockdownQuorum THEN LockdownQuorum ELSE r.quorum,
            open |-> {}, avoid |-> {}, decisions |-> {}, items |-> <<>>]
  IN /\ f.k = "submit" /\ s \in Servers
     /\ S.pending[r.n] = None
     /\ Becomes(s, IF Replied(S, r.n)
                   THEN [S EXCEPT !.out = {Reply(s, r.n, S.finished[r.n].k, S.finished[r.n].x)}]
                   ELSE IF why # None THEN _finish(s, S, r.n, "refused", Why(why))
                   ELSE AsOften(s, _decide(s, [S EXCEPT !.pending[r.n] = P], r.n, gone), r.n, gone))

(* collect: an answer to any attempt counts; the last attempt's legs close. *)
Heard(P, x) ==
  [P EXCEPT !.items = IF Contains(@, x.answer) THEN @ ELSE Append(@, x.answer),
            !.open = IF x.d = P.decision THEN @ \ {x.leg} ELSE @]
collect(f, gone) ==
  LET s == f.to
      x == f.x
      P == pending[s][x.d.n]
      S == [ServerState(s) EXCEPT !.pending[x.d.n] = Heard(P, x)]
  IN /\ f.k = "resp" /\ x.hop = 1 /\ s \in Servers /\ P # None
     /\ x.d \in P.decisions
     /\ Becomes(s, IF x.d = P.decision /\ S.pending[x.d.n].open = {}
                   THEN AsOften(s, _settle(s, S, x.d.n), x.d.n, gone) ELSE S)

(* leg_failed: a leg of the last attempt was turned back.                   *)
TurnedBack(P, x) == [P EXCEPT !.avoid = @ \cup {x.unreachable}, !.open = @ \ {x.leg}]
leg_failed(f, gone) ==
  LET s == f.to
      x == f.x
      P == pending[s][x.d.n]
      S == [ServerState(s) EXCEPT !.pending[x.d.n] = TurnedBack(P, x)]
  IN /\ f.k = "nack" /\ x.hop = 1 /\ s \in Servers /\ P # None
     /\ x.d = P.decision /\ x.leg \in P.open
     /\ Becomes(s, IF S.pending[x.d.n].open = {}
                   THEN AsOften(s, _settle(s, S, x.d.n), x.d.n, gone) ELSE S)

(* on_tick: the deadline of a request passes; the interiors of its open     *)
(* legs - or the provider itself - are avoided from now on.                 *)
Expired(P) ==
  LET Blame(i) == LET q == P.decision.legs[i].path IN IF Len(q) > 2 THEN interior(q) ELSE {q[Len(q)]}
  IN [P EXCEPT !.open = {}, !.avoid = @ \cup UNION {Blame(i) : i \in P.open}]
ServerTick(s, n, gone) ==
  LET P == pending[s][n]
      S == [ServerState(s) EXCEPT !.pending[n] = Expired(P)]
  IN /\ P # None
     /\ Becomes(s, AsOften(s, _settle(s, S, n), n, gone))

(* An incident reaches a server. *)
ServerIncident(f) ==
  /\ f.k = "incident" /\ f.to \in Servers
  /\ Becomes(f.to, LET S == [ServerState(f.to) EXCEPT !.led = @ \cup f.x.targets]
                   IN Refuse(f.to, S, Waiting(S), Why("lockdown")))

-----------------------------------------------------------------------------
(* Carrying and answering. *)

(* A handler of member m: the frames it sends.  One whose next hop cannot   *)
(* be reached turns the leg back, toward the decider.                       *)
Carries(m, out) ==
  /\ ~(out \subseteq wire)
  /\ wire' = wire \cup out
  /\ UNCHANGED <<led, pending, finished, served, ask, knows, seen, signed, restarts>>
Back(x, k, extra) == {frame(x.d.legs[x.leg].path[x.hop - 1], k, [extra EXCEPT !.hop = x.hop - 1])}
nack(x, who) == Back(x, "nack", [d |-> x.d, leg |-> x.leg, hop |-> 0, unreachable |-> who])

(* may_carry, of the coordinator and of any other node. *)
may_carry(m, d) ==
  /\ ~excludes(led[m], d.decider)
  /\ led[m] # {} => d.mode = Lockdown /\ m # Coordinator

(* _on_req at a node inside the path. *)
Forward(f) ==
  LET x == f.x
      path == x.d.legs[x.leg].path
      nxt == path[x.hop + 1]
  IN /\ f.k = "req" /\ x.hop < Len(path)
     /\ Carries(f.to, IF may_carry(f.to, x.d) /\ ~excludes(led[f.to], nxt) /\ <<f.to, nxt>> \notin Broken
                      THEN {frame(nxt, "req", [x EXCEPT !.hop = @ + 1])} ELSE nack(x, nxt))

(* _on_resp and _on_nack at a node inside the path. *)
Return(f) ==
  /\ f.k \in {"resp", "nack"} /\ f.x.hop > 1
  /\ Carries(f.to, Back(f.x, f.k, f.x))

(* serve: refuse to answer an ordinary decision in lockdown, or when        *)
(* latched; answer a request the same way every time.  The model's answer   *)
(* may be kept from being signed (guard_output): then the model is reported *)
Sign(p, x, out) ==
  /\ signed' = signed \cup {[provider |-> p, n |-> x.d.n, output |-> out]}
  /\ wire' = wire \cup Back(x, "resp", [d |-> x.d, leg |-> x.leg, hop |-> 0, answer |-> Response(p, x.d.n, out, x.d)])

(* _served: what this node answered the request before, if it did.          *)
RememberedNot(p, n) == None
Remembered(p, n) == served[p][n]

serve(f) ==
  LET p == f.to
      x == f.x
      Refused == ~may_carry(p, x.d) \/ Ineligible(led[p], p)
  IN /\ f.k = "req" /\ p \in Providers \ rogues /\ x.hop = Len(x.d.legs[x.leg].path)
     /\ IF Refused THEN Carries(p, nack(x, p))
        ELSE /\ \/ /\ Remembered(p, x.d.n) # None
                   /\ Sign(p, x, Remembered(p, x.d.n))
                   /\ wire' # wire
                   /\ UNCHANGED <<served, led>>
                \/ /\ Remembered(p, x.d.n) = None
                   /\ \E o \in Outputs \cup {"error"} :
                        served' = [served EXCEPT ![p][x.d.n] = o] /\ Sign(p, x, o)
                   /\ UNCHANGED led
             /\ UNCHANGED <<pending, finished, ask, knows, seen, restarts>>

(* _answer when guard_output finds a problem: publish, refuse. *)
SelfReport(f) ==
  LET p == f.to
      x == f.x
      ts == {target_model(ModelOf[p])}
  IN /\ f.k = "req" /\ p \in Providers \ rogues /\ x.hop = Len(x.d.legs[x.leg].path)
     /\ may_carry(p, x.d) /\ ~Ineligible(led[p], p) /\ served[p][x.d.n] = None
     /\ served' = [served EXCEPT ![p][x.d.n] = "error"]
     /\ led' = [led EXCEPT ![p] = @ \cup ts]
     /\ wire' = wire \cup Incident(p, ts)
          \cup Back(x, "resp", [d |-> x.d, leg |-> x.leg, hop |-> 0, answer |-> Response(p, x.d.n, "error", x.d)])
     /\ UNCHANGED <<pending, finished, ask, knows, seen, signed, restarts>>

(* A rogue model node signs what it likes, as often as it likes. *)
Misanswer(f) ==
  /\ f.k = "req" /\ f.to \in rogues /\ f.x.hop = Len(f.x.d.legs[f.x.leg].path)
  /\ \E o \in Outputs \cup {"leak"} : Sign(f.to, f.x, o)
  /\ wire' # wire
  /\ UNCHANGED <<led, pending, finished, served, ask, knows, seen, restarts>>

(* A model node restarts: what it has answered and its ledger are gone.     *)
Restart(p) ==
  /\ restarts < MaxRestarts
  /\ restarts' = restarts + 1
  /\ served' = [served EXCEPT ![p] = [n \in Requests |-> None]]
  /\ led' = [led EXCEPT ![p] = {}]
  /\ UNCHANGED <<pending, finished, ask, knows, seen, signed, wire>>

(* An incident reaches a member that neither serves nor asks. *)
Learn(f) ==
  /\ f.k = "incident" /\ f.to \notin Servers \cup {Client}
  /\ ~(f.x.targets \subseteq led[f.to])
  /\ led' = [led EXCEPT ![f.to] = @ \cup f.x.targets]
  /\ UNCHANGED <<pending, finished, served, ask, knows, seen, signed, wire, restarts>>

-----------------------------------------------------------------------------
(* The client.  A handler maps the ask A, with the frames it sends, to the  *)
(* next one, under the client's ledger l and the leases k it knows.         *)

Finish(A, status, output) ==
  [A EXCEPT !.outcome = [status |-> status, output |-> output, n |-> A.live, mode |-> A.mode, need |-> A.need],
            !.late = A.tries, !.live = 0]

(* _submit_normal: to the entries not tried yet, the first Fanout of them.  *)
_submit_normal(A, l) ==
  LET usable == {i \in DOMAIN Serving : ~excludes(l, Serving[i])}
      new == {i \in usable : Serving[i] \notin A.tried}
      fresh == IF new = {} THEN usable ELSE new
      to == {Serving[i] : i \in {j \in fresh : Cardinality({k \in fresh : k < j}) < Fanout}}
      n == A.tries + 1
  IN IF fresh = {} THEN Finish([A EXCEPT !.mode = Normal], "refused", None)
     ELSE [A EXCEPT !.mode = Normal, !.tries = n, !.live = n, !.need = A.quorum, !.pins = {},
                    !.awaiting = to, !.tried = @ \cup to,
                    !.out = @ \cup {frame(e, "submit", [n |-> n, quorum |-> A.quorum, pins |-> {}]) : e \in to}]

(* pick_pins: distinct providers, distinct models first. *)
pick_pins(avail, need) ==
  LET sets == {x \in SUBSET avail : Cardinality(x) = need}
      Kinds(x) == Cardinality({ModelOf[p] : p \in x})
  IN IF sets = {} THEN avail ELSE CHOOSE x \in sets : \A y \in sets : Kinds(y) <= Kinds(x)

(* _submit_lockdown: pin the model nodes and go to a standby forwarder.     *)
_submit_lockdown(A, l, k) ==
  LET L == [A EXCEPT !.mode = Lockdown, !.live = 0, !.awaiting = {}]
      fs == {i \in DOMAIN Standby : Standby[i] \notin A.unresponsive /\ ~excludes(l, Standby[i])}
      need == IF A.quorum > LockdownQuorum THEN A.quorum ELSE LockdownQuorum
      pins == pick_pins({p \in k : p \notin A.unresponsive /\ ~Ineligible(l, p)}, need)
      n == A.tries + 1
      to == Standby[Min(fs)]
  IN IF fs = {} THEN Finish(L, "refused", None)
     ELSE IF Cardinality(pins) < need
          THEN IF A.waiting_dir THEN Finish(L, "refused", None)
               ELSE [L EXCEPT !.waiting_dir = TRUE, !.forwarder = to, !.tried = @ \cup {to},
                              !.out = @ \cup {frame(to, "dir?", [from |-> Client])}]
     ELSE [L EXCEPT !.waiting_dir = FALSE, !.tries = n, !.live = n, !.need = need, !.pins = pins,
                    !.forwarder = to, !.tried = @ \cup {to}, !.awaiting = {to},
                    !.out = @ \cup {frame(to, "submit", [n |-> n, quorum |-> need, pins |-> pins])}
                              \cup (IF l = {} THEN {} ELSE {frame(to, "incident", [targets |-> l])})]

_submit(A, l, k) ==
  IF A.outcome # None THEN A
  ELSE IF A.tries >= MaxTries THEN Finish(A, "refused", None)
  ELSE IF l # {} THEN _submit_lockdown(A, l, k) ELSE _submit_normal(A, l)

AskBecomes(A) ==
  /\ ask' = [A EXCEPT !.out = {}]
  /\ wire' = wire \cup A.out
  /\ UNCHANGED <<pending, finished, served, signed, restarts>>

(* UserClient.ask. *)
Ask ==
  /\ ~ask.begun
  /\ AskBecomes(_submit([ask EXCEPT !.begun = TRUE], led[Client], knows))
  /\ UNCHANGED <<led, knows, seen>>

(* on_tick: the deadline passes; in lockdown the forwarder went quiet.      *)
ClientTick ==
  LET A == IF ask.mode = Lockdown
           THEN [ask EXCEPT !.unresponsive = @ \cup {ask.forwarder}, !.waiting_dir = FALSE] ELSE ask
  IN /\ ask.begun /\ ask.outcome = None
     /\ AskBecomes(_submit(A, led[Client], knows))
     /\ UNCHANGED <<led, knows, seen>>

(* _on_result: judge the relayed answers, which carry their leases.         *)
_on_result(f) ==
  LET x == f.x
      items == x.x.items
      k == knows \cup {items[i].provider : i \in DOMAIN items}
      mine == ask.live = x.n /\ ask.outcome = None
      late == ask.late = x.n /\ ask.outcome # None
      v == adjudicate(items, seen, led[Client], ask.need)
      answered == {items[i].provider : i \in DOMAIN items}
      B == IF v.evidence # {} THEN Finish(ask, "intercepted", None)
           ELSE IF v.status \in {"accepted", "intercepted"} THEN Finish(ask, v.status, v.output)
           ELSE IF ask.mode = Lockdown
                THEN _submit([ask EXCEPT !.unresponsive = @ \cup (ask.pins \ answered)], led[Client], k)
           ELSE LET C == [ask EXCEPT !.awaiting = @ \ {x.from}]
                IN IF x.from \notin ask.awaiting \/ C.awaiting # {} THEN C ELSE _submit(C, led[Client], k)
      out == IF v.evidence # {} THEN Incident(Client, v.evidence) ELSE {}
  IN /\ f.k = "result"
     /\ knows' = k
     /\ IF mine \/ late
        THEN /\ seen' = seen \cup Remember(items, led[Client])
             /\ led' = [led EXCEPT ![Client] = @ \cup v.evidence]
             /\ AskBecomes([(IF mine THEN B ELSE ask) EXCEPT !.out = @ \cup out])
        ELSE UNCHANGED <<seen, led, ask, wire, pending, finished, served, signed, restarts>>
     /\ <<knows', seen', led', ask'>> # <<knows, seen, led, ask>>

(* _on_refused. *)
_on_refused(f) ==
  LET x == f.x
      A == [ask EXCEPT !.awaiting = @ \ {x.from}]
      B == IF ask.mode = Lockdown /\ x.x.who # None THEN [A EXCEPT !.unresponsive = @ \cup {x.x.who}] ELSE A
  IN /\ f.k = "refused" /\ ask.outcome = None /\ x.n = ask.live /\ x.from \in ask.awaiting
     /\ AskBecomes(IF x.x.why = "intercepted" THEN Finish(A, "intercepted", None)
                   ELSE IF x.x.why = "lockdown" /\ ask.mode # Lockdown THEN _submit_lockdown(A, led[Client], knows)
                   ELSE IF A.awaiting # {} THEN A ELSE _submit(B, led[Client], knows))
     /\ UNCHANGED <<led, knows, seen>>

(* on_incident at the client: an ordinary ask starts over, in lockdown.     *)
HearsNothing(A, ts, k) == A
Hears(A, ts, k) ==
  IF ts \subseteq led[Client] \/ ~A.begun \/ A.mode = Lockdown THEN A ELSE _submit(A, led[Client] \cup ts, k)

ClientIncident(f) ==
  /\ f.k = "incident" /\ f.to = Client /\ ~(f.x.targets \subseteq led[Client])
  /\ led' = [led EXCEPT ![Client] = @ \cup f.x.targets]
  /\ AskBecomes(Hears(ask, f.x.targets, knows))
  /\ UNCHANGED <<knows, seen>>

(* The directory: the leases and the incidents a node knows, asked for when *)
(* pins are short and, by the hello of on_tick, every now and then.         *)
Hello ==
  /\ Greets
  /\ wire' = wire \cup {frame(s, "dir?", [from |-> Client]) : s \in Servers}
  /\ wire' # wire
  /\ UNCHANGED <<led, pending, finished, served, ask, knows, seen, signed, restarts>>

_on_directory_query(f) ==
  /\ f.k = "dir?"
  /\ Carries(f.to, {frame(Client, "dir", [targets |-> led[f.to]])})

_on_directory(f) ==
  LET A == Hears(ask, f.x.targets, Providers)
      l == led[Client] \cup f.x.targets
  IN /\ f.k = "dir"
     /\ knows' = Providers
     /\ led' = [led EXCEPT ![Client] = l]
     /\ AskBecomes(IF A.waiting_dir /\ A.outcome = None THEN _submit_lockdown(A, l, Providers) ELSE A)
     /\ <<knows', led', ask'>> # <<knows, led, ask>>
     /\ UNCHANGED seen

-----------------------------------------------------------------------------
AskInit ==
  /\ rogues \in SUBSET Providers
  /\ led = [m \in Everyone |-> {}]
  /\ pending = [s \in Servers |-> [n \in Requests |-> None]]
  /\ finished = [s \in Servers |-> [n \in Requests |-> NoReply]]
  /\ served = [p \in Providers |-> [n \in Requests |-> None]]
  /\ ask = [quorum |-> Quorum, begun |-> FALSE, tries |-> 0, mode |-> Normal, live |-> 0, late |-> 0,
            need |-> Quorum, pins |-> {}, tried |-> {}, forwarder |-> None, awaiting |-> {},
            unresponsive |-> {}, waiting_dir |-> FALSE, outcome |-> None, out |-> {}]
  /\ knows = {} /\ seen = {} /\ signed = {} /\ wire = {} /\ restarts = 0

AskNext ==
  /\ UNCHANGED rogues
  /\ \/ Ask \/ ClientTick \/ Hello
     \/ \E f \in wire :
          \/ \E gone \in SUBSET MayExclude : _on_submit(f, gone) \/ collect(f, gone) \/ leg_failed(f, gone)
          \/ ServerIncident(f) \/ Forward(f) \/ Return(f) \/ serve(f) \/ SelfReport(f) \/ Misanswer(f) \/ Learn(f)
          \/ _on_result(f) \/ _on_refused(f) \/ ClientIncident(f) \/ _on_directory_query(f) \/ _on_directory(f)
     \/ \E s \in Servers, n \in Requests, gone \in SUBSET MayExclude : ServerTick(s, n, gone)
     \/ \E p \in Providers : Restart(p)

AskSpec == AskInit /\ [][AskNext]_askVars
AskFairSpec == AskSpec /\ WF_askVars(Ask) /\ WF_askVars(ClientTick)

-----------------------------------------------------------------------------
Tags == {"node", "decider", "model"}
AskTypeOK ==
  /\ rogues \subseteq Providers
  /\ \A m \in Everyone : \A t \in led[m] : t[1] \in Tags
  /\ \A s \in Servers, n \in Requests :
       pending[s][n] # None => pending[s][n].attempt < MaxAttempts /\ pending[s][n].open # {}
  /\ ask.tries \in Requests \cup {0} /\ ask.live \in 0..ask.tries /\ ask.awaiting \subseteq Servers
  /\ knows \subseteq Providers

(* The model nodes that signed an output for a request. *)
Signers(n, o) == {p \in Providers : [provider |-> p, n |-> n, output |-> o] \in signed}
Agreed(o) ==
  /\ Cardinality(Signers(o.n, o.output)) >= ask.quorum
  /\ o.mode = Lockdown => Cardinality(Signers(o.n, o.output)) >= LockdownQuorum

(* A server gives one reply to a request, however often it is submitted.    *)
OneReply ==
  \A f, g \in {x \in wire : x.k \in {"result", "refused"}} : f.x.from = g.x.from /\ f.x.n = g.x.n => f = g

(* An answer the client accepts was signed, for the request it is accepted  *)
(* for, by as many different model nodes as the user asked for - two at     *)
(* least in lockdown - over whatever attempts, servers and retries          *)
(* (SafetyLayer.adjudicate); and a server gives one reply to a request      *)
(* (MeshNode._finish).                                                      *)
AcceptedIsAgreed ==
  /\ ask.outcome # None => (ask.outcome.status = "accepted" => Agreed(ask.outcome))
  /\ OneReply

(* A model node that answers honestly is never convicted: a repeated, late  *)
(* or rerouted request gets the same answer (MeshNode.serve), so that no    *)
(* two of its answers are evidence of equivocation - as long as none is     *)
(* restarted, which forgets what it has answered.                           *)
HonestIsNotConvicted ==
  restarts = 0 => \A m \in DOMAIN led, p \in Providers \ rogues : target_node(p) \notin led[m]

(* Once the client knows of a mutiny it accepts no answer that the ordinary *)
(* decision layer routed, one already on its way included                   *)
(* (UserClient.on_incident).                                                *)
NotOrdinary ==
  ask.outcome = None /\ ask'.outcome # None /\ led[Client] # {} =>
    ~(ask'.outcome.status = "accepted" /\ ask'.outcome.mode = Normal)
NoOrdinaryAnswerInLockdown == [][NotOrdinary]_askVars

(* Every ask ends. *)
AskEnds == <>(ask.outcome # None)
=============================================================================
