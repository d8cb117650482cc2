------------------------------- MODULE Fleet -------------------------------
(***************************************************************************)
(* fleet/secdogie_fleet: coordinator.py (the scheduling brain), server.py  *)
(* (a thread per connection, one lock around the brain), node.py (the node *)
(* and its worker thread) and the redial loop of cli.py.                   *)
(*                                                                         *)
(* A connection is a pair of queues.  It may break at any moment: the node *)
(* end sees it, the server's reading thread sees it after what is left in  *)
(* its buffer, or a send by another thread sees it first and raises.  What *)
(* the lock holder still has to do is in calls, so nobody else enters the  *)
(* brain before it is empty.  A line's signer is verified before the lock  *)
(* is taken, so its DID may be revoked while the thread waits for it.  A   *)
(* worker belongs to the connection it was started on and survives it.     *)
(* Progress messages are left out: they only change what is displayed.  A  *)
(* node's DID is its id.                                                   *)
(***************************************************************************)
EXTENDS Integers, FiniteSets, SequencesExt

CONSTANTS
    Node, Task,
    None,            \* no task, no node
    Prio,            \* Prio[t]
    max_concurrent,
    max_task_attempts,   \* max_attempts
    Conn,            \* connection numbers, 1 .. n
    Raises,          \* whether a send may be the first to see a broken connection
    Backoff,         \* whether a redial waits until the server has read the last hello
    MaxCut,          \* bound: broken connections and dead nodes
    MaxOps,          \* bound: pauses and stops
    MaxRevoked       \* bound: revoked nodes

ASSUME FleetConstants ==
    /\ IsFiniteSet(Task) /\ None \notin Node \cup Task
    /\ Prio \in [Task -> Int]
    /\ max_concurrent \in Nat /\ max_task_attempts \in Nat \ {0}
    /\ Conn \subseteq Nat \ {0}
    /\ Raises \in BOOLEAN /\ Backoff \in BOOLEAN
    /\ MaxCut \in Nat /\ MaxOps \in Nat /\ MaxRevoked \in Nat

VARIABLES
    state, holder, attempts, tried, pausing,  \* the Task records, by task
    order,      \* _order
    nodes,      \* nodes: the registered ids, oldest first
    held,       \* held[n]: the task_id of n's Node record
    conns,      \* conns[n]: _conns, 0 without
    calls,      \* what the holder of the lock has still to do
    owner, near, far,   \* by connection: the node, its end is up, the reading thread
    up, down,           \* by connection: lines to the server and to the node
    current, stop,          \* by connection: current_task and _stop of its Node object
    work,       \* the worker threads: connection, task, code ("run" until it ends)
    revoked, ended,     \* revoked DIDs; nodes that stopped themselves
    passed,     \* connections with a line that was verified before its signer was revoked
    cuts, ops

brain == <<state, holder, attempts, tried, pausing, order, nodes, held>>
wires == <<owner, near, up, down>>
desks == <<current, stop, work>>
faults == <<revoked, ended, passed, cuts, ops>>
fleetVars == <<brain, conns, calls, far, wires, desks, faults>>

States == {"absent", "queued", "running", "paused", "done", "failed"}
Codes == {"finished", "stopped", "error"}
Line == [kind : {"hello"}] \cup [kind : {"result"}, task : Task, code : Codes]
             \cup [kind : {"assign", "stop"}, task : Task]
Call == [op : {"pause", "offer"}, task : Task] \cup [op : {"pump"}]

FleetTypeOK ==
    /\ state \in [Task -> States] /\ holder \in [Task -> Node \cup {None}]
    /\ attempts \in [Task -> 0 .. max_task_attempts + MaxOps]   \* a resume gives one more
    /\ tried \in [Task -> SUBSET Node]
    /\ pausing \in [Task -> BOOLEAN] /\ order \in Seq(Task)
    /\ nodes \in Seq(Node) /\ held \in [Node -> Task \cup {None}]
    /\ conns \in [Node -> Conn \cup {0}] /\ calls \in Seq(Call)
    /\ owner \in [Conn -> Node \cup {None}] /\ near \in [Conn -> BOOLEAN]
    /\ far \in [Conn -> {"none", "open", "shut", "done"}]
    /\ up \in [Conn -> Seq(Line)] /\ down \in [Conn -> Seq(Line)]
    /\ current \in [Conn -> Task \cup {None}] /\ stop \in [Conn -> BOOLEAN]
    /\ work \subseteq [conn : Conn, task : Task, code : Codes \cup {"run"}]
    /\ revoked \subseteq Node /\ ended \subseteq Node /\ passed \subseteq Conn
    /\ cuts \in 0 .. MaxCut /\ ops \in 0 .. MaxOps

FleetInit ==
    /\ state = [t \in Task |-> "absent"] /\ holder = [t \in Task |-> None]
    /\ attempts = [t \in Task |-> 0] /\ tried = [t \in Task |-> {}]
    /\ pausing = [t \in Task |-> FALSE] /\ order = << >>
    /\ nodes = << >> /\ held = [n \in Node |-> None]
    /\ conns = [n \in Node |-> 0] /\ calls = << >>
    /\ owner = [c \in Conn |-> None] /\ near = [c \in Conn |-> FALSE]
    /\ far = [c \in Conn |-> "none"]
    /\ up = [c \in Conn |-> << >>] /\ down = [c \in Conn |-> << >>]
    /\ current = [c \in Conn |-> None] /\ stop = [c \in Conn |-> FALSE]
    /\ work = {} /\ revoked = {} /\ ended = {} /\ passed = {} /\ cuts = 0 /\ ops = 0

-----------------------------------------------------------------------------
(* coordinator.py *)

SETTLED == {"done", "failed", "paused"}
PumpCall == << [op |-> "pump"] >>

running_count == Cardinality({t \in Task : state[t] = "running"})
is_settled == running_count = 0 /\ order = << >>

\* _enqueue: before the first task of lower priority.
_enqueue(o, t) ==
    LET below == {i \in DOMAIN o : Prio[o[i]] < Prio[t]}
    IN  IF Contains(o, t) THEN o
        ELSE InsertAt(o, IF below = {} THEN Len(o) + 1 ELSE Min(below), t)

\* _idle_node: the oldest idle node, if possible one that did not have t yet.
idle == {i \in DOMAIN nodes : held[nodes[i]] = None}
_idle_node(t) ==
    LET fresh == {i \in idle : nodes[i] \notin tried[t]}
    IN  nodes[Min(IF fresh # {} THEN fresh ELSE idle)]

\* Mutation of _requeue: the task is not put back into the dispatch order.
RequeueUnlisted(t, used) ==
    /\ state' = [state EXCEPT ![t] = IF used >= max_task_attempts THEN "failed" ELSE "queued"]
    /\ holder' = [holder EXCEPT ![t] = None]
    /\ pausing' = [pausing EXCEPT ![t] = FALSE]
    /\ UNCHANGED order

\* _requeue of a task that had `used` attempts.
_requeue(t, used) ==
    IF t = None \/ (t # None /\ state[t] \in SETTLED)
    THEN UNCHANGED <<state, holder, pausing, order>>
    ELSE /\ state' = [state EXCEPT ![t] = IF used >= max_task_attempts THEN "failed" ELSE "queued"]
         /\ holder' = [holder EXCEPT ![t] = None]
         /\ pausing' = [pausing EXCEPT ![t] = FALSE]
         /\ order' = IF used >= max_task_attempts THEN order ELSE _enqueue(order, t)

Used(t) == IF t = None THEN 0 ELSE attempts[t]

\* on_node_lost: its task goes back to the queue.
on_node_lost(n) ==
    IF ~Contains(nodes, n) THEN UNCHANGED brain
    ELSE /\ nodes' = RemoveFirst(nodes, n)
         /\ held' = [held EXCEPT ![n] = None]
         /\ _requeue(held[n], Used(held[n]))
         /\ UNCHANGED <<attempts, tried>>

\* _send_to, seen from the brain.  Writing to a connection whose other end is gone
\* goes unnoticed or raises; the second drops the node.
Broken(n) == ~near[conns[n]] \/ far[conns[n]] = "shut"
Reaches(n, line) ==
    /\ down' = IF Broken(n) THEN down ELSE [down EXCEPT ![conns[n]] = Append(@, line)]
    /\ UNCHANGED conns
SendRaises(n) ==
    /\ Raises /\ Broken(n)
    /\ conns' = [conns EXCEPT ![n] = 0]
    /\ UNCHANGED down

\* submit, then pump.
submit(t) ==
    /\ calls = << >> /\ state[t] = "absent"
    /\ state' = [state EXCEPT ![t] = "queued"]
    /\ order' = _enqueue(order, t)
    /\ calls' = PumpCall
    /\ UNCHANGED <<holder, attempts, tried, pausing, nodes, held, conns, far, wires, desks, faults>>

\* pump: the order as it is now is gone through; a full fleet or no idle node ends it.
pump ==
    /\ calls # << >> /\ Head(calls).op = "pump"
    /\ calls' = [i \in DOMAIN order |-> [op |-> "offer", task |-> order[i]]]
    /\ UNCHANGED <<brain, conns, far, wires, desks, faults>>

offer_skip ==
    /\ calls # << >> /\ Head(calls).op = "offer"
    /\ \/ state[Head(calls).task] # "queued" /\ calls' = Tail(calls)
       \/ /\ state[Head(calls).task] = "queued"
          /\ running_count >= max_concurrent \/ idle = {}
          /\ calls' = << >>
    /\ UNCHANGED <<brain, conns, far, wires, desks, faults>>

offer ==
    /\ calls # << >> /\ Head(calls).op = "offer"
    /\ LET t == Head(calls).task
           n == _idle_node(t)
       IN  /\ state[t] = "queued" /\ running_count < max_concurrent /\ idle # {}
           /\ calls' = Tail(calls)
           /\ attempts' = [attempts EXCEPT ![t] = @ + 1]
           /\ tried' = [tried EXCEPT ![t] = @ \cup {n}]
           /\ \/ /\ Reaches(n, [kind |-> "assign", task |-> t])
                 /\ state' = [state EXCEPT ![t] = "running"]
                 /\ holder' = [holder EXCEPT ![t] = n]
                 /\ pausing' = [pausing EXCEPT ![t] = FALSE]
                 /\ order' = RemoveFirst(order, t)
                 /\ held' = [held EXCEPT ![n] = t]
                 /\ UNCHANGED nodes
              \/ \* the send raised: the node is dropped, the task requeued
                 /\ SendRaises(n)
                 /\ nodes' = RemoveFirst(nodes, n)
                 /\ state' = [state EXCEPT ![t] =
                                 IF attempts[t] + 1 >= max_task_attempts THEN "failed" ELSE "queued"]
                 /\ order' = IF attempts[t] + 1 >= max_task_attempts THEN RemoveFirst(order, t)
                             ELSE _enqueue(RemoveFirst(order, t), t)
                 /\ UNCHANGED <<holder, pausing, held>>
    /\ UNCHANGED <<far, owner, near, up, desks, faults>>

\* pause_task, inside the lock: a queued task is parked, a running one asked to stop.
pause_one ==
    /\ calls # << >> /\ Head(calls).op = "pause" /\ calls' = Tail(calls)
    /\ LET t == Head(calls).task IN
       \/ /\ state[t] = "queued"
          /\ state' = [state EXCEPT ![t] = "paused"]
          /\ pausing' = [pausing EXCEPT ![t] = TRUE]
          /\ order' = RemoveFirst(order, t)
          /\ UNCHANGED <<holder, nodes, held, conns, down>>
       \/ /\ state[t] = "running"
          /\ Reaches(holder[t], [kind |-> "stop", task |-> t])
          /\ pausing' = [pausing EXCEPT ![t] = TRUE]
          /\ UNCHANGED <<state, holder, order, nodes, held>>
       \/ /\ state[t] = "running"
          /\ SendRaises(holder[t])
          /\ nodes' = RemoveFirst(nodes, holder[t])
          /\ held' = [held EXCEPT ![holder[t]] = None]
          /\ _requeue(t, attempts[t])
       \/ /\ state[t] \in SETTLED \cup {"absent"}
          /\ UNCHANGED <<state, holder, pausing, order, nodes, held, conns, down>>
    /\ UNCHANGED <<attempts, tried, far, owner, near, up, desks, faults>>

\* FleetServer.pause_task and pause_below_priority: the pauses, then pump.
pause(S) ==
    /\ calls = << >> /\ S # {} /\ ops < MaxOps
    /\ \A t \in S : state[t] \in {"queued", "running"}
    /\ \/ Cardinality(S) = 1
       \/ \E p \in {Prio[t] : t \in Task} :
             S = {t \in Task : Prio[t] < p /\ state[t] \in {"queued", "running"}}
    /\ ops' = ops + 1
    /\ \E s \in SetToSeqs(S) :
          calls' = [i \in DOMAIN s |-> [op |-> "pause", task |-> s[i]]] \o PumpCall
    /\ UNCHANGED <<brain, conns, far, wires, desks, revoked, ended, passed, cuts>>

\* resume_task, then pump.
resume(t) ==
    /\ calls = << >> /\ state[t] = "paused"
    /\ state' = [state EXCEPT ![t] = "queued"]
    /\ holder' = [holder EXCEPT ![t] = None]
    /\ pausing' = [pausing EXCEPT ![t] = FALSE]
    /\ order' = _enqueue(order, t)
    /\ calls' = PumpCall
    /\ UNCHANGED <<attempts, tried, nodes, held, conns, far, wires, desks, faults>>

\* stop_task: no pump follows.
stop_task(t) ==
    /\ calls = << >> /\ state[t] = "running" /\ holder[t] # None /\ ops < MaxOps
    /\ ops' = ops + 1
    /\ \/ Reaches(holder[t], [kind |-> "stop", task |-> t]) /\ UNCHANGED brain
       \/ SendRaises(holder[t]) /\ on_node_lost(holder[t])
    /\ UNCHANGED <<calls, far, owner, near, up, desks, revoked, ended, passed, cuts>>

-----------------------------------------------------------------------------
(* server.py: the thread that reads connection c *)

Reading(c) == calls = << >> /\ far[c] \in {"open", "shut"} /\ up[c] # << >>

\* _verify: the signer was not revoked when the line was read.
Verified(c) == owner[c] \notin revoked \/ c \in passed

\* A line whose signer is revoked is rejected.
reject(c) ==
    /\ far[c] \in {"open", "shut"} /\ up[c] # << >> /\ ~Verified(c)
    /\ up' = [up EXCEPT ![c] = Tail(@)]
    /\ UNCHANGED <<brain, conns, calls, far, owner, near, down, desks, faults>>

\* Mutation of on_hello: a node that comes back keeps its task.
HelloKeeps(c) ==
    LET n == owner[c] IN
    /\ Reading(c) /\ Head(up[c]).kind = "hello" /\ Verified(c)
    /\ passed' = passed \ {c}
    /\ up' = [up EXCEPT ![c] = Tail(@)]
    /\ conns' = [conns EXCEPT ![n] = c]
    /\ nodes' = IF Contains(nodes, n) THEN nodes ELSE Append(nodes, n)
    /\ held' = [held EXCEPT ![n] = None]
    /\ calls' = PumpCall
    /\ UNCHANGED <<state, holder, pausing, order, attempts, tried, far, owner, near, down, desks,
                   revoked, ended, cuts, ops>>

\* on_hello, then pump: a node that comes back hands back its task.
on_hello(c) ==
    LET n == owner[c] IN
    /\ Reading(c) /\ Head(up[c]).kind = "hello" /\ Verified(c)
    /\ passed' = passed \ {c}
    /\ up' = [up EXCEPT ![c] = Tail(@)]
    /\ conns' = [conns EXCEPT ![n] = c]
    /\ nodes' = IF Contains(nodes, n) THEN nodes ELSE Append(nodes, n)
    /\ held' = [held EXCEPT ![n] = None]
    /\ _requeue(held[n], Used(held[n]))
    /\ calls' = PumpCall
    /\ UNCHANGED <<attempts, tried, far, owner, near, down, desks, revoked, ended, cuts, ops>>

\* Mutation of Outcome: one attempt too many.
OutcomeOneMore(t, code) ==
    CASE pausing[t] /\ code \in {"stopped", "error"} -> "paused"
      [] ~pausing[t] /\ code = "stopped" -> "done"
      [] code = "finished" -> "done"
      [] OTHER -> IF attempts[t] > max_task_attempts THEN "failed" ELSE "queued"

\* Mutation of Outcome: a pause request does not survive an error.
OutcomeUnparked(t, code) ==
    CASE pausing[t] /\ code = "stopped" -> "paused"
      [] ~(pausing[t] /\ code = "stopped") /\ code # "error" -> "done"
      [] OTHER -> IF attempts[t] >= max_task_attempts THEN "failed" ELSE "queued"

\* What a result makes of a task: parked if a pause was asked for and it did not
\* finish, done, failed, or queued again.
Outcome(t, code) ==
    CASE pausing[t] /\ code \in {"stopped", "error"} -> "paused"
      [] ~pausing[t] /\ code = "stopped" -> "done"
      [] code = "finished" -> "done"
      [] OTHER -> IF attempts[t] >= max_task_attempts THEN "failed" ELSE "queued"

\* on_result, then pump.
on_result(c) ==
    LET n == owner[c]
        t == Head(up[c]).task
        s == Outcome(t, Head(up[c]).code)
    IN  /\ Reading(c) /\ Head(up[c]).kind = "result" /\ Verified(c)
        /\ passed' = passed \ {c}
        /\ up' = [up EXCEPT ![c] = Tail(@)]
        /\ held' = IF held[n] = t THEN [held EXCEPT ![n] = None] ELSE held
        /\ IF state[t] \in SETTLED THEN UNCHANGED <<state, holder, pausing, order>>
           ELSE /\ state' = [state EXCEPT ![t] = s]
                /\ holder' = [holder EXCEPT ![t] = None]
                /\ pausing' = [pausing EXCEPT ![t] = s = "paused"]
                /\ order' = IF s = "queued" THEN _enqueue(order, t) ELSE order
        /\ calls' = PumpCall
        /\ UNCHANGED <<attempts, tried, nodes, conns, far, owner, near, down, desks,
                       revoked, ended, cuts, ops>>

\* End of file: the thread drops the node unless another connection has taken over.
serve_end(c) ==
    /\ calls = << >> /\ far[c] \in {"open", "shut"} /\ up[c] = << >>
    /\ ~near[c] \/ far[c] = "shut"
    /\ far' = [far EXCEPT ![c] = "done"]
    /\ IF conns[owner[c]] = c
       THEN /\ conns' = [conns EXCEPT ![owner[c]] = 0]
            /\ on_node_lost(owner[c])
            /\ calls' = PumpCall
       ELSE UNCHANGED <<conns, brain, calls>>
    /\ near' = [near EXCEPT ![c] = FALSE]
    /\ UNCHANGED <<owner, up, down, desks, faults>>

\* drop_revoked: the policy's callback shuts the node's connection.  A thread that
\* has verified a line of the node by then goes on with it when it gets the lock.
drop_revoked(n) ==
    /\ calls = << >> /\ n \notin revoked /\ Cardinality(revoked) < MaxRevoked
    /\ revoked' = revoked \cup {n}
    /\ far' = IF conns[n] # 0 THEN [far EXCEPT ![conns[n]] = "shut"] ELSE far
    /\ \E S \in SUBSET {c \in Conn : owner[c] = n /\ far[c] \in {"open", "shut"} /\ up[c] # << >>} :
          passed' = passed \cup S
    /\ UNCHANGED <<brain, conns, calls, wires, desks, ended, cuts, ops>>

-----------------------------------------------------------------------------
(* node.py and the redial loop of cli.py *)

\* Without Backoff the thread of the new connection may overtake the old one's.
dial(n) ==
    /\ n \notin ended /\ \A c \in Conn : owner[c] = n => ~near[c]
    /\ Backoff => \A c \in Conn : owner[c] = n => ~Contains(up[c], [kind |-> "hello"])
    /\ \E c \in Conn :
         /\ owner[c] = None /\ \A d \in Conn : owner[d] = None => c =< d
         /\ owner' = [owner EXCEPT ![c] = n]
         /\ near' = [near EXCEPT ![c] = TRUE]
         /\ far' = [far EXCEPT ![c] = "open"]
         /\ up' = [up EXCEPT ![c] = << [kind |-> "hello"] >>]
    /\ UNCHANGED <<brain, conns, calls, down, desks, faults>>

\* Node._start: a busy node answers at once.
_start(c) ==
    /\ near[c] /\ down[c] # << >> /\ Head(down[c]).kind = "assign"
    /\ down' = [down EXCEPT ![c] = Tail(@)]
    /\ LET t == Head(down[c]).task IN
       IF current[c] # None
       THEN /\ up' = [up EXCEPT ![c] = Append(@, [kind |-> "result", task |-> t, code |-> "error"])]
            /\ UNCHANGED desks
       ELSE /\ current' = [current EXCEPT ![c] = t]
            /\ stop' = [stop EXCEPT ![c] = FALSE]
            /\ work' = work \cup {[conn |-> c, task |-> t, code |-> "run"]}
            /\ UNCHANGED up
    /\ UNCHANGED <<brain, conns, calls, far, owner, near, faults>>

\* Node._request_stop
_request_stop(c) ==
    /\ near[c] /\ down[c] # << >> /\ Head(down[c]).kind = "stop"
    /\ down' = [down EXCEPT ![c] = Tail(@)]
    /\ stop' = IF current[c] = Head(down[c]).task THEN [stop EXCEPT ![c] = TRUE] ELSE stop
    /\ UNCHANGED <<brain, conns, calls, far, owner, near, up, current, work, faults>>

\* Node._run, to the point where the node counts as idle again.
_run(w, code) ==
    /\ w \in work /\ w.code = "run"
    /\ code = "stopped" => stop[w.conn]
    /\ work' = (work \ {w}) \cup {[w EXCEPT !.code = code]}
    /\ current' = [current EXCEPT ![w.conn] = None]
    /\ UNCHANGED <<brain, conns, calls, far, wires, stop, faults>>

\* Then the result is sent, on the connection the task came from.
_run_report(w) ==
    /\ w \in work /\ w.code # "run"
    /\ work' = work \ {w}
    /\ up' = IF near[w.conn]
             THEN [up EXCEPT ![w.conn] = Append(@, [kind |-> "result", task |-> w.task, code |-> w.code])]
             ELSE up
    /\ UNCHANGED <<brain, conns, calls, far, owner, near, down, current, stop, faults>>

\* The connection breaks; some of what was under way arrives.
Cut(c) ==
    /\ near[c] /\ cuts < MaxCut
    /\ cuts' = cuts + 1
    /\ near' = [near EXCEPT ![c] = FALSE]
    /\ down' = [down EXCEPT ![c] = << >>]
    /\ \E k \in 0 .. Len(up[c]) : up' = [up EXCEPT ![c] = SubSeq(@, 1, k)]
    /\ UNCHANGED <<brain, conns, calls, far, owner, desks, revoked, ended, passed, ops>>

\* The node's machine dies, with its connection and its workers.
Die(c) ==
    /\ near[c] /\ cuts < MaxCut
    /\ cuts' = cuts + 1
    /\ near' = [near EXCEPT ![c] = FALSE]
    /\ down' = [down EXCEPT ![c] = << >>]
    /\ work' = {w \in work : owner[w.conn] # owner[c]}
    /\ current' = [d \in Conn |-> IF owner[d] = owner[c] THEN None ELSE current[d]]
    /\ UNCHANGED <<brain, conns, calls, far, owner, up, stop, revoked, ended, passed, ops>>

\* stop_event: the node learned that its own DID is revoked.
halt_node(n) ==
    /\ n \in revoked \ ended
    /\ ended' = ended \cup {n}
    /\ stop' = [c \in Conn |-> stop[c] \/ (owner[c] = n /\ near[c])]
    /\ UNCHANGED <<brain, conns, calls, far, wires, current, work, revoked, passed, cuts, ops>>

\* wait_idle is over, by itself or by its timeout.
leave(c) ==
    /\ near[c] /\ owner[c] \in ended
    /\ near' = [near EXCEPT ![c] = FALSE]
    /\ down' = [down EXCEPT ![c] = << >>]
    /\ UNCHANGED <<brain, conns, calls, far, owner, up, desks, faults>>

Lock == pump \/ offer_skip \/ offer \/ pause_one
Thread(c) == reject(c) \/ on_hello(c) \/ on_result(c) \/ serve_end(c)
Desk(c) == _start(c) \/ _request_stop(c) \/ leave(c)
WorkerOf(c) == \E w \in work : w.conn = c /\ (\E code \in Codes : _run(w, code) \/ _run_report(w))

FleetNext ==
    \/ Lock
    \/ \E t \in Task : submit(t) \/ resume(t) \/ stop_task(t)
    \/ \E S \in SUBSET Task : pause(S)
    \/ \E c \in Conn : Thread(c) \/ Desk(c) \/ WorkerOf(c) \/ Cut(c) \/ Die(c)
    \/ \E n \in Node : dial(n) \/ drop_revoked(n) \/ halt_node(n)

FleetSpec == FleetInit /\ [][FleetNext]_fleetVars

\* Threads run, nodes redial.
FleetFairSpec ==
    /\ FleetSpec /\ WF_fleetVars(Lock)
    /\ \A c \in Conn : WF_fleetVars(Thread(c)) /\ WF_fleetVars(Desk(c)) /\ WF_fleetVars(WorkerOf(c))
    /\ \A n \in Node : WF_fleetVars(dial(n))

-----------------------------------------------------------------------------
(* Properties *)

\* Every running task is on a registered node that will report it, or whose loss
\* hands it back: through lost nodes, reconnections, results of superseded runs and
\* failing sends no task runs on nobody.
RunningIsHeld ==
    \A t \in Task : state[t] = "running" =>
        /\ holder[t] # None /\ Contains(nodes, holder[t])
        /\ held[holder[t]] = t /\ conns[holder[t]] # 0

\* A queued task is in the dispatch order, once, and the order is by priority.
QueueIsComplete ==
    /\ \A t \in Task : state[t] = "queued" => Contains(order, t)
    /\ \A i, j \in DOMAIN order : i < j => order[i] # order[j] /\ Prio[order[i]] >= Prio[order[j]]

\* What drop_revoked says of a revoked node: disconnected, and "that DID no longer
\* verifies, so it cannot come back".
RevokedIsDropped == \A n \in revoked : conns[n] # 0 => far[conns[n]] = "shut"

\* A submitted task ends or is parked, unless every node has been revoked or the task
\* runs on a revoked node that came back: its result is rejected.
TaskOwed(t) == state[t] \in {"queued", "running"}
Stranded(t) == holder[t] \in revoked /\ far[conns[holder[t]]] = "open"
TaskEnded(t) == state[t] \in SETTLED \/ revoked = Node \/ Stranded(t)
TasksSettle == \A t \in Task : TaskOwed(t) ~> TaskEnded(t)

\* "a node that drops hands its task back to the queue so another node picks it up"
\* (coordinator.py): a queued task does not wait for ever while a connected node is
\* idle and the fleet is not full.
IsOffered ==
    \A t \in Task :
        [](state[t] = "queued" /\ idle # {} /\ running_count < max_concurrent
             => <>(state[t] # "queued" \/ idle = {} \/ running_count >= max_concurrent))

=============================================================================
