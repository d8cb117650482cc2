----------------------------- MODULE Rendezvous -----------------------------
(***************************************************************************)
(* Rendezvous (rendezvous.py): a node registers where it can be reached,   *)
(* others look it up.  One server, one registering node (whose address may *)
(* change), and callers of RendezvousLink.lookup - threads of one other    *)
(* node.  Frames are signed; the network may lose, delay, repeat and       *)
(* reorder them.  One over the rate limit is a lost frame.                 *)
(***************************************************************************)
EXTENDS Integers, Sequences, FiniteSets, SequencesExt

CONSTANTS
  None,
  Addrs,
  Callers,
  MaxSkew, TTL,
  MaxPending,   \* _MAX_PENDING_LOOKUPS
  MaxTime, MaxRegisters, MaxLookups

Fine == 10      \* timestamps between two ticks
Never == -Fine * (MaxTime + MaxSkew)

VARIABLES
  now,
  at,          \* where the registering node is
  registry,    \* _registry: the node's registration, or None
  last_ts,     \* _last_ts: by kind of request
  issued,      \* _last_ts of the two clients
  pending,     \* _pending_register
  reflexive,   \* what the node knows of its own address
  lookups,     \* _pending_lookups, the oldest first
  answer,      \* _answers[target], or None
  caller,      \* each caller: idle, or the position of its lookup in asked
  returned,    \* history: what lookups returned
  net,
  given,       \* history: the registers that reached the server, in order
  asked        \* history: how many registers the server had when each lookup began

server == <<registry, last_ts, given>>
node == <<at, pending, reflexive>>
link == <<lookups, answer, caller, returned, asked>>
vars == <<now, server, node, link, issued, net>>

Init ==
  /\ now = 0 /\ at = (CHOOSE a \in Addrs : TRUE)
  /\ registry = None /\ last_ts = [k \in {"register", "lookup"} |-> Never] /\ given = <<>>
  /\ issued = [k \in {"register", "lookup"} |-> Never]
  /\ pending = None /\ reflexive = None
  /\ lookups = <<>> /\ answer = None /\ caller = [c \in Callers |-> 0]
  /\ returned = {} /\ net = {} /\ asked = <<>>

(* _next_ts: the clock, or just after the last one. *)
_next_ts(k) == IF now * Fine > issued[k] THEN now * Fine ELSE issued[k] + 1

-----------------------------------------------------------------------------
(* The registering node. *)

register ==
  LET ts == _next_ts("register")
  IN /\ Cardinality({f \in net : f.t = "register"}) < MaxRegisters
     /\ issued' = [issued EXCEPT !["register"] = ts]
     /\ pending' = ts
     /\ net' = net \cup {[t |-> "register", ts |-> ts, addr |-> at]}
     /\ UNCHANGED <<now, server, at, reflexive, link>>

(* The ack reaches the node where it is, and counts when it echoes the      *)
(* latest register.                                                         *)
handle_register_ack(f) ==
  /\ f.t = "ack" /\ f.addr = at
  /\ pending # None /\ f.ts = pending
  /\ pending' = None /\ reflexive' = f.addr
  /\ UNCHANGED <<now, server, at, link, issued, net>>

Move ==
  /\ at' \in Addrs \ {at}
  /\ UNCHANGED <<now, server, pending, reflexive, link, issued, net>>

-----------------------------------------------------------------------------
(* The server. *)

_live == registry # None /\ now - registry.last_seen <= TTL

(* _admit: fresh, and newer than the last one of its kind. *)
_admitUnskewed(f) == f.ts > last_ts[f.t]
_admit(f) ==
  /\ now * Fine - f.ts \in (-MaxSkew * Fine)..(MaxSkew * Fine)
  /\ f.ts > last_ts[f.t]

on_register(f) ==
  /\ f.t = "register"
  /\ _admit(f)
  /\ last_ts' = [last_ts EXCEPT !["register"] = f.ts]
  /\ registry' = [addr |-> f.addr, last_seen |-> now]
  /\ given' = Append(given, f)
  /\ net' = net \cup {[t |-> "ack", ts |-> f.ts, addr |-> f.addr]}
  /\ UNCHANGED <<now, node, link, issued>>

on_lookup(f) ==
  /\ f.t = "lookup"
  /\ _admit(f)
  /\ last_ts' = [last_ts EXCEPT !["lookup"] = f.ts]
  /\ net' = net \cup {[t |-> "result", ts |-> f.ts, addr |-> IF _live THEN registry.addr ELSE None,
                       made |-> now, known |-> Len(given)]}
  /\ UNCHANGED <<now, registry, given, node, link, issued>>

-----------------------------------------------------------------------------
(* RendezvousLink.lookup: forget an older answer, ask, and wait.            *)
LookupBegins(c) ==
  LET ts == _next_ts("lookup")
      more == Append(lookups, ts)
  IN /\ caller[c] = 0 /\ Len(asked) < MaxLookups
     /\ answer' = None
     /\ issued' = [issued EXCEPT !["lookup"] = ts]
     /\ lookups' = IF Len(more) > MaxPending THEN Tail(more) ELSE more
     /\ asked' = Append(asked, Len(given))
     /\ caller' = [caller EXCEPT ![c] = Len(asked) + 1]
     /\ net' = net \cup {[t |-> "lookup", ts |-> ts]}
     /\ UNCHANGED <<now, server, node, returned>>

(* _on_result: of a lookup still outstanding. *)
_on_result(f) ==
  /\ f.t = "result"
  /\ Contains(lookups, f.ts)
  /\ lookups' = SelectSeq(lookups, LAMBDA ts : ts # f.ts)
  /\ answer' = [addr |-> f.addr, known |-> f.known]
  /\ UNCHANGED <<now, server, node, caller, returned, asked, issued, net>>

(* The wait ends, with the answer that is there or, in time, without one.   *)
LookupReturns(c) ==
  /\ caller[c] # 0
  /\ returned' = IF answer # None /\ answer.addr # None
                 THEN returned \cup {[lookup |-> caller[c], addr |-> answer.addr, known |-> answer.known]} ELSE returned
  /\ answer' = None
  /\ caller' = [caller EXCEPT ![c] = 0]
  /\ UNCHANGED <<now, server, node, lookups, asked, issued, net>>

Tick == now < MaxTime /\ now' = now + 1 /\ UNCHANGED <<server, node, link, issued, net>>

Next ==
  \/ register \/ Move \/ Tick
  \/ \E f \in net : \/ handle_register_ack(f) \/ on_register(f) \/ on_lookup(f) \/ _on_result(f)
  \/ \E c \in Callers : LookupBegins(c) \/ LookupReturns(c)

Spec == Init /\ [][Next]_vars

-----------------------------------------------------------------------------
TypeOK ==
  /\ now \in 0..MaxTime /\ at \in Addrs /\ reflexive \in Addrs \cup {None}
  /\ Len(lookups) <= MaxPending
  /\ \A c \in Callers : caller[c] \in 0..Len(asked)
  /\ registry # None => registry.last_seen <= now

(* What the server hands out is current: the address of the newest register *)
(* it had been given, one not sent too long ago - a late, repeated or       *)
(* overtaken register neither moves a node back nor keeps it alive.         *)
ResultIsCurrent ==
  \A f \in net : f.t = "result" /\ f.addr # None =>
     LET newest == given[f.known]
     IN /\ newest.addr = f.addr
        /\ \A i \in 1..f.known : given[i].ts <= newest.ts
        /\ f.made * Fine - newest.ts <= (TTL + MaxSkew) * Fine

(* What the module says of lookups: an old result cannot point a node at a  *)
(* stale endpoint - what a lookup returns was looked up after it began.     *)
LookupIsFresh == \A r \in returned : r.known >= asked[r.lookup]
=============================================================================
