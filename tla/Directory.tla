----------------------------- MODULE Directory ------------------------------
(***************************************************************************)
(* Who is in the mesh: the membership views that nodes gossip              *)
(* (membership.py, MembershipView) and, for finding one node among many,   *)
(* the routing tables and the iterative lookup of dht.py.  A record is its *)
(* node and its last_seen; only its node can sign one, every member is on  *)
(* the allowlist, and a record of a node not heard of yet is 0.            *)
(***************************************************************************)
EXTENDS Integers, Sequences, FiniteSets, SequencesExt, Bitwise

CONSTANTS
  Nodes,        \* node ids
  K,            \* the size of a bucket
  Alpha, Count, \* the nodes asked at a time, the records a node answers with
  Target, Seed,
  MaxSeen, MaxRounds

VARIABLES
  seen,       \* each node's last announcement
  view,       \* _records of each MembershipView
  buckets,    \* _buckets of each RoutingTable: index -> ids, the least recently seen first
  records,    \* _records of each RoutingTable
  search,     \* the lookup under way: phase, shortlist, queried, rounds, found
  heard       \* history: the newest record of the target the lookup was given

vars == <<seen, view, buckets, records, search, heard>>

Distances == [p \in Nodes \X Nodes |-> p[1] ^^ p[2]]
xor_distance(a, b) == Distances[a, b]
bucket_index(a, b) == CHOOSE i \in 0..7 : 2^i <= xor_distance(a, b) /\ xor_distance(a, b) < 2^(i + 1)
Indices == 0..2

Init ==
  /\ seen = [n \in Nodes |-> 0]
  /\ view = [n \in Nodes |-> [m \in Nodes |-> 0]]
  /\ buckets = [n \in Nodes |-> [i \in Indices |-> <<>>]]
  /\ records = [n \in Nodes |-> [m \in Nodes |-> 0]]
  /\ search = [phase |-> "idle", shortlist |-> {}, queried |-> {}, ask |-> {}, progressed |-> FALSE, rounds |-> 0, found |-> 0]
  /\ heard = 0

-----------------------------------------------------------------------------
(* merge_record: the newer one wins, unless it is from too far ahead of the *)
(* clock of the node that merges it.                                        *)
merge_record(cur, new, ahead) == IF new > cur /\ ~ahead THEN new ELSE cur

(* announce: a node signs a record of itself and merges it. *)
announce(n) ==
  /\ seen[n] < MaxSeen
  /\ seen' = [seen EXCEPT ![n] = @ + 1]
  /\ view' = [view EXCEPT ![n][n] = seen[n] + 1]
  /\ UNCHANGED <<buckets, records, search, heard>>

(* gossip_round: each sends what the other lacks or has older.              *)
gossip_round(a, b) ==
  /\ a # b
  /\ \E ahead \in SUBSET Nodes :
       view' = [view EXCEPT ![a] = [m \in Nodes |-> merge_record(@[m], view[b][m], m \in ahead)],
                            ![b] = [m \in Nodes |-> merge_record(@[m], view[a][m], FALSE)]]
  /\ view' # view
  /\ UNCHANGED <<seen, buckets, records, search, heard>>

-----------------------------------------------------------------------------
(* RoutingTable.add: refresh, or take the place of the least recently seen. *)
Without(b, m) == SelectSeq(b, LAMBDA x : x # m)
EvictedKept(b, m) == {}
Evicted(b, m) == IF ~Contains(b, m) /\ Len(b) >= K THEN {Head(b)} ELSE {}
add(n, m, s) ==
  LET i == bucket_index(n, m)
      b == buckets[n][i]
      kept == IF Contains(b, m) THEN Without(b, m) ELSE IF Len(b) >= K THEN Tail(b) ELSE b
  IN /\ m # n /\ s >= records[n][m] /\ s > 0
     /\ buckets' = [buckets EXCEPT ![n][i] = Append(kept, m)]
     /\ records' = [records EXCEPT ![n] = [x \in Nodes |-> IF x = m THEN s ELSE IF x \in Evicted(b, m) THEN 0 ELSE @[x]]]

(* A table learns a record of the node's own view. *)
add_signed(n, m) ==
  /\ add(n, m, view[n][m])
  /\ <<buckets', records'>> # <<buckets, records>>
  /\ UNCHANGED <<seen, view, search, heard>>

remove(n, m) ==
  /\ records[n][m] # 0
  /\ records' = [records EXCEPT ![n][m] = 0]
  /\ buckets' = [buckets EXCEPT ![n][bucket_index(n, m)] = Without(@, m)]
  /\ UNCHANGED <<seen, view, search, heard>>

(* closest: the members of ms that are nearest to id. *)
Nearest(ms, id, count) ==
  {m \in ms : Cardinality({x \in ms : xor_distance(x, id) < xor_distance(m, id)}) < count}
closest(n, id, count) == Nearest({m \in Nodes : records[n][m] # 0}, id, count)

-----------------------------------------------------------------------------
(* _lookup: the nearest nodes not asked yet, Alpha at a time, as long as a  *)
(* round finds a new node.                                                  *)
find_peer ==
  /\ search.phase = "idle"
  /\ search' = [search EXCEPT !.phase = "round", !.shortlist = Seed]
  /\ UNCHANGED <<seen, view, buckets, records, heard>>

Round ==
  LET cs == Nearest(search.shortlist \ search.queried, Target, Alpha)
  IN /\ search.phase = "round"
     /\ search' = IF cs = {} \/ search.rounds = MaxRounds THEN [search EXCEPT !.phase = "done"]
                  ELSE [search EXCEPT !.phase = "ask", !.ask = cs, !.rounds = @ + 1, !.progressed = FALSE]
     /\ UNCHANGED <<seen, view, buckets, records, heard>>

(* One candidate is asked, the nearest first; its last word on a node       *)
(* counts.  One that does not answer has been asked all the same.           *)
Query(answers) ==
  LET to == CHOOSE c \in search.ask : \A x \in search.ask : xor_distance(c, Target) <= xor_distance(x, Target)
      got == IF answers THEN closest(to, Target, Count) ELSE {}
      more == got \ search.shortlist # {} \/ search.progressed
      left == search.ask \ {to}
  IN /\ search.phase = "ask"
     /\ search' = [search EXCEPT !.queried = @ \cup {to}, !.ask = left, !.shortlist = @ \cup got, !.progressed = more,
                                 !.phase = IF left # {} THEN "ask" ELSE IF more THEN "round" ELSE "done",
                                 !.found = IF Target \in got THEN records[to][Target] ELSE @]
     /\ heard' = IF Target \in got /\ records[to][Target] > heard THEN records[to][Target] ELSE heard
     /\ UNCHANGED <<seen, view, buckets, records>>

Next ==
  \/ find_peer \/ Round
  \/ \E answers \in BOOLEAN : Query(answers)
  \/ \E n \in Nodes : announce(n)
  \/ \E n, m \in Nodes : gossip_round(n, m) \/ add_signed(n, m) \/ remove(n, m)

Spec == Init /\ [][Next]_vars

-----------------------------------------------------------------------------
TypeOK ==
  /\ \A n, m \in Nodes : view[n][m] \in 0..seen[m] /\ records[n][m] \in 0..seen[m]
  /\ search.queried \subseteq search.shortlist /\ search.rounds \in 0..MaxRounds

(* The records of a routing table are those of its buckets: each of them in *)
(* the one bucket of its distance, once, and no bucket over its size - over *)
(* any sequence of refreshes, evictions and removals.                       *)
TableIsConsistent ==
  \A n \in Nodes : \A i \in Indices :
     LET b == buckets[n][i]
     IN /\ Len(b) <= K /\ IsInjective(b)
        /\ ToSet(b) = {m \in Nodes \ {n} : records[n][m] # 0 /\ bucket_index(n, m) = i}

(* What find_peer says: it returns the peer's current record - the newest   *)
(* one the lookup was given.                                                *)
FoundIsNewest == search.phase = "done" => search.found = heard
=============================================================================
