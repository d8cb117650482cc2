------------------------------ MODULE Journal ------------------------------
(***************************************************************************)
(* The Citadel state substrate: citadel/secdogie_citadel/journal.py (the   *)
(* signed, per-author hash-chained event log), sync.py (have/want          *)
(* anti-entropy) and replication.py (that exchange over a transport).      *)
(*                                                                         *)
(* A node is a DID with one SQLite journal file.  A handle is one open     *)
(* Journal object: the object caches the Lamport clock, the file does not. *)
(* Several processes may hold a handle on one file (the node and the       *)
(* command line tools do).  Files survive a crash; caches and a merge in   *)
(* progress do not.  A ":memory:" journal, or a deleted file, loses        *)
(* everything: LoseJournal.                                                *)
(*                                                                         *)
(* Abstractions.  entry_hash is collision free, so it is a number no other *)
(* event of the same author has (chains of two authors are never compared);*)
(* GENESIS is 0.  An Ed25519 signature verifies exactly when the event is  *)
(* one its author signed, i.e. when it is in the history variable written. *)
(* Bodies are left out: the hash stands for them.                          *)
(***************************************************************************)
EXTENDS Integers, FiniteSets

CONSTANTS
    Node,        \* the DIDs, each with one journal file
    Writer,      \* the nodes with an identity; the others are read-only replicas
    Handle,      \* the open Journal objects
    NodeOf,      \* NodeOf[h]: the file (and signing identity) handle h opened
    Revocable,   \* the DIDs whose authorization may be withdrawn
    Time,        \* wall clock readings that may be stamped on an event
    MaxSeq,      \* bound: events per author
    MaxLamport,  \* bound: largest Lamport clock
    MaxNet,      \* bound: messages in flight
    MaxLoss,     \* bound: journal files lost
    MaxForged    \* bound: forged events put on the wire

ASSUME JournalConstants ==
    /\ Writer \subseteq Node
    /\ NodeOf \in [Handle -> Node]
    /\ Revocable \subseteq Node
    /\ Time \subseteq Int /\ Time # {}
    /\ MaxSeq \in Nat /\ MaxLamport \in Nat /\ MaxNet \in Nat
    /\ MaxLoss \in Nat /\ MaxForged \in Nat

VARIABLES
    rows,     \* rows[n]: the events stored in n's file, key (author, seq)
    lamport,  \* lamport[h]: the Lamport clock cached by handle h
    batch,    \* batch[h]: what is left of the event list handle h is merging
    net,      \* messages in flight; any of them may be lost, repeated, reordered
    trusted,  \* trusted[n]: the authors n's allowlist / trust policy contains
    written,  \* every event ever signed
    losses,   \* how many journal files were lost
    forged    \* how many forged events were sent

vars == <<rows, lamport, batch, net, trusted, written, losses, forged>>

GENESIS == 0

Event == [author : Node, seq : Nat \ {0}, lamport : Nat, ts : Time,
          prev : Int, hash : Int \ {GENESIS}]

HaveMsg == [kind : {"journal_have"}, from : Node, to : Node,
            heads : [Node -> Nat], reply : BOOLEAN]
EventsMsg == [kind : {"journal_events"}, from : Node, to : Node,
              events : SUBSET Event]

TypeOK ==
    /\ rows \in [Node -> SUBSET Event]
    /\ lamport \in [Handle -> Nat]
    /\ batch \in [Handle -> SUBSET Event]
    /\ net \subseteq HaveMsg \cup EventsMsg
    /\ trusted \in [Node -> SUBSET Node]
    /\ written \subseteq Event
    /\ losses \in Nat
    /\ forged \in Nat

Init ==
    /\ rows = [n \in Node |-> {}]
    /\ lamport = [h \in Handle |-> 0]
    /\ batch = [h \in Handle |-> {}]
    /\ net = {}
    /\ trusted = [n \in Node |-> Node]
    /\ written = {}
    /\ losses = 0
    /\ forged = 0

-----------------------------------------------------------------------------
(* Reading a file *)

ByAuthor(S, a) == {e \in S : e.author = a}

SeqsOf(S, a) == {e.seq : e \in ByAuthor(S, a)}

HeadSeq(S, a) ==
    IF ByAuthor(S, a) = {} THEN 0
    ELSE CHOOSE s \in SeqsOf(S, a) : \A t \in SeqsOf(S, a) : t =< s

HeadHash(S, a) ==
    IF ByAuthor(S, a) = {} THEN GENESIS
    ELSE (CHOOSE e \in ByAuthor(S, a) : e.seq = HeadSeq(S, a)).hash

heads(n) == [a \in Node |-> HeadSeq(rows[n], a)]

\* The clock a Journal object starts from: SELECT MAX(lamport).
StoredLamport(S) ==
    IF S = {} THEN 0
    ELSE CHOOSE l \in {e.lamport : e \in S} : \A e \in S : e.lamport =< l

\* The events a peer with the have-vector hv lacks.
events_since(n, hv) == {e \in rows[n] : e.seq > hv[e.author]}

-----------------------------------------------------------------------------
(* Writing *)

FreshHash(a) == Cardinality(ByAuthor(written, a)) + 1

\* Mutation of NewEvent: the new event takes the head's sequence number.
NewEventAtHead(h, t) ==
    [author |-> NodeOf[h], seq |-> HeadSeq(rows[NodeOf[h]], NodeOf[h]),
     lamport |-> lamport[h] + 1, ts |-> t,
     prev |-> HeadHash(rows[NodeOf[h]], NodeOf[h]), hash |-> FreshHash(NodeOf[h])]

NewEvent(h, t) ==
    LET a == NodeOf[h] IN
    [author  |-> a,
     seq     |-> HeadSeq(rows[a], a) + 1,
     lamport |-> lamport[h] + 1,
     ts      |-> t,
     prev    |-> HeadHash(rows[a], a),
     hash    |-> FreshHash(a)]

\* Journal.append: the head is read from the file, the clock from the object.
append(h, t) ==
    LET e == NewEvent(h, t) IN
    /\ NodeOf[h] \in Writer
    /\ e.seq =< MaxSeq
    /\ e.lamport =< MaxLamport
    /\ rows' = [rows EXCEPT ![NodeOf[h]] = @ \cup {e}]
    /\ lamport' = [lamport EXCEPT ![h] = e.lamport]
    /\ written' = written \cup {e}
    /\ UNCHANGED <<batch, net, trusted, losses, forged>>

\* The INSERT raised (a full disk, a locked file, another handle took the key):
\* nothing is stored, but the cached clock has already moved.
append_raises(h) ==
    /\ NodeOf[h] \in Writer
    /\ lamport[h] < MaxLamport
    /\ lamport' = [lamport EXCEPT ![h] = @ + 1]
    /\ UNCHANGED <<rows, batch, net, trusted, written, losses, forged>>

-----------------------------------------------------------------------------
(* Merging: Journal.merge takes the lock once per event, so other threads and
   handles run between two events of one batch. *)

Authentic(n, e) == e \in written /\ e.author \in trusted[n]

\* Mutations of Acceptable: a merge that lets an author's chain have gaps, one
\* that does not compare prev_hash, and one that does not verify the signature.
AcceptableAcrossGap(n, e) ==
    /\ Authentic(n, e)
    /\ e.seq > HeadSeq(rows[n], e.author)
AcceptableUnchained(n, e) ==
    /\ Authentic(n, e)
    /\ e.seq = HeadSeq(rows[n], e.author) + 1
AcceptableUnsigned(n, e) ==
    /\ e.author \in trusted[n]
    /\ e.seq = HeadSeq(rows[n], e.author) + 1
    /\ e.prev = HeadHash(rows[n], e.author)

Acceptable(n, e) ==
    /\ Authentic(n, e)
    /\ e.seq \notin SeqsOf(rows[n], e.author)
    /\ e.seq = HeadSeq(rows[n], e.author) + 1
    /\ e.prev = HeadHash(rows[n], e.author)

\* The batch is sorted by (author, seq); only an author's own order matters.
NextInBatch(h) ==
    {e \in batch[h] : \A f \in batch[h] : f.author = e.author => e.seq =< f.seq}

\* Mutation of _accept: a merged event does not advance the clock.
AcceptClockless(h) ==
    LET n == NodeOf[h] IN
    \E e \in NextInBatch(h) :
        /\ batch' = [batch EXCEPT ![h] = @ \ {e}]
        /\ rows' = IF Acceptable(n, e) THEN [rows EXCEPT ![n] = @ \cup {e}] ELSE rows
        /\ UNCHANGED <<lamport, net, trusted, written, losses, forged>>

_accept(h) ==
    LET n == NodeOf[h] IN
    \E e \in NextInBatch(h) :
        /\ batch' = [batch EXCEPT ![h] = @ \ {e}]
        /\ IF Acceptable(n, e)
           THEN /\ rows' = [rows EXCEPT ![n] = @ \cup {e}]
                /\ lamport' = [lamport EXCEPT ![h] =
                                  IF e.lamport > @ THEN e.lamport ELSE @]
           ELSE UNCHANGED <<rows, lamport>>
        /\ UNCHANGED <<net, trusted, written, losses, forged>>

-----------------------------------------------------------------------------
(* Replication over the transport *)

_have(n, m, r) == [kind |-> "journal_have", from |-> n, to |-> m,
                   heads |-> heads(n), reply |-> r]

events_message(n, m, es) ==
    [kind |-> "journal_events", from |-> n, to |-> m, events |-> es]

initiate(n, m) ==
    /\ n # m
    /\ Cardinality(net) + 2 =< MaxNet
    /\ net' = net \cup {_have(n, m, FALSE)}
    /\ UNCHANGED <<rows, lamport, batch, trusted, written, losses, forged>>

\* What n answers a HAVE of m with.  Mutations: no counter-HAVE, and a counter-HAVE
\* to every HAVE.
RepliesOneWay(n, m, msg) == {events_message(n, m, events_since(n, msg.heads))}
RepliesPingPong(n, m, msg) ==
    {events_message(n, m, events_since(n, msg.heads)), _have(n, m, TRUE)}

Replies(n, m, msg) ==
    {events_message(n, m, events_since(n, msg.heads))} \cup
    (IF msg.reply THEN {} ELSE {_have(n, m, TRUE)})

\* ReplicationPeer.on_message for a HAVE.  keep: the network delivers it again.
on_have(h, msg, keep) ==
    LET n == NodeOf[h]
        m == msg.from
    IN  /\ msg \in net /\ msg.kind = "journal_have" /\ msg.to = n
        /\ batch[h] = {}
        /\ net' = (IF keep THEN net ELSE net \ {msg}) \cup Replies(n, m, msg)
        /\ Cardinality(net') =< MaxNet
        /\ UNCHANGED <<rows, lamport, batch, trusted, written, losses, forged>>

\* ReplicationPeer.on_message for EVENTS: the merge starts.
on_events(h, msg, keep) ==
    LET n == NodeOf[h] IN
    /\ msg \in net /\ msg.kind = "journal_events" /\ msg.to = n
    /\ batch[h] = {}
    /\ batch' = [batch EXCEPT ![h] = msg.events]
    /\ net' = IF keep THEN net ELSE net \ {msg}
    /\ UNCHANGED <<rows, lamport, trusted, written, losses, forged>>

-----------------------------------------------------------------------------
(* The environment *)

Lose(msg) ==
    /\ msg \in net
    /\ net' = net \ {msg}
    /\ UNCHANGED <<rows, lamport, batch, trusted, written, losses, forged>>

\* A peer relays an event in author a's name that a never signed: it fits m's
\* head, but its signature does not verify.
Forge(n, m, a) ==
    LET e == [author |-> a, seq |-> HeadSeq(rows[m], a) + 1, lamport |-> 1,
              ts |-> CHOOSE t \in Time : TRUE,
              prev |-> HeadHash(rows[m], a), hash |-> -1]
    IN  /\ forged < MaxForged /\ n # m
        /\ e.seq =< MaxSeq /\ Cardinality(net) < MaxNet
        /\ forged' = forged + 1
        /\ net' = net \cup {events_message(n, m, {e})}
        /\ UNCHANGED <<rows, lamport, batch, trusted, written, losses>>

\* A master-signed revocation reaches n's trust policy.
Revoke(n, d) ==
    /\ d \in Revocable \cap trusted[n]
    /\ trusted' = [trusted EXCEPT ![n] = @ \ {d}]
    /\ UNCHANGED <<rows, lamport, batch, net, written, losses, forged>>

\* The process dies and a new Journal object opens the same file.
Restart(h) ==
    /\ lamport' = [lamport EXCEPT ![h] = StoredLamport(rows[NodeOf[h]])]
    /\ batch' = [batch EXCEPT ![h] = {}]
    /\ UNCHANGED <<rows, net, trusted, written, losses, forged>>

\* The process dies and its journal was in memory, or the file is gone.
LoseJournal(n) ==
    /\ losses < MaxLoss
    /\ losses' = losses + 1
    /\ rows' = [rows EXCEPT ![n] = {}]
    /\ lamport' = [h \in Handle |-> IF NodeOf[h] = n THEN 0 ELSE lamport[h]]
    /\ batch' = [h \in Handle |-> IF NodeOf[h] = n THEN {} ELSE batch[h]]
    /\ UNCHANGED <<net, trusted, written, forged>>

Next ==
    \/ \E h \in Handle, t \in Time : append(h, t)
    \/ \E h \in Handle : append_raises(h)
    \/ \E h \in Handle : _accept(h)
    \/ \E n, m \in Node : initiate(n, m)
    \/ \E h \in Handle, msg \in net, keep \in BOOLEAN : on_have(h, msg, keep)
    \/ \E h \in Handle, msg \in net, keep \in BOOLEAN : on_events(h, msg, keep)
    \/ \E msg \in net : Lose(msg)
    \/ \E n, m, a \in Node : Forge(n, m, a)
    \/ \E n, d \in Node : Revoke(n, d)
    \/ \E h \in Handle : Restart(h)
    \/ \E n \in Node : LoseJournal(n)

Spec == Init /\ [][Next]_vars

\* One exchange over a network that delivers: what a handler was given, it
\* handles, and a merge in progress goes on.
ExchangeNext ==
    \/ \E h \in Handle, t \in Time : append(h, t)
    \/ \E h \in Handle : _accept(h)
    \/ \E n, m \in Node : initiate(n, m)
    \/ \E h \in Handle, msg \in net : on_have(h, msg, FALSE)
    \/ \E h \in Handle, msg \in net : on_events(h, msg, FALSE)

ExchangeSpec ==
    /\ Init
    /\ [][ExchangeNext]_vars
    /\ \A h \in Handle :
          /\ WF_vars(_accept(h))
          /\ WF_vars(\E msg \in net : on_have(h, msg, FALSE))
          /\ WF_vars(\E msg \in net : on_events(h, msg, FALSE))

-----------------------------------------------------------------------------
(* Properties *)

Contiguous(S, a) == SeqsOf(S, a) = 1 .. HeadSeq(S, a)

Linked(S) ==
    \A e \in S :
        IF e.seq = 1 THEN e.prev = GENESIS
        ELSE \E d \in S : /\ d.author = e.author
                           /\ d.seq + 1 = e.seq
                           /\ d.hash = e.prev

Keyed(S) ==
    \A e, f \in S : e.author = f.author /\ e.seq = f.seq => e = f

\* Journal.verify() succeeds on every replica at any moment: between two events
\* of a merge, after a crash, with forged and repeated events on the wire, with
\* authors revoked in mid batch and with an author that lost its file and wrote
\* a second chain.  Every stored event was signed by its author, every chain
\* starts at GENESIS, has no gap and no two events under one (author, seq).
VerifyOK ==
    \A n \in Node :
        /\ rows[n] \subseteq written
        /\ Keyed(rows[n])
        /\ Linked(rows[n])
        /\ \A a \in Node : Contiguous(rows[n], a)

\* Two replicas that hold the same event hold the same event before it, hence
\* the same history of its author up to it: an author's two chains (it lost its
\* file and started again) are never spliced, whatever reaches whom first.
ForkConsistency ==
    \A n, m \in Node : \A e \in rows[n] \cap rows[m] :
        \A d \in rows[n] : d.author = e.author /\ d.seq + 1 = e.seq => d \in rows[m]

\* While no journal file is lost, an author's own file is ahead of every copy of
\* it, so (author, seq) names one event on the whole mesh and replicas differ
\* only in how far they are (the have-vector of sync.py says all there is to say).
AuthorLeads ==
    losses = 0 =>
        \A n, a \in Node : ByAuthor(rows[n], a) \subseteq rows[a]

\* Every event an author signs is ordered, by the clock the total order of
\* Journal.events starts with, after each event its file held at that moment.
LamportCausality ==
    [][\A e \in written' \ written :
          \A f \in rows[e.author] : f.lamport < e.lamport]_vars

\* The order an author wrote its events in is the order in which every reader
\* replays them: "a Lamport clock gives causal-ish ordering" (journal.py).
ReplayOrder ==
    \A n \in Node : \A e, f \in rows[n] :
        e.author = f.author /\ e.seq < f.seq => e.lamport < f.lamport

\* n has offered m its have-vector and m has not answered yet.
Offered(n, m) == \E msg \in net : /\ msg.kind = "journal_have" /\ ~msg.reply
                                  /\ msg.from = n /\ msg.to = m

Owes(x, y, a, s) == (Offered(x, y) \/ Offered(y, x)) /\ s \in SeqsOf(rows[x], a)

\* replication.py: once an exchange was started and the network delivers, each
\* side gets what the other had when it was started.
ExchangeConverges ==
    \A x, a \in Node : \A y \in Node \ {x} : \A s \in 1 .. MaxSeq :
        Owes(x, y, a, s) ~> s \in SeqsOf(rows[y], a)

\* "a two-round exchange that converges and then stops" (replication.py): once
\* nobody starts an exchange any more, the wire falls silent and merges end.
ExchangeStops ==
    <>[][\A n, m \in Node : ~initiate(n, m)]_vars
        => <>[](net = {} /\ \A h \in Handle : batch[h] = {})

=============================================================================
