--------------------------- MODULE JournalProofs ---------------------------
(* Proofs about Journal, for every value of its constants. *)
EXTENDS Journal, FiniteSetTheorems, WellFoundedInduction, TLAPS

-----------------------------------------------------------------------------
(* Heads of chains *)

Chained(S) ==
    /\ S \subseteq Event
    /\ Keyed(S)
    /\ Linked(S)
    /\ \A a \in Node : \E k \in Nat : SeqsOf(S, a) = 1 .. k

\* The head of an author whose sequence numbers are 1..k is k (Journal._head).
LEMMA HeadIs ==
    ASSUME NEW S, NEW a, NEW k \in Nat, SeqsOf(S, a) = 1 .. k
    PROVE  HeadSeq(S, a) = k
<1>1. CASE k = 0
  <2>1. SeqsOf(S, a) = {}
    BY <1>1
  <2>2. ByAuthor(S, a) = {}
    BY <2>1 DEF SeqsOf
  <2> QED BY <1>1, <2>2 DEF HeadSeq
<1>2. CASE k # 0
  <2>1. k \in SeqsOf(S, a) /\ \A t \in SeqsOf(S, a) : t =< k
    BY <1>2
  <2>2. ByAuthor(S, a) # {}
    BY <2>1 DEF SeqsOf
  <2>3. \A s \in SeqsOf(S, a) : (\A t \in SeqsOf(S, a) : t =< s) => s = k
    BY <1>2
  <2> QED BY <2>1, <2>2, <2>3 DEF HeadSeq
<1> QED BY <1>1, <1>2

\* In a chained file the head of every author is a number, it is 0 exactly when
\* the author is unknown, and otherwise HeadHash is the hash of the stored event
\* with that number.
LEMMA HeadFacts ==
    ASSUME NEW S, Chained(S), NEW a \in Node
    PROVE  /\ HeadSeq(S, a) \in Nat
           /\ SeqsOf(S, a) = 1 .. HeadSeq(S, a)
           /\ HeadHash(S, a) \in Int
           /\ HeadSeq(S, a) = 0 => HeadHash(S, a) = GENESIS
           /\ HeadSeq(S, a) # 0 => \E d \in S : /\ d.author = a
                                                /\ d.seq = HeadSeq(S, a)
                                                /\ d.hash = HeadHash(S, a)
<1>1. PICK k \in Nat : SeqsOf(S, a) = 1 .. k
  BY DEF Chained
<1>2. HeadSeq(S, a) = k
  BY <1>1, HeadIs
<1>3. CASE k = 0
  <2>1. SeqsOf(S, a) = {}
    BY <1>1, <1>3
  <2>2. ByAuthor(S, a) = {}
    BY <2>1 DEF SeqsOf
  <2> QED BY <1>1, <1>2, <1>3, <2>2 DEF HeadHash, GENESIS
<1>4. CASE k # 0
  <2>1. k \in SeqsOf(S, a)
    BY <1>1, <1>4
  <2>2. PICK d \in ByAuthor(S, a) : d.seq = k
    BY <2>1 DEF SeqsOf
  <2> DEFINE top == CHOOSE e \in ByAuthor(S, a) : e.seq = HeadSeq(S, a)
  <2>3. top \in ByAuthor(S, a) /\ top.seq = HeadSeq(S, a)
    BY <2>2, <1>2
  <2>4. HeadHash(S, a) = top.hash
    BY <2>2 DEF HeadHash
  <2>5. top \in S /\ top.author = a /\ top \in Event
    BY <2>3 DEF ByAuthor, Chained
  <2> HIDE DEF top
  <2>6. top.hash \in Int
    BY <2>5 DEF Event
  <2> QED BY <1>1, <1>2, <1>4, <2>3, <2>4, <2>5, <2>6
<1> QED BY <1>3, <1>4

\* Adding an event that fits its author's head keeps a file chained: what both
\* Journal.append and Journal._accept do.
LEMMA Extend ==
    ASSUME NEW S, Chained(S), NEW e \in Event,
           e.seq = HeadSeq(S, e.author) + 1,
           e.prev = HeadHash(S, e.author)
    PROVE  Chained(S \cup {e})
<1> DEFINE T == S \cup {e}
           k == HeadSeq(S, e.author)
<1>1. e.author \in Node /\ e.seq \in Nat \ {0}
  BY DEF Event
<1>2. /\ k \in Nat
      /\ SeqsOf(S, e.author) = 1 .. k
      /\ k = 0 => HeadHash(S, e.author) = GENESIS
      /\ k # 0 => \E d \in S : /\ d.author = e.author
                               /\ d.seq = k
                               /\ d.hash = HeadHash(S, e.author)
  BY <1>1, HeadFacts
<1>3. \A d \in S : d.author = e.author => d.seq \in 1 .. k
  BY <1>2 DEF SeqsOf, ByAuthor
<1>4. Keyed(T)
  <2>1. \A d \in S : d.author = e.author => d.seq # e.seq
    BY <1>2, <1>3
  <2> QED BY <2>1 DEF Keyed, Chained
<1>5. Linked(T)
  <2> SUFFICES ASSUME NEW f \in T
               PROVE  IF f.seq = 1 THEN f.prev = GENESIS
                      ELSE \E d \in T : /\ d.author = f.author
                                        /\ d.seq + 1 = f.seq
                                        /\ d.hash = f.prev
    BY DEF Linked
  <2>1. CASE f \in S
    BY <2>1 DEF Linked, Chained
  <2>2. CASE f = e
    <3>1. CASE k = 0
      BY <1>2, <2>2, <3>1
    <3>2. CASE k # 0
      <4>1. PICK d \in S : /\ d.author = e.author
                           /\ d.seq = k
                           /\ d.hash = HeadHash(S, e.author)
        BY <1>2, <3>2
      <4>2. e.seq # 1 /\ d.seq + 1 = e.seq
        BY <1>2, <3>2, <4>1
      <4> QED BY <2>2, <4>1, <4>2
    <3> QED BY <3>1, <3>2
  <2> QED BY <2>1, <2>2
<1>6. ASSUME NEW a \in Node
      PROVE  \E j \in Nat : SeqsOf(T, a) = 1 .. j
  <2>1. CASE a = e.author
    <3>1. SeqsOf(T, a) = SeqsOf(S, a) \cup {e.seq}
      BY <2>1 DEF SeqsOf, ByAuthor
    <3>2. SeqsOf(T, a) = (1 .. k) \cup {k + 1}
      BY <1>2, <2>1, <3>1
    <3>3. (1 .. k) \cup {k + 1} = 1 .. (k + 1)
      BY <1>2
    <3>4. k + 1 \in Nat
      BY <1>2
    <3> HIDE DEF k, T
    <3> QED BY <3>2, <3>3, <3>4
  <2>2. CASE a # e.author
    <3>1. SeqsOf(T, a) = SeqsOf(S, a)
      BY <2>2 DEF SeqsOf, ByAuthor
    <3> QED BY <3>1 DEF Chained
  <2> QED BY <2>1, <2>2
<1>7. T \subseteq Event
  BY DEF Chained
<1> HIDE DEF T
<1> QED BY <1>4, <1>5, <1>6, <1>7 DEF Chained, T

\* The empty file is chained.
LEMMA EmptyChained == Chained({})
<1>1. \A a : SeqsOf({}, a) = 1 .. 0
  BY DEF SeqsOf, ByAuthor
<1> QED BY <1>1 DEF Chained, Keyed, Linked

-----------------------------------------------------------------------------
(* Clocks *)

\* A nonempty set of naturals with an upper bound has a largest element, which
\* is what SELECT MAX(lamport) returns.
LEMMA MaxExists ==
    ASSUME NEW S \in SUBSET Nat, S # {}, NEW b \in Nat, \A s \in S : s =< b
    PROVE  \E m \in S : \A s \in S : s =< m
<1> DEFINE U == {u \in Nat : \A s \in S : s =< u}
<1>1. U # {} /\ U \subseteq Nat
  OBVIOUS
<1>2. PICK m \in U : \A u \in U : ~(<<u, m>> \in OpToRel(<, Nat))
  BY <1>1, NatLessThanWellFounded, WFMin
<1>3. \A u \in U : ~(u < m)
  BY <1>1, <1>2 DEF OpToRel
<1>4. ASSUME m \notin S PROVE FALSE
  <2>1. \A s \in S : s \in Nat /\ s =< m /\ s # m
    BY <1>4
  <2>2. m \in Nat /\ m - 1 \in Nat
    <3>1. PICK s \in S : TRUE
      OBVIOUS
    <3> QED BY <2>1, <3>1
  <2>3. m - 1 \in U
    BY <2>1, <2>2
  <2> QED BY <1>3, <2>2, <2>3
<1> QED BY <1>4

\* StoredLamport is an upper bound of the clocks in the file.
LEMMA StoredLamportFacts ==
    ASSUME NEW S \in SUBSET Event, NEW b \in Nat, \A e \in S : e.lamport =< b
    PROVE  /\ StoredLamport(S) \in Nat
           /\ \A e \in S : e.lamport =< StoredLamport(S)
<1>1. CASE S = {}
  BY <1>1 DEF StoredLamport
<1>2. CASE S # {}
  <2> DEFINE L == {e.lamport : e \in S}
  <2>1. L \in SUBSET Nat /\ L # {} /\ \A l \in L : l =< b
    BY <1>2 DEF Event
  <2>2. \E m \in L : \A l \in L : l =< m
    BY <2>1, MaxExists
  <2>3. \E m \in L : \A e \in S : e.lamport =< m
    BY <2>2
  <2>4. StoredLamport(S) \in L /\ \A e \in S : e.lamport =< StoredLamport(S)
    BY <1>2, <2>3 DEF StoredLamport
  <2> QED BY <2>1, <2>4
<1> QED BY <1>1, <1>2

-----------------------------------------------------------------------------
(* The inductive invariant *)

\* An author's hashes are distinct: they count its signed events.
HashCount ==
    \A a \in Node :
        /\ IsFiniteSet(ByAuthor(written, a))
        /\ \A e \in ByAuthor(written, a) :
              e.hash \in 1 .. Cardinality(ByAuthor(written, a))
        /\ \A e, f \in ByAuthor(written, a) : e.hash = f.hash => e = f

FilesOK ==
    \A n \in Node : Chained(rows[n]) /\ rows[n] \subseteq written

\* While no file is lost every signed event is in its author's file.
Kept == losses = 0 => \A e \in written : e \in rows[e.author]

\* Clocks stay below the bound of the model, so a file has a largest one.
ClocksBounded == \A e \in written : e.lamport =< MaxLamport

IInv == TypeOK /\ FilesOK /\ HashCount /\ Kept /\ ClocksBounded

LEMMA InitIInv == Init => IInv
<1> SUFFICES ASSUME Init PROVE IInv
  OBVIOUS
<1> USE DEF Init
<1>1. TypeOK
  BY JournalConstants DEF TypeOK
<1>2. FilesOK
  BY EmptyChained DEF FilesOK
<1>3. HashCount
  <2>1. \A a : ByAuthor(written, a) = {}
    BY DEF ByAuthor
  <2> QED BY <2>1, FS_EmptySet DEF HashCount
<1>4. Kept
  BY DEF Kept
<1>5. ClocksBounded
  BY DEF ClocksBounded
<1> QED BY <1>1, <1>2, <1>3, <1>4, <1>5 DEF IInv

\* The event Journal.append signs is well formed, fits the author's head and has
\* a hash its author never used.
LEMMA NewEventFacts ==
    ASSUME IInv, NEW h \in Handle, NEW t \in Time
    PROVE  LET e == NewEvent(h, t)
               a == NodeOf[h]
           IN  /\ a \in Node
               /\ e \in Event /\ e.author = a
               /\ e.seq = HeadSeq(rows[a], a) + 1
               /\ e.prev = HeadHash(rows[a], a)
               /\ e.hash = Cardinality(ByAuthor(written, a)) + 1
               /\ e.lamport = lamport[h] + 1
<1> DEFINE a == NodeOf[h]
           e == NewEvent(h, t)
<1>1. a \in Node
  BY JournalConstants
<1>2. Chained(rows[a])
  BY <1>1 DEF IInv, FilesOK
<1>3. HeadSeq(rows[a], a) \in Nat /\ HeadHash(rows[a], a) \in Int
  BY <1>1, <1>2, HeadFacts
<1>4. Cardinality(ByAuthor(written, a)) \in Nat
  BY <1>1, FS_CardinalityType DEF IInv, HashCount
<1>5. lamport[h] \in Nat
  BY DEF IInv, TypeOK
<1> QED BY <1>1, <1>3, <1>4, <1>5 DEF NewEvent, FreshHash, Event, GENESIS

\* Signing one more event keeps hashes distinct.
LEMMA HashCountStep ==
    ASSUME HashCount, NEW e \in Event,
           e.hash = Cardinality(ByAuthor(written, e.author)) + 1,
           written' = written \cup {e}
    PROVE  HashCount'
<1> SUFFICES ASSUME NEW a \in Node
             PROVE  /\ IsFiniteSet(ByAuthor(written', a))
                    /\ \A x \in ByAuthor(written', a) :
                          x.hash \in 1 .. Cardinality(ByAuthor(written', a))
                    /\ \A x, y \in ByAuthor(written', a) : x.hash = y.hash => x = y
  BY DEF HashCount
<1> DEFINE W == ByAuthor(written, a)
<1>1. /\ IsFiniteSet(W)
      /\ Cardinality(W) \in Nat
      /\ \A x \in W : x.hash \in 1 .. Cardinality(W)
      /\ \A x, y \in W : x.hash = y.hash => x = y
  BY FS_CardinalityType DEF HashCount
<1>2. CASE e.author # a
  <2>1. ByAuthor(written', a) = W
    BY <1>2 DEF ByAuthor
  <2> QED BY <1>1, <2>1
<1>3. CASE e.author = a
  <2>1. ByAuthor(written', a) = W \cup {e}
    BY <1>3 DEF ByAuthor
  <2>2. e \notin W
    BY <1>1, <1>3
  <2>3. IsFiniteSet(W \cup {e}) /\ Cardinality(W \cup {e}) = Cardinality(W) + 1
    BY <1>1, <2>2, FS_AddElement
  <2> HIDE DEF W
  <2>4. e.hash = Cardinality(W) + 1
    BY <1>3 DEF W
  <2>5. \A x, y \in W \cup {e} : x.hash = y.hash => x = y
    BY <1>1, <2>4
  <2>6. \A x \in W \cup {e} : x.hash \in 1 .. (Cardinality(W) + 1)
    BY <1>1, <2>4
  <2> QED BY <2>1, <2>3, <2>5, <2>6
<1> QED BY <1>2, <1>3

\* Have-vectors and event lists built from a well-formed file are well formed.
LEMMA MessageTypes ==
    ASSUME IInv, NEW n \in Node, NEW m \in Node
    PROVE  /\ \A r \in BOOLEAN : _have(n, m, r) \in HaveMsg
           /\ \A es \in SUBSET Event : events_message(n, m, es) \in EventsMsg
<1>1. heads(n) \in [Node -> Nat]
  BY HeadFacts DEF heads, IInv, FilesOK
<1> QED BY <1>1 DEF _have, events_message, HaveMsg, EventsMsg

\* Every step keeps the invariant.
LEMMA NextIInv == IInv /\ [Next]_vars => IInv'
<1> SUFFICES ASSUME IInv, [Next]_vars PROVE IInv'
  OBVIOUS
<1>0. TypeOK /\ FilesOK /\ HashCount /\ Kept /\ ClocksBounded
  BY DEF IInv
<1>1. ASSUME NEW h \in Handle, NEW t \in Time, append(h, t) PROVE IInv'
  <2> DEFINE e == NewEvent(h, t)
             a == NodeOf[h]
  <2>1. /\ a \in Node /\ e \in Event /\ e.author = a
        /\ e.seq = HeadSeq(rows[a], a) + 1
        /\ e.prev = HeadHash(rows[a], a)
        /\ e.hash = Cardinality(ByAuthor(written, a)) + 1
        /\ e.lamport = lamport[h] + 1
    BY NewEventFacts
  <2>2. /\ rows' = [rows EXCEPT ![a] = @ \cup {e}]
        /\ lamport' = [lamport EXCEPT ![h] = e.lamport]
        /\ written' = written \cup {e}
        /\ UNCHANGED <<batch, net, trusted, losses, forged>>
    BY <1>1 DEF append
  <2> HIDE DEF e, a
  <2>3. TypeOK'
    BY <1>0, <2>1, <2>2 DEF TypeOK, Event
  <2>4. FilesOK'
    <3>1. Chained(rows[a] \cup {e})
      BY <1>0, <2>1, Extend DEF FilesOK
    <3> QED BY <1>0, <2>1, <2>2, <3>1 DEF FilesOK, TypeOK
  <2>5. HashCount'
    BY <1>0, <2>1, <2>2, HashCountStep
  <2>6. Kept'
    BY <1>0, <2>1, <2>2 DEF Kept, TypeOK
  <2>7. ClocksBounded'
    BY <1>0, <1>1, <2>2 DEF ClocksBounded, append, e
  <2> QED BY <2>3, <2>4, <2>5, <2>6, <2>7 DEF IInv
<1>2. ASSUME NEW h \in Handle, append_raises(h) PROVE IInv'
  BY <1>0, <1>2 DEF append_raises, IInv, TypeOK, FilesOK, HashCount, Kept, ClocksBounded
<1>3. ASSUME NEW h \in Handle, _accept(h) PROVE IInv'
  <2> DEFINE n == NodeOf[h]
  <2>1. PICK e \in NextInBatch(h) :
            /\ batch' = [batch EXCEPT ![h] = @ \ {e}]
            /\ IF Acceptable(n, e)
               THEN /\ rows' = [rows EXCEPT ![n] = @ \cup {e}]
                    /\ lamport' = [lamport EXCEPT ![h] =
                                      IF e.lamport > @ THEN e.lamport ELSE @]
               ELSE UNCHANGED <<rows, lamport>>
            /\ UNCHANGED <<net, trusted, written, losses, forged>>
    BY <1>3 DEF _accept
  <2>2. n \in Node /\ e \in Event /\ batch' \in [Handle -> SUBSET Event]
    BY <1>0, <2>1, JournalConstants DEF NextInBatch, TypeOK
  <2> HIDE DEF n
  <2>3. CASE ~Acceptable(n, e)
    BY <1>0, <2>1, <2>2, <2>3 DEF IInv, TypeOK, FilesOK, HashCount, Kept, ClocksBounded
  <2>4. CASE Acceptable(n, e)
    <3>1. e \in written /\ Chained(rows[n] \cup {e})
      BY <1>0, <2>2, <2>4, Extend DEF Acceptable, Authentic, FilesOK
    <3>2. TypeOK'
      <4>1. lamport' \in [Handle -> Nat]
        BY <1>0, <2>1, <2>2, <2>4 DEF TypeOK, Event
      <4>2. rows' \in [Node -> SUBSET Event]
        BY <1>0, <2>1, <2>2, <2>4 DEF TypeOK
      <4> QED BY <1>0, <2>1, <2>2, <4>1, <4>2 DEF TypeOK
    <3>3. FilesOK'
      <4>1. rows' = [rows EXCEPT ![n] = rows[n] \cup {e}] /\ written' = written
        BY <2>1, <2>4
      <4> QED BY <1>0, <2>2, <3>1, <4>1 DEF FilesOK, TypeOK
    <3>4. HashCount'
      BY <1>0, <2>1 DEF HashCount
    <3>5. Kept'
      BY <1>0, <2>1, <2>2, <2>4 DEF Kept, TypeOK, Event
    <3>6. ClocksBounded'
      BY <1>0, <2>1 DEF ClocksBounded
    <3> QED BY <3>2, <3>3, <3>4, <3>5, <3>6 DEF IInv
  <2> QED BY <2>3, <2>4
<1>4. ASSUME NEW n \in Node, NEW m \in Node, initiate(n, m) PROVE IInv'
  <2>1. TypeOK'
    BY <1>0, <1>4, MessageTypes DEF initiate, TypeOK
  <2> QED BY <1>0, <1>4, <2>1 DEF initiate, IInv, FilesOK, HashCount, Kept, ClocksBounded
<1>5. ASSUME NEW h \in Handle, NEW msg \in net, NEW keep \in BOOLEAN,
             on_have(h, msg, keep)
      PROVE  IInv'
  <2>1. NodeOf[h] \in Node /\ msg.from \in Node /\ msg \in HaveMsg \cup EventsMsg
    BY <1>0, JournalConstants DEF TypeOK, HaveMsg, EventsMsg
  <2>2. events_since(NodeOf[h], msg.heads) \subseteq Event
    BY <1>0, <2>1 DEF events_since, TypeOK
  <2>3. Replies(NodeOf[h], msg.from, msg) \subseteq HaveMsg \cup EventsMsg
    BY <2>1, <2>2, MessageTypes DEF Replies
  <2>4. TypeOK'
    BY <1>0, <1>5, <2>3 DEF on_have, TypeOK
  <2> QED BY <1>0, <1>5, <2>4 DEF on_have, IInv, FilesOK, HashCount, Kept, ClocksBounded
<1>6. ASSUME NEW h \in Handle, NEW msg \in net, NEW keep \in BOOLEAN,
             on_events(h, msg, keep)
      PROVE  IInv'
  <2>1. msg.events \subseteq Event
    BY <1>0, <1>6 DEF on_events, TypeOK, HaveMsg, EventsMsg
  <2>2. TypeOK'
    BY <1>0, <1>6, <2>1 DEF on_events, TypeOK
  <2> QED BY <1>0, <1>6, <2>2 DEF on_events, IInv, FilesOK, HashCount, Kept, ClocksBounded
<1>7. ASSUME NEW msg \in net, Lose(msg) PROVE IInv'
  BY <1>0, <1>7 DEF Lose, IInv, TypeOK, FilesOK, HashCount, Kept, ClocksBounded
<1>8. ASSUME NEW n \in Node, NEW m \in Node, NEW a \in Node, Forge(n, m, a)
      PROVE  IInv'
  <2> DEFINE e == [author |-> a, seq |-> HeadSeq(rows[m], a) + 1, lamport |-> 1,
                   ts |-> CHOOSE t \in Time : TRUE,
                   prev |-> HeadHash(rows[m], a), hash |-> -1]
  <2>1. HeadSeq(rows[m], a) \in Nat /\ HeadHash(rows[m], a) \in Int
    BY <1>0, HeadFacts DEF FilesOK
  <2>2. (CHOOSE t \in Time : TRUE) \in Time
    BY <1>8, JournalConstants DEF Forge
  <2>3. e \in Event
    BY <2>1, <2>2 DEF Event, GENESIS
  <2>4. net' = net \cup {events_message(n, m, {e})} /\ forged' = forged + 1
    BY <1>8 DEF Forge
  <2>5. UNCHANGED <<rows, lamport, batch, trusted, written, losses>>
    BY <1>8 DEF Forge
  <2> HIDE DEF e
  <2>6. TypeOK'
    BY <1>0, <2>3, <2>4, <2>5, MessageTypes DEF TypeOK
  <2> QED BY <1>0, <2>5, <2>6 DEF IInv, FilesOK, HashCount, Kept, ClocksBounded
<1>9. ASSUME NEW n \in Node, NEW d \in Node, Revoke(n, d) PROVE IInv'
  BY <1>0, <1>9 DEF Revoke, IInv, TypeOK, FilesOK, HashCount, Kept, ClocksBounded
<1>10. ASSUME NEW h \in Handle, Restart(h) PROVE IInv'
  <2>1. NodeOf[h] \in Node
    BY JournalConstants
  <2>2. StoredLamport(rows[NodeOf[h]]) \in Nat
    <3>1. rows[NodeOf[h]] \in SUBSET Event /\ MaxLamport \in Nat
      BY <1>0, <2>1, JournalConstants DEF TypeOK
    <3>2. \A e \in rows[NodeOf[h]] : e.lamport =< MaxLamport
      BY <1>0, <2>1 DEF FilesOK, ClocksBounded
    <3> QED BY <3>1, <3>2, StoredLamportFacts
  <2>3. TypeOK'
    BY <1>0, <1>10, <2>2 DEF Restart, TypeOK
  <2> QED BY <1>0, <1>10, <2>3 DEF Restart, IInv, FilesOK, HashCount, Kept, ClocksBounded
<1>11. ASSUME NEW n \in Node, LoseJournal(n) PROVE IInv'
  <2>1. TypeOK'
    BY <1>0, <1>11 DEF LoseJournal, TypeOK
  <2>2. FilesOK'
    BY <1>0, <1>11, EmptyChained DEF LoseJournal, FilesOK, TypeOK
  <2>3. Kept'
    BY <1>0, <1>11 DEF LoseJournal, Kept, TypeOK
  <2> QED BY <1>0, <1>11, <2>1, <2>2, <2>3 DEF LoseJournal, IInv, HashCount, ClocksBounded
<1>12. CASE UNCHANGED vars
  BY <1>0, <1>12 DEF vars, IInv, TypeOK, FilesOK, HashCount, Kept, ClocksBounded
<1> QED BY <1>1, <1>2, <1>3, <1>4, <1>5, <1>6, <1>7, <1>8, <1>9, <1>10, <1>11,
           <1>12 DEF Next

-----------------------------------------------------------------------------
(* Theorems of the specification *)

\* The invariant holds in every reachable state.
LEMMA Invariance == Spec => []IInv
BY InitIInv, NextIInv, PTL DEF Spec

\* Every file, cache, message and history variable keeps its type.
THEOREM TypeCorrect == Spec => []TypeOK
<1>1. IInv => TypeOK
  BY DEF IInv
<1> QED BY <1>1, Invariance, PTL

\* Journal.verify() succeeds on every replica, however many nodes, processes,
\* forged, repeated, lost and reordered messages, crashes, revocations and lost
\* files there are.
THEOREM VerifyHolds == Spec => []VerifyOK
<1>1. IInv => VerifyOK
  <2> SUFFICES ASSUME IInv, NEW n \in Node
               PROVE  /\ rows[n] \subseteq written
                      /\ Keyed(rows[n]) /\ Linked(rows[n])
                      /\ \A a \in Node : Contiguous(rows[n], a)
    BY DEF VerifyOK
  <2>1. Chained(rows[n]) /\ rows[n] \subseteq written
    BY DEF IInv, FilesOK
  <2>2. \A a \in Node : Contiguous(rows[n], a)
    BY <2>1, HeadFacts DEF Contiguous
  <2> QED BY <2>1, <2>2 DEF Chained
<1> QED BY <1>1, Invariance, PTL

\* Replicas that share an event share its author's history up to it, also when
\* the author lost its file and signed a second chain.
THEOREM ForksNeverSplice == Spec => []ForkConsistency
<1>1. IInv => ForkConsistency
  <2> SUFFICES ASSUME IInv, NEW n \in Node, NEW m \in Node,
                      NEW e \in rows[n] \cap rows[m], NEW d \in rows[n],
                      d.author = e.author, d.seq + 1 = e.seq
               PROVE  d \in rows[m]
    BY DEF ForkConsistency
  <2>1. /\ Chained(rows[n]) /\ rows[n] \subseteq written
        /\ Chained(rows[m]) /\ rows[m] \subseteq written
    BY DEF IInv, FilesOK
  <2>2. e \in Event /\ d \in Event
    BY <2>1 DEF Chained
  <2>3. e.seq # 1 /\ d.seq \in Nat
    BY <2>2 DEF Event
  <2>4. PICK x \in rows[n] : x.author = e.author /\ x.seq + 1 = e.seq /\ x.hash = e.prev
    BY <2>1, <2>3 DEF Chained, Linked
  <2>5. PICK y \in rows[m] : y.author = e.author /\ y.seq + 1 = e.seq /\ y.hash = e.prev
    BY <2>1, <2>3 DEF Chained, Linked
  <2>6. x.seq = d.seq
    <3>1. x.seq \in Nat
      BY <2>1 DEF Chained, Event
    <3> QED BY <2>3, <2>4, <3>1
  <2>7. x = d
    BY <2>1, <2>4, <2>6 DEF Chained, Keyed
  <2>8. e.author \in Node /\ x \in ByAuthor(written, e.author) /\ y \in ByAuthor(written, e.author)
    BY <2>1, <2>2, <2>4, <2>5 DEF ByAuthor, Event
  <2>9. x = y
    BY <2>4, <2>5, <2>8 DEF IInv, HashCount
  <2> QED BY <2>7, <2>9
<1> QED BY <1>1, Invariance, PTL

\* While no file is lost every copy of an author's chain is part of the author's
\* own file.
THEOREM AuthorHoldsItsChain == Spec => []AuthorLeads
<1>1. IInv => AuthorLeads
  BY DEF IInv, FilesOK, Kept, AuthorLeads, ByAuthor
<1> QED BY <1>1, Invariance, PTL

\* No two processes have one file open.
OneProcessPerFile == \A g, h \in Handle : NodeOf[g] = NodeOf[h] => g = h

\* A process's cached clock is ahead of its file.
ClockLeads == \A h \in Handle : \A e \in rows[NodeOf[h]] : e.lamport =< lamport[h]

\* With one process per file the cached clock never falls behind the file.
LEMMA NextClockLeads ==
    ASSUME OneProcessPerFile
    PROVE  IInv /\ ClockLeads /\ [Next]_vars => ClockLeads'
<1> SUFFICES ASSUME IInv, ClockLeads, [Next]_vars PROVE ClockLeads'
  OBVIOUS
<1>0. /\ TypeOK /\ FilesOK /\ ClocksBounded
      /\ \A h \in Handle : NodeOf[h] \in Node
  BY JournalConstants DEF IInv
<1>1. ASSUME NEW h \in Handle, NEW t \in Time, append(h, t) PROVE ClockLeads'
  <2> DEFINE e == NewEvent(h, t)
  <2>1. e \in Event /\ e.lamport = lamport[h] + 1
    BY NewEventFacts
  <2>2. /\ rows' = [rows EXCEPT ![NodeOf[h]] = rows[NodeOf[h]] \cup {e}]
        /\ lamport' = [lamport EXCEPT ![h] = lamport[h] + 1]
    BY <1>1, <2>1 DEF append
  <2> HIDE DEF e
  <2> SUFFICES ASSUME NEW g \in Handle, NEW f \in rows'[NodeOf[g]]
               PROVE  f.lamport =< lamport'[g]
    BY DEF ClockLeads
  <2>3. CASE g = h
    <3>1. f = e \/ f \in rows[NodeOf[h]]
      BY <1>0, <2>2, <2>3 DEF TypeOK
    <3>2. f \in Event /\ lamport'[g] = lamport[h] + 1 /\ lamport[h] \in Nat
      BY <1>0, <2>1, <2>2, <2>3, <3>1 DEF TypeOK
    <3>3. f = e \/ f.lamport =< lamport[h]
      BY <3>1 DEF ClockLeads
    <3> QED BY <2>1, <3>2, <3>3 DEF Event
  <2>4. CASE g # h
    <3>1. f \in rows[NodeOf[g]] /\ lamport'[g] = lamport[g]
      BY <1>0, <2>2, <2>4 DEF OneProcessPerFile, TypeOK
    <3> QED BY <3>1 DEF ClockLeads
  <2> QED BY <2>3, <2>4
<1>2. ASSUME NEW h \in Handle, append_raises(h) PROVE ClockLeads'
  <2>1. ASSUME NEW g \in Handle, NEW e \in rows[NodeOf[g]]
        PROVE  e.lamport \in Nat /\ lamport[g] \in Nat /\ lamport[g] =< lamport'[g]
    BY <1>0, <1>2 DEF append_raises, TypeOK, Event
  <2>2. ASSUME NEW g \in Handle, NEW e \in rows[NodeOf[g]]
        PROVE  e.lamport =< lamport'[g]
    <3>1. e.lamport =< lamport[g] /\ lamport'[g] \in Nat
      BY <1>0, <1>2 DEF ClockLeads, append_raises, TypeOK
    <3> QED BY <2>1, <3>1
  <2> QED BY <1>2, <2>2 DEF ClockLeads, append_raises
<1>3. ASSUME NEW h \in Handle, _accept(h) PROVE ClockLeads'
  <2>1. PICK e \in NextInBatch(h) :
            IF Acceptable(NodeOf[h], e)
            THEN /\ rows' = [rows EXCEPT ![NodeOf[h]] = @ \cup {e}]
                 /\ lamport' = [lamport EXCEPT ![h] =
                                   IF e.lamport > @ THEN e.lamport ELSE @]
            ELSE UNCHANGED <<rows, lamport>>
    BY <1>3 DEF _accept
  <2>2. e \in Event
    BY <1>0, <2>1 DEF NextInBatch, TypeOK
  <2>3. CASE ~Acceptable(NodeOf[h], e)
    BY <2>1, <2>3 DEF ClockLeads
  <2>4. CASE Acceptable(NodeOf[h], e)
    <3> SUFFICES ASSUME NEW g \in Handle, NEW f \in rows'[NodeOf[g]]
                 PROVE  f.lamport =< lamport'[g]
      BY DEF ClockLeads
    <3>1. CASE g = h
      <4>1. f = e \/ f \in rows[NodeOf[h]]
        BY <1>0, <2>1, <2>4, <3>1 DEF TypeOK
      <4>2. f.lamport \in Nat /\ e.lamport \in Nat /\ lamport[h] \in Nat
        BY <1>0, <2>2, <4>1 DEF TypeOK, Event
      <4>3. lamport'[g] = IF e.lamport > lamport[h] THEN e.lamport ELSE lamport[h]
        BY <1>0, <2>1, <2>4, <3>1 DEF TypeOK
      <4>4. f = e \/ f.lamport =< lamport[h]
        BY <4>1 DEF ClockLeads
      <4> QED BY <4>2, <4>3, <4>4
    <3>2. CASE g # h
      <4>1. f \in rows[NodeOf[g]] /\ lamport'[g] = lamport[g]
        BY <1>0, <2>1, <2>4, <3>2 DEF OneProcessPerFile, TypeOK
      <4> QED BY <4>1 DEF ClockLeads
    <3> QED BY <3>1, <3>2
  <2> QED BY <2>3, <2>4
<1>4. ASSUME NEW h \in Handle, Restart(h) PROVE ClockLeads'
  <2>1. /\ rows[NodeOf[h]] \in SUBSET Event
        /\ \A e \in rows[NodeOf[h]] : e.lamport =< MaxLamport
        /\ MaxLamport \in Nat
    BY <1>0, JournalConstants DEF TypeOK, FilesOK, ClocksBounded
  <2>2. \A e \in rows[NodeOf[h]] : e.lamport =< StoredLamport(rows[NodeOf[h]])
    BY <2>1, StoredLamportFacts
  <2> QED BY <1>0, <1>4, <2>2 DEF Restart, ClockLeads, TypeOK
<1>5. ASSUME NEW n \in Node, LoseJournal(n) PROVE ClockLeads'
  BY <1>0, <1>5 DEF LoseJournal, ClockLeads, TypeOK
<1>6. CASE UNCHANGED <<rows, lamport>>
  BY <1>6 DEF ClockLeads
<1> QED
  BY <1>1, <1>2, <1>3, <1>4, <1>5, <1>6
  DEF Next, vars, initiate, on_have, on_events, Lose, Forge, Revoke

\* With one process per journal file, every event is signed with a clock above
\* all the clocks its author's file holds (Journal.append after Journal._accept).
THEOREM ClockRespectsCausality ==
    ASSUME OneProcessPerFile
    PROVE  Spec => LamportCausality
<1> DEFINE Signed == \A e \in written' \ written :
                       \A f \in rows[e.author] : f.lamport < e.lamport
<1>1. Init => ClockLeads
  BY JournalConstants DEF Init, ClockLeads
<1>2. IInv /\ ClockLeads /\ [Next]_vars => [Signed]_vars
  <2> SUFFICES ASSUME IInv, ClockLeads, Next,
                      NEW x \in written' \ written, NEW f \in rows[x.author]
               PROVE  f.lamport < x.lamport
    OBVIOUS
  <2>1. PICK h \in Handle, t \in Time : append(h, t)
    BY DEF Next, append_raises, _accept, initiate, on_have, on_events, Lose, Forge,
           Revoke, Restart, LoseJournal
  <2>2. x = NewEvent(h, t)
    BY <2>1 DEF append
  <2>3. x.author = NodeOf[h] /\ x.lamport = lamport[h] + 1 /\ x.author \in Node
    BY <2>2, NewEventFacts
  <2>4. f.lamport =< lamport[h] /\ f.lamport \in Nat /\ lamport[h] \in Nat
    BY <2>3 DEF ClockLeads, IInv, TypeOK, Event
  <2> QED BY <2>3, <2>4
<1>3. Spec => [](IInv /\ ClockLeads)
  BY <1>1, InitIInv, NextIInv, NextClockLeads, PTL DEF Spec
<1> QED BY <1>2, <1>3, PTL DEF Spec, LamportCausality

=============================================================================
