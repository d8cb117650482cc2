---------------------------- MODULE TrustPolicy ----------------------------
(***************************************************************************)
(* Revocation: identity/secdogie_identity/revocation.py (k-of-n signed     *)
(* records), policy.py (RevocationStore, TrustPolicy, the refresher, the   *)
(* halt of a revoked node), the revoke-apply command of identity/cli.py,   *)
(* transport/secdogie_transport/revocation_gossip.py (the flood), and the  *)
(* start-up sequences of the processes that hold a policy (relay_node.py,  *)
(* citadel/cli.py, node/cli.py).                                           *)
(*                                                                         *)
(* Abstractions.  A record object is a member of Obj: its id commits to    *)
(* its body, so objects with one id name the same DIDs and differ only in  *)
(* the signatures they carry; Sigs[o] is the sequence of signers whose     *)
(* signature verifies.  A store file is the set of its complete, readable  *)
(* lines and the unterminated last line a cut-off write leaves behind;     *)
(* (mtime, size) is the number of writes.  What a policy does under its    *)
(* lock, and the callbacks it runs right after, are one step.              *)
(***************************************************************************)
EXTENDS Integers, FiniteSets, Sequences

CONSTANTS
    Did,          \* the DIDs that can be revoked
    Process,      \* the processes, each with one TrustPolicy
    SelfOf,       \* SelfOf[p]: the DID p runs as
    Store,        \* the store files
    NoStore,      \* a policy without a store
    StoreOf,      \* StoreOf[p]: the store p was started with, or NoStore
    Peers,        \* Peers[p]: whom p floods to ({} for an apply-only node)
    Gossips,      \* the processes that listen to gossip
    EarlyTicker,  \* the processes that start the refresher before subscribing
    Ticker,       \* refresher threads per process
    Obj, IdOf, Revokes, Sigs,   \* record objects and their contents
    Master, Threshold,          \* the MasterSet
    Fault,        \* the faults that may happen
    MaxFault      \* bound: faults per behaviour

\* MasterSet.__init__ refuses anything else.
MasterSetOK == IsFiniteSet(Master) /\ Threshold \in 1 .. Cardinality(Master)

NoLine == "no unterminated line"
Garbled == "unreadable line"

ASSUME TrustConstants ==
    /\ SelfOf \in [Process -> Did]
    /\ NoStore \notin Store /\ NoLine \notin Obj /\ Garbled \notin Obj
    /\ StoreOf \in [Process -> Store \cup {NoStore}]
    /\ Peers \in [Process -> SUBSET Process]
    /\ Gossips \subseteq Process /\ EarlyTicker \subseteq Process
    /\ DOMAIN IdOf = Obj
    /\ Revokes \in [Obj -> SUBSET Did]
    /\ \A o, q \in Obj : IdOf[o] = IdOf[q] => Revokes[o] = Revokes[q]
    /\ DOMAIN Sigs = Obj
    /\ MasterSetOK
    /\ Fault \subseteq {"raise", "torn", "cut", "unreadable"}
    /\ MaxFault \in Nat

VARIABLES
    file,      \* file[s]: whole lines, unterminated tail, number of writes
    life,     \* life[p]: how far p's start-up, or its life, has come
    known,     \* known[p]: _records, the record ids merged
    revoked,   \* revoked[p]: _revoked
    seen,      \* seen[p]: _store_stamp
    reading,   \* the <<p, t>> whose refresher t has set the stamp and not loaded yet
    subscribed,\* the processes whose halt callback is in _subs
    net,       \* gossip frames in flight
    faults,    \* faults so far
    told,      \* history: told[p][d], how often p's subscriber was told of d
    refused,   \* history: refused[p], the DIDs p has ever held revoked
    slipped    \* history: the processes that, in this life and past the check for
               \* their own DID, merged a record of it and called nobody

policyVars == <<file, life, known, revoked, seen, reading, subscribed, net, faults,
          told, refused, slipped>>

Id == {IdOf[o] : o \in Obj}

StoreFile == [whole : SUBSET Obj, tail : Obj \cup {NoLine, Garbled}, writes : Nat]

PolicyTypeOK ==
    /\ file \in [Store -> StoreFile]
    /\ life \in [Process -> {"down", "loaded", "checked", "running", "halted"}]
    /\ known \in [Process -> SUBSET Id]
    /\ revoked \in [Process -> SUBSET Did]
    /\ seen \in [Process -> Nat]
    /\ reading \subseteq Process \X Ticker
    /\ subscribed \subseteq Process
    /\ net \subseteq [to : Process, obj : Obj]
    /\ faults \in 0 .. MaxFault
    /\ told \in [Process -> [Did -> Nat]]
    /\ refused \in [Process -> SUBSET Did]
    /\ slipped \subseteq Process

PolicyInit ==
    /\ file = [s \in Store |-> [whole |-> {}, tail |-> NoLine, writes |-> 0]]
    /\ life = [p \in Process |-> "down"]
    /\ known = [p \in Process |-> {}]
    /\ revoked = [p \in Process |-> {}]
    /\ seen = [p \in Process |-> 0]
    /\ reading = {}
    /\ subscribed = {}
    /\ net = {}
    /\ faults = 0
    /\ told = [p \in Process |-> [d \in Did |-> 0]]
    /\ refused = [p \in Process |-> {}]
    /\ slipped = {}

-----------------------------------------------------------------------------
(* revocation.py *)

\* Mutation of Verifies: a master that signed twice counts twice.
VerifiesCountingTwice(o) ==
    Len(SelectSeq(Sigs[o], LAMBDA m : m \in Master)) >= Threshold

\* verify_revocation: enough distinct masters signed the body.
Verifies(o) ==
    Cardinality({m \in Master : \E i \in DOMAIN Sigs[o] : Sigs[o][i] = m}) >= Threshold

-----------------------------------------------------------------------------
(* RevocationStore *)

load(s) == file[s].whole \cup ({file[s].tail} \cap Obj)

\* RevocationStore.append: O_APPEND of one line; after an unterminated line the
\* two become one line nobody can read.
Appended(f, o) ==
    [whole  |-> IF f.tail = NoLine THEN f.whole \cup {o} ELSE f.whole,
     tail   |-> NoLine,
     writes |-> f.writes + 1]

\* The write was cut off: by a crash or a full disk, in the line ("torn") or just
\* before its newline ("cut").
CutOff(f, o, how) ==
    [whole  |-> f.whole,
     tail   |-> IF how = "cut" /\ f.tail = NoLine THEN o ELSE Garbled,
     writes |-> f.writes + 1]

-----------------------------------------------------------------------------
(* TrustPolicy._merge of a set of objects by p: what is new *)

Fresh(p, S) == {o \in S : Verifies(o) /\ IdOf[o] \notin known[p]}

\* Mutation of Newly: every DID the records name counts as new.
NewlyAll(p, S) == UNION {Revokes[o] : o \in Fresh(p, S)}

Newly(p, S) == (UNION {Revokes[o] : o \in Fresh(p, S)}) \ revoked[p]

Remember(p, S) ==
    /\ known' = [known EXCEPT ![p] = @ \cup {IdOf[o] : o \in Fresh(p, S)}]
    /\ revoked' = [revoked EXCEPT ![p] = @ \cup UNION {Revokes[o] : o \in Fresh(p, S)}]
    /\ refused' = [refused EXCEPT ![p] = @ \cup UNION {Revokes[o] : o \in Fresh(p, S)}]

\* Nobody is called: what p's own check has not seen, p will not be told again.
Untold(p, new) ==
    /\ slipped' = slipped \cup {q \in {p} : SelfOf[q] \in new /\ life[q] # "loaded"}
    /\ UNCHANGED <<told, life>>

\* The callbacks in _subs: halt_on_self_revocation when p's own DID is new.
Notify(p, new) ==
    \/ /\ p \in subscribed
       /\ told' = [told EXCEPT ![p] = [d \in Did |-> @[d] + (IF d \in new THEN 1 ELSE 0)]]
       /\ life' = IF SelfOf[p] \in new THEN [life EXCEPT ![p] = "halted"] ELSE life
       /\ UNCHANGED slipped
    \/ p \notin subscribed /\ Untold(p, new)

\* Mutation of Flood: what arrives is not passed on.
FloodNobody(p, o) == {}

Flood(p, o) == {[to |-> q, obj |-> o] : q \in Peers[p] \ {p}}

\* TrustPolicy.apply, and the broadcast its two callers do when it returns a
\* nonempty set.  consumed: the frames taken off the wire by this call.
\* Mutation of apply: the record is not persisted.
ApplyVolatile(p, o, consumed) ==
    LET new == Newly(p, {o}) IN
    /\ Remember(p, {o})
    /\ Notify(p, new)
    /\ net' = (net \ consumed) \cup (IF new = {} THEN {} ELSE Flood(p, o))
    /\ UNCHANGED <<file, faults, seen, reading, subscribed>>

apply(p, o, consumed) ==
    LET new == Newly(p, {o})
        s   == StoreOf[p]
        writes == s # NoStore /\ Fresh(p, {o}) # {}
    IN  /\ Remember(p, {o})
        /\ UNCHANGED <<seen, reading, subscribed>>
        /\ \/ /\ file' = IF writes THEN [file EXCEPT ![s] = Appended(@, o)] ELSE file
              /\ Notify(p, new)
              /\ net' = (net \ consumed) \cup (IF new = {} THEN {} ELSE Flood(p, o))
              /\ UNCHANGED faults
           \/ \* a short write goes unnoticed
              /\ writes /\ faults < MaxFault
              /\ \E how \in Fault \cap {"torn", "cut"} :
                    file' = [file EXCEPT ![s] = CutOff(@, o, how)]
              /\ faults' = faults + 1
              /\ Notify(p, new)
              /\ net' = (net \ consumed) \cup (IF new = {} THEN {} ELSE Flood(p, o))
           \/ \* open or write raised: neither subscribers nor peers hear of it
              /\ writes /\ faults < MaxFault /\ "raise" \in Fault
              /\ faults' = faults + 1
              /\ net' = net \ consumed
              /\ Untold(p, new)
              /\ UNCHANGED file

\* The gossip handler is registered: before the halt callback subscribes
\* (relay_node.py:195-201).
Listening(p) == p \in Gossips /\ life[p] \in {"checked", "running"}

\* RevocationGossip._on_frame.
_on_frame(msg) ==
    /\ msg \in net
    /\ Listening(msg.to)
    /\ apply(msg.to, msg.obj, {msg})

\* RevocationGossip.announce: a node originates a record.
announce(p, o) ==
    /\ p \in Gossips
    /\ life[p] = "running"
    /\ apply(p, o, {})

-----------------------------------------------------------------------------
(* The refresher thread *)

Ticking(p) ==
    /\ StoreOf[p] # NoStore
    /\ life[p] \in IF p \in EarlyTicker THEN {"loaded", "checked", "running"}
                    ELSE {"running"}

\* TrustPolicy.refresh, first half: the stamp changed and is remembered.
refresh_stat(p, t) ==
    /\ Ticking(p) /\ <<p, t>> \notin reading
    /\ file[StoreOf[p]].writes # seen[p]
    /\ seen' = [seen EXCEPT ![p] = file[StoreOf[p]].writes]
    /\ reading' = reading \cup {<<p, t>>}
    /\ UNCHANGED <<file, life, known, revoked, subscribed, net, faults, told,
                   refused, slipped>>

\* Second half: the records are read, verified, merged, and announced to the
\* subscribers (not to peers).
refresh_load(p, t) ==
    /\ <<p, t>> \in reading /\ Ticking(p)
    /\ reading' = reading \ {<<p, t>>}
    /\ Remember(p, load(StoreOf[p]))
    /\ Notify(p, Newly(p, load(StoreOf[p])))
    /\ UNCHANGED <<file, seen, subscribed, net, faults>>

\* The store could not be read: the exception is swallowed by the loop.
refresh_raises(p, t) ==
    /\ <<p, t>> \in reading /\ Ticking(p)
    /\ "unreadable" \in Fault /\ faults < MaxFault
    /\ faults' = faults + 1
    /\ reading' = reading \ {<<p, t>>}
    /\ UNCHANGED <<file, life, known, revoked, seen, subscribed, net, told,
                   refused, slipped>>

-----------------------------------------------------------------------------
(* Start-up, crash, and the operator *)

\* Mutations of StartPolicy: the store is not read at start, and the stamp is one write
\* behind.
StartUnread(p) ==
    /\ life[p] \in {"down", "halted"}
    /\ life' = [life EXCEPT ![p] = "loaded"]
    /\ known' = [known EXCEPT ![p] = {}]
    /\ revoked' = [revoked EXCEPT ![p] = {}]
    /\ seen' = [seen EXCEPT ![p] = IF StoreOf[p] = NoStore THEN 0
                                   ELSE file[StoreOf[p]].writes]
    /\ UNCHANGED <<file, reading, subscribed, net, faults, told,
                   refused, slipped>>
StartBehind(p) ==
    /\ life[p] \in {"down", "halted"}
    /\ life' = [life EXCEPT ![p] = "loaded"]
    /\ seen' = [seen EXCEPT ![p] = file[StoreOf[p]].writes - 1]
    /\ UNCHANGED <<file, known, revoked, reading, subscribed, net, faults, told,
                   refused, slipped>>

\* TrustPolicy.__init__: stamp, then load.
StartPolicy(p) ==
    LET S == IF StoreOf[p] = NoStore THEN {} ELSE {o \in load(StoreOf[p]) : Verifies(o)}
        ds == UNION {Revokes[o] : o \in S}
    IN  /\ life[p] \in {"down", "halted"}
        /\ life' = [life EXCEPT ![p] = "loaded"]
        /\ known' = [known EXCEPT ![p] = {IdOf[o] : o \in S}]
        /\ revoked' = [revoked EXCEPT ![p] = ds]
        /\ refused' = [refused EXCEPT ![p] = @ \cup ds]
        /\ seen' = [seen EXCEPT ![p] = IF StoreOf[p] = NoStore THEN 0
                                       ELSE file[StoreOf[p]].writes]
        /\ told' = [told EXCEPT ![p] = [d \in Did |-> 0]]
        /\ subscribed' = subscribed \ {p}
        /\ reading' = {r \in reading : r[1] # p}
        /\ slipped' = slipped \ {p}
        /\ UNCHANGED <<file, net, faults>>

\* Mutation of CheckSelf: the process does not look for itself.
CheckNobody(p) ==
    /\ life[p] = "loaded"
    /\ life' = [life EXCEPT ![p] = "checked"]
    /\ UNCHANGED <<file, known, revoked, seen, reading, subscribed, net, faults,
                   told, refused, slipped>>

\* "own DID already revoked; not starting"
CheckSelf(p) ==
    /\ life[p] = "loaded"
    /\ life' = [life EXCEPT ![p] = IF SelfOf[p] \in revoked[p] THEN "halted" ELSE "checked"]
    /\ UNCHANGED <<file, known, revoked, seen, reading, subscribed, net, faults,
                   told, refused, slipped>>

\* policy.on_change(halt ...)
on_change(p) ==
    /\ life[p] = "checked"
    /\ life' = [life EXCEPT ![p] = "running"]
    /\ subscribed' = subscribed \cup {p}
    /\ UNCHANGED <<file, known, revoked, seen, reading, net, faults, told, refused, slipped>>

Crash(p) ==
    /\ life[p] # "down"
    /\ life' = [life EXCEPT ![p] = "down"]
    /\ known' = [known EXCEPT ![p] = {}]
    /\ revoked' = [revoked EXCEPT ![p] = {}]
    /\ seen' = [seen EXCEPT ![p] = 0]
    /\ reading' = {r \in reading : r[1] # p}
    /\ subscribed' = subscribed \ {p}
    /\ told' = [told EXCEPT ![p] = [d \in Did |-> 0]]
    /\ slipped' = slipped \ {p}
    /\ UNCHANGED <<file, net, faults, refused>>

\* secdogie-identity revoke-apply: verify, look for the id, append.
_revoke_apply(s, o) ==
    /\ Verifies(o)
    /\ IdOf[o] \notin {IdOf[q] : q \in load(s)}
    /\ \/ /\ file' = [file EXCEPT ![s] = Appended(@, o)]
          /\ UNCHANGED faults
       \/ /\ faults < MaxFault
          /\ \E how \in Fault \cap {"torn", "cut"} :
                file' = [file EXCEPT ![s] = CutOff(@, o, how)]
          /\ faults' = faults + 1
    /\ UNCHANGED <<life, known, revoked, seen, reading, subscribed, net, told, refused, slipped>>

\* Somebody writes a line that does not verify into the store.
Tamper(s, o) ==
    /\ ~Verifies(o) /\ o \notin load(s)
    /\ file' = [file EXCEPT ![s] = Appended(@, o)]
    /\ UNCHANGED <<life, known, revoked, seen, reading, subscribed, net, faults,
                   told, refused, slipped>>

\* A gossip frame is lost.
Lose(msg) ==
    /\ msg \in net
    /\ net' = net \ {msg}
    /\ UNCHANGED <<file, life, known, revoked, seen, reading, subscribed, faults,
                   told, refused, slipped>>

Startup(p) == StartPolicy(p) \/ CheckSelf(p) \/ on_change(p)
Refresher(p, t) == refresh_stat(p, t) \/ refresh_load(p, t)

PolicyNext ==
    \/ \E p \in Process : Startup(p) \/ Crash(p)
    \/ \E p \in Process, t \in Ticker : Refresher(p, t) \/ refresh_raises(p, t)
    \/ \E p \in Process, o \in Obj : announce(p, o)
    \/ \E msg \in net : _on_frame(msg) \/ Lose(msg)
    \/ \E s \in Store, o \in Obj : _revoke_apply(s, o) \/ Tamper(s, o)

PolicySpec == PolicyInit /\ [][PolicyNext]_policyVars

\* Processes that stay up once they have started.  A record is sent to a peer in one
\* datagram and never again: it arrives at a process that listens, and one that is
\* down or still starting gets it only if it happens to listen in time.
SteadyNext ==
    \/ \E p \in Process : Startup(p)
    \/ \E p \in Process, t \in Ticker : Refresher(p, t) \/ refresh_raises(p, t)
    \/ \E p \in Process, o \in Obj : announce(p, o)
    \/ \E msg \in net : _on_frame(msg) \/ (~Listening(msg.to) /\ Lose(msg))
    \/ \E s \in Store, o \in Obj : _revoke_apply(s, o)

SteadySpec ==
    /\ PolicyInit /\ [][SteadyNext]_policyVars
    /\ \A p \in Process : WF_policyVars(CheckSelf(p)) /\ WF_policyVars(on_change(p))
    /\ \A p \in Process, t \in Ticker :
          WF_policyVars(refresh_stat(p, t)) /\ WF_policyVars(refresh_load(p, t))
    /\ \A p \in Process : WF_policyVars(\E msg \in net : msg.to = p /\ _on_frame(msg))

-----------------------------------------------------------------------------
(* Properties *)

\* No path (gossip, store, command line, restart) makes a policy refuse a DID
\* without a record naming it that a threshold of distinct masters signed.
OnlyMastersRevoke ==
    \A p \in Process : \A d \in revoked[p] : \E o \in Obj, M \in SUBSET Master :
        /\ d \in Revokes[o] /\ Cardinality(M) = Threshold
        /\ \A m \in M : \E i \in DOMAIN Sigs[o] : Sigs[o][i] = m

\* Two refresher threads, gossip and the store may all bring one DID: the
\* subscriber (which evicts, disconnects or halts) hears of it at most once.
ToldOnce == \A p \in Process, d \in Did : told[p][d] =< 1

\* policy.py: the store "persists the records a node has accepted, so a restart
\* does not forget who was revoked (revocation is permanent)".  It holds as long
\* as no append fails: after a failed or cut-off one memory and file disagree.
NeverForgets ==
    faults = 0 =>
        \A p \in Process :
            StoreOf[p] # NoStore /\ life[p] # "down" => refused[p] \subseteq revoked[p]

\* Who serves under a DID its own policy refuses (policy.py halt_on_self_revocation,
\* the start-up sequences).  A process checks for its own DID and subscribes its halt
\* afterwards; a record of it that is merged in between, or whose append raises, calls
\* nobody, and later records of that DID bring nothing new.  There is no other way:
\* whoever serves although its policy refuses it, now or with a store in any earlier
\* life, slipped past the halt in this very life, which a node that starts its
\* refresher last and hears no gossip cannot.
NoRevokedRunner ==
    \A p \in Process : life[p] = "running" =>
        /\ SelfOf[p] \in revoked[p] => p \in slipped
        /\ SelfOf[p] \in refused[p] /\ StoreOf[p] # NoStore /\ faults = 0 => p \in slipped
        /\ p \in slipped => p \in Gossips \cup EarlyTicker

\* citadel/cli.py:106: "A node whose own DID the masters have revoked does no more
\* work: it does not start, and a revocation that arrives mid-run halts the
\* supervisor."  The refresher it starts before checking and subscribing may merge
\* the record between the two.
NoRevokedWork ==
    \A p \in Process : life[p] = "running" => SelfOf[p] \notin revoked[p]

Stored(p, d) ==
    /\ StoreOf[p] # NoStore /\ life[p] # "down"
    /\ \E o \in load(StoreOf[p]) : Verifies(o) /\ d \in Revokes[o]
Heard(p, d) == d \in revoked[p] \/ life[p] = "halted"

\* policy.py: an operator who appends a record "reaches every process that shares
\* the store without restarting any of them".
StoreReaches ==
    \A p \in Process, d \in Did : Stored(p, d) ~> Heard(p, d)

Knows(p, d) == StoreOf[p] = NoStore /\ life[p] = "running" /\ d \in revoked[p]

\* revocation_gossip.py: the flood means that "a revocation reaches every node
\* within a few hops", as "the fast channel for nodes that are online": what a node
\* without a store comes to refuse, each peer that listened before comes to refuse.
\* (A node that learned of it from its store passes nothing on, and a peer that
\* starts listening later may never hear.)
FloodReaches ==
    \A p \in Process, d \in Did : \A q \in Peers[p] :
        [](Listening(q) /\ d \notin revoked[p] =>
              (Knows(p, d) ~> (Heard(q, d) \/ life[p] = "halted")))

=============================================================================
