------------------------------- MODULE Memory -------------------------------
(***************************************************************************)
(* Staged memory (citadel): what runs and the model teach a node is held   *)
(* in a local quarantine (S2, `store'), and only a review or the operator  *)
(* turns it into signed memory events of the shared journal (S3,           *)
(* `events'), which every node projects for itself.                        *)
(*                                                                         *)
(* A caution ("this action failed") is promoted and retracted on evidence  *)
(* by the consolidation pass that ends every goal run.  A fact needs the   *)
(* operator's confirmation, which the App of node Home signs for one       *)
(* content and one node.  Rogue members of the journal append any memory   *)
(* event they like.  The pass and the operator's requests run in           *)
(* different threads of a node.                                            *)
(*                                                                         *)
(* A memory is its class, key and content; its id is the hash of these, so *)
(* the memory itself is used as its id.  Replication is the union of the   *)
(* journals (module Journal has the protocol).                             *)
(***************************************************************************)
EXTENDS Integers, Sequences, FiniteSets, SequencesExt

CONSTANTS
    Members, Home, \* the journal's members; the one the App is connected to
    Rogues,        \* members that append what they like
    App,           \* the operator App's identity
    Memories,      \* [class: {"caution", "fact"}, key, value]
    Secrets,       \* the memories that look like a credential
    RunKinds,      \* runs that may happen: [key, outcome, usable]
    MinRuns,       \* runs that promote, and that retract, a caution
    MaxItems,      \* size of the quarantine
    MaxRuns, MaxEvents, MaxRequests,  \* BOUNDS
    Nothing        \* no confirmation, no pass

\* A caution is named by a hash and its text is fixed, so it does not look like
\* a credential (lessons.py looks_like_secret, caution_value); a pass needs at
\* least one run (consolidate.py review_candidate).
ASSUME MemoryConstants ==
    /\ Rogues \subseteq Members /\ Home \in Members \ Rogues /\ App \notin Members
    /\ \A m \in Secrets : m \in Memories /\ m.class # "caution"
    /\ MinRuns \in Nat \ {0} /\ MaxItems \in Nat \ {0}
    /\ Nothing \notin [signer : Members \cup {App}, mem : Memories, subject : Members]

VARIABLES
    episodes,  \* [Members -> set of [id, author, key, outcome, usable]]: the runs a node can read
    events,    \* [Members -> set of memory events]
    store,     \* [Members -> set of candidates]
    pass,      \* [Members -> the tallies and the view a consolidation pass works from, or Nothing]
    distrusted, \* identities no longer trusted
    offered,   \* _AppLink.offered
    memories, requests,  \* AppController: offered to the operator; what became of each request
    toApp, toNode,       \* messages on the way, each delivered once or given up
    signed,    \* ghost: the confirmations the App signed
    withdrawn  \* ghost: what the operator retracted, with the failures known then

appVars == <<offered, memories, requests, toApp, toNode, signed, withdrawn>>
memoryVars == <<episodes, events, store, pass, distrusted, appVars>>

Caution(m) == m.class = "caution"
CautionOf(k) == CHOOSE m \in Memories : Caution(m) /\ m.key = k
Keys == {m.key : m \in {x \in Memories : Caution(x)}}

-----------------------------------------------------------------------------
(* S1: verified episodes *)

FAILURE_OUTCOMES == {"failed", "no_change"}
SUCCESS_OUTCOMES == {"ok"}

\* Only finished, verified runs count, each once per action key.
tally(R, k, outcomes) == {r \in R : r.usable /\ r.key = k /\ r.outcome \in outcomes}

Tallies(R) ==
    [k \in Keys |-> [fail |-> tally(R, k, FAILURE_OUTCOMES), ok |-> tally(R, k, SUCCESS_OUTCOMES)]]

-----------------------------------------------------------------------------
(* S2: the quarantine *)

validate(m) == m \notin Secrets

\* What the quarantine may keep of S.  The candidates seen longest ago make
\* room; which those are is the wall clock's.
_make_room(S) ==
    {T \in SUBSET S : Cardinality(T) = IF Cardinality(S) <= MaxItems THEN Cardinality(S) ELSE MaxItems}

\* The candidates C are seen, now or again: they are the last to make room.
upsert(S, C) == {T \in _make_room(S \cup C) : C \subseteq T \/ T \subseteq C}

\* The model's remember; a credential is refused.
note(n, m) ==
    /\ ~Caution(m)
    /\ IF validate(m)
       THEN \E S \in upsert(store[n], {m}) : store' = [store EXCEPT ![n] = S]
       ELSE UNCHANGED store
    /\ UNCHANGED <<episodes, events, pass, distrusted, appVars>>

extract_cautions(t) == {CautionOf(k) : k \in {x \in Keys : t[x].fail # {}}}

-----------------------------------------------------------------------------
(* S3: memory events and their projection *)

Lamport(E) == Max({0} \cup {e.lamport : e \in E})

Event(n, t, op, m, basis, evidence, conf) ==
    [author |-> n, lamport |-> t, op |-> op, mem |-> m, basis |-> basis,
     evidence |-> evidence, conf |-> conf]

\* n appends one event.
append(n, op, m, basis, evidence, conf) ==
    events' = [events EXCEPT ![n] =
                   @ \cup {Event(n, Lamport(@) + 1, op, m, basis, evidence, conf)}]

\* Authors are compared where the clocks agree.
authors == SetToSeq(Members)
Rank(n) == CHOOSE i \in 1 .. Len(authors) : authors[i] = n
_order(e, f) == e.lamport < f.lamport \/ (e.lamport = f.lamport /\ Rank(e.author) < Rank(f.author))

\* Mutation of verify_confirmation: the node it was given to is not compared.
verify_confirmationMoved(conf, m, subject) ==
    conf # Nothing /\ conf.signer \in {App} \ distrusted /\ conf.mem = m

\* The confirmation is the App's, for this content and this node.
verify_confirmation(conf, m, subject) ==
    /\ conf # Nothing
    /\ conf.signer \in {App} \ distrusted
    /\ conf.mem = m /\ conf.subject = subject

_admit(e) ==
    /\ validate(e.mem)
    /\ \/ e.basis = "evidence" /\ Caution(e.mem) /\ e.evidence
       \/ e.basis = "operator" /\ verify_confirmation(e.conf, e.mem, e.author)

\* A newer fact of the same key replaces the older.
Replaces(e, r) == r.mem = e.mem \/ (~Caution(e.mem) /\ ~Caution(r.mem) /\ r.mem.key = e.mem.key)

Admitted(e) == e.op = "assert" /\ _admit(e)

\* f takes e's record out of the view.
Undoes(f, e) ==
    /\ _order(e, f)
    /\ \/ f.op = "retract" /\ f.mem = e.mem
       \/ Admitted(f) /\ Replaces(f, e)

\* The records in force: what is admitted and nothing later undoes.
build_memory(E) ==
    LET heard == {e \in E : e.author \notin distrusted}
    IN {e \in heard : Admitted(e) /\ \A f \in heard : ~Undoes(f, e)}

memory_view(n) == build_memory(events[n])
Remembered(n) == {r.mem : r \in memory_view(n)}

-----------------------------------------------------------------------------
(* One consolidation pass, at the end of a run *)

\* Mutation of Contradicted: it takes one run more.
ContradictedLate(t) == Cardinality(t.ok) > MinRuns

\* review_candidate: enough failures, and never a success.
Promotes(t) == Cardinality(t.fail) >= MinRuns /\ t.ok = {}

\* Enough successes to take an evidence-based caution back.
Contradicted(t) == Cardinality(t.ok) >= MinRuns

\* A goal run of n ends; its pass reads the episodes, extracts the cautions
\* and builds the view it will work from.
run_ends(n, kind) ==
    /\ pass[n] = Nothing
    /\ Cardinality(UNION {episodes[x] : x \in Members}) < MaxRuns
    /\ LET run == [id |-> Cardinality({r \in episodes[n] : r.author = n}), author |-> n,
                   key |-> kind.key, outcome |-> kind.outcome, usable |-> kind.usable]
           t == Tallies(episodes[n] \cup {run})
       IN /\ episodes' = [episodes EXCEPT ![n] = @ \cup {run}]
          /\ \E S \in upsert(store[n], extract_cautions(t)) : store' = [store EXCEPT ![n] = S]
          /\ pass' = [pass EXCEPT ![n] = [tallies |-> t, view |-> memory_view(n)]]
    /\ UNCHANGED <<events, distrusted, appVars>>

Candidates(S) == {m \in S : Caution(m)}
Known(view) == {r.mem : r \in view}

\* Facts of the quarantine go to the App once per link.
_offer_memories(n, S) ==
    LET new == (S \ Candidates(S)) \ offered
    IN IF n = Home
       THEN /\ offered' = offered \cup new
            /\ toApp' = toApp \cup {[kind |-> "offer", mem |-> m, id |-> 0, ok |-> TRUE] : m \in new}
       ELSE UNCHANGED <<offered, toApp>>

\* What the pass promotes, what it takes back, and what stays in quarantine.
Promoted(p, S) == {m \in Candidates(S) : m \notin Known(p.view) /\ Promotes(p.tallies[m.key])}
TakenBack(p) ==
    {r.mem : r \in {x \in p.view : /\ Caution(x.mem) /\ x.basis = "evidence"
                                   /\ Contradicted(p.tallies[x.mem.key])}}
Held(p, S) == S \ {m \in Candidates(S) : m \in Known(p.view) \cup Promoted(p, S)}

\* An order in which a pass writes the events about M.
Orders(M) == Injection(M, 1 .. Cardinality(M))

\* The pass promotes, drops what is already known, and retracts.
consolidate(n) ==
    /\ pass[n] # Nothing
    /\ LET promoted == Promoted(pass[n], store[n])
           taken == TakenBack(pass[n])
           start == Lamport(events[n])
       IN \E o \in Orders(promoted), u \in Orders(taken) :
              events' = [events EXCEPT ![n] = @
                  \cup {Event(n, start + o[m], "assert", m, "evidence", TRUE, Nothing) : m \in promoted}
                  \cup {Event(n, start + Cardinality(promoted) + u[m], "retract", m, "none", FALSE, Nothing) :
                            m \in taken}]
    /\ store' = [store EXCEPT ![n] = Held(pass[n], @)]
    /\ _offer_memories(n, store'[n])
    /\ pass' = [pass EXCEPT ![n] = Nothing]
    /\ UNCHANGED <<episodes, distrusted, memories, requests, toNode, signed, withdrawn>>

-----------------------------------------------------------------------------
(* The operator's App and the node's control requests *)

\* review_memory: a credential cannot be confirmed.
on_offer ==
    \E p \in {x \in toApp : x.kind = "offer"} :
        /\ toApp' = toApp \ {p}
        /\ memories' = memories \cup {p.mem}
        /\ UNCHANGED <<episodes, events, store, pass, distrusted, offered, requests, toNode, signed, withdrawn>>

_request(op, m, conf) ==
    /\ Len(requests) < MaxRequests
    /\ requests' = Append(requests, "sent")
    /\ toNode' = toNode \cup {[op |-> op, mem |-> m, conf |-> conf, id |-> Len(requests) + 1]}

confirm_memory ==
    \E m \in memories :
        LET conf == [signer |-> App, mem |-> m, subject |-> Home]
        IN /\ validate(m)
           /\ memories' = memories \ {m}
           /\ signed' = signed \cup {conf}
           /\ _request("confirm_memory", m, conf)
           /\ UNCHANGED <<episodes, events, store, pass, distrusted, offered, toApp, withdrawn>>

dismiss_memory ==
    \E m \in memories :
        /\ memories' = memories \ {m}
        /\ UNCHANGED <<episodes, events, store, pass, distrusted, offered, requests, toApp, toNode, signed, withdrawn>>

retract_memory(m) ==
    /\ _request("retract_memory", m, Nothing)
    /\ UNCHANGED <<episodes, events, store, pass, distrusted, offered, memories, toApp, signed, withdrawn>>

Reply(p, ok) == toApp' = toApp \cup {[kind |-> "status", mem |-> p.mem, id |-> p.id, ok |-> ok]}

\* confirm_and_promote: the candidate is still quarantined and the confirmation verifies.
on_confirm(p) ==
    LET good == p.mem \in store[Home] /\ verify_confirmation(p.conf, p.mem, Home)
    IN /\ Reply(p, good)
       /\ IF good
          THEN /\ append(Home, "assert", p.mem, "operator", FALSE, p.conf)
               /\ store' = [store EXCEPT ![Home] = @ \ {p.mem}]
          ELSE UNCHANGED <<events, store>>
       /\ UNCHANGED withdrawn

on_retract(p) ==
    LET good == p.mem \in Remembered(Home)
    IN /\ Reply(p, good)
       /\ IF good
          THEN /\ append(Home, "retract", p.mem, "none", FALSE, Nothing)
               /\ withdrawn' = withdrawn \cup
                      {[mem |-> p.mem, fails |-> tally(episodes[Home], p.mem.key, FAILURE_OUTCOMES)]}
          ELSE UNCHANGED <<events, withdrawn>>
       /\ UNCHANGED store

on_request ==
    \E p \in toNode :
        /\ toNode' = toNode \ {p}
        /\ \/ p.op = "confirm_memory" /\ on_confirm(p)
           \/ p.op = "retract_memory" /\ on_retract(p)
        /\ UNCHANGED <<episodes, pass, distrusted, offered, memories, requests, signed>>

\* The node's status answers the request.
on_status ==
    \E p \in {x \in toApp : x.kind = "status"} :
        /\ toApp' = toApp \ {p}
        /\ requests' = [requests EXCEPT ![p.id] = IF p.ok THEN "accepted" ELSE "refused"]
        /\ UNCHANGED <<episodes, events, store, pass, distrusted, offered, memories, toNode, signed, withdrawn>>

\* The session gives a message up.
on_undeliverable ==
    /\ \/ \E p \in toNode : /\ toNode' = toNode \ {p}
                            /\ requests' = [requests EXCEPT ![p.id] = "undelivered"]
                            /\ UNCHANGED toApp
       \/ \E p \in toApp : toApp' = toApp \ {p} /\ UNCHANGED <<toNode, requests>>
    /\ UNCHANGED <<episodes, events, store, pass, distrusted, offered, memories, signed, withdrawn>>

\* A new session with the App: everything quarantined is offered again.
_accept ==
    /\ LET facts == store[Home] \ Candidates(store[Home])
       IN /\ offered' = facts
          /\ toApp' = {[kind |-> "offer", mem |-> m, id |-> 0, ok |-> TRUE] : m \in facts}
    /\ toNode' = {}
    /\ UNCHANGED <<episodes, events, store, pass, distrusted, memories, requests, signed, withdrawn>>

-----------------------------------------------------------------------------
(* The other members of the journal *)

sync(n, m) ==
    LET from(S) == {x \in S : x.author \notin distrusted}
    IN /\ events' = [events EXCEPT ![n] = @ \cup from(events[m])]
       /\ episodes' = [episodes EXCEPT ![n] = @ \cup from(episodes[m])]
       /\ UNCHANGED <<store, pass, distrusted, appVars>>

\* A rogue member appends any memory event, with any confirmation it has seen
\* or its own.
rogue(n, m) ==
    /\ \/ append(n, "retract", m, "none", FALSE, Nothing)
       \/ \E evidence \in BOOLEAN : append(n, "assert", m, "evidence", evidence, Nothing)
       \/ \E conf \in signed \cup {Nothing, [signer |-> n, mem |-> m, subject |-> n]} :
              append(n, "assert", m, "operator", FALSE, conf)
    /\ UNCHANGED <<episodes, store, pass, distrusted, appVars>>

revoke(x) ==
    /\ x \notin distrusted
    /\ distrusted' = distrusted \cup {x}
    /\ UNCHANGED <<episodes, events, store, pass, appVars>>

-----------------------------------------------------------------------------
MemoryInit ==
    /\ episodes = [n \in Members |-> {}]
    /\ events = [n \in Members |-> {}]
    /\ store = [n \in Members |-> {}]
    /\ pass = [n \in Members |-> Nothing]
    /\ distrusted = {} /\ offered = {}
    /\ memories = {} /\ requests = <<>> /\ toApp = {} /\ toNode = {}
    /\ signed = {} /\ withdrawn = {}

Room == Cardinality(UNION {events[n] : n \in Members}) < MaxEvents

Honest == Members \ Rogues

\* What the members N and the operator do about the memories M, in runs of the
\* kinds K; identities of D may be distrusted.
Steps(N, M, K, D) ==
    \/ \E n \in N \ Rogues, m \in M : note(n, m)
    \/ \E n \in N \ Rogues, kind \in K : run_ends(n, kind)
    \/ \E n \in N \ Rogues : Room /\ consolidate(n)
    \/ on_offer \/ confirm_memory \/ dismiss_memory \/ on_status \/ on_undeliverable \/ _accept
    \/ \E m \in M : retract_memory(m)
    \/ Room /\ on_request
    \/ \E n, m \in N : n # m /\ sync(n, m)
    \/ \E n \in N \cap Rogues, m \in M : Room /\ rogue(n, m)
    \/ \E i \in D : revoke(i)

MemoryNext == Steps(Members, Memories, RunKinds, Rogues \cup {App})

MemorySpec == MemoryInit /\ [][MemoryNext]_memoryVars

-----------------------------------------------------------------------------
\* Shapes of the state: the quarantine holds each candidate once and no more
\* than its limit, never a credential; an author's events are ordered by its
\* clock (lessons.py CandidateStore, journal.py).
MemoryTypeOK ==
    /\ \A n \in Members :
        /\ IsFiniteSet(store[n]) /\ Cardinality(store[n]) <= MaxItems /\ store[n] \cap Secrets = {}
        /\ \A e, f \in events[n] : e.author = f.author /\ e.lamport = f.lamport => e = f
    /\ distrusted \subseteq Rogues \cup {App}
    /\ memories \cap Secrets = {} /\ offered \cap Secrets = {}
    /\ \A i \in 1 .. Len(requests) : requests[i] \in {"sent", "accepted", "refused", "undelivered"}

\* A fact any honest node plans with was confirmed by the operator, who is
\* still trusted, for exactly this content and the node that asserted it; a
\* credential is never remembered -- whatever a rogue member writes
\* (consolidate.py: "a node cannot claim a confirmation it does not have, nor
\* move one onto different content").
FactsAreConfirmed ==
    \A n \in Honest : \A r \in memory_view(n) :
        /\ r.mem \notin Secrets
        /\ ~Caution(r.mem) =>
               /\ App \notin distrusted
               /\ [signer |-> App, mem |-> r.mem, subject |-> r.author] \in signed

\* A caution an honest node asserted on evidence has MinRuns verified failing
\* runs behind it in that node's journal (consolidate.py review_candidate).
CautionsAreEarned ==
    \A n \in Honest : \A e \in events[n] :
        e.author = n /\ e.basis = "evidence" =>
            Cardinality(tally(episodes[n], e.mem.key, FAILURE_OUTCOMES)) >= MinRuns

\* What a node plans with was earned: a fact was confirmed by the operator for
\* this very content and the node that asserts it, and is no credential,
\* whatever a rogue member writes; a caution asserted on evidence has the
\* failing runs behind it (verify_confirmation, build_memory, review_candidate).
MemoryIsEarned == MemoryTypeOK /\ FactsAreConfirmed /\ CautionsAreEarned

PassRetracts ==
    \A n \in Honest : (pass[n] # Nothing /\ pass'[n] = Nothing) =>
        \A r \in pass[n].view :
            /\ Caution(r.mem) /\ r.basis = "evidence"
            /\ Cardinality(pass[n].tallies[r.mem.key].ok) >= MinRuns
            => r \notin memory_view(n)'

\* When a pass ends, no caution it started with that MinRuns verified runs now
\* contradict is still in force, whatever the operator or a peer did meanwhile
\* (consolidate.py: "Evidence of later success (min_runs successful runs)
\* retracts it").
ContradictedIsRetracted == [][PassRetracts]_memoryVars

\* A caution the operator retracted stays out of the node's view until its
\* action fails again (MEMORY.zh.md: after a retract the gate is back at its
\* baseline).
RetractedStaysOut ==
    \A w \in withdrawn :
        Caution(w.mem) /\ tally(episodes[Home], w.mem.key, FAILURE_OUTCOMES) = w.fails
            => w.mem \notin Remembered(Home)
=============================================================================
