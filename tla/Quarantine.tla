----------------------------- MODULE Quarantine -----------------------------
(***************************************************************************)
(* How the inference mesh avoids nodes that heartbeat well but mishandle   *)
(* traffic, and takes them back (inference/health.py, breaker.py,          *)
(* coordinator.py and the halves of node.py and participant.py they meet). *)
(*                                                                         *)
(* A decider charges the interior nodes of a leg that timed out            *)
(* (Suspicion) or the model node itself when the leg was direct            *)
(* (CircuitBreaker), and reports a node it newly suspects to the           *)
(* coordinator, once, over datagrams.  The coordinator counts distinct     *)
(* reporters (FaultTracker) and floods what it quarantines in numbered     *)
(* advisories, which may be lost or overtake each other.                   *)
(*                                                                         *)
(* Times are relative to now, so that the state stays finite while time    *)
(* runs on: "until" is how far ahead a deadline lies, and ages stop at the *)
(* first value the code no longer tells from a larger one.  An advisory's  *)
(* epoch is its lag behind the coordinator's newest.                       *)
(***************************************************************************)
EXTENDS Integers, FiniteSets, Functions

CONSTANTS
    Deciders, Nodes,        \* the serving nodes; the interior nodes of legs
    Providers,              \* the model nodes a leg may reach directly
    SuspectThreshold, SuspectCooldown,
    MaxScore,               \* bound on a node's score, unbounded in the code
    BreakerThreshold, BreakerCooldown, BreakerMaxCooldown,
    Threshold, Window, Cooldown, MaxCooldown, Probation,
    AdviseEvery,
    MaxLag,                 \* an advisory further behind than this is lost
    MaxBack,                \* how many epochs a restart's clock is set back
    MaxRestarts

VARIABLES
    suspicion,  \* [decider][node]: Suspicion._score and _until
    breaker,    \* [decider][provider]: CircuitBreaker._states
    faults,     \* fault frames under way: <<reporter, accused>>
    records,    \* [accused]: FaultTracker._records
    nextAdvice, \* time until Coordinator._next_advice
    flight,     \* [decider]: advisories under way to it
    advisories, \* [decider]: the newest advisory it holds
    restarts,
    said        \* history: [accused][decider] age of the last report counted

vars == <<suspicion, breaker, faults, records, nextAdvice, flight, advisories, restarts, said>>

Accused == Nodes \cup Providers
Least(a, b) == IF a < b THEN a ELSE b
Most(a, b) == IF a < b THEN b ELSE a
Later(t, floor) == Most(t - 1, floor)

-----------------------------------------------------------------------------
(* Suspicion *)

NoSuspicion == [score |-> 0, until |-> 0]

Crosses(s) == s.score + 1 >= SuspectThreshold /\ s.until <= 0

\* The node was in a leg that timed out.
timed_out(s) ==
    IF Crosses(s) THEN [score |-> 0, until |-> SuspectCooldown]
    ELSE [s EXCEPT !.score = Least(@ + 1, MaxScore)]

\* The node was in a leg that delivered.
delivered(s) == [s EXCEPT !.score = Most(@ - 1, 0)]

suspects(d) == {n \in Nodes : suspicion[d][n].until > 0}

-----------------------------------------------------------------------------
(* CircuitBreaker *)

Closed == [failures |-> 0, trips |-> 0, until |-> 0, open |-> FALSE]

available(b) == ~(b.open /\ b.until > 0)

ReopenedFor(trips) == Least(BreakerCooldown * 2 ^ trips, BreakerMaxCooldown)

\* Trips beyond the capped cooldown are alike.
MaxTrips == CHOOSE t \in 0..BreakerMaxCooldown :
                /\ BreakerCooldown * 2 ^ t >= BreakerMaxCooldown
                /\ \A u \in 0..t - 1 : BreakerCooldown * 2 ^ u < BreakerMaxCooldown

failure(b) ==
    IF b.open
    THEN IF b.until > 0 THEN b
         ELSE [b EXCEPT !.trips = Least(@ + 1, MaxTrips), !.until = ReopenedFor(b.trips + 1)]
    ELSE IF b.failures + 1 < BreakerThreshold THEN [b EXCEPT !.failures = @ + 1]
    ELSE [b EXCEPT !.open = TRUE, !.failures = 0, !.until = BreakerCooldown]

-----------------------------------------------------------------------------
(* FaultTracker *)

Unheard == Window + 1
Forgiven == -(Probation + 10 * Cooldown + 1)

MaxStrikes == CHOOSE s \in 1..MaxCooldown + 1 :
                /\ Cooldown * 2 ^ (s - 1) >= MaxCooldown
                /\ \A u \in 1..s - 1 : Cooldown * 2 ^ (u - 1) < MaxCooldown

NoReports == [d \in Deciders |-> Unheard]
NoRecord == [reports |-> NoReports, strikes |-> 0, until |-> Forgiven]

InQuarantine(r) == r.until > 0
OnProbation(r) == r.until <= 0 /\ r.until + Probation > 0

\* A report older than the window no longer counts (report drops it then).
AgedKept(reports) == [d \in Deciders |-> IF reports[d] = Unheard THEN Unheard ELSE Least(reports[d] + 1, Window)]
Aged(reports) == [d \in Deciders |-> Least(reports[d] + 1, Unheard)]

Reports(r, d) == [r.reports EXCEPT ![d] = 0]

report(r, d) ==
    LET strikes == IF r.until = Forgiven THEN 0 ELSE r.strikes
        reports == Reports(r, d)
        need == IF OnProbation(r) THEN 1 ELSE Threshold
        struck == Least(strikes + 1, MaxStrikes)
    IN CASE InQuarantine(r) -> r
         [] ~InQuarantine(r) /\ Cardinality({e \in Deciders : reports[e] # Unheard}) < need ->
                [r EXCEPT !.strikes = strikes, !.reports = reports]
         [] OTHER -> [reports |-> NoReports, strikes |-> struck,
                      until |-> Least(Cooldown * 2 ^ strikes, MaxCooldown)]

quarantined == {n \in Accused : InQuarantine(records[n])}

-----------------------------------------------------------------------------
(* The deciders *)

\* _report_fault: one datagram to the coordinator for each accused node.
_report_fault(d, accused) == faults' = faults \cup {<<d, n>> : n \in accused}

\* MeshNode.on_tick: the deadline of a leg through "via" passed.
LegTimesOut(d, via) ==
    /\ suspicion' = [suspicion EXCEPT ![d] =
                        [n \in Nodes |-> IF n \in via THEN timed_out(@[n]) ELSE @[n]]]
    /\ _report_fault(d, {n \in via : Crosses(suspicion[d][n])})
    /\ UNCHANGED <<breaker, records, nextAdvice, flight, advisories, restarts, said>>

DirectLegTimesOut(d, p) ==
    /\ breaker' = [breaker EXCEPT ![d][p] = failure(@)]
    /\ UNCHANGED <<suspicion, faults, records, nextAdvice, flight, advisories, restarts, said>>

\* MeshNode.collect: an answer came back through "via".
Collect(d, via) ==
    /\ suspicion' = [suspicion EXCEPT ![d] =
                        [n \in Nodes |-> IF n \in via THEN delivered(@[n]) ELSE @[n]]]
    /\ UNCHANGED <<breaker, faults, records, nextAdvice, flight, advisories, restarts, said>>

\* MeshNode._settle: the answer of p was accepted, rejected, or disagreed with.
Accepted(d, p) ==
    /\ breaker' = [breaker EXCEPT ![d][p] = Closed]
    /\ UNCHANGED <<suspicion, faults, records, nextAdvice, flight, advisories, restarts, said>>

Dissents(d, p) ==
    /\ breaker' = [breaker EXCEPT ![d][p] = failure(@)]
    /\ _report_fault(d, {p})
    /\ UNCHANGED <<suspicion, records, nextAdvice, flight, advisories, restarts, said>>

\* Participant.absorb: an advisory newer than the one held replaces it.
Newer(a, held) == a.lag < held.lag

absorb(d, a) ==
    /\ a \in flight[d]
    /\ flight' = [flight EXCEPT ![d] = @ \ {a}]
    /\ advisories' = IF Newer(a, advisories[d]) THEN [advisories EXCEPT ![d] = a] ELSE advisories
    /\ UNCHANGED <<suspicion, breaker, faults, records, nextAdvice, restarts, said>>

\* Participant.excluded and the breakers: what no route of d may use.
excluded(d) == suspects(d) \cup advisories[d].quarantined
                 \cup {p \in Providers : ~available(breaker[d][p])}

-----------------------------------------------------------------------------
(* The coordinator *)

_on_fault(f) ==
    LET d == f[1] n == f[2]
    IN /\ f \in faults
       /\ faults' = faults \ {f}
       /\ records' = [records EXCEPT ![n] = report(@, d)]
       /\ said' = IF InQuarantine(records[n]) THEN said ELSE [said EXCEPT ![n][d] = 0]
       /\ UNCHANGED <<suspicion, breaker, nextAdvice, flight, advisories, restarts>>

LoseFault(f) ==
    /\ f \in faults
    /\ faults' = faults \ {f}
    /\ UNCHANGED <<suspicion, breaker, records, nextAdvice, flight, advisories, restarts, said>>

\* What is published: always, also when there is nothing to say.
PublishesIfAny == quarantined # {}
Publishes == TRUE

Behind(a) == [a EXCEPT !.lag = Least(@ + 1, MaxLag + 1)]

advise ==
    /\ nextAdvice = 0
    /\ nextAdvice' = AdviseEvery
    /\ IF Publishes
       THEN /\ flight' = [d \in Deciders |->
                    {a \in {Behind(b) : b \in flight[d]} : a.lag <= MaxLag}
                      \cup {[lag |-> 0, quarantined |-> quarantined]}]
            /\ advisories' = [d \in Deciders |-> Behind(advisories[d])]
       ELSE UNCHANGED <<flight, advisories>>
    /\ UNCHANGED <<suspicion, breaker, faults, records, restarts, said>>

LoseAdvisory(d, a) ==
    /\ a \in flight[d]
    /\ flight' = [flight EXCEPT ![d] = @ \ {a}]
    /\ UNCHANGED <<suspicion, breaker, faults, records, nextAdvice, advisories, restarts, said>>

\* A restarted coordinator has counted nothing; its epochs go on from the
\* clock, which may have been set back meanwhile.
Restart(back) ==
    /\ restarts < MaxRestarts
    /\ restarts' = restarts + 1
    /\ records' = [n \in Accused |-> NoRecord]
    /\ said' = [n \in Accused |-> NoReports]
    /\ nextAdvice' = 0
    /\ flight' = [d \in Deciders |-> {[a EXCEPT !.lag = @ - back] : a \in flight[d]}]
    /\ advisories' = [d \in Deciders |-> [advisories[d] EXCEPT !.lag = @ - back]]
    /\ UNCHANGED <<suspicion, breaker, faults>>

\* One unit of time passes for everyone.
Tick ==
    /\ suspicion' = [d \in Deciders |-> [n \in Nodes |-> [suspicion[d][n] EXCEPT !.until = Later(@, 0)]]]
    /\ breaker' = [d \in Deciders |-> [p \in Providers |-> [breaker[d][p] EXCEPT !.until = Later(@, 0)]]]
    /\ records' = [n \in Accused |-> [records[n] EXCEPT
                       !.until = Later(@, Forgiven),
                       !.reports = Aged(@)]]
    /\ said' = [n \in Accused |-> [d \in Deciders |-> Least(said[n][d] + 1, Unheard)]]
    /\ nextAdvice' = Later(nextAdvice, 0)
    /\ UNCHANGED <<faults, flight, advisories, restarts>>

-----------------------------------------------------------------------------
Init ==
    /\ suspicion = [d \in Deciders |-> [n \in Nodes |-> NoSuspicion]]
    /\ breaker = [d \in Deciders |-> [p \in Providers |-> Closed]]
    /\ faults = {}
    /\ records = [n \in Accused |-> NoRecord]
    /\ nextAdvice = 0
    /\ flight = [d \in Deciders |-> {}]
    /\ advisories = [d \in Deciders |-> [lag |-> MaxLag + 1, quarantined |-> {}]]
    /\ restarts = 0
    /\ said = [n \in Accused |-> NoReports]

\* The steps in which traffic goes wrong.
Trouble ==
    \E d \in Deciders : \/ \E via \in (SUBSET Nodes) \ {{}} : LegTimesOut(d, via)
                        \/ \E p \in Providers : DirectLegTimesOut(d, p) \/ Dissents(d, p)

Next ==
    \/ Trouble
    \/ \E d \in Deciders : \/ \E via \in (SUBSET Nodes) \ {{}} : Collect(d, via)
                           \/ \E p \in Providers : Accepted(d, p)
                           \/ \E a \in flight[d] : absorb(d, a) \/ LoseAdvisory(d, a)
    \/ \E f \in faults : _on_fault(f) \/ LoseFault(f)
    \/ advise
    \/ \E back \in 0..MaxBack : Restart(back)
    \/ Tick

Spec == Init /\ [][Next]_vars

\* Time passes, the coordinator's tick comes, and of the advisories sent again
\* and again to a decider some arrive.
FairSpec ==
    /\ Spec
    /\ WF_vars(Tick) /\ WF_vars(advise)
    /\ \A d \in Deciders : SF_vars(\E a \in flight[d] : a.lag = 0 /\ absorb(d, a))

-----------------------------------------------------------------------------
TypeOK ==
    /\ suspicion \in [Deciders -> [Nodes -> [score : 0..MaxScore, until : 0..SuspectCooldown]]]
    /\ breaker \in [Deciders -> [Providers -> [failures : 0..BreakerThreshold - 1, trips : 0..MaxTrips,
                                               until : 0..BreakerMaxCooldown, open : BOOLEAN]]]
    /\ faults \subseteq Deciders \X Accused
    /\ records \in [Accused -> [reports : [Deciders -> 0..Unheard], strikes : 0..MaxStrikes,
                                until : Forgiven..MaxCooldown]]
    /\ nextAdvice \in 0..AdviseEvery
    /\ restarts \in 0..MaxRestarts
    /\ \A d \in Deciders : advisories[d].quarantined \subseteq Accused

AccusedBySeveral ==
    \A n \in Accused :
        (~InQuarantine(records[n]) /\ InQuarantine(records'[n]) /\ ~OnProbation(records[n]))
            => Cardinality({d \in Deciders : said'[n][d] <= Window}) >= Threshold

\* "One reporter can never quarantine a node" (health.py): outside probation
\* it takes Threshold different deciders whose reports were counted within the
\* window, whatever the order of the reports, the losses and earlier penalties.
SeveralAccuse == [][AccusedBySeveral]_vars

InUse == \A d \in Deciders : excluded(d) = {}

\* A node that stops causing trouble is used again: once no leg fails any more,
\* every suspicion, quarantine and open breaker ends at every decider, lost
\* advisories, a restarted coordinator and a clock set back notwithstanding.
BackInUse == <>[][~Trouble]_vars => <>[]InUse
=============================================================================
