----------------------------- MODULE MCProgress -----------------------------
(***************************************************************************)
(* What must eventually happen, on small instances side by side: `which'   *)
(* says which of them a behaviour is about, and each is scheduled with the *)
(* fairness its own module states.                                         *)
(*   work,     Supervisor: two goals, the second waits for the first, with *)
(*   orders    a crash or with an order of the operator                    *)
(*   alone     Supervisor: one goal, a crash and an order                  *)
(*   lost      Fleet: one task, two nodes, a connection lost               *)
(*   revoked   the same, a node revoked instead                            *)
(*   sync      Journal: one exchange over a network that delivers          *)
(*   spread    TrustPolicy: three nodes in a line, a store at its end      *)
(*   talk      Session: a peer that does not go silent                     *)
(*   ask       Inference: a client with one serving node and its standby   *)
(*   node,     Quarantine: a node on the way, or a model node; one         *)
(*   model     coordinator restart                                         *)
(***************************************************************************)
EXTENDS Integers, TLC

CONSTANTS e1, e2, d1, n1, n2, t1, m1, k1, q1, q2, x1, s1, p1, p2, p3, Nil

VARIABLES
  which,
  status, stops, paused, results, runs, pc, cur, prior, code, halted, crashes, controls,
  late,
  state, holder, attempts, tried, pausing, order, nodes, held, conns, calls, owner, near,
  far, up, down, fleetCur, stop, work, revoked, ended, passed, cuts, ops,
  rows, lamport, batch, net, trusted, written, losses, forged,
  file, life, known, spreadRevoked, seen, reading, subscribed, spreadNet, faults, told,
  refused, slipped,
  msgs, out, acks, asm, opening, window, talkTrusted, taken, handed, talkRefused, learned,
  given, talkLate, hearing, alive, talkUp, downs, closed,
  suspicion, breaker, healthFaults, records, nextAdvice, flight, advisories, restarts, said,
  led, pending, finished, served, ask, knows, askSeen, signed, askNet, askRestarts

ModelOf == (q1 :> "m1") @@ (q2 :> "m2")
Order == (e1 :> 1) @@ (e2 :> 2) @@ (q1 :> 4) @@ (q2 :> 5) @@ (x1 :> 6) @@ (k1 :> 7) @@ (d1 :> 0)
Author == <<e1, e1, e2, e2>>
Reader == <<e2, e2, e1, e1>>
Seq == <<1, 2, 1, 2>>
Teller == <<Nil, p1, p2, p2>>
Hearer == <<p3, p2, p1, p3>>
Neighbours == (p1 :> {p2}) @@ (p2 :> {p1, p3}) @@ (p3 :> {p2})

Work == INSTANCE Supervisor WITH Goal <- {1, 2}, Deps <- <<{}, {1}>>, max_attempts <- 2,
  MaxActs <- 1, MaxCrash <- 1, MaxControl <- 0
Orders == INSTANCE Supervisor WITH Goal <- {1, 2}, Deps <- <<{}, {1}>>, max_attempts <- 2,
  MaxActs <- 1, MaxCrash <- 0, MaxControl <- 1
Alone == INSTANCE Supervisor WITH Goal <- {1}, Deps <- <<{}>>, max_attempts <- 2,
  MaxActs <- 1, MaxCrash <- 1, MaxControl <- 1
Losing == INSTANCE Fleet WITH None <- Nil, Node <- {n1, n2}, Task <- {t1},
  Prio <- [t \in {t1} |-> 1], max_concurrent <- 1, max_task_attempts <- 2,
  Conn <- 1..3, Raises <- FALSE, Backoff <- TRUE, MaxOps <- 0, MaxCut <- 1, MaxRevoked <- 0,
  current <- fleetCur
Revoking == INSTANCE Fleet WITH None <- Nil, Node <- {n1, n2}, Task <- {t1},
  Prio <- [t \in {t1} |-> 1], max_concurrent <- 1, max_task_attempts <- 2,
  Conn <- 1..3, Raises <- FALSE, Backoff <- TRUE, MaxOps <- 0, MaxCut <- 0, MaxRevoked <- 1,
  current <- fleetCur
Sync == INSTANCE Journal WITH Node <- {e1, e2}, Writer <- {e1, e2}, Handle <- {e1, e2},
  NodeOf <- [h \in {e1, e2} |-> h], Revocable <- {}, Time <- {0}, MaxSeq <- 2,
  MaxLamport <- 3, MaxNet <- 2, MaxLoss <- 0, MaxForged <- 0
Spread == INSTANCE TrustPolicy WITH Did <- {d1, x1}, Process <- {p1, p2, p3},
  SelfOf <- [i \in {p1, p2, p3} |-> x1], Store <- {s1}, NoStore <- Nil,
  StoreOf <- (p1 :> Nil) @@ (p2 :> Nil) @@ (p3 :> s1), Peers <- Neighbours,
  Gossips <- {p1, p2, p3}, EarlyTicker <- {}, Ticker <- {1}, Obj <- {"one"},
  IdOf <- [o \in {"one"} |-> o], Revokes <- [o \in {"one"} |-> {d1}],
  Sigs <- [o \in {"one"} |-> <<m1, e2, k1>>], Master <- {m1, k1}, Threshold <- 2, Fault <- {},
  MaxFault <- 0, revoked <- spreadRevoked, net <- spreadNet
Talk == INSTANCE Session WITH MaxMsg <- 1, MaxTotal <- 2, FragmentCounts <- {1, 2},
  MaxReassemblies <- 1, RetryMax <- 2, WindowSize <- 1, MaxDown <- 0,
  trusted <- talkTrusted, refused <- talkRefused, late <- talkLate, up <- talkUp
OfNode == INSTANCE Quarantine WITH Deciders <- {d1}, Nodes <- {x1}, Providers <- {},
  SuspectThreshold <- 1, SuspectCooldown <- 1, MaxScore <- 0, BreakerThreshold <- 2,
  BreakerCooldown <- 1, BreakerMaxCooldown <- 2, Threshold <- 1, Window <- 1, Cooldown <- 1,
  MaxCooldown <- 1, Probation <- 0, AdviseEvery <- 1, MaxLag <- 0, MaxBack <- 1,
  MaxRestarts <- 1, faults <- healthFaults
OfModel == INSTANCE Quarantine WITH Deciders <- {d1}, Nodes <- {}, Providers <- {q1},
  SuspectThreshold <- 2, SuspectCooldown <- 1, MaxScore <- 2, BreakerThreshold <- 2,
  BreakerCooldown <- 1, BreakerMaxCooldown <- 2, Threshold <- 1, Window <- 1, Cooldown <- 1,
  MaxCooldown <- 1, Probation <- 0, AdviseEvery <- 1, MaxLag <- 0, MaxBack <- 1,
  MaxRestarts <- 1, faults <- healthFaults
Asking == INSTANCE Inference WITH None <- Nil, Client <- d1, Coordinator <- k1,
  MayExclude <- {}, Serving <- <<e1>>, Standby <- <<e2>>, Providers <- {q1, q2}, rogues <- {},
  Transit <- {x1}, LinkState <- {<<e1, x1>>, <<x1, q1>>, <<x1, q2>>, <<e1, k1>>, <<k1, q2>>},
  Broken <- {<<x1, q1>>}, Outputs <- {"yes"}, Quorum <- 1, Fanout <- 1, MaxTries <- 1,
  MaxAttempts <- 2, MaxRestarts <- 0, Greets <- FALSE, seen <- askSeen, wire <- askNet,
  restarts <- askRestarts

workVars == <<status, stops, paused, results, runs, pc, cur, prior, code, halted, crashes,
              controls, late>>
fleetVars == <<state, holder, attempts, tried, pausing, order, nodes, held, conns, calls,
               owner, near, far, up, down, fleetCur, stop, work, revoked, ended, passed, cuts,
               ops>>
syncVars == <<rows, lamport, batch, net, trusted, written, losses, forged>>
spreadVars == <<file, life, known, spreadRevoked, seen, reading, subscribed, spreadNet,
                faults, told, refused, slipped>>
talkVars == <<msgs, out, acks, asm, opening, window, talkTrusted, taken, handed,
              talkRefused, learned, given, talkLate, hearing, alive, talkUp, downs, closed>>
healthVars == <<suspicion, breaker, healthFaults, records, nextAdvice, flight, advisories,
                restarts, said>>
askVars == <<led, pending, finished, served, ask, knows, askSeen, signed, askNet,
             askRestarts>>
mcvars == <<workVars, fleetVars, syncVars, spreadVars, talkVars, healthVars, askVars, which>>

workIdle == status = Nil /\ stops = Nil /\ paused = Nil /\ results = Nil /\ runs = Nil /\
            pc = Nil /\ cur = Nil /\ prior = Nil /\ code = Nil /\ halted = Nil /\
            crashes = Nil /\ controls = Nil /\ late = Nil
fleetIdle == state = Nil /\ holder = Nil /\ attempts = Nil /\ tried = Nil /\ pausing = Nil
             /\ order = Nil /\ nodes = Nil /\ held = Nil /\ conns = Nil /\ calls = Nil /\
             owner = Nil /\ near = Nil /\ far = Nil /\ up = Nil /\ down = Nil /\
             fleetCur = Nil /\ stop = Nil /\ work = Nil /\ revoked = Nil /\ ended = Nil /\
             passed = Nil /\ cuts = Nil /\ ops = Nil
syncIdle == rows = Nil /\ lamport = Nil /\ batch = Nil /\ net = Nil /\ trusted = Nil /\
            written = Nil /\ losses = Nil /\ forged = Nil
spreadIdle == file = Nil /\ life = Nil /\ known = Nil /\ spreadRevoked = Nil /\ seen = Nil
              /\ reading = Nil /\ subscribed = Nil /\ spreadNet = Nil /\ faults = Nil /\
              told = Nil /\ refused = Nil /\ slipped = Nil
talkIdle == msgs = Nil /\ out = Nil /\ acks = Nil /\ asm = Nil /\ opening = Nil /\
            window = Nil /\ talkTrusted = Nil /\ taken = Nil /\ handed = Nil /\
            talkRefused = Nil /\ learned = Nil /\ given = Nil /\ talkLate = Nil /\
            hearing = Nil /\ alive = Nil /\ talkUp = Nil /\ downs = Nil /\ closed = Nil
healthIdle == suspicion = Nil /\ breaker = Nil /\ healthFaults = Nil /\ records = Nil /\
              nextAdvice = Nil /\ flight = Nil /\ advisories = Nil /\ restarts = Nil /\
              said = Nil
askIdle == led = Nil /\ pending = Nil /\ finished = Nil /\ served = Nil /\ ask = Nil /\
           knows = Nil /\ askSeen = Nil /\ signed = Nil /\ askNet = Nil /\ askRestarts = Nil

MCInit ==
  \/ /\ \/ which = "work" /\ Work!Init
        \/ which = "orders" /\ Orders!Init
        \/ which = "alone" /\ Alone!Init
     /\ fleetIdle /\ syncIdle /\ spreadIdle /\ talkIdle /\ healthIdle /\ askIdle
  \/ /\ \/ which = "lost" /\ Losing!FleetInit
        \/ which = "revoked" /\ Revoking!FleetInit
     /\ workIdle /\ syncIdle /\ spreadIdle /\ talkIdle /\ healthIdle /\ askIdle
  \/ which = "sync" /\ Sync!Init /\ workIdle /\ fleetIdle /\ spreadIdle /\ talkIdle
     /\ healthIdle /\ askIdle
  \/ which = "spread" /\ Spread!PolicyInit /\ workIdle /\ fleetIdle /\ syncIdle /\ talkIdle
     /\ healthIdle /\ askIdle
  \/ which = "talk" /\ Talk!Init /\ workIdle /\ fleetIdle /\ syncIdle /\ spreadIdle
     /\ healthIdle /\ askIdle
  \/ /\ \/ which = "node" /\ OfNode!Init
        \/ which = "model" /\ OfModel!Init
     /\ workIdle /\ fleetIdle /\ syncIdle /\ spreadIdle /\ talkIdle /\ askIdle
  \/ which = "ask" /\ Asking!AskInit /\ workIdle /\ fleetIdle /\ syncIdle /\ spreadIdle
     /\ talkIdle /\ healthIdle

MCNext ==
  /\ UNCHANGED which
  /\ \/ /\ \/ which = "work" /\ Work!Next
           \/ which = "orders" /\ Orders!Next
           \/ which = "alone" /\ Alone!Next
        /\ UNCHANGED <<fleetVars, syncVars, spreadVars, talkVars, healthVars, askVars>>
     \/ /\ \/ which = "lost" /\ Losing!FleetNext
           \/ which = "revoked" /\ Revoking!FleetNext
        /\ UNCHANGED <<workVars, syncVars, spreadVars, talkVars, healthVars, askVars>>
     \/ /\ which = "sync" /\ Sync!ExchangeNext
        /\ UNCHANGED <<workVars, fleetVars, spreadVars, talkVars, healthVars, askVars>>
     \/ /\ which = "spread" /\ Spread!SteadyNext
        /\ UNCHANGED <<workVars, fleetVars, syncVars, talkVars, healthVars, askVars>>
     \/ /\ which = "talk" /\ Talk!Next
        /\ UNCHANGED <<workVars, fleetVars, syncVars, spreadVars, healthVars, askVars>>
     \/ /\ \/ which = "node" /\ OfNode!Next
           \/ which = "model" /\ OfModel!Next
        /\ UNCHANGED <<workVars, fleetVars, syncVars, spreadVars, talkVars, askVars>>
     \/ /\ which = "ask" /\ Asking!AskNext
        /\ UNCHANGED <<workVars, fleetVars, syncVars, spreadVars, talkVars, healthVars>>

On(w, F) == which = w /\ F
Chained(F) == which \in {"work", "orders"} /\ F
Handed(F) == which \in {"lost", "revoked"} /\ F

MCSpec ==
  /\ MCInit /\ [][MCNext]_mcvars
  /\ WF_workVars(Chained(Work!Worker)) /\ WF_workVars(Chained(Work!start))
  /\ WF_workVars(On("alone", Alone!Worker)) /\ WF_workVars(On("alone", Alone!start))
  /\ WF_fleetVars(Handed(Losing!Lock))
  /\ \A c \in 1..3 : /\ WF_fleetVars(Handed(Losing!Thread(c)))
                     /\ WF_fleetVars(Handed(Losing!Desk(c)))
                     /\ WF_fleetVars(Handed(Losing!WorkerOf(c)))
  /\ \A n \in {n1, n2} : WF_fleetVars(Handed(Losing!dial(n)))
  /\ \A h \in {e1, e2} :
       /\ WF_syncVars(On("sync", Sync!_accept(h)))
       /\ WF_syncVars(which = "sync" /\ \E f \in net : Sync!on_have(h, f, FALSE))
       /\ WF_syncVars(which = "sync" /\ \E f \in net : Sync!on_events(h, f, FALSE))
  /\ \A i \in {p1, p2, p3} :
       /\ WF_spreadVars(On("spread", Spread!CheckSelf(i))) /\ WF_spreadVars(On("spread", Spread!on_change(i)))
       /\ WF_spreadVars(which = "spread" /\ \E f \in spreadNet : f.to = i /\ Spread!_on_frame(f))
  /\ WF_spreadVars(On("spread", Spread!refresh_stat(p3, 1)))
  /\ WF_spreadVars(On("spread", Spread!refresh_load(p3, 1)))
  /\ SF_talkVars(which = "talk" /\ \E heard, hello \in BOOLEAN : Talk!tick({1}, heard, hello))
  /\ WF_talkVars(On("talk", Talk!heartbeat)) /\ WF_talkVars(On("talk", Talk!tickCalls))
  /\ WF_askVars(On("ask", Asking!Ask)) /\ WF_askVars(On("ask", Asking!ClientTick))
  /\ WF_healthVars(On("node", OfNode!Tick)) /\ WF_healthVars(On("node", OfNode!advise))
  /\ WF_healthVars(On("model", OfModel!Tick)) /\ WF_healthVars(On("model", OfModel!advise))
  /\ SF_healthVars(which = "node" /\ \E v \in flight[d1] : v.lag = 0 /\ OfNode!absorb(d1, v))
  /\ SF_healthVars(which = "model" /\ \E v \in flight[d1] : v.lag = 0 /\ OfModel!absorb(d1, v))

(* What was begun ends.  A goal whose dependencies are done ends, unless    *)
(* the operator parks it, reopens a dependency or halts the node; a         *)
(* submitted task ends or is parked, unless every node is revoked; a        *)
(* reliable message is acknowledged or reported undeliverable, unless the   *)
(* session is closed first; and every ask of the mesh's user gets an        *)
(* outcome - through crashes, retries, lost nodes and reconnections         *)
(* (Supervisor.run_goal, FleetCoordinator, DialogueSession.tick,            *)
(* UserClient.on_tick).                                                     *)
WorkEnds ==
  \A n \in {1, 2} :
    (\/ Chained(Work!Owed(n)) \/ On("alone", Alone!Owed(1)) \/ Handed(Losing!TaskOwed(t1))
     \/ On("talk", out[1] > 0) \/ which = "ask")
      ~> (\/ Chained(Work!Ended(n)) \/ On("alone", Alone!Ended(1)) \/ Handed(Losing!TaskEnded(t1))
          \/ On("talk", Talk!Answer(1)) \/ On("ask", ask.outcome # Nil))

(* What one side of an exchange had written when it was started the other   *)
(* gets; the processes of a store come to refuse what its records revoke;   *)
(* and what a node without a store comes to refuse, a peer that listened    *)
(* before comes to refuse (on_have, on_events, PolicyRefresher, _on_frame). *)
RecordsSpread ==
  \A n \in 1..4 :
    []((which = "spread" /\ n > 1 => Spread!Listening(Hearer[n]) /\ d1 \notin spreadRevoked[Teller[n]])
        => ((\/ On("sync", Sync!Owes(Author[n], Reader[n], Author[n], Seq[n]))
             \/ On("spread", IF n = 1 THEN Spread!Stored(p3, d1) ELSE Spread!Knows(Teller[n], d1)))
             ~> (\/ On("sync", Seq[n] \in Sync!SeqsOf(rows[Reader[n]], Author[n]))
                 \/ On("spread", Spread!Heard(Hearer[n], d1)
                                  \/ (n > 1 /\ life[Teller[n]] = "halted")))))

(* A node that stops causing trouble is used again: every suspicion,        *)
(* quarantine and open breaker ends, lost advisories, a restarted           *)
(* coordinator and a clock set back notwithstanding (FaultTracker,          *)
(* Suspicion, CircuitBreaker, Coordinator.on_tick).                         *)
BackInUse ==
  <>[][(which = "node" => ~OfNode!Trouble) /\ (which = "model" => ~OfModel!Trouble)]_mcvars
    => <>[]((which = "node" => OfNode!InUse) /\ (which = "model" => OfModel!InUse))
=============================================================================
