----------------------------- MODULE MCInference -----------------------------
(***************************************************************************)
(* The inference mesh on small instances, side by side: `which' says which *)
(* of them a behaviour is about.                                           *)
(*   mint, dark   Mutiny with leases: the key can be rotated, or not       *)
(*   beat         Mutiny with leases and heartbeats that name them         *)
(*   ledger       Mutiny with a user and its directory, without leases     *)
(*   path         Inference over a path with a broken link and a central   *)
(*                fallback                                                 *)
(*   rogue        the same with a model node that signs anything, and a    *)
(*                restart of a model node                                  *)
(*   fan          Inference with the request sent to two servers           *)
(*   shut         the same, one of the two reaching a rogue model node     *)
(*   agree        Inference with two model nodes that have to agree        *)
(*   suspect      Quarantine: two deciders suspect a node on their way     *)
(***************************************************************************)
EXTENDS Mutiny, Inference, TLC

CONSTANTS a, b, k1, u, e1, e2, f, p1, p2, t1, c, Nil

VARIABLES
  which,
  suspicion, breaker, faults, records, nextAdvice, flight, advisories, suspectRestarts, said

MCNodes == {a, b}
MCLinks == {<<a, b>>, <<k1, b>>}
Reports == ("i1" :> [kind |-> "decider.tampering", node |-> a])
        @@ ("i2" :> [kind |-> "model.forbidden-capability", node |-> a])
        @@ ("i3" :> [kind |-> "provider.secret-exfiltration", node |-> a])
OneReset == "r1" :> [targets |-> {node_target(a), model_target, decider_target(a)}, ids |-> DOMAIN Reports]
Exfiltration == [i \in {"i3"} |-> Reports[i]]
Tampering == [i \in {"i1", "i2"} |-> Reports[i]]

ModelNames == (p1 :> "m1") @@ (p2 :> "m2")
Ranks == (u :> 0) @@ (e1 :> 1) @@ (e2 :> 2) @@ (f :> 3) @@ (p1 :> 4) @@ (p2 :> 5) @@ (t1 :> 6) @@ (c :> 7)
OneServer == <<e1>>
OneForwarder == <<f>>
Hops == {<<e1, t1>>, <<t1, p1>>, <<t1, p2>>, <<e1, c>>, <<c, p2>>}
Cut == {<<t1, p1>>}
Direct == {<<e1, p1>>, <<e2, p1>>, <<e1, p2>>, <<e2, p2>>}

Mint == INSTANCE Mutiny WITH Objects <- Exfiltration, MaxBeats <- 0
Dark == INSTANCE Mutiny WITH Objects <- Exfiltration, CanMint <- FALSE, MaxBeats <- 0
Beat == INSTANCE Mutiny WITH Objects <- Exfiltration, MaxTime <- 0
Ledger == INSTANCE Mutiny WITH Objects <- Tampering, Sources <- {a, b}, Entries <- {a, b},
  MaxLeases <- 0, MaxVersion <- 1, MaxTime <- 0, MaxBeats <- 0, MaxDirs <- 1
Path == INSTANCE Inference WITH Outputs <- {"yes"}, MaxRestarts <- 0, Greets <- TRUE
Fan == INSTANCE Inference WITH Serving <- <<e1, e2>>, Transit <- {}, LinkState <- Direct,
  Broken <- {}, Fanout <- 2, MaxAttempts <- 1, MaxRestarts <- 0
Shut == INSTANCE Inference WITH Serving <- <<e1, e2>>, Standby <- <<>>, Transit <- {},
  LinkState <- {<<e1, p2>>, <<e2, p1>>}, Broken <- {}, Outputs <- {"yes"}, Fanout <- 2,
  MaxAttempts <- 1, MaxRestarts <- 0
Agree == INSTANCE Inference WITH Standby <- <<>>, LinkState <- {<<e1, p1>>, <<e1, p2>>},
  Broken <- {}, Outputs <- {"yes"}, Quorum <- 2, MaxAttempts <- 1, MaxRestarts <- 0
Suspect == INSTANCE Quarantine WITH Deciders <- {e1, e2}, Nodes <- {t1}, Providers <- {},
  SuspectThreshold <- 1, SuspectCooldown <- 1, MaxScore <- 0, BreakerThreshold <- 2,
  BreakerCooldown <- 1, BreakerMaxCooldown <- 2, Threshold <- 2, Window <- 1, Cooldown <- 1,
  MaxCooldown <- 2, Probation <- 1, AdviseEvery <- 1, MaxLag <- 0, MaxBack <- 0,
  MaxRestarts <- 0, restarts <- suspectRestarts

suspectVars == <<suspicion, breaker, faults, records, nextAdvice, flight, advisories,
                 suspectRestarts, said>>
mcvars == <<vars, askVars, suspectVars, which>>

askIdle == AskInit /\ rogues = {}
suspectIdle == suspicion = Nil /\ breaker = Nil /\ faults = Nil /\ records = Nil /\
               nextAdvice = Nil /\ flight = Nil /\ advisories = Nil /\ suspectRestarts = Nil
               /\ said = Nil

MCInit ==
  /\ Init
  /\ \/ which \in {"mint", "dark", "beat", "ledger"} /\ askIdle /\ suspectIdle
     \/ /\ \/ which = "path" /\ rogues = {} /\ Path!AskInit
           \/ which = "rogue" /\ rogues = {p2} /\ AskInit
           \/ which = "fan" /\ rogues = {} /\ Fan!AskInit
           \/ which = "shut" /\ rogues = {p2} /\ Shut!AskInit
           \/ which = "agree" /\ rogues = {} /\ Agree!AskInit
        /\ suspectIdle
     \/ which = "suspect" /\ Suspect!Init /\ askIdle

MCNext ==
  /\ UNCHANGED which
  /\ \/ /\ \/ which = "mint" /\ Mint!Next
           \/ which = "dark" /\ Dark!Next
           \/ which = "beat" /\ Beat!Next
           \/ which = "ledger" /\ Ledger!Next
        /\ UNCHANGED <<askVars, suspectVars>>
     \/ /\ \/ which = "path" /\ Path!AskNext
           \/ which = "rogue" /\ AskNext
           \/ which = "fan" /\ Fan!AskNext
           \/ which = "shut" /\ Shut!AskNext
           \/ which = "agree" /\ Agree!AskNext
        /\ UNCHANGED <<vars, suspectVars>>
     \/ which = "suspect" /\ Suspect!Next /\ UNCHANGED <<vars, askVars>>

MCSpec == MCInit /\ [][MCNext]_mcvars

(* Nobody is trusted or accused in haste: no ordinary answer is accepted    *)
(* once the client knows of a mutiny, one already on its way included; and  *)
(* one reporter never quarantines a node - outside probation it takes       *)
(* several deciders whose reports were counted within the window, whatever  *)
(* order reports, losses and earlier penalties come in                      *)
(* (UserClient.on_incident, FaultTracker.report).  A request a server keeps *)
(* has a leg still open.                                                    *)
NeverInHaste ==
  [][/\ NotOrdinary
     /\ CASE which = "path" -> Path!AskTypeOK
          [] which = "rogue" -> AskTypeOK
          [] which = "fan" -> Fan!AskTypeOK
          [] which = "shut" -> Shut!AskTypeOK
          [] which = "agree" -> Agree!AskTypeOK
          [] which = "suspect" -> Suspect!AccusedBySeveral
          [] OTHER -> TRUE]_mcvars
=============================================================================
