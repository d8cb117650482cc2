# secdogie: TLA+ models, model checking and proofs

This directory holds TLA+ models of the Python system in this repository: the
replicated journal, revocation, the goal supervisor and its memory, the network under
the nodes, the operator's dialogue, the fleet, the inference mesh and the desktop
agent. TLC checks each model on small instances; TLAPS proves the invariants that
matter most for every size. `PROJECT.json` lists components, runs, the source lines
behind every definition (`map`), the mutations that show each property can fail
(`mutants`), the hazards and the theorems. Paths below are relative to the repository.

```
tlc -workers 2 -config MCJournal.cfg MCJournal     # one run
tlapm JournalProofs.tla                            # one module of proofs
```

## 1. The system and its parts

secdogie runs AI agents on the machines of one operator. A *node* hosts an agent
under a supervisor; nodes know each other by DID, talk over authenticated frames,
replicate a signed journal, and obey the operator's signed decisions and the
revocations of a set of masters.

| Part (directory) | State | Hard behaviour | What makes it correct |
|---|---|---|---|
| journal, replication (`citadel`) | rows per author, cached Lamport clock | merges interleave with appends; lost files; loss and repetition | chains verify, forks are not spliced, clocks respect causality, an exchange converges |
| supervisor, runs, goals (`citadel`, `node`) | goals, controls, runs and steps, halt flag | a crash between any two appends; operator requests under a running goal | one open run per goal, a recorded crash is checked before redoing, goals end |
| consolidated memory (`citadel`) | asserted and retracted memories, candidates, offers | a pass beside new events; confirmations of something else | what is planned with was confirmed or has its evidence; contradicted cautions go |
| revocation (`identity`, `transport` gossip) | records, revoked DIDs, store, stamp | refresher, gossip and operator at once; failed writes; start-up order | only a threshold of masters revokes, nothing written is forgotten |
| direct transport (`transport` udp, sealed, failover) | counters, replay windows, endpoints | repeated and reordered frames; two paths; rebinds; restarts | delivered at most once, endpoint follows the newest frame |
| relay, rendezvous, upgrade, DHT (`transport`) | leases, registrations, probes, buckets | delayed registrations, late answers, restarts | a live lease is where the client registered last; a path is direct only once proven |
| dialogue session (`dialogue` session) | outbox, reassembly, replay guard, up/down | late acknowledgements, give-up races | what is acknowledged was handed up or refused, an abstract channel is implemented |
| operator bridge and gates (`dialogue`, `citadel` gates) | challenges, one-shot confirmation | loop thread against session thread | a risky step runs only with its own signature, a challenge settles once |
| inspector and scripts (`dialogue` publisher, inspector, app) | generations, trees, handles, script position | lost deltas, restarts, look-alike challenges | the view is a tree that was published; "ok" means done |
| fleet (`fleet`) | tasks, nodes, dispatch order, workers | node loss, reconnects, stale results | who runs a task holds it, what is queued is dispatched |
| inference mesh (`inference`) | leases, latches, requests, suspicions | incidents and resets in any order, misbehaving nodes | exposed keys are not lent, answers are agreed on, honest nodes are not convicted |
| agent loop (`agent` loop) | step, plan, stalls, macro, trace | five modes, replay, stop in the middle | high risk is confirmed, a stop ends it within an action |
| agent's hands and eyes (`agent`) | focus, clipboard, boxes, trees, targets | the user beside the agent, torn frames, stale trees | it acts where it was sent, on what it meant, as it was allowed |

How they interact: the supervisor writes every goal, run, step and result through
the journal; replication carries the journal in transport frames; the trust policy
decides which authors a merge accepts and which peers a transport opens frames of,
and its callback halts the supervisor; the operator's dialogue session brings the
controls the supervisor reads between turns and the signatures the gate waits for;
the loop runs under the supervisor and acts through the hands and eyes.

The models meet at those seams. `Journal` has `Revoke`, the effect of a policy
change on a replica's allowlist; `Supervisor` has `halt`, the policy's callback, and
treats an append as atomic and durable, which `Journal` justifies for a file with one
process; `Operator` runs over a network that `Session` supplies, and relies on no
order; `DirectTransport` supplies at-most-once delivery that `Journal` does without.

Not modelled: the C tunnel, the Rust state graph, the TypeScript symbiont gates, the
webrtc worker and the native readers are other programs beside the Python system;
cryptography, encodings, wire validation and user interfaces have no state to check.
`components` in `PROJECT.json` has the full list with reasons.

## 2. Modules

| Module | Code | Content |
|---|---|---|
| `Journal` | `citadel` journal, sync, replication | append, per-event merge, exchange, crashes, lost files, forged events |
| `Supervisor` | `citadel` supervisor, run, recovery, goals; `node` node | scheduling, run recording, recovery, controls |
| `Memory` | `citadel` episodes, lessons, consolidate | the consolidation pass, offers and confirmations |
| `TrustPolicy` | `identity` policy, revocation; gossip; start-up of three commands | records, the store and its faults, flood, halt |
| `ReplayWindow`, `DirectTransport` | `transport` sealed, udp, failover | the bitmap, counters, roaming, two paths |
| `Relay`, `Rendezvous`, `Upgrade`, `Directory` | `transport` relay, rendezvous, upgrade, dht | leases, lookups, probes, records |
| `Session`, `Channel` | `dialogue` session, protocol | reliable messages over a lossy link; the channel they implement |
| `Operator` | `dialogue` agent_bridge, dialogue, guard; `citadel` gates | the gate's decision; challenges and confirmations |
| `View`, `Script` | `dialogue` publisher, inspector, app | snapshots and deltas; scripted operator runs |
| `Fleet` | `fleet` coordinator, server, node | tasks, nodes, connections, workers |
| `Mutiny` | `inference` mutiny, lease, broker, participant | incidents, latches, resets, leases, rotation |
| `Inference` | `inference` router, node, client, safety, topology | requests, legs, quorum, lockdown |
| `Quarantine` | `inference` health, breaker, coordinator | suspicion, quarantine, breaker, advisories |
| `AgentLoop` | `agent` loop, harness, macro, plan, trace | the loop and all its ways out |
| `Focus`, `Hud`, `Skill`, `Reflex`, `FocusNav`, `LocalMemory` | `agent` modules of these names | what the agent does |
| `Perception`, `Fusion`, `Targeting` | `agent` perception, observation, target | what the agent sees |
| `*Proofs` | | TLAPS proofs about the module of that name; `CitadelProofs` is about `Supervisor`, `Fleet` and `Memory`, `DirectTransportProofs` also about `Upgrade`, `OperatorProofs` also about `Focus` |
| `MC*` | | instances for TLC |

Operators named "Mutation of X" stand before X; they are plausible bugs in X and are
used only by the entries of `mutants`.

Most `MC*` modules hold several instances side by side. A variable `which` is chosen
initially and says which instance a behaviour is about; the variables of the others
hold `Nil` or an initial state and never change. Each instance is explored as if alone, and one run asks
one question of components that belong together.

How state and actions correspond to the code, per component:

- **Journal.** `rows[n]` is the `events` table of a file, `lamport[h]` the `_lamport`
  of one open object, `batch[h]` what `merge` still loops over: files and objects are
  separate because a running node and the command line open the same file. `_accept`
  is one turn of the loop of `merge`, which takes the lock once per event. The hash is
  a number per author; a signature verifies exactly for members of `written`.
- **Supervisor.** What the journal stores is kept folded. Each journal append is an
  action and `Crash` falls between any two; `pc` is the worker's place in `run_goal`;
  a step is recorded after its action, as `agent_run_task` does. `runs[g]` holds the
  runs of a goal until it is settled: closed runs are never read again.
- **Memory.** `episodes[n]` are the verified runs a node can read, `events[n]` its
  assertions and retractions, `store[n]` the quarantine as a set: which candidates were
  seen longest ago, and make room, is the wall clock's. A pass reads in one action
  (`run_ends`) and writes in another (`consolidate`), so that the operator's requests,
  which another thread handles, and replication fall in between; `build_memory` is the
  set of records that nothing later undoes. The app and the node exchange offers,
  requests and answers as messages that may be given up.
- **TrustPolicy.** `file[s]` is a store as whole lines and the unterminated rest of a
  cut-off write. `refresh` is two actions (stamp, then load). `life` is how far
  start-up has come, in the order of each caller: a process in `EarlyTicker` refreshes
  before it checks itself and subscribes (`citadel/cli.py`), one in `Gossips` hears its
  peers between the two (`relay_node.py`). `slipped` is a history: who merged a record
  of its own DID in that window, or in an append that raised.
- **DirectTransport.** `net` never forgets a datagram: any may arrive late, again, out
  of order or never. `newest` is asked before the window takes the counter. The bitmap
  is the set of its one bits, cut to `Size`.
- **Relay, Rendezvous, Upgrade, Directory.** One action per frame handler; clocks are
  explicit and bounded; messages are a growing set. In `Upgrade` a probe is two actions,
  by any of several threads: `Aim` records the pending endpoint and sets the
  transport's, `route_probe` reads that one again and sends; a frame handled in between,
  or another thread, may have turned it (`TurnTo`, the history `swerved`).
- **Session.** `out` is the outbox with its retries, `asm` reassembly, `window` the
  replay guard (`ReplayWindow` again). `receive` holds the code's order: duplicate,
  acknowledge, open, refuse or hand up. `tick` counts down and `tickCalls` makes the
  callbacks after the lock is released.
- **Operator.** The loop thread's `pc` walks `next_action`, `authorized`, `remember`,
  `plan_gate`, `confirm` and `execute`; the node's session thread runs `on_response`,
  `on_peer_down` and `resolve`; the app signs and answers. Lock regions are actions.
- **Fleet.** Coordinator state is per task and node; each connection has its two
  directions as sequences and its worker; `down` and `brain` are what the node's
  side knows. A line is verified before the lock is taken: `passed` are the connections
  whose next line passed while its signer was still trusted.
- **Inference.** A handler is an operator from a server's state record to the next one
  and the frames it sends (`_decide`, `_settle`, `publish` as the code nests them).
- **AgentLoop.** `phase` is the place in the body of `run_task`; a configuration is
  chosen initially; the model's answer is any of `Choices`.
- **Hands and eyes.** One module per file; the other party (user, window system, GUI
  thread, producer of frames) has actions of its own. Every key call may raise (the
  fail-safe corner), the `keyUp` of a release too: that, and a clipboard that cannot be
  read or written, is what the history `spoiled` of `Focus` remembers.

## 3. Runs

Nine passing runs and three that exhibit a disagreement between code and text.

| Run | Instances and bounds | Checks |
|---|---|---|
| `journal` | 1 author that may lose its file and 2 replicas, 2 events, 2 messages in flight; 2 authors, 1 revocable, 1 forged event | `VerifyOK`, `ForkConsistency`, `LamportCausality` |
| `citadel` | 1 goal, 2 attempts, 2 actions, 2 crashes, 1 request; the staged memory: 2 nodes with up to 4 runs and 3 events, a rogue member with 1 event and 1 request, 1 node with 2 requests | `OneOpenRun`, `RecordedCrashIsChecked`, `OnlyACrashBreaksTheChain`, `MemoryIsEarned`, `ContradictedIsRetracted` |
| `network` | 2 nodes, 3 addresses, window of 2, 4 counters, 1 rebind, 1 restart; small relay, rendezvous and DHT instances; 2 endpoints dialled by 2 threads with 2 probes | `AtMostOnce`, `WindowExact`, `EndpointIsNewest`, `FoundIsSo`, `DirectIsProven` |
| `fleet` (`MCCitadel` with `MCFleet.cfg`) | 2 tasks of different priority, 2 nodes, 3 connections, 1 cut connection, 1 operator request, 2 attempts | `RunningIsHeld`, `QueueIsComplete` |
| `dialogue` | 2 messages of 1-2 fragments, 1 reassembly slot, 1 silence; 3 screens; scripts of up to 3 steps | `AckedIsHanded`, `ImplementsChannel`, `ToldIsSo` |
| `inference` | 2 nodes, a broker and a user with 3 incidents and a reset; 2 servers, 2 model nodes of which one may lie, a broken link; 2 deciders | `LatchedByWhatIsKnown`, `ExposedIsNeverLent`, `RevokedStaysOut`, `AcceptedIsAgreed`, `HonestIsNotConvicted`, `NeverInHaste` |
| `node` (`MCNode`) | the agent loop: 6 configurations, 12 actions, up to 4 steps, a stop at any time; the policy: 2 processes that gossip, one with an early refresher, 1 store, 3 record objects, 2-of-2 masters, 1 fault of 4 kinds | `HighRiskIsConfirmed`, `StopWithinAStep`, `TraceTellsAll`, `OnlyMastersRevoke`, `NeverForgets`, `NoRevokedRunner` |
| `hands` | 2 gated steps of the operator's gate and 9 other instances, listed at the head of `MCHands` | `ExecutedIsSigned`, `SettledOnce`, `HandsOff`, `AllowedIsMeant`, `SeenIsThere`, `AimIsMeant`, `StaysInScope` |
| `progress` | 10 instances with fairness | `WorkEnds`, `RecordsSpread`, `BackInUse` |
| `trust_revoked` | the policy of `node` without gossip and faults | `NoRevokedWork`: violated |
| `perception_tree` | every window of four elements | `ParentIsNearestKept`: violated |
| `supervisor_redo` | 1 goal, 1 crash | `RedoIsChecked`: violated |

What the properties say is in the comment above each. The bounds are named constants
in the guards. They are the smallest at which the hazard of each property arises: two
replicas of a fork are needed to splice it, two crashes for a crash during recovery,
a window of two for both edges of a shift, three connections for a connection that is
superseded while an older worker still runs, and one reassembly slot for eviction.
The mutants confirm it: each property is violated, under the same bounds, by a
plausible bug.

`journal` uses symmetry over its replicas, `fleet` over its nodes and `hands` over its
windows; no run with a liveness property does. `fleet` looks at one kind of trouble at a time (`OneTrouble`:
a revoked node, or a cut connection and an operator request). The three violating runs
use the modules of `node`, `hands` and `citadel` with only the instance they are about.
Deadlock is not checked: bounded counters stop every model, and a script, a skill or a
run of the loop really ends.

### Fairness

`progress` gives weak fairness to the steps of threads that are alive (the worker,
the refresher, timers) and to delivery where the code repeats a message until it is
answered; strong fairness to a step that a lossy link may disable again and again (a
retransmitted fragment, a frame of an advisory). Nothing is assumed of crashes, the
operator, revocations or of a node that misbehaves. `BackInUse` is conditional: once
trouble has stopped for good, the node is used again for good.

Gossip is not repeated: a record goes to each peer in one datagram
(`RevocationGossip.broadcast`), and a node that is offline does not catch up. In the
spread instance of `progress` a datagram to a process that does not listen may vanish,
and `RecordsSpread` claims delivery only to peers that listened when its sender came to
know the record. That a datagram to a listening peer arrives is an assumption of that
instance; without it only the store spreads a record.

### Refinement

`Channel` is what a session promises its user: a message is taken, handed over at most
once or refused, and its sender learns at most one outcome. `ImplementsChannel`
checks `Session` against it under the mapping at the end of `Session`, for the
session instances of `dialogue`.

## 4. What the violating runs and other comparisons show

- `trust_revoked`: the refresher is started before the node checks its own DID and
  subscribes its halt (`citadel/cli.py:87`, `:110`, `:122`). A record that is merged in
  between calls nobody, and the supervisor runs on under a DID its own policy refuses,
  against the comment at `citadel/cli.py:106`. The relay has the same window between
  its gossip handler and its subscription (`relay_node.py:198`, `:203`).
  `NoRevokedRunner` holds and says that there is no other way.
- `perception_tree`: the depth rule of `_parents_from_depth` attaches the children of
  a pruned element to a kept sibling before it (`perception/adapter.py:226`).
- `supervisor_redo`: a crash after an action and before its record leaves the next
  run without the check-before-redoing note (`supervisor.py:241`).

Other places where the models show the code to do less than its text says. The
definitions named are in the modules, with the text they quote; no run lists them.

- Two processes on one journal file may sign events whose clocks do not follow their
  sequence numbers (`ReplayOrder`; `journal.py:15`).
- A store that cannot be read once is not read again until it changes
  (`StoreReaches` in `TrustPolicy`).
- A restarted publisher reuses generations, and a view may mix two trees until the
  next full snapshot (`NeverAGuess`; `inspector.py:16`). `ToldIsSo` is about a
  publisher that is not restarted.
- A reliable message may be reported undeliverable and have been handed over
  (`GivenUpNeverGot`; `dialogue/app.py:99`, `:555`).
- The owner of a session may be told "down" after "up": the callbacks of `tick` are
  made after its lock is released, and a frame may bring the peer back in between
  (`OwnerKnows`; the module docstring of `dialogue/session.py`).
- While a new candidate is probed, traffic goes to it, also when the path is direct
  (`upgrade.py:186`); and an ack may declare an endpoint direct at which the peer was
  given no probe, when the transport's endpoint turned between the aim and the route of
  the probe (`RoundTripProven`; the comment at `upgrade.py:219`).
- A hello that was verified just before its signer was revoked registers the node after
  `drop_revoked` looked for it, and the connection stays (`RevokedIsDropped` in `Fleet`;
  `server.py:105`).
- `RetractedStaysOut`, `RenderedIsReviewed`, `LookupIsFresh`,
  `NoFrameBeforeFocus`, `ClickedIsStill`, `CompletedIsWhole`, `CycledIsOnNoRing`,
  `FocusAborts`, `ReadFitsBudget`, `IsOffered`: stated beside the code they are about.

## 5. Proofs

TLC looks at a few nodes, messages and steps; the theorems below hold for every value
of the constants that satisfies the module's named assumption: `JournalConstants`,
`TransportConstants` with `AddrAssumption` and `SizeAssumption`, `UpgradeConstants`, `TrustConstants`,
`MutinyConstants`, `SessionConstants`, `LoopConstants`, `OperatorConstants`, `FocusConstants`,
`SupervisorConstants`, `FleetConstants`, `MemoryConstants`, `InferenceConstants`. They say
of which types the constants are and that the values for "nothing" are not values of data;
`MemoryConstants` also that a caution, whose text is a fixed phrase over a hash, does not
look like a credential, and `InferenceConstants` that there are finitely many model nodes,
that a leg makes at most three attempts (the code's limit) and that the client is not
itself a server or a model node. Every bound of section 3 is a
constant, so the theorems hold for any number of events, crashes, losses, retransmissions and steps.

| Module | Theorems | What they say |
|---|---|---|
| `JournalProofs` | `TypeCorrect`, `VerifyHolds`, `ForksNeverSplice`, `AuthorHoldsItsChain`, `ClockRespectsCausality` | every replica verifies; replicas that share an event share the author's past; with no file lost the author's own file is ahead of every copy; with one process per file clocks respect causality |
| `DirectTransportProofs` (`DirectTransport`) | `TypeCorrect`, `DeliversOnce`, `WindowsAreExact`, `EndpointsMoveForward`, `EndpointsFollowNewest` | at most once under any repetition and order; the bitmap is exactly what was delivered; the endpoint never goes back |
| `DirectTransportProofs` (`Upgrade`) | `UpgradeTypeCorrect`, `PathsAreProven` | a path becomes direct on a pending probe the peer was given and the node had not given up on, at that very endpoint unless the transport's endpoint turned between the probe's aim and its route |
| `TrustPolicyProofs` | `TypeCorrect`, `RevocationIsSigned`, `SubscriberToldOnce`, `RevokedHalts`, `RevocationIsPermanent` | only a threshold revokes; one call per DID; who serves although its policy refuses it slipped past its halt between check and subscription, or in a failed append, in this very life; nothing a policy with a store ever refused is forgotten |
| `MutinyProofs` (`Mutiny`) | `TypeCorrect`, `LatchesConverge`, `RevocationStands`, `ExposedStaysBehind` | latches are a function of the records known; revoked leases stay out; exposed keys are not lent |
| `MutinyProofs` (`Inference`) | `AskTypeCorrect`, `AcceptedAnswersAreAgreed`, `HonestNodesAreNotConvicted`, `NoOrdinaryAnswer` | an accepted answer was signed for that request by a quorum of model nodes, and a server replies once; an honest model node that is not restarted is convicted nowhere; no ordinary answer after a known mutiny |
| `SessionProofs` | `TypeCorrect`, `AckIsWorthIt`, `SessionImplementsChannel` | an acknowledged message was handed up or refused; the session implements the channel |
| `OperatorProofs` (`Operator`) | `TypeCorrect`, `ActsOnItsOwnSignature`, `AsksOverObjections`, `SettlesOnce` | a destructive step runs with its own signature; a challenge settles once |
| `OperatorProofs` (`Focus`) | `FocusTypeCorrect`, `HandsComeOff`, `UntaggedHitsItsTarget` | between actions no key is held unless a `keyDown` or `keyUp` raised, and the clipboard is what the user last put there unless reading or writing it failed or the user copied within the paste; the window restored is the user's; input without a warning went to the window asked for |
| `CitadelProofs` (`Supervisor`) | `TypeCorrect`, `WorksInOneRun`, `CrashIsToldOf`, `ChainsVerify`, `StopsPromptly`, `DoneStaysDone` | one open run per goal; a recorded crash is checked before redoing; only a crash breaks a run's chain; a stop lets one action through; done goals stay done |
| `CitadelProofs` (`Fleet`) | `FleetTypeCorrect`, `RunsOnItsHolder`, `QueueStaysComplete` | a running task has a node that is connected and has it in its record; a queued task is in the order of dispatch, once and by priority; attempts are counted |
| `CitadelProofs` (`Memory`) | `MemoryTypeCorrect`, `MemoryStaysEarned`, `PassesTakeBack` | a fact an honest node plans with was confirmed for that content and that node, whatever rogue members write; a caution has its failing runs; a pass takes back what enough runs contradict |
| `AgentLoopProofs` | `TypeCorrect`, `HighRiskHolds`, `StopHolds`, `TraceHolds`, `ZeroHolds` | high risk is confirmed; a stop ends the loop within a step; the trace tells all; code 0 means done |

### The arguments

Each invariant is the consequence of an inductive one, which TLC checked on the run's
instance before it was proved. What it adds is the reason the code is right:

- **Journal** (`IInv`): every file is a chain per author and holds signed events only
  (`FilesOK`), an author's hashes count its signed events and so name one each
  (`HashCount`), while no file is lost the author's file has everything it signed
  (`Kept`), clocks stay bounded (`ClocksBounded`, for the maximum of a file to exist).
  `ForkConsistency` then follows: two replicas that share an event link it to the same
  hash, which is that of one event.
- **DirectTransport** (`Inv`): the window is compared with the history of deliveries.
  The arithmetic of the shift is a lemma about `ReplayWindow`, cited for every way a
  frame can arrive; `EpcBounded` (an endpoint's counter is not ahead of the window's
  highest) is what makes "newest, asked before the window" right.
- **Upgrade** (`UpgradeInv`): a probe under way is where its nonce is pending, if it
  still is, or the nonce swerved; the same holds of a probe that is aimed and not routed
  yet (`Aimed`), and an answer under way names a probe the peer was given (`Answers`);
  what is pending was issued, and since the node last gave up (`Outstanding`). Nonces are
  fresh, so a late answer cannot prove a newer candidate.
- **TrustPolicy** (`MemoryInv`, `KeptInv`): what is refused a threshold signed away
  (`Backed`); a process that has passed the check for its own DID and refuses it has
  slipped, and slipping takes gossip or an early refresher (`Heed`); who was told of a
  DID still refuses it, so that it can never be new again (`Told`). For permanence `Kept`
  ties each policy to the whole lines of its store and to what was ever refused, which
  is why a process that starts again on its store cannot be past the check by then.
- **Mutiny** (`MutinyInv`): messages are well typed (`NetOK`), only model nodes hold
  grants, latches and what is cleared are what the known records determine
  (`LedgerOK`), and the broker's version is past every exposed one or dark at it
  (`Exposure`), which is why an exposed version cannot come back.
- **Inference** (`AskInv`): what a server keeps of a request is stated of its record in
  the middle of a handler (`HandlerOK`), because `_decide`, `_settle` and the safety
  layer's callback call one another: what it collected are signed answers to that
  request, a request it has finished is no longer pending, and a pending one has an open
  leg or is about to be decided again (`OpenOr`). Every frame under way carries such an
  answer and every reply is the one its server finished (`WireInv`). What a provider
  served is what it signed, which is why two of its answers cannot convict an honest one;
  a restart loses that memory, so `AnswersInv` holds only while there was none. The
  client's request keeps its need at the quorum, two in lockdown, and is a lockdown
  request once the client knows of a mutiny (`AskOK`, `Armed`).
- **Session** (`SessionInv`): what is acknowledged or handed up was taken, and the
  window holds exactly what may not be accepted again (`Received`); what the sender
  still has outstanding is reliable and unanswered (`Judged`). The refinement is
  proved action by action: a step of `Session` is a step of `Channel` or a stutter;
  the invariant supplies that a message about to be handed up was not handed up
  before, and that an outcome the sender learns is the only one it learns.
- **Operator** (`OperatorInv`): `AppSide` and `Signed` follow a signature from the
  operator's hand over packets that may be repeated to the loop's one-shot slot, by
  the challenge of that very step; `Asked` says that a step has one probe, opened in
  its own confirmation, and that the gate's findings are what it asks about.
- **Focus** (`FocusInv`): the agent's own window is in front only while a prompt shows
  (`Placed`), so it is never the one remembered; keys are down only while held, and while the
  agent's text is on the clipboard what the user had there is saved, unless a call that
  raised or the user's own copy came between (`Borrowed`); a confirmation stays true until someone moves the focus (`Aimed`).
- **Supervisor** (`RunnerInv`): the run under way is its goal's last and, until it
  works, the other open ones are exactly those `run_goal` has still to close
  (`UnderWay`); a run cut while open stays open until then (`CutIsOpen`), which is why
  the next one finds it and is told. `OneOpenRun` alone is not inductive: it says
  nothing of the middle of superseding, nor of what a crash there leaves. `Prompt` and
  `Unsettled` carry `StopIsPrompt` and `DoneIsFinal`.
- **Fleet** (`FleetInv`): a dialled connection has a node, the coordinator's table
  leads every registered node to a connection of its own, and no node is registered
  twice (`Placed`), so that dropping one node removes one. A task that may be offered
  again, or whose pause is being carried out, has an attempt left (`Tries`); for that
  the offers of a pump must be all that is left to do under the lock (`Phases`). The
  queue is a sequence that is inserted into by priority and removed from by value; the
  lemmas about `InsertAt` and `RemoveFirst` say what that keeps.
- **Memory** (`MemoryInv`): every event is in its author's own journal and a journal's
  clocks are bounded (`LedgerOK`), so that a new event is later than all its author
  has and no two events of an author compare equal; a confirmation that stands in an
  event was signed by the App or by the member that forged it (`Confirmations`), which
  is why one that verifies is the operator's. `Earned` says of every copy what
  `CautionsAreEarned` says of the author's, and `PassesOK` that the tallies of a pass
  in progress are of runs its node still has. `PassesTakeBack` needs the clock: the
  retraction is later than the record it is about, whoever wrote in between.
- **AgentLoop** (`LoopInv`): where each delivery and trace entry stands relative to
  the step under way (`Placed`), that all deliveries are in the trace except the one
  being verified (`Told`), what has been asked for the step (`Confirmed`, `Stopped`).
  `Unstalled` (the run ends at the limit) is needed for the stall counter's type,
  `Counted` (sub-tasks completed, skipped and left make the plan) for `ZeroIsAllDone`.

### Only model-checked

- Liveness: `WorkEnds`, `RecordsSpread`, `BackInUse`. The prover has no rule for
  `ENABLED`.
- What a recursive definition computes for every input (induction over data), and the
  modules that declare `RECURSIVE` operators.
- `FoundIsSo` and `ToldIsSo`, and of `NeverInHaste` the part about accusations
  (`AccusedBySeveral`), not proved so far; its part about lockdown is `NoOrdinaryAnswer`.
- The other properties of `hands`, whose instances are small closed worlds. In
  `AllowedIsMeant`, `SeenIsThere`, `AimIsMeant`, `FoundIsSo`, `ToldIsSo` and `NeverInHaste` each
  instance has its own claims, and the mutant of the property breaks those of one.

### What is next

Thirteen components have proofs. What the models would support next: a specification of
a goal's life (pending, active, settled) that `Supervisor` implements, by `RunnerInv`,
and the weaker truth about `OwnerKnows`, that an owner told "down" of a live peer has
a `tick` of that moment to blame.
