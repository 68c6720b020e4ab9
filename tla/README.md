# TLA+ models of the quantum network stack

The repository is an ns-3 module that simulates quantum repeater networks:
nodes with quantum memories, a physical entity that tracks the quantum state,
a link layer that establishes one-hop entanglement, a network layer that turns
one-hop pairs into end-to-end paths by entanglement swapping, routing
protocols, a classical signaling channel, and applications. This directory
holds TLA+ models of that code, the TLC runs that check them and proofs checked
by TLAPS.

Paths below are relative to the repository root.

## 1. Inventory

| Component | State it keeps | Operations | Interacts with | What is hard | What makes it correct |
|---|---|---|---|---|---|
| Network layer, path life cycle (`model/quantum-network-layer.*`) | `m_paths`, `m_pathCallbacks`, `m_pathTimers`, `m_pathSegments`, `m_entanglementRequests`, `m_entanglementToRequest`, `m_pendingSwapSignals` | `SetupPath`, `StartPathBuilding`, `HandleLinkLayerEntanglement`, `CheckPathEntanglements`, `PerformEntanglementSwapping`, `ExecuteSwapAtNode`, `HandleSwapSignal`, `FinalizePath`, `HandlePathFailure`, `HandlePathTimeout`, `NotifyPathResult`, `ReleasePath` | routing protocol (call), link layer (call and callback), physical entity (call), signaling channel (call and callback), application (callback) | timeouts racing late answers, retries over leftovers of the failed attempt, lost signals, clean-up in mid-swap, release at any time | one driver per pending path; a READY path holds one valid pair; the application is told exactly once; nothing is lost |
| Network layer, topology (same files) | static `s_topology`, `s_instances`; `m_neighbors` | `SetOwner`, `SetRoutingProtocol`, `SetLinkLayer`, `SetSignalingChannel`, `Initialize`, `AddNeighbor`, `RemoveNeighbor`, `UpdateNeighborAvailability`, `DoDispose` | every routing protocol (`UpdateTopology`), link layer (`AddOrUpdateLink`) | copies of one table in several places, order of set-up calls | every copy agrees with `s_topology` |
| Link layer (`model/quantum-link-layer-service.*`) | `m_links`, `m_pendingRequests`, `m_pendingEvents`, per-manager `m_infos`, `m_states`, `m_callbacks` | `RequestEntanglement`, `CompleteRequest`, `ConsumeEntanglement`, `AddOrUpdateLink`, `RemoveLink`, `DoDispose` | network layer (callback), physical entity | consuming a request that is still pending; metrics changing before completion; disposal in flight | each request answered once; a READY answer means a pair; consumed pairs hold no qubits |
| Signaling channel (`model/quantum-signaling-channel.*`) | `m_messages`, `m_callbacks`, `m_timeoutEvents`, statistics | `SendMessage`, `DoSendMessage`, `DeliverMessage`, `HandleTimeout`, `DropMessage`, `ClearHistory` | network layer (callback), delay models | loss, timeout against delivery, history cleared in flight | each message reported once, as delivered or lost |
| Swap scheduler (same files) | none | `GenerateLogarithmicSwapSchedule`, `GetNumSwapRounds` | signaling channel | path lengths that are not powers of two | every relay swaps once; the swaps of a round do not touch each other |
| Delay models (`model/quantum-delay-model.*`) | current delay, history | periodic updates, `StartBurst`, `EndBurst`, setters | signaling channel | a burst ending as an update is due, settings changed in a burst | one chain of updates, one end per burst, the time in bursts accounted for |
| Dijkstra and Sliced Dijkstra (`model/*dijkstra-routing-protocol.*`) | `m_topology`, route and metric caches, labels and queue of a search | `CalculateRoute`, `UpdateTopology`, `UpdateLinkMetrics`, `RemoveNeighbor`, `HasRoute`, `GetRouteMetric` | routing metric, network layer | caches against changes; labels displaced while queued; K labels per node and one per bucket | an answer is a route of the current topology; no answer only without one; optimal when costs add up; the search ends |
| Q-CAST (`model/q-cast-routing-protocol.*`) | link probabilities, topology, available nodes and edges, paths selected | `CalculateRoute`, `CalculateRoutesGEDA`, `ExtendedDijkstra`, `DiscoverRecoveryPaths`, link changes | network layer | dominance with a throughput that is not monotone, capacities, resources consumed greedily | paths are routes; no two share a link or overfill a node; nobody is left without a path that exists; recovery connects |
| Routing metric, fidelity model (`model/quantum-routing-metric.*`, `model/quantum-fidelity-model.*`) | none | label extension, dominance, Bell-diagonal formulas | routing | floating point; a bottleneck does not add up | the score of a label is that of its route; the waiting times are those of the simulation |
| Physical entity, memories, error models (`model/quantum-phy-entity.*`, `quantum-memory.*`, `quantum-error-model.*`) | nodes, owners, `m_qubit2time`; names and `m_qubit2lastTime` per memory | `GenerateQubits*`, `TransferQubit`, `ApplyGate`, `ApplyControlledOperation`, `Measure`, `PartialTrace`, `CalculateFidelity` | network simulator, applications | decoherence is put off, by two clocks that different operations move | the time waited is applied once; what is read is current |
| Network simulator (`model/quantum-network-simulator.*`) | tensor network `m_dm`, legs of the qubits, valid qubits, checkpoints | operations, measurement, trace, contraction with three sequences | physical entity | legs renumbered by a contraction; checkpoints set by applications | the legs kept for a qubit are its legs; a sequence contracts every tensor once |
| Applications and EPR distribution (`model/*-app.*`, `model/distribute-epr-protocol.*`) | outcomes received, round counters, occupied time | packet handlers, scheduled rounds | sockets, physical entity | packets late, reordered or with no listener; overlapping rounds; deferred measurements interleaved on one entity | corrections match outcomes; both sides measure the same pairs; only what was meant to stay is left |
| Helpers and comparison studies (`helper/`, `examples/`) | generated networks, records of requests | generators, choice of nodes, retries, simulation of routes, recovery | routing, physical entity | unusual draws, repeated runs, several links failing at once, swaps waiting for signals | networks are what the reports say; a simulated route matches what the metric predicts; recovery puts a path together |
| Basis | name counters, gate matrices | - | all | - | - |

`quantum-l3-protocol`, `quantum-dijkstra-routing` and `quantum-header` are not
listed in `CMakeLists.txt` and are not part of the program. `essay/` and
`build/` are not components.

**Concurrency.** The only source of interleaving is the ns-3 event scheduler.
A handler runs to completion together with the calls and callbacks it makes
synchronously; whatever it schedules runs later, and the application may call
in between.

PROJECT.json lists the hazards of this code line by line, with the properties
that watch each of them.

## 2. Plan

Ordered by importance.

1. **Done, proved.** `NetworkLayer` - the path life cycle, with the parts of the link
   layer, the physical entity and the signaling channel that it drives;
   `PathService` - the abstract promise to the application, implemented by
   `NetworkLayer`; `NetworkLayerInv` - the inductive invariant.
2. **Done, proved.** `SignalingChannel`, with the clock; `SignalingService` - the
   abstract promise: a message is settled once and reported at most once;
   `EventAgenda` - the order in which ns-3 runs events.
3. **Done, proved.** `Topology` - `s_topology`, `s_instances` and the copies in the
   routing protocols, the link table and the channels.
4. **Done, proved.** `PhyEntity` - ownership and the two clocks of decoherence.
5. **Done, proved.** `LinkLayer`, implementing `EntanglementService`; `LabelSearch`,
   implementing `RouteService`; `QCast`, with `RecoveryStudy` on top of it.
6. **Done, proved.** `DelayModel`; `SwapSchedule`; `ChainApps`; `DistillApps`; `RouteSimulation`.
7. **Done, model-checked.** The other programs: `AdaptApps` on `TensorNetwork`, and `StudyTopology`.
8. *Left.* The composition of `NetworkLayer` with `LinkLayer` and `SignalingService` in
   one state space: today each is checked against what the other is promised.
9. *Left.* The dynamic-delay example of Q-CAST, and the other fidelity families of
   the routing metric.

## 3. What is modelled

### NetworkLayer.tla

One action per operation or event:

| Action | Code |
|---|---|
| `SetupPath(p)` | `SetupPath`, `StartPathBuilding`, `RequestEntanglement` for every hop |
| `ReleasePath(p)` | `ReleasePath`, `CleanupPathResources`, `ConsumeEntanglement` |
| `NotifyPathResult(p, ok)` | the scheduled `NotifyPathResult` (the other calls of it are synchronous and part of their callers) |
| `RetryPath(p, a)` | the scheduled `StartPathBuilding` |
| `HandlePathTimeout(p, a)` | `HandlePathTimeout`, `HandlePathFailure` |
| `CompleteRequest(e)` | `CompleteRequest` of the link layer with the three ends it can have (`LinkSucceeds`, `LinkFails`, and `TransferFails`, whose pair stays behind), the manager's callback, `HandleLinkLayerEntanglement`, `CheckPathEntanglements`, `PerformEntanglementSwapping`, `BeginNextSwap`, `FinalizePath`, `HandlePathFailure` |
| `ExecuteSwapAtNode(p, a, n)` | `ExecuteSwapAtNode`, `SendMessage` |
| `DoSendMessage(m)` | `DoSendMessage`, with a loss `DropMessage` and `HandleSwapSignal(LOST)` |
| `DeliverMessage(m)` | `DeliverMessage` and `HandleSwapSignal(DELIVERED)` |

Each C++ map is a variable, each kind of scheduled event a set. A handler that
calls another after it has changed the resources passes them on in a record
(`Resources`), so that one action is one run of the event loop.

What is abstracted:

- *Time.* Scheduled events run in any order. Every delay, retry interval and
  timeout is covered, also the combinations that a given configuration excludes.
- *Identifiers.* An entanglement id is `<<path, attempt, hop>>`, a message id
  `<<path, attempt, relay>>`. The code's counters never repeat, and an attempt
  makes at most one request per hop and one swap per relay.
- *Route.* `SetupPath` takes any route of the constant `Routes`, none, or the
  trivial one of a node to itself; `ParamAssumption` says what the routing
  protocols return: simple paths with at least two nodes.
- *Far nodes.* `Owners` are the nodes the physical entity has. A request to any other
  node generates its pair and then fails to transfer the second half
  (`TransferFails`); `ParamAssumption` lets the last node of a route be such a one, since
  every other node of a route has a memory that its own requests start from.
- *Quantum state.* A qubit is valid or not; `Holder` says in which node's memory
  it is. Fidelity is a nondeterministic choice in `FinalizePath`, link success one
  in `CompleteRequest`, packet loss one in `DoSendMessage`. Swap outcomes are not
  modelled; the correction they cause changes no state of the layer.
- *Call from within the callback.* A `SetupPath` or `ReleasePath` that the
  application makes inside its callback is a step right after it: every handler
  calls the callback last, so the layer's state is the same.
- *Configuration.* `parts` says whether a link layer and a signaling channel are
  set. The network layer and the link layer share one physical entity, as
  `SetPhyEntity` and `SetLinkLayer` arrange.

Some branches of the code cannot be reached from the initial states, and the
model keeps them as the guards they are: a timeout of an old attempt, an invalid
entanglement in `PerformEntanglementSwapping`, a relay that does not match in
`ExecuteSwapAtNode`. `NoStaleTimerOrRetry`, `IInv` and `SwapOperandsHeld` are the
statements that they are second lines of defence.

### PathService.tla

What an application may rely on: a path is decided once, READY or FAILED; it is
told once; after a release it hears nothing. `NetworkLayer` implements it with
the identity mapping on `pathState` and `notified`.

### NetworkLayerInv.tla

The inductive invariant `IInv`: a path is always in exactly one of seven phases
(`Fresh`, `Building`, `Waiting`, `Swapping`, `Signalling`, `Finished`,
`Released`), and each phase says which events, requests, segments, signals and
messages of the path exist. `QubitInv` says what every valid qubit belongs to: a path
that is under way or READY, or a completion that came when its request had been consumed
or whose far node does not exist.

### SignalingChannel.tla, SignalingService.tla, EventAgenda.tla

| Action | Code |
|---|---|
| `SendMessage(l, requiresAck)` | `SendMessage`: a message, its id, the scheduled `DoSendMessage` |
| `RegisterCallback(id)` | `RegisterCallback` |
| `DoSendMessage(e)` | `DoSendMessage`; with a loss `DropMessage(LOST)` and the callback |
| `DeliverMessage(e)` | `DeliverMessage`: statistics, callback, the timer cancelled |
| `HandleTimeout(e)` | `HandleTimeout`, `DropMessage(TIMEOUT)` |
| `ClearHistory`, `DoDispose` | the same; events that are scheduled stay so, but for the timers |
| `SetPacketLossProbability`, `SetTimeoutDuration`, `SetDelayModel`, `SetLinkDelayModel(l)` | the setters, at any time; a set model may also move on to another delay |
| `RunEvent` | the simulator takes the next event of the agenda |
| `OtherEvent` | an event of another component lets time pass while the channel has nothing due |

Here time is kept, because whether a timeout can beat a delivery depends on it:
an event has a time and the sequence number ns-3 breaks ties with
(`EventAgenda`). `heard` records what each callback was told, `forgotten` how many
pending messages were erased; they are history variables. The payload and the
destination are abstracted to the link. `m_stats` starts from any of the values in
`Leftovers`, since the constructor does not set its counters.

`SignalingService` knows only messages sent, settled and forgotten, and what was
reported. `SignalingChannel` implements it by mapping an erased message to
"forgotten".

`TimeoutNeverWins` is a result worth knowing to users of the channel:
`DoSendMessage` arms the timer at the delay *plus* `TimeoutDuration`, and only for
messages that are not lost, so a message never ends as TIMEOUT; a lost message is
reported as LOST at once. Not even a change of the attribute in flight or a
timeout of zero alters that.

### Topology.tla

| Action | Code |
|---|---|
| `SetOwner(l)` | `SetOwner`, called first and once |
| `SetRoutingProtocol(l)` | `SetRoutingProtocol`, `UpdateTopology` of the protocol |
| `SetLinkLayer(l)` | `SetLinkLayer`, `AddOrUpdateLink` for each neighbour |
| `SetSignalingChannel(l)` | `SetSignalingChannel`, `SeedSignalingDelayModel` for each link |
| `Initialize(l)` | `Initialize`: a channel if there is none, delays, `UpdateTopology` |
| `AddNeighbor(link, g)` | `AddNeighbor`, `AddOrUpdateLink`, `SeedSignalingDelayModel`, `PublishTopology` |
| `RemoveNeighbor(link)` | `RemoveNeighbor`, `RemoveLink`, `PublishTopology` |
| `UpdateNeighborAvailability(link, available)` | the same, `AddOrUpdateLink`, `PublishTopology` |
| `DoDispose(l)` | `DoDispose`: out of `s_instances`, the topology cleared with the last layer |
| `CalculateRoute(l)` | `CalculateRoute` of the Dijkstra protocols, as far as it fills the cache |

The metrics of a link are a grade (one model value for all its numbers, of which
the control delay is one) and its availability. A cached route is represented by
the view it was computed from, so that `RoutesAreCurrent` says that no route of
another topology is in use. All layers share one link layer; each has its own
routing protocol and channel. A layer that was disposed of is not used again.

### DelayModel.tla

`BurstDelayModel` and `StaticDelayModel` on top of `QuantumDelayModel`: `Initialize`,
`UpdateDelay` (with `DoUpdateDelay` and `StartBurst`), `EndBurst`, the setters,
`ClearHistory` and `DoDispose`, with the clock and the agenda of `EventAgenda`. Draws
of random numbers are choices from the ends and the middle of their ranges;
delays are integers. The update interval is positive: with 0 the events of the
code would repeat at one instant for ever.

### SwapSchedule.tla

`GenerateLogarithmicSwapSchedule` and `GetNumSwapRounds` as operators, for all path
lengths up to `MaxHops`. The repository generates schedules and executes none;
the module adds what an entry stands for: at its time the relay joins the
segment that ends at it with the one that begins there. The entries of a round
run in any order; `NextRound` is the time between two rounds. `PowerOfTwo` is the
shift by a round.

### PhyEntity.tla

| Action | Code |
|---|---|
| `GenerateQubits(o, S)`, `EstablishEntanglement(o, d, p, q)` | `GenerateQubitsPure`, `GenerateQubitsMixed`, and `TransferQubit` of one half as the link layer calls it |
| `DistributeEPR(o, d, p, q)`, `DeliverQubit(q)`, `LosePacket(q)` | `GenerateAndDistributeEPR`, `Send` and `HandleRead` of the EPR distribution protocol |
| `ApplyGate(o, S)`, `ApplyControlledOperation(q)` | the same |
| `PartialTrace(S)`, `DiscardQubits(S)` | `PartialTrace`; the memory's `RemoveQubit` and `PartialTrace` as `ConsumeEntanglement` calls them |
| `Measure(o, S)`, `CalculateFidelity(S)` | the same, with `EnsureAllDecoherence` |
| `Advance` | the simulator's clock |

A qubit's state is the time whose decoherence has been applied to it (`noise`);
`stored` is the time it has spent in memories, and `DecoherenceAccounted` relates
the two through the two clocks of the code. `TimeModel` applies the time since
`m_qubit2time`, the memory decides by `m_qubit2lastTime` whether anything is to be
applied at all. Operations that move only one of the clocks
(`ApplyControlledOperation`, the transfer of a qubit) are what makes this hard to
get right. God, who may act on every qubit, operates like the others: his gate has
`TimeModel` apply the time since `m_qubit2time`, but asks his own memory, so that the memory
which does hold the qubit applies the same span again later. `addedByGod` keeps the account of
these spans, and the properties say that they are the only difference (observation 4).

### LinkLayer.tla, EntanglementService.tla

| Action | Code |
|---|---|
| `RequestEntanglement`, `Consume`, `SetPhyEntity`, `AddOrUpdateLink`, `RemoveLink` (the disjuncts of `Call`) | the same of `QuantumLinkLayerService`; `SimpleEntanglementManager::Consume`; getters change nothing |
| `MeasureQubit` (in `Call`) | a requester that measures and traces a half it holds |
| `CompleteRequest` | `CompleteRequest`: `LinkFails`, `TransferFails` or `LinkSucceeds`, and the manager's callback, in which the requester may consume |
| `DoDispose` | `DoDispose` of service and managers |

The managers of all source nodes are one table, since they share `s_nextId`.
Delays are small numbers, the draw of a link's success is a choice allowed by its
success rate. `EntanglementService` promises one answer, a pair with READY, and an
answer to every request that is not dropped by disposal.

### LabelSearch.tla, RouteService.tla

| Action | Code |
|---|---|
| `UpdateTopology(table)`, `UpdateLinkMetrics(link, m)`, `RemoveNeighbor(link)` | the same, `NotifyTopologyChange`, which empties the caches |
| `FindRoute(op, request)` | `CalculateRoute` and `HasRoute`: answered from the cache, or a search starts |
| `GetRouteMetric(request)` | the same |
| `Pop(path)` | a label taken from the queue, skipped when it is stale |
| `Extend`, `Extended` | `ExtendLabel` and the admission of the extension at a neighbour (`AdmitLabel` with K labels and buckets; `ReplaceLabel` with one), and the end of the loop over neighbours |
| `Finish` | the best label at the destination, written to the caches |

A label is its path: segments, scalars and score follow from it and the topology.
`Cost` is a function over the hops, so that sums along a path can be reasoned about.
Equal labels may come in either order, as the queue does not say. The score is
that of `BottleneckFidelityRoutingMetric` for links of the phase-flip family and one
coherence time, as a sum of losses and waiting times. `RouteService` says that an
answer is a simple path over usable links of the topology *as it is now*, and no
path only when there is none; `LabelSearch` implements it although K labels are
kept and the rest dropped. A search runs to its end in the code; that it is split
into steps here gives the termination argument (`SearchEnds`) something to say. The
invariants `IInv` and `NoneForgottenIsCheaper` are stated in the module.

### QCast.tla, RecoveryStudy.tla

| Action | Code |
|---|---|
| `CalculateRoutesGEDA(batch)`, `CalculateRoute(request)` | the same, up to the first search |
| `PopLabel(label)`, `NoPath` | one turn of the loop of `ExtendedDijkstra`, with the labels it extends (`Expand`); its queue has run empty |
| `Select`, `Stop` | the best of the candidates, with `DiscoverRecoveryPaths` and the resources it consumes; no candidate is left |
| `UpdateTopology`, `AddNeighbor`, `RemoveNeighbor`, `UpdateLinkMetrics`, `Initialize`, `NotifyTopologyChange`, `SetNetworkLayer`, `DoDispose`, `SetAttributes` | the same |
| `SimulateDijkstraRequest`, `SimulateQCastRequest` | the same of `dijkstra-vs-qcast.cc`, on one realisation of the links |
| `ExecuteXORRecovery` | the same, with the ring states it reads |
| `FileRecord` | the bookkeeping of `RunComparison` |

Success rates are losses (`-ln p`), so that the expected throughput of a path is a
sum with the loss of its swaps. A label is a record of its path and what the code
accumulates for it. A recovery path is one of the shortest ones the
breadth-first search may return. The route of the Dijkstra request in
`RecoveryStudy` is any simple path over known links; fidelity and delay are left
out, and at most `MaxFailures` links are down. The loops that cover the failures and
put the path together are recursive functions with one step per ring (`CoverStep`) and
per node of the primary path (`CompositeStep`).

### TensorNetwork.tla, AdaptApps.tla

`TensorNetwork` has one operator per operation of the simulator (pure and mixed
generation, gate, quantum operation, trace, contraction), as a function on a record
of open legs and of the ket and bra leg kept for each qubit. `AscendingContraction` and
`DistillContraction` are the sequences of `Evaluate`, the second built from the
checkpoints as `AssignDistillSequence` does.

| Action of `AdaptApps` | Code |
|---|---|
| `GenerateQubits`, `GenerateAndDistributeEPR`, `ReceiveQubit`, `ApplyGateTo`, `ApplyControlledOperation`, `TraceOut`, `Measure`, `CalculateFidelity`, `PeekDM`, `ContractNetwork`, `SetCheckpoint` | the scheduled call of that name, with the noise of waiting where the entity applies it |
| `StartDistill`, `Distillate`, `DistillateOnce` | `DistillNestedAdaptApp` |
| `StartLocalSwap`, `StartSwap` | `EntSwapAdaptLocalApp`, `EntSwapAdaptApp` |
| `StartTelep`, `StartLin`, `SendMessage`, `HandleRead` | `TelepAdaptApp`, `TelepLinAdaptApp` |
| `Abort` | an assertion of the entity or of the simulator fails, or a call in God's name finds no node of his |

`hasGod` says whether main lists God among the owners, as the examples of the two deferred swap
applications do and those of the nested distillation and of `TelepLinAdaptApp` do not.

For the nested distillation the network of the model has 45, 117 and 261 tensors
for 2, 4 and 8 pairs; `examples/distill-nested-adapt-example.cc:28-32` records 261
for `N=8`.

### ChainApps.tla, DistillApps.tla

`ChainApps` runs `EntSwapSrcApp`/`EntSwapDstApp` and `TelepSrcApp`/`TelepDstApp` along a
chain: `MeasureAndSend`, `HandleEntSwap`, `HandleTelep`, and `Drop` for a packet that
finds no listener. The state is the Pauli frame still to be corrected. `MeasureCrashes` is
`MeasureAndSend` of a relay whose call ends the program: `ApplyGate` in God's name without a
node of that name, or `Measure` sweeping a name that an earlier relay has traced
(`TracedBefore`). Whether there is such a node (`godNode`), and whether the relays measure one
after another as in the example or at once (`spaced`), is chosen at the start. A trace is
scheduled for the instant of the measurement and disturbs nothing in it, so it needs no action
of its own.
`DistillApps` runs `DistillApp` and `DistillNestedApp`: `GenerateAndDistributeEPR`,
`ReceiveQubit`, `DistillateOnce`, `BobReads`, `AliceReads`. A pair is the bits its ends
would be measured as; packets take one constant time, so they stay in order, and
both applications listen from the start. The number of pairs is given by how often it is
halved until two are left: for any other number `Distillate` fails its assertion. The example
stops its applications after ten seconds, long after the last call of its eight pairs;
that is left out.

### RouteSimulation.tla

Four programs that play the swaps of a route on a physical entity:

| Actions | Code |
|---|---|
| `Generate`, `ExecuteSwapStep`, `ContinueAfterSignal`, `Evaluate` | `SimulateRouteActualFidelity` and `ExecuteSwapStep` of the `dijkstra-vs-sliced` studies |
| `StartRequest`, `SwapHop`, `FinishRequest` | `CalculatePhysicalFidelity` of `q-cast-random-topology-example.cc` |
| `RelayAct`, `FinishPath` | the relays and pivots of `routing-mismatch-example.cc`, with packets that are late or lost |
| `AfterWait` | `swap-fidelity-test.cc` |

What a handler calls at the same instant is an event of that instant. Fidelity
values, and the `Simulator::Stop` of the mismatch example, are left out. A failed
assertion is that of a build with assertions. A play gives the program, the setup times of
the links of each route and the delays; routes may have any number of links, but for the
two of the test and the two or three of the mismatch example (`RouteAssumption`).

### StudyTopology.tla

| Actions | Code |
|---|---|
| `DrawLocalLinks`, `ConnectLocalComponents`, `CollectCandidates`, `AddLongLink`, `RunOne` | `GenerateTopology` and `RunOne` of `dijkstra-vs-sliced-random.cc` |
| `LoadTopologyZooGraphml`, `CollectSatellites`, `AddLongLink`, `ChoosePair`, `RunOneTopologyZoo` | `dijkstra-vs-sliced-topology-zoo.cc` |
| `GenerateRandomGeometric`, `GenerateErdosRenyi`, `GenerateScaleFree`, `GenerateGrid`, `AddRandomEdge` | `QuantumTopologyHelper` |
| `GenerateMismatch`, `AssignTraps`, `FindMismatchDiamond` | `QuantumMismatchTopologyHelper::Generate`, and the search of `routing-mismatch-example.cc` |

A draw is any outcome it can have; distances are compared by their squares on a
grid; candidates are tried in any order. Qualities of links are left out but in the
mismatch topology, so a routing protocol may return any simple route there.

### The MC modules

One per component, with the sets its constants stand for. `MCPlans` puts
`DelayModel`, `SwapSchedule` and `StudyTopology` into one state space, `MCPrograms`
`ChainApps`, `AdaptApps`, `DistillApps` and `RouteSimulation`: `scenario` says which of
them a behaviour is of. The variables of `StudyTopology` and `AdaptApps`, which are
instantiated, are `Unused` in the behaviours of the others; those of the modules that the MC
modules extend stay as an initial state has them. The modules do not interact; the properties
of those that are instantiated are restated with `scenario` as their premise, and so is
`ChainDelivers`.

## 4. Runs

| Run | Instance | What it shows |
|---|---|---|
| `chain` | one path over `A-B-C-D-E`, or `A-B-F` where the physical entity has no `F`; one retry, `FairSpec` | the safety properties of the path life cycle; the refinement of `PathService` with its liveness: every path is answered |
| `release_leak` | short routes, no retry | *violated*: a released path leaves qubits behind |
| `channel` | two messages, one link, delay 0 or the default of 2, timeouts 0 and 1, counters that start at 3, `FairSpec` | a timeout never wins; statistics; the refinement of `SignalingService` with its liveness: every message is settled unless it is forgotten |
| `topology` | two layers, a link each way, two grades | the copies of the topology agree |
| `search` | five nodes, two ways that meet at a node, links that are lossy, slow or down; one label, K = 2 with and without buckets; `FairSpec` | the refinement of `RouteService`, current caches, optimality when costs add up, searches end |
| `qcast` | five nodes, a chain `A-B-C-D` with detours over `X`; batches of two requests; three settings of hop limit, recovery span and capacity; two paths, one link change, two failed links | selected paths are routes without contention, the selection is maximal, recovery connects |
| `recovery_gap` | a path of three links and one ring | *violated*: a covered failure is recorded as failed |
| `decoherence` | two owners and God, who all operate; two qubits, time up to 4 | the time waited is applied, once but for what gates in God's name add; reads are current |
| `link_layer` | two known nodes and an unknown one, two requests, three kinds of links | READY means a pair, what leaks and when, the refinement of `EntanglementService` |
| `plans` | delay models: two base delays, deviations and intervals, history of 2, time up to 4; swap schedules: up to 18 hops; networks: see below | one chain of updates and one end per burst, the time in bursts; schedules; studies are well posed |
| `programs` | chains of six owners, latencies 2 and 9, relays that measure at once or one after another, with a node for God or without; the deferred applications alone, and in pairs with offsets 0 to 8, with a node for God or without; distillation of 2, 4 and 8 pairs with packets of 1, 15 and 35 against a step of 10; routes of one to four links | corrections, legs and contraction, what is left, verdicts, waits |
| `mismatch_sweep` | both routes of the mismatch example with 2 and 3 links, no packet lost | *violated*: the second path does not finish |

**Bounds.** Three relays are the first chain in which a merged segment is swapped
twice and a swap has segments after it that it does not touch. One retry gives a
first and a last attempt and late results of an earlier one; several paths, more
retries and other routes are covered by the proofs. That the clean-up of one path leaves the
tables' entries of another alone is a matter of two paths, so no run shows it: the theorems
`OneDriver` and `ReadyPair` do. In `SignalingChannel`
messages interact only through their identifiers and the agenda, so two show every
interference; `MaxTime` bounds only the events of others. In `Topology` the second
layer is the one that is told, and the one that is left when the other is disposed of.
In `search` four labels meet at one node, more than any setting keeps, and a link
may change before, between and after searches. In `qcast` two requests compete for
links and for a node, a label is dominated at `C` or `X` by one it should not lose to,
rings overlap, and a ring may be down with the link it covers. In `decoherence` a
qubit can wait, meet a gate of God, wait, meet a gate of its holder or another of God's, and wait
again before it is read; two qubits are one pair, and the proofs cover all numbers. In `link_layer` two requests suffice since a request only
meets others through the table. Of the networks in `plans`, those of the random study
have five nodes in two clusters or on a line, the zoo's six or three with a loop, a
doubled edge, an unknown node and one without links, the grids six, geometric graphs
five, Erdos-Renyi graphs four, mismatch networks four and five, scale-free ones two
to five. Time up to 4 holds a whole burst, its end and an update at one instant and
an update after it; 18 hops include powers of two and their neighbours. In
`programs` eight pairs are three levels of rounds (there with Alice's bits at 0, which
only names the flips), and 35 lets packets overtake three steps; two
applications are offset by every number of units up to the end of the first.
`CHECK_DEADLOCK FALSE` wherever it is set because a simulation ends when its events
are used up.

The inductive invariants (`IInv`, `QubitInv`, `NoneForgottenIsCheaper`, `PhyInv`) were
model-checked on the same instances while the proofs were found; they are proved, so no
run repeats them. The same holds of the safety parts of the refinements of
`NetworkLayer`, `SignalingChannel` and `LinkLayer`.

**Fairness.** `FairSpec` of `NetworkLayer` has weak fairness for every scheduled event,
since `Simulator::Run` executes every event that was not cancelled, and none for the
application's calls. Where an agenda orders the events, only the next one can run,
and weak fairness of that step is the same statement: `RunEvent` in
`SignalingChannel`, `CompleteRequest` in `LinkLayer`, the steps of a schedule in
`SwapSchedule`, those of a chain in `ChainApps`. In `LabelSearch` it is weak fairness of
the steps of a search, which in the code are the turns of a loop. An event that
is enabled stays enabled until it runs or is cancelled, so weak fairness is enough.

**Findings with a run.**

1. `release_leak`: `CompleteRequest` (`model/quantum-link-layer-service.cc:344`) generates
   the pair of a request that was consumed while pending; `ReleasePath` is documented
   to release entanglements (`model/quantum-network-layer.h:314`).
   `OnlyCompletionsOrphan` shows that there is one other way a qubit is lost: a far node that
   the physical entity does not have (observation 8).
2. `recovery_gap`: `SimulateQCastRequest` (`examples/dijkstra-vs-qcast.cc:585`) leaves out
   the first node of a ring that begins in the middle of the path, so the composite path
   has a gap and the request is recorded as failed although the failure is covered.
3. `mismatch_sweep`: `BellMeasAndTrace` (`examples/routing-mismatch-example.cc:389`) leaves
   traced names in the memory; the next measurement fails `CheckValid` on them.

**Observations made while modelling**, which no run checks:

4. *Decoherence by God.* `ApplyGate` in the name of God (`model/quantum-phy-entity.cc:178`)
   applies the waiting time by the entity's clock and leaves the clock of the memory that
   holds the qubit alone, so that memory applies the same time again later;
   `model/quantum-memory.h:20-23` says that it is applied for the duration since
   the last time. `DecoherenceAccounted` would fail without `addedByGod`: it shows that such
   gates are the only cause, and `ExactWithoutGod` that what is read is exact without them. The
   relays of `EntSwapSrcApp`, the deferred applications, and the mismatch and the random Q-CAST
   examples gate in God's name.
5. *Q-CAST need not select the best path.* A label may be pruned by one that is not
   better after an extension (`model/q-cast-routing-protocol.cc:614`), as throughput
   counts swaps too: with `A-B-C` of losses 60 and 60 and `A-B-X-C` of 60, 5 and 5, one is
   better up to `C` and the other beyond. `doc/q-cast-protocol.md:67` says that the
   search finds the path of the best expected throughput. `GreedyIsMaximal` is what does hold.
6. *Recovery.* `ExecuteXORRecovery` (`model/q-cast-routing-protocol.cc:862-925`) activates
   every ring that covers a failed link, also one whose own links are down and several that
   overlap; `doc/q-cast-protocol.md:145-147` speaks of rings "that can bypass
   failures". `RecoveryConnects` states what its rings do give together. The capacity of
   a request's source is never checked, and capacity 0 means unlimited.
7. *Buckets.* `AdmitLabel` removes only the first label of a bucket that is worse than the
   new one (`model/sliced-dijkstra-routing-protocol.cc:339-343`), so that another
   one of the same bucket, which had tied with it, stays; compare `doc/routing-caveats.md:51`.
8. *Link layer.* `minFidelity` is never used. With an unknown far node both halves stay
   in the source's memory (`:376-384`), and since the entanglement is not valid a release does
   not free them. Consuming a PENDING request lets its state go
   from CONSUMED to READY. The time to ready is setup plus control delay, of which the
   routing metric uses the setup only.
9. `MilliSeconds` takes an integer, so delays of a fraction of a millisecond are
   truncated (`model/quantum-link-layer-service.cc:337`, `model/quantum-network-layer.cc:343`,
   and the examples); `WaitsAsPredicted` allows for it.
10. `PathState::CONSUMED`, documented for released paths
   (`model/quantum-network-layer.h:44`), is never used; a released path may report PENDING.
11. `doc/implementation.md:387` places the Pauli corrections at the end nodes; the
   network layer makes them at the right end of each swap.
12. The counters of `m_stats` are not set by the constructor
   (`model/quantum-signaling-channel.cc:45`), so the totals that `PrintStatistics` shows
   start from indeterminate values; and `DeliverMessage` takes a least delay of zero for
   "none yet" (`:247`).
13. With an update interval of 0 a delay model reschedules itself at one instant for
   ever (`model/quantum-delay-model.cc:332`).
14. *Mismatch topology.* The chain that is to ensure connectivity is added only when
   there are fewer than n - 1 edges; the backbone adds 6 nodes and 5 edges, its header says
   5 and 4, and the summary subtracts 6 from the number of edges drawn.
   `routing-mismatch-example.cc:12` says that the diamond is found in the random topology; it
   never is, because every random link into a trap is a fast one, so the
   search always finds the backbone's, and without the backbone `main` gives up.
   `StudiesAreWellPosed` has this as a conjunct. A lost packet leaves a fidelity of 0,
   which the program takes for a result.
15. The verdict of a nested distillation is that of its last round; the earlier ones are
   overwritten (`DistillationConcludes`). A distillation of four or more pairs fails an
   assertion (`model/quantum-network-simulator.cc:439`) when a measurement brings
   up to date a name that was traced earlier; with a node for God `OnlyGoalIsLeft` admits
   only this abort.
16. A scale-free network of two nodes has no link. A run of the zoo study that exhausts
   its retries keeps the predicted gain of its last draw, and is marked as not successful.
17. *Swap chains end early.* `EntSwapSrcApp` has its qubits traced and leaves their names in the
   memory (`model/ent-swap-app.cc:136`), so the next relay that measures, at a later time, fails
   `CheckValid` (`model/quantum-network-simulator.cc:439`); and `examples/ent-swap-example.cc:62-67`
   creates no owner God, in whose name the relays gate (`model/ent-swap-app.cc:119`), so the first
   relay already finds no node (`model/quantum-phy-entity.cc:178`). `ChainDelivers` says that such a
   simulation always ends there, and that one whose relays measure at once delivers.
18. *No node for God.* The owners of `examples/distill-nested-adapt-example.cc:59` and
   `examples/telep-lin-adapt-example.cc:63-67` do not include God either, in whose name their
   applications gate; `OnlyGoalIsLeft` admits this end of the program where `hasGod` is FALSE.

The list of hazards in PROJECT.json has the line of each.

## 5. Proofs

`NetworkLayer_proofs.tla` proves, for all constants that satisfy
`ParamAssumption`:

| Theorem | Statement |
|---|---|
| `PhaseInvariant` | `Spec => []IInv` |
| `TypeCorrect` | `Spec => []TypeOK` |
| `OneDriver` | `Spec => []PendingPathHasOneDriver` |
| `NoStaleEvents` | `Spec => []NoStaleTimerOrRetry` |
| `SegmentsSpan` | `Spec => []SegmentsSpanRoute` |
| `SwapOperands` | `Spec => []SwapOperandsHeld` |
| `SignalsMatch` | `Spec => []SignalMatchesSegments` |
| `ReadyPair` | `Spec => []ReadyPathHoldsPair` |
| `RetryClean` | `Spec => []RetryStartsClean` |
| `FailedForAReason` | `Spec => []FailedOnlyAfterAllRetries` |
| `QubitInvariant` | `Spec => [](IInv /\ QubitInv)` |
| `OrphansExplained` | `Spec => OnlyCompletionsOrphan` |
| `Refinement` | `Spec => ImplementsPathService` |

None of the properties is inductive: that a READY path holds a valid pair, say,
depends on which qubits the swaps before it measured, and those on which hops
had been established, by which attempt. `IInv` carries all of it, by phase. The
argument: every handler that acts on a path `p` (`HandlePathFailure`,
`FinalizePath`, `BeginNextSwap`, `StartPathBuilding`) has a lemma saying from
which situation it is entered (`Entered`), which phase it leaves `p` in, and that
it leaves every other path alone (`Same`); the lemma `Frame` then keeps the phase
of the other paths. One lemma per action combines these, `NextIInv` combines the
actions, and each property follows from `IInv` at one point in time. `StepOf` sums up
what a step may do: it concerns one path, and leaves the phases of the others.

`FailedForAReason` takes from the phase `Finished` that the application of a FAILED path has been
told so once, or is going to be by the one event that is scheduled.

The last part of the module follows the qubits through the same steps. That only the completion of
a request that was consumed before, or whose far node does not exist, loses qubits is a property of
steps. It needs an invariant for the paths that are *not* concerned (their qubits are
accounted for by the same segments and requests as before) and, for the one that is, a
lemma per handler that adds up the qubits it measures, hands over and frees (`NoLoss`).

`SignalingChannel_proofs.tla` proves, for all constants that satisfy
`ChannelAssumption`:

| Theorem | Statement |
|---|---|
| `Invariance` | `Spec => []IInv` |
| `TypeCorrect` | `Spec => []TypeOK` |
| `NoTimeout` | `Spec => []TimeoutNeverWins` |
| `OneReport` | `Spec => []ReportedOnce` |
| `StatsAlwaysBalance` | `Spec => []StatsBalance` |
| `Refinement` | `Spec => ImplementsSignalingService` |

That a timeout never wins is not inductive: it needs that the delivery of a
pending message precedes its timer on the agenda, that no event is overdue, and
that a message is carried by one event at a time. These are the conjuncts
`TimerAfterDelivery`, `TimeMovesForward` and `OneTransmission` of `IInv`. Erased
messages, whose events still run, are the case that makes `ReportedOnce` need
`OnlyIssuedScheduled` and `UnsentUntouched`.

`Topology_proofs.tla` proves, for all layers, links and metrics
(`TopologyAssumption`):

| Theorem | Statement |
|---|---|
| `Invariance` | `Spec => []IInv` |
| `TypeCorrect` | `Spec => []TypeOK` |
| `ViewsAlwaysAgree` | `Spec => []ViewsAgree` |
| `RoutesStayCurrent` | `Spec => []RoutesAreCurrent` |
| `LinkTableAlwaysAgrees` | `Spec => []LinkTableAgrees` |

The properties lean on each other: a late `SetLinkLayer` copies the neighbours,
so the link table agrees with the topology only because the neighbours do; and
because nothing of the layer was in the table before (`UnusedIsEmpty`). A layer
that gets its owner must not find neighbours or links of its own
(`FreshIsEmpty`). `ChangeStep` treats the three operations that change a link as one.

`PhyEntity_proofs.tla` proves, for all owners, qubits and operators, God among them or not
(`OwnersAssumption`, `TimeAssumption`):

| Theorem | Statement |
|---|---|
| `DecoherenceAccountedAlways` | `Spec => []DecoherenceAccounted` |
| `ReadsAreCurrentAlways` | `Spec => []ReadsAreCurrent` |
| `ExactWithoutGod` | if `God \notin Operators`, what is read has had the time stored applied, exactly |

Their invariant `PhyInv` adds to the two properties and the types that a qubit in
flight is in no memory (`PacketsAreSettled`), that a fresh one has no time to account for
(`FreshIsClean`), that the entity's clock is never behind the memory's, nor ahead
of the time, and no moment was added twice (`ClocksInOrder`), and that only God adds any
(`OnlyGodAdds`). One lemma per operation keeps it.

`LinkLayer_proofs.tla` proves, for any nodes, links, delays and number of requests
(`NodesAssumption`, `LinkMetricsAssumption`, `MaxRequestsAssumption`):

| Theorem | Statement |
|---|---|
| `Invariance` | `Spec => []IInv` |
| `TypeCorrect` | `Spec => []TypeOK` |
| `ReadyMeansPair` | `Spec => []ToldReadyHoldsPair` |
| `LeaksExplained` | `Spec => []OnlyEarlyConsumptionLeaks` |
| `Refinement` | `Spec => Service!Spec`, the safety part of `EntanglementService` |

Its `IInv` adds to the two properties what is known of a request before its answer: one
that the service holds has been made and has no answer (`PendingUnanswered`), without
an answer there is no pair and no more has happened than an early `Consume`
(`UnansweredHasNoPair`), and ids not handed out left no trace (`UnusedUntouched`). Without
these the completion of a request could overwrite the pair or the answer of another.

`LabelSearch_proofs.tla` proves, for any network, both protocols, any K and bucket width
and any order of equal labels (`NetworkAssumption`, `RequestAssumption`,
`ProtocolAssumption`):

| Theorem | Statement |
|---|---|
| `Invariance` | `Spec => []IInv` |
| `TypeCorrect` | `Spec => []TypeOK` |
| `CacheStaysCurrent` | `Spec => []CacheIsCurrent` |
| `Refinement` | `Spec => ImplementsRouteService` |
| `RoutesAreBest` | `Spec => []BestWhenAdditive` |

That no route is the answer only when there is none is the hard part of the refinement,
since labels are dropped for being dominated, for being the K+1st and for a better one
of their bucket. `NoNodeForgotten` is what survives: a node that was reached never loses
its last label, and either all the labels it has are still in the queue or all its
neighbours have been reached (`Explored`). With an empty queue the nodes with labels are
closed under usable links (`NoneMeansUnreachable`). For `RoutesAreBest` the same argument
is made with costs: for each label that is dropped the node keeps one that costs no more
(`OfferedCostsNoMore`), a label out of the queue has left no neighbour with labels that cost
more than by the link to it (`Settled`), and so hop by hop along any other route
(`FoundIsBest`). It needs that the links are ready at the same time, since only then the
cost of a label and of its extension differ by the loss of one link (`CostOfExtended`).

`QCast_proofs.tla` proves, for any network, batches, attributes and swap losses
(`GraphAssumption`, `BatchAssumption`, `ConfigAssumption`, `SwapAssumption`):

| Theorem | Statement |
|---|---|
| `Invariance` | `Spec => []IInv` |
| `TypeCorrect` | `Spec => []TypeOK` |
| `SelectedAreRoutes` | `Spec => []PathsAreRoutes` |
| `ResourcesSuffice` | `Spec => []NoContention` |
| `SelectionIsMaximal` | `Spec => []GreedyIsMaximal` |
| `StudyInvariance` | `StudySpec => []StudyIInv` (with `NodesAssumption`: finitely many nodes) |
| `RecoveryConnected` | `StudySpec => []RecoveryConnects` |

`ExtendedDijkstra` does not test whether a label visits a node twice. That its paths are
simple nevertheless is `NoWayBack`: at every node of a queued label's path a label is kept
that dominates the queued one, so an extension back to that node is dropped.
`GreedyIsMaximal` is about the end of the selection: `SearchedInVain` says that while none of
the remaining requests searched for has a label, none of them has a path over what is free
within the hop limit, and `KeptAreExpanded` why the search would have found one
although labels are pruned. `NothingUsedIsFree` is why selected paths share nothing.

`RecoveryConnected` is about all rings that may be activated together, overlapping ones
too. `RingsGoAround` is what selection keeps: every path is simple, its ends differ, and
every recovery path is a simple path from one of its nodes to a later one over none of the
links between (`DetourIsRing`, `SelectRings`). So an even number of the links of a ring
meets at every node (`RingIsEven`), while the primary path has an odd number at its ends
(`EndsOfPath`). One ring more exchanges its links among those used an odd number of times
(`OneRingMore`), which changes no node's parity (`ExchangeIsOdd`); by induction over the number
of rings an odd number meets at the two ends of the request and nowhere else
(`XorLinksConnect`). The path of a Q-CAST request is followed node by node
(`CompositeLeads`).

`Programs_proofs.tla` holds what is proved about five modules that the programs use. Of
`DelayModel`, for any settings and draws (`DelayAssumption`):

| Theorem | Statement |
|---|---|
| `Invariance` | `Spec => []IInv` |
| `TypeCorrect` | `Spec => []TypeOK` |
| `OneEvent` | `Spec => []OneEventOfAKind` |
| `BurstTimeIsReal` | `Spec => []BurstTimeAccounted` |

The two properties hang together. An update may find its burst over before the end event
has run, cancel that event and start the next burst at once (`UpdateDelayIInv`), so that the
reported duration is the time spent needs that no event runs after the end of its burst;
this needs the end event to be on the agenda at `burstEndTime` (`BurstsEnd`) and nothing to be
overdue (`NothingOverdue`, `NextEvent`).

Of `SwapSchedule`, for paths of any length (`MaxHopsAssumption`):

| Theorem | Statement |
|---|---|
| `SwapInvariance` | `SwapSpec => []SwapIInv` |
| `IndependentSwaps` | `SwapSpec => []SwapsAreIndependent` |
| `CompleteSwaps` | `SwapSpec => []SwapsAreComplete` |

Every index is an odd multiple of one power of two (`EveryNumberIsOddMultiple`,
`OneRoundOnly`), so every relay has one entry (`EveryRelaySwaps`, `OneEntryEach`), and the
rounds are enough for it (`EnoughRounds`). Two entries of one round are odd multiples of
the same power; between them lies an even multiple of it, whose relay swaps in a later
round (`HolderBetween`). That it still holds its pairs is the invariant: rounds run one
after another (`InRounds`), and the segments join each node that has not swapped with the
next of these (`SegmentsJoinHolders`).

Of `ChainApps`, for any length of the chain, delays and latencies, with a node for God or
without, relays that measure at once or one after another (`TimingAssumption`):

| Theorem | Statement |
|---|---|
| `ChainInvariance` | `ChainSpec => []ChainIInv` |
| `ChainTypeCorrect` | `ChainSpec => []ChainTypeOK` |
| `NothingMissing` | `ChainSpec => []NoCorrectionMissing` |

The frame at the end says nothing of the packets before it. What every state keeps is where
each outcome is: under way, lost or counted (`OutcomesCounted`), and that the frame is the
sum of those added up and those under way (`FrameAccounted`). Of a set of packets the frame
needs only the parity of each bit (`OwedWith`), so the order in which they arrive does not
matter. For a teleportation the sum is right only while no packet comes after its owner has
measured; `MeasuredOnTime` and `OnePacketEach` give the times that `InTime` compares. A swap of
several relays that measure one after another does not get that far: `CrashIInv` finds the
relay that measured before, and `CrashedForAReason` keeps the cause.

Of `DistillApps`, for any number of halvings and any latency (`DistillAssumption`):

| Theorem | Statement |
|---|---|
| `DistillInvariance` | `DistillSpec => []DistillIInv` |
| `DistillConcludes` | `DistillSpec => []DistillationConcludes` |

The recursion is dealt with once: what `Distillate` schedules makes every pair once and
before its rounds, measures every pair but the first once, and ends with the round between
the two halves (`IsSchedule`, `HalvesAreSchedule`). Three counters then tell where the
simulation is: `c` calls have been made, of the first `d` Bob has the packet, and of the rounds
among the first `v` Alice has the verdict, with `v <= d <= c`. Since each step takes the same time,
what comes first is the next of one of the three (`RunsInOrder`), however many rounds
lie between the counters; so Bob's qubits have come before he is told of their round, and what he
has measured is a prefix of what Alice has (`MeasuredUpTo`). What a qubit holds cannot be
followed through overlapping rounds on one side only; the invariant says that some bits the
pairs were made with explain both memories and every packet (`ExplainedBy`). An outcome is then
the parity of two of these (`After`), and agrees with the other side's if the two pairs were
flipped alike (`OutcomesTell`).

Of `RouteSimulation`, for any setup times, delays, jitters and losses, and routes of any
length (`RouteAssumption`):

| Theorem | Statement |
|---|---|
| `RouteInvariance` | `RouteSpec => []RouteIInv` |
| `EndsAreLeftAlone` | `RouteSpec => []EndsLeftAlone` |
| `WaitsFollowPrediction` | `RouteSpec => []WaitsAsPredicted` |

That the ends are in the Bell state when they are measured says nothing of the swaps before.
The invariant says how far each program has come: `Row` is a route whose first `k` links are one
pair, off by the outcomes that are still under way, and whose others are as they were made;
`StudyKept` gives a study its three phases (`SetsUp`, `Swaps`, `Signals`), and `Told` the mismatch
example its two routes side by side, whose events come in any order and take nothing from each
other's qubits. A measurement joins the two pairs it finds in a row
(`HasMeasured`) and a correction takes back what its outcomes changed (`HasCorrected`); that
the pairs found are those of the row needs that no two pairs share a qubit (`Row` and
`Foreign`). For the waits the invariant has when each qubit was made and how many signals were
sent before it was measured; the chain starts no earlier than any link is set up, because
rounding to milliseconds keeps the order of times (`RoundingGrows`, `ChainStartsLast`), and two
roundings are off by less than a unit (`RoundedWait`).

Sums and searches along a path are recursive functions in `LabelSearch` and `QCast` (`Cost`,
`SimplePaths`), as the schedule of a distillation is. What they compute is proved by induction over sets of numbers
(`NatSetInduction`, from the well-foundedness of `<` and `WFMin`), since the induction
theorems of the library take operators.

**Model-checked only:** liveness (`FairSpec`, the `...Live` refinements, `SearchEnds`,
`EndsInOnePair`, `ChainDelivers`), which is out of the prover's reach; and everything in
`TensorNetwork`, `AdaptApps` and `StudyTopology`, whose operators fold
over sequences and sets or are recursive, so that what they compute is a matter of
induction over data.

Some of what is proved is not a property of a run any more: `TypeOK` of each module,
`NoStaleTimerOrRetry`, `SegmentsSpanRoute`, `RetryStartsClean`, `ReportedOnce`, and
the refinements of `PathService`, `SignalingService` and `EntanglementService` without
their liveness, which `...Live` of the runs implies.

## 6. Not modelled

- Quantum amplitudes, probabilities and fidelities: they are floating-point
  numbers on which, but for the draw of an outcome, no control depends. The other
  fidelity families of the routing metric are left out for the same reason.
- The basis (constants, gate matrices), nodes, channels and sockets (filled once),
  the helpers that install stacks and applications, packet formats, reports and
  files.
- `q-cast-dynamic-delay-example.cc` and `routing-comparison-example.cc`, which
  drive modelled components by hand and add no state of their own.
- The legacy L3 protocol, which is not built.
- The lifetime of C++ objects: a callback that releases its own path erases the
  callback object while it runs (`model/quantum-network-layer.cc:961`). A call of
  `SetupPath` or `ReleasePath` from within a callback is a step right after it.
- Retries over a route whose links have changed need no composition: `CompleteRequest`
  may fail at any attempt in `NetworkLayer`, which is all a link that is gone does.
- Checkpoints and the children of subcircuits are globals shared by all simulators of
  a process; one simulator is modelled.
- The flags `m_initialized` and the fall-backs of Q-CAST to the network layer's
  neighbours, which no topology with a row per node reaches.
