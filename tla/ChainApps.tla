------------------------------ MODULE ChainApps ------------------------------
(***************************************************************************)
(* The applications that carry entanglement or a state along a chain of    *)
(* owners 0..Last by Bell measurements whose two outcome bits travel as    *)
(* packets: EntSwapSrcApp and EntSwapDstApp, where the last owner gathers  *)
(* the outcomes of all relays before it corrects its qubit, and            *)
(* TelepSrcApp with TelepDstApp, where every owner corrects for the one    *)
(* before it. The times are those the two chain examples give them.        *)
(*                                                                         *)
(* The quantum state is given by its Pauli frame, the X and Z that still   *)
(* separate what the chain carries from what it would be without           *)
(* corrections to make; every outcome flips it and every gate of a         *)
(* correction flips it back. Link noise and decoherence add to it and do   *)
(* not interfere, so they are left out. The pairs have been distributed.   *)
(*                                                                         *)
(* A relay of a swap operates in the name of God, who needs a node for it, *)
(* and has its qubits traced as soon as they are measured, while its       *)
(* memory keeps their names: a measurement at a later time applies the     *)
(* waiting of all names there are and fails the assertion of               *)
(* ApplyOperation for a traced one. Either way the program ends.           *)
(***************************************************************************)
EXTENDS Integers, FiniteSets

CONSTANTS
  Last,        \* the last owner of the chain
  Hop,         \* TELEP_DELAY, between the start times of the applications
  LocalDelay,  \* CLASSICAL_DELAY, before TelepSrcApp measures
  Latencies,   \* bounds on the time a packet of outcomes may take
  ListenTimes  \* times at which EntSwapDstApp may start

\* A receiver starts before its sender measures, and owners start one after another.
ASSUME TimingAssumption ==
  /\ Last \in Nat /\ Last >= 2
  /\ Hop \in Nat /\ LocalDelay \in Nat /\ LocalDelay < Hop
  /\ ListenTimes \subseteq Nat /\ Latencies \subseteq Nat

VARIABLES
  chainApp,   \* the applications that run: "EntSwap" or "Telep"
  latency,    \* the bound of this run's network
  listenTime, \* start time of EntSwapDstApp
  godNode,    \* the owners of the entity include God
  spaced,     \* the relays of a swap start one after another, as in the example, or at once
  chainNow,   \* Simulator::Now
  sent,       \* the owners that have measured and sent their outcomes
  frame,      \* the Pauli frame of what the chain carries
  packets,    \* outcomes under way
  count,      \* m_count
  flag,       \* m_flag_x and m_flag_z
  corrected,  \* EntSwapDstApp has applied its gates
  lost,       \* owners whose outcomes nobody listened to
  crashed     \* a call of a relay has ended the program

chainSetup == <<chainApp, latency, listenTime, godNode, spaced>>
chainVars == <<chainSetup, chainNow, sent, frame, packets, count, flag, corrected, lost, crashed>>

Frames == [x : BOOLEAN, z : BOOLEAN]
Identity == [x |-> FALSE, z |-> FALSE]
f (+) g == [x |-> f.x # g.x, z |-> f.z # g.z]

\* Mutant: the receiver counts its own pair, too.
CountOneMore == Last

\* The attribute Count: one packet from every relay.
Count == Last - 1

\* The owners that measure; a teleportation starts at the first owner.
Senders == IF chainApp = "Telep" THEN 0 .. (Last - 1) ELSE 1 .. (Last - 1)

\* When they do: EntSwapSrcApp as it starts, TelepSrcApp after its local gates.
MeasureTime(i) ==
  IF chainApp = "Telep" THEN Hop * i + LocalDelay
  ELSE IF spaced THEN Hop * i ELSE Hop

\* Simulator::Stop.
End == Hop * Last

\* What the examples rely on: outcomes arrive before the next measurement.
InTime == LocalDelay + latency < Hop

\* The relays whose qubits are traced, at the time they are measured, and whose names
\* a later measurement finds in the memories.
TracedBefore == {i \in sent : MeasureTime(i) < chainNow}

\* Whether the receiver of i's outcomes has its socket.
Listens(i) == IF chainApp = "EntSwap" THEN chainNow >= listenTime ELSE chainNow >= Hop * i

ChainInit ==
  /\ chainApp \in {"EntSwap", "Telep"}
  /\ latency \in Latencies
  /\ listenTime \in ListenTimes
  /\ IF chainApp = "EntSwap" THEN godNode \in BOOLEAN /\ spaced \in BOOLEAN
     ELSE godNode = FALSE /\ spaced = TRUE
  /\ chainNow = 0
  /\ sent = {}
  /\ frame = Identity
  /\ packets = {}
  /\ count = Count
  /\ flag = Identity
  /\ corrected = FALSE
  /\ lost = {}
  /\ crashed = FALSE

\* Time passes once what is due has happened.
Advance ==
  /\ \A i \in Senders \ sent : chainNow # MeasureTime(i)
  /\ \A p \in packets : chainNow < p.at + latency
  /\ chainNow' = chainNow + 1
  /\ UNCHANGED <<chainSetup, sent, frame, packets, count, flag, corrected, lost, crashed>>

\* A relay of a swap needs God's node for its gates, and no traced name for its measurement.
MeasureSucceeds == chainApp = "EntSwap" => godNode /\ TracedBefore = {}

\* MeasureAndSend: a Bell measurement, whose outcomes are sent at once.
MeasureAndSend(i) ==
  /\ chainNow = MeasureTime(i) /\ i \in Senders \ sent
  /\ MeasureSucceeds
  /\ sent' = sent \cup {i}
  /\ \E outcome \in Frames :
       /\ frame' = frame (+) outcome
       /\ packets' = packets \cup {[from |-> i, outcome |-> outcome, at |-> chainNow]}
  /\ UNCHANGED <<chainSetup, chainNow, count, flag, corrected, lost, crashed>>

\* MeasureAndSend that ends the program: without God's node in ApplyGate, before anything
\* is measured; with it in the sweep of Measure.
MeasureCrashes(i) ==
  /\ chainNow = MeasureTime(i) /\ i \in Senders \ sent
  /\ ~MeasureSucceeds
  /\ crashed' = TRUE
  /\ UNCHANGED <<chainSetup, chainNow, sent, frame, packets, count, flag, corrected, lost>>

\* Mutant: the two digits of the packet are taken for each other.
ReadSwapped(p) == [x |-> p.outcome.z, z |-> p.outcome.x]

\* The gates a packet calls for: PX for its second digit, PZ for its first.
Read(p) == p.outcome

\* EntSwapDstApp::HandleRead: the outcomes are added up, and the gates applied
\* when the last of them has come.
HandleEntSwap(p) ==
  /\ chainApp = "EntSwap" /\ Listens(p.from)
  /\ packets' = packets \ {p}
  /\ flag' = flag (+) Read(p)
  /\ count' = count - 1
  /\ IF count - 1 = 0
     THEN frame' = frame (+) (flag (+) Read(p)) /\ corrected' = TRUE
     ELSE UNCHANGED <<frame, corrected>>
  /\ UNCHANGED <<chainSetup, chainNow, sent, lost, crashed>>

\* TelepDstApp::HandleRead: the owner after the sender applies the gates; they
\* reach the state only if the owner has not measured its qubit yet.
HandleTelep(p) ==
  /\ chainApp = "Telep" /\ Listens(p.from)
  /\ packets' = packets \ {p}
  /\ frame' = IF p.from + 1 \notin sent THEN frame (+) Read(p) ELSE frame
  /\ UNCHANGED <<chainSetup, chainNow, sent, count, flag, corrected, lost, crashed>>

\* Nobody listens on the port of the packet.
Drop(p) ==
  /\ ~Listens(p.from)
  /\ packets' = packets \ {p}
  /\ lost' = lost \cup {p.from}
  /\ UNCHANGED <<chainSetup, chainNow, sent, frame, count, flag, corrected, crashed>>

ChainNext ==
  /\ chainNow < End /\ ~crashed
  /\ \/ Advance
     \/ \E i \in Senders : MeasureAndSend(i) \/ MeasureCrashes(i)
     \/ \E p \in packets : HandleEntSwap(p) \/ HandleTelep(p) \/ Drop(p)

ChainSpec == ChainInit /\ [][ChainNext]_chainVars

\* The simulator runs its events until it stops.
FairChainSpec == ChainSpec /\ WF_chainVars(ChainNext)

-----------------------------------------------------------------------------
(* Properties.                                                             *)

\* The simulations that cannot end well: a swap without God's node, or of several relays
\* that measure one after another.
Doomed == chainApp = "EntSwap" /\ (~godNode \/ (spaced /\ Last > 2))

\* A program that has failed was to, before its end.
CrashedForAReason == crashed => Doomed /\ chainNow < End

\* EntSwapDstApp corrects with the outcomes of all relays or not at all, whatever
\* order they come in: after its gates the pair is as it should be. In a network that
\* is fast enough, no correction of either application is missing when the simulator
\* stops, unless a packet was lost: each met its qubit before it was measured. A program
\* fails only for want of God's node, or at a relay that measures after another one.
NoCorrectionMissing ==
  /\ chainApp = "EntSwap" /\ corrected => sent = Senders /\ frame = Identity
  /\ InTime /\ chainNow = End /\ lost = {} => frame = Identity
  /\ CrashedForAReason

\* If moreover the receiver listens before the first relay measures, what the chain
\* carries is in the end as if no correction had been needed; the simulations that a
\* relay's call fails never get there, whatever the network.
ChainDelivers ==
  /\ ~Doomed /\ InTime /\ listenTime <= Hop => <>[](sent = Senders /\ frame = Identity)
  /\ Doomed => <>[]crashed

-----------------------------------------------------------------------------
(* What every state keeps, so that no correction is missing.               *)

\* Every variable has values of its kind.
ChainTypeOK ==
  /\ chainApp \in {"EntSwap", "Telep"}
  /\ latency \in Latencies
  /\ listenTime \in ListenTimes
  /\ godNode \in BOOLEAN /\ spaced \in BOOLEAN
  /\ chainNow \in 0 .. End
  /\ sent \subseteq Senders
  /\ frame \in Frames
  /\ packets \subseteq [from : sent, outcome : Frames, at : Nat] /\ IsFiniteSet(packets)
  /\ count \in Nat
  /\ flag \in Frames
  /\ corrected \in BOOLEAN
  /\ lost \subseteq sent
  /\ crashed \in BOOLEAN

\* An owner has measured when its time has passed, and not before.
MeasuredOnTime ==
  /\ \A i \in Senders : MeasureTime(i) < chainNow => i \in sent
  /\ \A i \in sent : MeasureTime(i) <= chainNow

\* A packet is under way from when its owner measures until it has taken its time, the only
\* one of its owner, and none that was lost.
OnePacketEach ==
  /\ \A p \in packets :
       /\ p.at = MeasureTime(p.from)
       /\ chainNow <= p.at + latency
       /\ p.from \notin lost
  /\ \A p, q \in packets : p.from = q.from => p = q

\* Every outcome is under way, lost or counted, and the gates are applied at the last.
OutcomesCounted ==
  chainApp = "EntSwap" =>
    /\ count + Cardinality(sent) = Count + Cardinality(packets) + Cardinality(lost)
    /\ corrected <=> count = 0

\* What the outcomes under way still call for.
Odd(S) == Cardinality(S) % 2 = 1
Owed == [x |-> Odd({p \in packets : p.outcome.x}), z |-> Odd({p \in packets : p.outcome.z})]

\* The frame is made of the outcomes that were added up and those that are under way. A
\* teleportation makes it so only while its packets are in time.
FrameAccounted ==
  /\ chainApp = "Telep" => flag = Identity /\ ~corrected
  /\ lost = {} /\ (chainApp = "Telep" => InTime) =>
       frame = IF corrected THEN Identity ELSE flag (+) Owed

ChainIInv ==
  /\ ChainTypeOK /\ MeasuredOnTime /\ OnePacketEach /\ OutcomesCounted /\ FrameAccounted
  /\ CrashedForAReason
=============================================================================
