------------------------------ MODULE AdaptApps ------------------------------
(***************************************************************************)
(* The applications that defer their measurements: DistillNestedAdaptApp,  *)
(* EntSwapAdaptApp, EntSwapAdaptLocalApp, TelepAdaptApp and                *)
(* TelepLinAdaptApp. Each is a program of calls to the physical entity     *)
(* that the simulator runs at the times it was scheduled for; applications *)
(* that share an entity share its tensor network, and their calls          *)
(* interleave.                                                             *)
(*                                                                         *)
(* The model runs the calls on TensorNetwork, with the two clocks that say *)
(* where QuantumPhyEntity applies the noise of waiting: that noise appends *)
(* tensors, and it fails the assertion of ApplyOperation for a qubit that  *)
(* has been traced while a memory still holds its name.                    *)
(*                                                                         *)
(* Owners are the ranks of the nodes in a chain, and God, who has a node   *)
(* where main lists him among the owners. A qubit's name is                *)
(* <<application, role, rank>>.                                            *)
(***************************************************************************)
EXTENDS TensorNetwork, SequencesExt

CONSTANTS
  God,            \* the owner that operates on every qubit
  Nobody,         \* stands for the owner of a qubit no memory holds
  PacketLatency,  \* the time a qubit or a message travels
  EprDelay,       \* DIST_EPR_DELAY
  ClassicalDelay, \* CLASSICAL_DELAY, and the 0.1 s of TelepAdaptApp
  Programs        \* sequences of the applications a simulation may run, with their times

\* What the delays must be.
DelaysAssumption ==
  /\ {PacketLatency, EprDelay, ClassicalDelay} \subseteq Nat
  /\ PacketLatency < EprDelay /\ EprDelay < ClassicalDelay

VARIABLES
  hasGod,     \* m_owner2pnode has a node for God
  now,        \* Simulator::Now
  agenda,     \* the events in the order in which they were scheduled
  holder,     \* the owner whose memory has the qubit
  lastTime,   \* m_qubit2lastTime
  qubitTime,  \* m_qubit2time
  occupied,   \* m_occupied of the distillation
  status,     \* "running", or the call whose assertion failed
  intended    \* the qubits the applications are there to leave

clocks == <<lastTime, qubitTime>>
vars == <<networkVars, hasGod, now, agenda, holder, clocks, occupied, status, intended>>

Call(op, owner, qs) == [op |-> op, owner |-> owner, qs |-> qs, n |-> 0]
At(t, call) == [at |-> t, call |-> call]

-----------------------------------------------------------------------------
(* The programs.                                                           *)

\* GenerateAndDistributeEPR from owner o to o + 1.
Distribute(o, p, q) == Call("distribute", o, <<p, q>>)
Gate(o, qs) == Call("gate", o, qs)
Trace(q) == Call("trace", God, <<q>>)

Alice == 0
Bob == 1
Goal(i) == <<<<"distill", "A", i>>, <<"distill", "B", i>>>>
FlagQubit == <<"distill", "flag", 0>>

\* DistillNestedAdaptApp::Distillate: the rounds for n pairs, in the order in which
\* the recursion schedules them. A round leaves pair lo at the cost of pair lo + n / 2.
Rounds[lo \in Nat, n \in Nat] ==
  IF n = 2 THEN <<[lo |-> lo, n |-> 2]>>
  ELSE Rounds[lo, n \div 2] \o Rounds[lo + n \div 2, n \div 2] \o <<[lo |-> lo, n |-> n]>>

\* DistillateOnce schedules the calls of round r of a distillation of n pairs; they
\* run when what was scheduled before no longer occupies the application.
EprCalls(r) ==
  IF r.n = 2 THEN <<Distribute(Alice, Goal(r.lo)[1], Goal(r.lo)[2]),
                    Distribute(Alice, Goal(r.lo + 1)[1], Goal(r.lo + 1)[2])>>
  ELSE <<>>

ParityCalls(r) ==
  LET goal == Goal(r.lo)  meas == Goal(r.lo + r.n \div 2)
      anc == <<"distill", "anc", r.lo + r.n \div 2>>
  IN << Gate(Alice, <<meas[1], goal[1]>>), Gate(Bob, <<meas[2], goal[2]>>),
        Gate(God, <<meas[2], meas[1]>>), Trace(meas[1]),
        Gate(God, <<meas[2]>>), Call("pure", Alice, <<anc>>),
        Gate(God, <<anc, meas[2], FlagQubit>>), Trace(meas[2]),
        Gate(God, <<anc, FlagQubit>>), Trace(anc) >>

LastCalls(r) ==
  LET goal == Goal(r.lo)
  IN << Call("distill", God, <<>>), Call("peek", God, goal), Call("measure", Alice, <<FlagQubit>>),
        Call("peek", God, goal), Call("fidelity", God, goal) >>

\* EntSwapAdaptLocalApp::EntanglementSwapping of a chain of n owners.
Former(app, r) == <<app, "former", r>>
Latter(app, r) == <<app, "latter", r>>

LocalPair(r) == Call("mixed", God, <<Latter("local", r), Former("local", r + 1)>>)
BellCalls(app, o, r) == <<Gate(o, <<Latter(app, r), Former(app, r)>>), Gate(o, <<Former(app, r)>>)>>

LocalSwap(r) ==
  <<LocalPair(r)>> \o BellCalls("local", God, r) \o
  << Gate(God, <<Latter("local", r), Latter("local", r - 1)>>), Trace(Latter("local", r - 1)),
     Gate(God, <<Former("local", r), Former("local", r - 1)>>), Trace(Former("local", r - 1)) >>

\* Mutant: the outcomes are not traced after the correction.
CorrectedOnly(o, t, x, z) == << Call("controlled", o, <<t, x>>), Call("controlled", o, <<t, z>>) >>

\* The correction of qubit t by x and z, which are not used afterwards.
Corrected(o, t, x, z) ==
  << Call("controlled", o, <<t, x>>), Trace(x), Call("controlled", o, <<t, z>>), Trace(z) >>

LocalCalls(n) ==
  LET ends == <<Latter("local", 0), Former("local", n - 1)>>
  IN <<LocalPair(0), LocalPair(1)>> \o BellCalls("local", God, 1)
     \o FlattenSeq([k \in 1 .. n - 3 |-> LocalSwap(k + 1)])
     \o Corrected(n - 1, ends[2], Latter("local", n - 2), Former("local", n - 2))
     \o << Call("ascend", God, <<>>), Call("peek", God, ends), Call("fidelity", God, ends) >>

\* EntSwapAdaptApp::EntanglementSwapping, after the pairs have been distributed.
Flag(role) == <<"swap", role, 0>>

SwapCalls(n) ==
  << Call("pure", God, <<Flag("x")>>), Call("pure", God, <<Flag("z")>>) >>
  \o FlattenSeq([r \in 1 .. n - 2 |->
       BellCalls("swap", God, r) \o
       << Gate(God, <<Flag("x"), Latter("swap", r)>>), Trace(Latter("swap", r)),
          Gate(God, <<Flag("z"), Former("swap", r)>>), Trace(Former("swap", r)) >>])
  \o Corrected(n - 1, Former("swap", n - 1), Flag("x"), Flag("z"))
  \o << Call("greed", God, <<>>) >>

\* TelepAdaptApp::Teleport: what is scheduled now and what CLASSICAL_DELAY later.
TelepFirst == << Call("pure", Alice, <<Former("telep", 0)>>),
                 Distribute(Alice, Latter("telep", 0), Former("telep", 1)) >>
TelepThen ==
  BellCalls("telep", Alice, 0)
  \o Corrected(Bob, Former("telep", 1), Latter("telep", 0), Former("telep", 0))
  \o << Call("ascend", God, <<>>), Call("peek", Bob, <<Former("telep", 1)>>) >>

\* TelepLinAdaptApp::Teleport of owner r, and the end of the chain.
LinCalls(r) ==
  BellCalls("lin", r, r)
  \o (IF r = 0 THEN <<>> ELSE
       << Gate(God, <<Latter("lin", r), Latter("lin", r - 1)>>), Trace(Latter("lin", r - 1)),
          Gate(God, <<Former("lin", r), Former("lin", r - 1)>>), Trace(Former("lin", r - 1)) >>)

LinEnd(r) ==
  Corrected(r, Former("lin", r), Latter("lin", r - 1), Former("lin", r - 1))
  \o << Call("ascend", God, <<>>), Call("peek", r, <<Former("lin", r)>>) >>

\* The events that start an application at time t, of n pairs or owners.
Starting(app, t, n) == At(t, [op |-> app, owner |-> God, qs |-> <<>>, n |-> n])

\* What main schedules for an application: the pairs of a chain are distributed
\* before the swaps start.
Scheduled(p) ==
  IF p.app # "startSwap" THEN <<Starting(p.app, p.at, p.n)>>
  ELSE [r \in 1 .. p.n - 1 |-> At(p.at, Distribute(r - 1, Latter("swap", r - 1), Former("swap", r)))]
       \o <<Starting(p.app, p.at + p.n * EprDelay, p.n)>>

\* The qubits an application is there to leave.
LeftBy(app, n) ==
  CASE app = "startDistill" -> {Goal(0)[1], Goal(0)[2], FlagQubit}
    [] app = "startLocal" -> {Latter("local", 0), Former("local", n - 1)}
    [] app = "startSwap" -> {Latter("swap", 0), Former("swap", n - 1)}
    [] app = "startTelep" -> {Former("telep", 1)}
    [] app = "startLin" -> {Former("lin", n - 1)}
    [] OTHER -> {}

Init ==
  /\ NetworkInit
  /\ hasGod \in BOOLEAN
  /\ now = 0
  /\ \E program \in Programs :
       agenda = FlattenSeq([k \in DOMAIN program |-> Scheduled(program[k])])
  /\ holder = [q \in Qubits |-> Nobody]
  /\ lastTime = [q \in Qubits |-> 0]
  /\ qubitTime = [q \in Qubits |-> 0]
  /\ occupied = 0
  /\ status = "running"
  /\ intended = UNION {LeftBy(agenda[k].call.op, agenda[k].call.n) : k \in DOMAIN agenda}

-----------------------------------------------------------------------------
(* The simulator runs the event that is first in time, and among those the *)
(* one that was scheduled first.                                           *)

First ==
  CHOOSE k \in DOMAIN agenda :
    /\ \A j \in DOMAIN agenda : agenda[k].at <= agenda[j].at
    /\ \A j \in 1 .. k - 1 : agenda[k].at < agenda[j].at

time == agenda[First].at
call == agenda[First].call
qs == call.qs

InOrder(t, calls) == [k \in DOMAIN calls |-> At(t, calls[k])]

CheckOwned(o, S) == o = God \/ \A q \in S : holder[q] = o

\* The names in all memories of qubits whose decoherence is still to be applied.
Pending == {q \in Qubits : holder[q] # Nobody /\ lastTime[q] < time}

\* ApplyGate and the generation of qubits use the owner's node, God's too.
LacksNode == call.op \in {"gate", "pure", "mixed"} /\ call.owner = God /\ ~hasGod

\* The assertions of the calls, in the entity and in the simulator.
Fails ==
  LET S == Members(qs)
  IN \/ LacksNode
     \/ call.op \in {"gate", "controlled", "trace", "receive"} /\ ~ S \subseteq net.valid
     \/ call.op \in {"gate", "measure", "peek"} /\ ~ CheckOwned(call.owner, S)
     \/ call.op \in {"pure", "distribute"} /\ S \cap net.all # {}
     \/ call.op \in {"measure", "fidelity"} /\ ~ Pending \subseteq net.valid
     \/ call.op \in {"measure", "peek", "fidelity"}
          /\ Cardinality(Peeked(net, qs)) # 2 * Cardinality(S)
     \/ call.op \in {"ascend", "greed", "distill"} /\ ~ Contractible(net)
     \/ call.op = "distill"
          /\ \E k \in 1 .. Len(subcircs) - 1 : subcircs[k].lo >= subcircs[k].hi

\* The event runs, and schedules others.
Runs(op, new) ==
  /\ status = "running" /\ agenda # <<>>
  /\ call.op = op
  /\ ~ Fails
  /\ now' = time
  /\ agenda' = RemoveAt(agenda, First) \o new
  /\ UNCHANGED <<hasGod, status, intended>>

\* An assertion ends the program.
Abort ==
  /\ status = "running" /\ agenda # <<>> /\ Fails
  /\ status' = call.op
  /\ now' = time
  /\ agenda' = <<>>
  /\ UNCHANGED <<networkVars, hasGod, holder, clocks, occupied, intended>>

-----------------------------------------------------------------------------
(* The calls to the physical entity.                                       *)

SetAll(f, S, v) == [q \in Qubits |-> IF q \in S THEN v ELSE f[q]]

\* One ApplyOperation for every qubit of a sequence.
Noisy(n, noisy) == FoldLeft(LAMBDA m, q : ApplyOperation(m, <<q>>), n, noisy)
AllNoisy(n, S) == FoldSet(LAMBDA q, m : ApplyOperation(m, <<q>>), n, S)

\* The qubits to which time is applied before an operation that asks the memory of
\* o, or every memory when o is Nobody.
Waited(o) ==
  SelectSeq(qs, LAMBDA q :
    \/ holder[q] # Nobody /\ o \in {holder[q], Nobody} /\ lastTime[q] < time
    \/ qubitTime[q] < time)

\* GenerateQubitsPure and GenerateQubitsMixed of the entity.
GenerateQubits ==
  /\ \/ Runs("pure", <<>>) /\ net' = GenerateQubitsPure(net, qs)
     \/ Runs("mixed", <<>>) /\ net' = GenerateQubitsMixed(net, qs)
  /\ holder' = SetAll(holder, Members(qs), call.owner)
  /\ lastTime' = SetAll(lastTime, Members(qs), time)
  /\ qubitTime' = SetAll(qubitTime, Members(qs), time)
  /\ UNCHANGED <<subcircs, contraction, occupied>>

\* GenerateAndDistributeEPR: the second qubit leaves at once.
GenerateAndDistributeEPR ==
  /\ Runs("distribute", <<At(time + PacketLatency, Call("receive", call.owner + 1, <<qs[2]>>))>>)
  /\ net' = GenerateQubitsPure(net, qs)
  /\ holder' = [holder EXCEPT ![qs[1]] = call.owner, ![qs[2]] = Nobody]
  /\ lastTime' = SetAll(lastTime, Members(qs), time)
  /\ qubitTime' = SetAll(qubitTime, Members(qs), time)
  /\ UNCHANGED <<subcircs, contraction, occupied>>

\* DistributeEPRDstProtocol::HandleRead, with the noise of the connection.
ReceiveQubit ==
  /\ Runs("receive", <<>>)
  /\ holder' = SetAll(holder, Members(qs), call.owner)
  /\ net' = ApplyOperation(net, qs)
  /\ lastTime' = SetAll(lastTime, Members(qs), time)
  /\ qubitTime' = SetAll(qubitTime, Members(qs), time)
  /\ UNCHANGED <<subcircs, contraction, occupied>>

\* ApplyGate: the waiting of the operands, the gate, and the noise of the gate
\* unless it is God's.
ApplyGateTo ==
  /\ Runs("gate", <<>>)
  /\ LET gated == ApplyGate(Noisy(net, Waited(call.owner)), qs)
     IN net' = IF call.owner = God THEN gated ELSE Noisy(gated, qs)
  /\ lastTime' = SetAll(lastTime, {q \in Members(qs) : holder[q] = call.owner}, time)
  /\ qubitTime' = SetAll(qubitTime, Members(qs), time)
  /\ UNCHANGED <<subcircs, contraction, holder, occupied>>

\* ApplyControlledOperation: no waiting, and the noise of the gate on the target.
ApplyControlledOperation ==
  /\ Runs("controlled", <<>>)
  /\ net' = ApplyOperation(ApplyGate(net, qs), <<qs[1]>>)
  /\ qubitTime' = [qubitTime EXCEPT ![qs[1]] = time]
  /\ UNCHANGED <<subcircs, contraction, holder, lastTime, occupied>>

\* PartialTrace: the memory keeps the name.
TraceOut ==
  /\ Runs("trace", <<>>)
  /\ net' = PartialTrace(Noisy(net, Waited(Nobody)), qs)
  /\ lastTime' = SetAll(lastTime, {q \in Members(qs) : holder[q] # Nobody}, time)
  /\ qubitTime' = SetAll(qubitTime, Members(qs), time)
  /\ UNCHANGED <<subcircs, contraction, holder, occupied>>

\* EnsureAllDecoherence.
EnsureAllDecoherence ==
  /\ lastTime' = SetAll(lastTime, Pending, time)
  /\ qubitTime' = SetAll(qubitTime, Pending, time)

\* Measure: the collapse is a gate.
Measure ==
  /\ Runs("measure", <<>>)
  /\ EnsureAllDecoherence
  /\ net' = ApplyGate(AllNoisy(net, Pending), qs)
  /\ UNCHANGED <<subcircs, contraction, holder, occupied>>

\* CalculateFidelity and PeekDM read a copy of the network.
CalculateFidelity ==
  /\ Runs("fidelity", <<>>)
  /\ EnsureAllDecoherence
  /\ net' = AllNoisy(net, Pending)
  /\ UNCHANGED <<subcircs, contraction, holder, occupied>>

PeekDM ==
  /\ Runs("peek", <<>>)
  /\ UNCHANGED <<networkVars, holder, clocks, occupied>>

ContractNetwork ==
  \E optimizer \in {"ascend", "greed", "distill"} :
    /\ Runs(optimizer, <<>>)
    /\ Evaluated(optimizer)
    /\ net' = Contract(net)
    /\ UNCHANGED <<holder, clocks, occupied>>

SetCheckpoint ==
  /\ Runs("checkpoint", <<>>)
  /\ subcircs' = Checkpoint(subcircs, net.next)
  /\ UNCHANGED <<net, contraction, holder, clocks, occupied>>

-----------------------------------------------------------------------------
(* The handlers of the applications, which only schedule.                  *)

Schedules(op, new) ==
  /\ Runs(op, new)
  /\ UNCHANGED <<networkVars, holder, clocks, occupied>>

\* StartApplication of the distillation: the flag, and Distillate.
StartDistill ==
  Schedules("startDistill",
    << At(time, Call("pure", Alice, <<FlagQubit>>)), At(time, [call EXCEPT !.op = "distillate"]) >>)

\* Distillate: all rounds are scheduled for the time that is occupied now.
Distillate ==
  LET rounds == Rounds[0, call.n]
  IN Schedules("distillate",
       [k \in DOMAIN rounds |->
          At(time + occupied, [op |-> "distillateOnce", owner |-> Alice, n |-> call.n, qs |-> <<rounds[k]>>])])

\* DistillateOnce: the checkpoint comes before the pairs, and each pair occupies the
\* application for DIST_EPR_DELAY.
DistillateOnce ==
  LET r == qs[1]
      pairs == EprCalls(r)
      then == occupied + EprDelay * Len(pairs)
  IN /\ Runs("distillateOnce",
          <<At(time + occupied, Call("checkpoint", God, <<>>))>>
          \o [k \in DOMAIN pairs |-> At(time + occupied + EprDelay * (k - 1), pairs[k])]
          \o InOrder(time + then, ParityCalls(r))
          \o InOrder(time + then, IF r.n = call.n THEN LastCalls(r) ELSE <<>>))
     /\ occupied' = then
     /\ UNCHANGED <<networkVars, holder, clocks>>

StartLocalSwap == Schedules("startLocal", InOrder(time, LocalCalls(call.n)))

StartSwap == Schedules("startSwap", InOrder(time, SwapCalls(call.n)))

StartTelep ==
  Schedules("startTelep", InOrder(time, TelepFirst) \o InOrder(time + ClassicalDelay, TelepThen))

\* TelepLinAdaptApp::Teleport of owner r, which ends with Send.
Teleport(r, n) ==
  <<At(time, Distribute(r, Latter("lin", r), Former("lin", r + 1)))>>
  \o InOrder(time + ClassicalDelay, LinCalls(r))
  \o <<At(time + ClassicalDelay, [op |-> "send", owner |-> r, qs |-> <<>>, n |-> n])>>

StartLin ==
  Schedules("startLin",
    <<At(time, Call("pure", Alice, <<Former("lin", 0)>>))>> \o Teleport(0, call.n))

SendMessage ==
  Schedules("send", <<At(time + PacketLatency, [call EXCEPT !.op = "read", !.owner = @ + 1])>>)

HandleRead ==
  Schedules("read", IF call.owner = call.n - 1 THEN InOrder(time, LinEnd(call.owner))
                    ELSE Teleport(call.owner, call.n))

Next ==
  \/ GenerateQubits \/ GenerateAndDistributeEPR \/ ReceiveQubit
  \/ ApplyGateTo \/ ApplyControlledOperation \/ TraceOut
  \/ Measure \/ CalculateFidelity \/ PeekDM
  \/ ContractNetwork \/ SetCheckpoint
  \/ StartDistill \/ Distillate \/ DistillateOnce
  \/ StartLocalSwap \/ StartSwap \/ StartTelep
  \/ StartLin \/ SendMessage \/ HandleRead
  \/ Abort

Spec == Init /\ [][Next]_vars

-----------------------------------------------------------------------------
(* Properties.                                                             *)

\* When nothing is scheduled any more, the qubits that are left are those the
\* applications are there for: every other one has been traced, once. With
\* a node for God the only assertion that can fail before is the one of the noise of
\* waiting, when Measure or CalculateFidelity bring a qubit up to date that was traced
\* earlier and that a memory still names. Without one a call in his name fails, too.
OnlyGoalIsLeft ==
  /\ agenda = <<>> /\ status = "running" => net.valid = intended
  /\ status # "running" =>
       \/ /\ status \in {"measure", "fidelity"}
          /\ \E q \in net.all \ net.valid : holder[q] # Nobody /\ lastTime[q] < now
       \/ status \in {"gate", "pure", "mixed"} /\ ~hasGod
=============================================================================
