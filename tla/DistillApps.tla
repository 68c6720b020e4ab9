----------------------------- MODULE DistillApps -----------------------------
(***************************************************************************)
(* DistillApp and DistillNestedApp, which measure as they go: Alice and    *)
(* Bob distill one pair from two, or from N by halves, and each round ends *)
(* with a verdict that Bob sends back.                                     *)
(*                                                                         *)
(* The circuit has CNOTs and measurements only, so a pair is modelled by   *)
(* the bits its qubits would be measured as: they agree unless the channel *)
(* has flipped Bob's. Other noise changes no outcome.                      *)
(***************************************************************************)
EXTENDS EventAgenda, Integers, Sequences, FiniteSets

CONSTANTS
  Step,           \* a tenth of a second, which the applications leave for each step
  Distillations   \* the simulations: the application, how often the pairs are halved until
                  \* two are left, the time packets take, and the bits Alice's qubits may have

Bit == {0, 1}

ASSUME DistillAssumption ==
  /\ Step \in Nat
  /\ Distillations \subseteq
       [app : {"DistillApp", "DistillNestedApp"}, halvings : Nat, latency : Nat, bits : SUBSET Bit]

VARIABLES
  distillation, \* the simulation
  flips,        \* which of Bob's qubits the channel flips
  pending,      \* the events of the simulator
  scheduled,    \* the number of events scheduled so far
  alice,        \* the bit of each qubit of Alice
  bob,          \* the bit of each qubit in Bob's memory
  measured,     \* the qubits each has measured, in order
  win           \* m_win of each application

distillVars == <<distillation, flips, pending, scheduled, alice, bob, measured, win>>

\* Mutant: the second of the pairs, as in the round of two.
SecondPair(n) == 1

\* The first qubit of the second half is measured.
Meas(n) == n \div 2

Call(op, goal, meas) == [op |-> op, goal |-> goal, meas |-> meas]
Shifted(calls, n) ==
  [k \in DOMAIN calls |-> Call(calls[k].op, calls[k].goal + n, calls[k].meas + n)]

\* Two pairs are made and distilled.
OfTwo ==
  [pairs |-> 2, calls |-> <<Call("epr", 0, 0), Call("epr", 1, 1), Call("round", 0, Meas(2))>>]

\* Both halves, then a round between what is left of them.
OfHalves(half) ==
  [pairs |-> 2 * half.pairs,
   calls |-> half.calls \o Shifted(half.calls, half.pairs)
               \o <<Call("round", 0, Meas(2 * half.pairs))>>]

\* The number of pairs, and the calls in the order they are scheduled.
Distillate(halvings) ==
  LET upTo[i \in 0 .. halvings] == IF i = 0 THEN OfTwo ELSE OfHalves(upTo[i - 1])
  IN upTo[halvings]

Pairs == 0 .. Distillate(distillation.halvings).pairs - 1
Calls == Distillate(distillation.halvings).calls

\* DistillApp::Distillate starts after 2.1 seconds. The calls are one step apart.
StartDelay == IF distillation.app = "DistillApp" THEN 21 * Step ELSE 0
CallTime(k) == StartDelay + (k - 1) * Step

\* An event is the k-th call, or a packet that goes back to it.
EventOf(k) == [at |-> CallTime(k), uid |-> k, op |-> Calls[k].op, call |-> k, bit |-> 0]
Goal(e) == Calls[e.call].goal
Measured(e) == Calls[e.call].meas

DistillInit ==
  /\ distillation \in Distillations
  /\ flips \in [Pairs -> Bit]
  /\ pending = {EventOf(k) : k \in DOMAIN Calls}
  /\ scheduled = Len(Calls)
  /\ alice = <<>> /\ bob = <<>>
  /\ measured = [Alice |-> <<>>, Bob |-> <<>>]
  /\ win = [Alice |-> FALSE, Bob |-> FALSE]

First == CHOOSE e \in pending : IsNext(e, pending)

\* The first event runs, and sends the packets.
RunFirst(op, packets) ==
  /\ pending # {} /\ First.op = op
  /\ pending' = (pending \ {First}) \cup packets
  /\ scheduled' = scheduled + Cardinality(packets)
  /\ UNCHANGED <<distillation, flips>>

Packet(op, bit) ==
  [at |-> First.at + distillation.latency, uid |-> scheduled + 1, op |-> op,
   call |-> First.call, bit |-> bit]

With(bits, q, bit) == [p \in DOMAIN bits \cup {q} |-> IF p = q THEN bit ELSE bits[p]]

\* CNOT of the goal qubit onto the one that is measured.
Cnot(bits) == With(bits, Measured(First), (bits[Measured(First)] + bits[Goal(First)]) % 2)

GenerateAndDistributeEPR ==
  \E bit \in distillation.bits :
    /\ RunFirst("epr", {Packet("qubit", (bit + flips[Goal(First)]) % 2)})
    /\ alice' = With(alice, Goal(First), bit)
    /\ UNCHANGED <<bob, measured, win>>

ReceiveQubit ==
  /\ RunFirst("qubit", {})
  /\ bob' = With(bob, Goal(First), First.bit)
  /\ UNCHANGED <<alice, measured, win>>

\* DistillateOnce, and Send of DistillApp: Alice's half of a round.
DistillateOnce ==
  /\ RunFirst("round", {Packet("outcome", Cnot(alice)[Measured(First)])})
  /\ alice' = Cnot(alice)
  /\ measured' = [measured EXCEPT !.Alice = Append(@, Measured(First))]
  /\ UNCHANGED <<bob, win>>

\* Bob's half. He can only operate on what is in his memory.
BobReads ==
  /\ pending # {} /\ {Goal(First), Measured(First)} \subseteq DOMAIN bob
  /\ LET same == Cnot(bob)[Measured(First)] = First.bit
     IN /\ RunFirst("outcome", {Packet("verdict", IF same THEN 1 ELSE 0)})
        /\ win' = [win EXCEPT !.Bob = same]
  /\ bob' = Cnot(bob)
  /\ measured' = [measured EXCEPT !.Bob = Append(@, Measured(First))]
  /\ UNCHANGED alice

AliceReads ==
  /\ RunFirst("verdict", {})
  /\ win' = [win EXCEPT !.Alice = First.bit = 1]
  /\ UNCHANGED <<alice, bob, measured>>

DistillNext ==
  \/ GenerateAndDistributeEPR \/ ReceiveQubit
  \/ DistillateOnce \/ BobReads \/ AliceReads

DistillSpec == DistillInit /\ [][DistillNext]_distillVars

-----------------------------------------------------------------------------
(* Properties.                                                             *)

\* However long packets take, and so however many rounds of the schedule overlap: both
\* sides measure the same qubits in the same order and never one twice, and Bob has
\* what he operates on. In the end one pair is left, flipped as the channel left it.
\* If all the outcomes agree, every pair had been flipped like it; but the verdict both
\* keep tells only whether the survivors of the two halves were flipped alike.
DistillationConcludes ==
  /\ pending # {} /\ First.op = "outcome" => {Goal(First), Measured(First)} \subseteq DOMAIN bob
  /\ \A k \in DOMAIN measured.Bob : k <= Len(measured.Alice) /\ measured.Bob[k] = measured.Alice[k]
  /\ Len(measured.Alice) = Cardinality({measured.Alice[k] : k \in DOMAIN measured.Alice})
  /\ pending = {} =>
       LET used == {measured.Bob[k] : k \in DOMAIN measured.Bob}
           survivors == Pairs \ used
       IN /\ survivors = {0} /\ flips[0] = (alice[0] + bob[0]) % 2
          /\ (\A q \in used : alice[q] = bob[q]) => \A q \in Pairs : flips[q] = flips[0]
          /\ \A owner \in {"Alice", "Bob"} :
               win[owner] <=> flips[0] = flips[Cardinality(Pairs) \div 2]

-----------------------------------------------------------------------------
(* What every state keeps, so that a distillation concludes.               *)

Rounds == {k \in DOMAIN Calls : Calls[k].op = "round"}
MakesPairs == {k \in DOMAIN Calls : Calls[k].op = "epr"}

Stage(e) == CASE e.op \in {"epr", "round"} -> 0
              [] e.op \in {"qubit", "outcome"} -> 1
              [] e.op = "verdict" -> 2

\* Bob's qubits were flipped alike.
Agree(k) == flips[Calls[k].goal] = flips[Calls[k].meas]

\* c calls have been made; of the first d the packet has come, and of the rounds
\* among the first v the verdict, too. The calls whose event of a stage is to come:
WaitsFor(c, d, v) ==
  [stage \in 0 .. 2 |->
     IF stage = 0 THEN c + 1 .. Len(Calls)
     ELSE IF stage = 1 THEN d + 1 .. c
     ELSE Rounds \cap (v + 1 .. d)]

DistillTypeOK ==
  /\ distillation \in Distillations
  /\ flips \in [Pairs -> Bit]
  /\ scheduled \in Nat /\ scheduled >= Len(Calls)
  /\ pending \subseteq [at : Nat, uid : 1 .. scheduled, call : DOMAIN Calls, bit : Bit,
                        op : {"epr", "round", "qubit", "outcome", "verdict"}]
  /\ measured \in [Alice : Seq(Pairs), Bob : Seq(Pairs)]
  /\ win \in [Alice : BOOLEAN, Bob : BOOLEAN]

\* Calls and packets run in the order of the calls.
InOrder(waits) ==
  /\ \A e \in pending :
       /\ e.call \in waits[Stage(e)]
       /\ e.at = CallTime(e.call) + Stage(e) * distillation.latency
       /\ IF Stage(e) = 0 THEN e = EventOf(e.call) ELSE e.uid > Len(Calls)
       /\ Stage(e) = 1 => (e.op = "qubit" <=> e.call \in MakesPairs)
  /\ \A stage \in 0 .. 2 : \A k \in waits[stage] :
       \E e \in pending : Stage(e) = stage /\ e.call = k
  /\ \A e, f \in pending :
       /\ e.uid = f.uid => e = f
       /\ Stage(e) = Stage(f) => /\ e.call < f.call => e.uid < f.uid
                                 /\ e.call = f.call => e = f

\* The place of the k-th call among the rounds.
Place(k) == Cardinality(Rounds \cap (1 .. k))

\* The rounds among the first n calls have been measured, in order.
MeasuredUpTo(qubits, n) ==
  /\ Len(qubits) = Place(n)
  /\ \A i \in DOMAIN qubits :
       \E k \in Rounds \cap (1 .. n) : i = Place(k) /\ qubits[i] = Calls[k].meas

\* What a round leaves in the qubit it measures, if its pairs were made with these bits.
After(own, k) == (own[Calls[k].meas] + own[Calls[k].goal]) % 2

\* The bits that the first n calls left are explained by those the qubits were made with.
Explains(own, held, n) ==
  /\ DOMAIN held = {Calls[k].goal : k \in MakesPairs \cap (1 .. n)}
  /\ \A q \in DOMAIN held :
       (\A k \in Rounds \cap (1 .. n) : Calls[k].meas # q) => held[q] = own[q]
  /\ \A k \in Rounds \cap (1 .. n) : held[Calls[k].meas] = After(own, k)

Others(bits) == [q \in Pairs |-> (bits[q] + flips[q]) % 2]

\* What the packets tell.
PacketsTell(bits) ==
  \A e \in pending :
    /\ e.op = "qubit" => e.bit = Others(bits)[Goal(e)]
    /\ e.op = "outcome" => e.bit = After(bits, e.call)
    /\ e.op = "verdict" => (e.bit = 1 <=> Agree(e.call))

ExplainedBy(bits, c, d) ==
  Explains(bits, alice, c) /\ Explains(Others(bits), bob, d) /\ PacketsTell(bits)

\* The last round tells whether the two survivors were flipped alike.
Concluded(d, v) ==
  /\ d = Len(Calls) => (win.Bob <=> Agree(Len(Calls)))
  /\ v = Len(Calls) => (win.Alice <=> Agree(Len(Calls)))

DistillIInv ==
  /\ DistillTypeOK
  /\ \E c, d, v \in 0 .. Len(Calls) :
       /\ v <= d /\ d <= c
       /\ InOrder(WaitsFor(c, d, v))
       /\ MeasuredUpTo(measured.Alice, c) /\ MeasuredUpTo(measured.Bob, d)
       /\ \E bits \in [Pairs -> Bit] : ExplainedBy(bits, c, d)
       /\ Concluded(d, v)
=============================================================================
