------------------------------ MODULE PhyEntity ------------------------------
(***************************************************************************)
(* QuantumPhyEntity with the memories of its nodes: where each qubit is    *)
(* stored, and how the decoherence of the time it spends there is put off  *)
(* until an operation needs it. Two clocks tell what is still to be        *)
(* applied: the memory's m_qubit2lastTime and the entity's m_qubit2time,   *)
(* which every operation on the qubit moves, noise or not.                 *)
(*                                                                         *)
(* The state of the qubits is given by the time whose decoherence has been *)
(* applied to each; gates, outcomes and the noise of gates and links are   *)
(* not in it. Every qubit has an error model, since GenerateQubits gives   *)
(* it one, and TimeModel applies the time from m_qubit2time to now.        *)
(*                                                                         *)
(* "God" may operate on every qubit, and does: the relays of swaps apply   *)
(* gates in God's name. ApplyGate then asks God's memory, which seldom     *)
(* holds the qubit, so that TimeModel applies a span the memory that does  *)
(* hold it will apply again. The variable addedByGod, which no code reads, *)
(* keeps the account of these spans.                                       *)
(***************************************************************************)
EXTENDS Naturals

CONSTANTS
  Owners,     \* the owners that have a node; God can be one
  God,        \* the owner that may operate on every qubit
  Operators,  \* the owners that apply gates and measure
  Nobody,     \* stands for the owner of a qubit no memory holds
  Qubits,     \* names of the qubits
  MaxTime     \* bound: the simulated time

ASSUME OwnersAssumption ==
  /\ Operators \subseteq Owners \cup {God}
  /\ Nobody \notin Owners \cup {God}
ASSUME TimeAssumption == MaxTime \in Nat

VARIABLES
  now,        \* Simulator::Now
  tensor,     \* "fresh", "valid" (in m_qubits_vld) or "traced"
  holder,     \* the owner whose m_qubits has the qubit
  packet,     \* the owner a DistributeEPR packet brings the qubit to
  lastTime,   \* m_qubit2lastTime of the memory that holds the qubit
  qubitTime,  \* m_qubit2time
  noise,      \* the time whose decoherence has been applied to the qubit
  observed,   \* what the last step read: "nothing" or the "state"
  \* history
  stored,     \* the time the qubit has spent in memories
  addedByGod  \* the part of noise that God's gates applied beside the memories

vars == <<now, tensor, holder, packet, lastTime, qubitTime, noise, observed, stored, addedByGod>>

Valid == {q \in Qubits : tensor[q] = "valid"}
Held == {q \in Valid : holder[q] # Nobody}

PhyTypeOK ==
  /\ now \in 0 .. MaxTime
  /\ tensor \in [Qubits -> {"fresh", "valid", "traced"}]
  /\ holder \in [Qubits -> Owners \cup {Nobody}]
  /\ packet \in [Qubits -> Owners \cup {Nobody}]
  /\ lastTime \in [Qubits -> Nat]
  /\ qubitTime \in [Qubits -> Nat]
  /\ noise \in [Qubits -> Nat]
  /\ observed \in {"nothing", "state"}
  /\ stored \in [Qubits -> Nat]
  /\ addedByGod \in [Qubits -> Nat]

Init ==
  /\ now = 0
  /\ tensor = [q \in Qubits |-> "fresh"]
  /\ holder = [q \in Qubits |-> Nobody]
  /\ packet = [q \in Qubits |-> Nobody]
  /\ lastTime = [q \in Qubits |-> 0]
  /\ qubitTime = [q \in Qubits |-> 0]
  /\ noise = [q \in Qubits |-> 0]
  /\ observed = "nothing"
  /\ stored = [q \in Qubits |-> 0]
  /\ addedByGod = [q \in Qubits |-> 0]

-----------------------------------------------------------------------------
(* Clocks and the noise they stand for.                                    *)

\* f with the value v at every member of S.
SetAll(f, S, v) == [x \in DOMAIN f |-> IF x \in S THEN v ELSE f[x]]

\* CheckOwned.
CheckOwned(o, S) == o = God \/ \A q \in S : holder[q] = o

\* The qubits of S whose decoherence the memory of o applies.
KeptBy(o, S) == {q \in S : holder[q] = o}

\* ApplyDecoherence of the memory, for every member of S: the entity's clock is
\* set back to the memory's, so that TimeModel applies what the memory counts.
AppliedByMemory(S) ==
  /\ noise' = [q \in Qubits |-> IF q \in S THEN noise[q] + (now - lastTime[q]) ELSE noise[q]]
  /\ qubitTime' = SetAll(qubitTime, S, now)
  /\ lastTime' = SetAll(lastTime, S, now)

\* Mutant: the entity does not ask the memory.
AppliedByEntity(kept, S) ==
  /\ noise' = [q \in Qubits |-> IF q \in S THEN noise[q] + (now - qubitTime[q]) ELSE noise[q]]
  /\ qubitTime' = SetAll(qubitTime, S, now)
  /\ UNCHANGED lastTime

\* What ApplyGate and PartialTrace do before they act on S: the memories that are
\* asked apply what they count to the qubits they keep, then TimeModel what the
\* entity's clock still shows.
Synchronized(kept, S) ==
  /\ noise' = [q \in Qubits |->
       IF q \in kept THEN noise[q] + (now - lastTime[q])
       ELSE IF q \in S THEN noise[q] + (now - qubitTime[q]) ELSE noise[q]]
  /\ qubitTime' = SetAll(qubitTime, S, now)
  /\ lastTime' = SetAll(lastTime, kept, now)

-----------------------------------------------------------------------------
(* Qubits come into being, move and go.                                    *)

\* Time passes; what is stored grows older.
Advance ==
  /\ now < MaxTime
  /\ now' = now + 1
  /\ stored' = [q \in Qubits |-> IF holder[q] # Nobody THEN stored[q] + 1 ELSE stored[q]]
  /\ observed' = "nothing"
  /\ UNCHANGED <<tensor, holder, packet, lastTime, qubitTime, noise, addedByGod>>

\* AddQubit of both qubits to the memories of their holders, with new clocks.
Created(S) ==
  /\ S \subseteq {q \in Qubits : tensor[q] = "fresh"}
  /\ tensor' = SetAll(tensor, S, "valid")
  /\ lastTime' = SetAll(lastTime, S, now)
  /\ qubitTime' = SetAll(qubitTime, S, now)
  /\ observed' = "nothing"
  /\ UNCHANGED <<now, noise, stored, addedByGod>>

\* GenerateQubitsPure and GenerateQubitsMixed of a pair at its owner; the names
\* are new, so that the owner does not hold them yet.
GenerateQubits(o, S) ==
  /\ Created(S)
  /\ holder' = SetAll(holder, S, o)
  /\ UNCHANGED packet

\* GenerateAndDistributeEPR: the source holds the pair and resigns at once from
\* its second qubit, which travels as a packet.
DistributeEPR(o, d, p, q) ==
  /\ Created({p, q})
  /\ holder' = [holder EXCEPT ![p] = o]
  /\ packet' = [packet EXCEPT ![q] = d]

\* The link layer's TryEstablishEntanglement: the pair is generated at the source
\* and TransferQubit moves the second qubit at the same instant.
EstablishEntanglement(o, d, p, q) ==
  /\ Created({p, q})
  /\ holder' = [holder EXCEPT ![p] = o, ![q] = d]
  /\ UNCHANGED packet

\* AddQubit of the destination.
Store(q) ==
  /\ holder' = [holder EXCEPT ![q] = packet[q]]
  /\ lastTime' = [lastTime EXCEPT ![q] = now]

\* HandleRead at the destination: the qubit is stored there and the noise of the
\* link applied, which sets the entity's clock. The flight costs no decoherence.
\* ApplyOperation asserts that the qubit is valid.
DeliverQubit(q) ==
  /\ packet[q] # Nobody /\ tensor[q] = "valid"
  /\ Store(q)
  /\ qubitTime' = [qubitTime EXCEPT ![q] = now]
  /\ packet' = [packet EXCEPT ![q] = Nobody]
  /\ observed' = "nothing"
  /\ UNCHANGED <<now, tensor, noise, stored, addedByGod>>

\* The packet is dropped: the destination does not listen yet.
LosePacket(q) ==
  /\ packet[q] # Nobody
  /\ packet' = [packet EXCEPT ![q] = Nobody]
  /\ observed' = "nothing"
  /\ UNCHANGED <<now, tensor, holder, lastTime, qubitTime, noise, stored, addedByGod>>

\* RemoveQubit and PartialTrace, as the network and the link layer discard the
\* qubits of a path or a pair; without its holder a qubit has the entity's clock.
DiscardQubits(S) ==
  /\ S \subseteq Held
  /\ tensor' = SetAll(tensor, S, "traced")
  /\ holder' = SetAll(holder, S, Nobody)
  /\ Synchronized({}, S)
  /\ observed' = "nothing"
  /\ UNCHANGED <<now, packet, stored, addedByGod>>

\* PartialTrace alone, as the applications call it: the memories keep the names.
PartialTrace(S) ==
  /\ tensor' = SetAll(tensor, S, "traced")
  /\ Synchronized(S \cap Held, S)
  /\ observed' = "nothing"
  /\ UNCHANGED <<now, holder, packet, stored, addedByGod>>

-----------------------------------------------------------------------------
(* Operations.                                                             *)

\* ApplyGate. The owner's memory applies what it counts to the qubits it keeps;
\* TimeModel what the entity's clock shows to the others, which only God reaches.
\* The dephasing of a gate that is not God's sets the entity's clock. An owner
\* without a node, as God is in some examples, ends the program here.
ApplyGate(o, S) ==
  /\ o \in Owners
  /\ CheckOwned(o, S)
  /\ Synchronized(KeptBy(o, S), S)
  /\ addedByGod' = [q \in Qubits |->
       IF q \in S \ KeptBy(o, S) THEN addedByGod[q] + (now - qubitTime[q]) ELSE addedByGod[q]]
  /\ observed' = "nothing"
  /\ UNCHANGED <<now, tensor, holder, packet, stored>>

\* ApplyControlledOperation: no clock is read, and the dephasing sets the entity's.
ApplyControlledOperation(q) ==
  /\ qubitTime' = [qubitTime EXCEPT ![q] = now]
  /\ observed' = "nothing"
  /\ UNCHANGED <<now, tensor, holder, packet, lastTime, noise, stored, addedByGod>>

\* The qubits of all memories.
Stored == {q \in Qubits : holder[q] # Nobody}

\* Mutant: only the measured qubits are brought up to date.
EnsureOnly(S) == AppliedByMemory(S \cap Held)

\* EnsureAllDecoherence: every qubit of every memory is brought up to date. One
\* that was traced since its clock last moved fails ApplyOperation's assertion.
EnsureAllDecoherence(S) ==
  /\ \A q \in Stored \ Valid : lastTime[q] = now
  /\ AppliedByMemory(Stored)

\* Measure, of qubits the owner holds.
Measure(o, S) ==
  /\ CheckOwned(o, S)
  /\ EnsureAllDecoherence(S)
  /\ observed' = "state"
  /\ UNCHANGED <<now, tensor, holder, packet, stored, addedByGod>>

\* CalculateFidelity.
CalculateFidelity(S) ==
  /\ EnsureAllDecoherence(S)
  /\ observed' = "state"
  /\ UNCHANGED <<now, tensor, holder, packet, stored, addedByGod>>

Next ==
  \/ Advance
  \/ \E p, q \in Qubits : p # q /\
       \E o \in Owners :
         \/ GenerateQubits(o, {p, q})
         \/ \E d \in Owners \ {o} : DistributeEPR(o, d, p, q) \/ EstablishEntanglement(o, d, p, q)
  \/ \E q \in Qubits : DeliverQubit(q) \/ LosePacket(q)
  \/ \E q \in Valid : ApplyControlledOperation(q)
  \/ \E S \in (SUBSET Valid) \ {{}} :
       \/ DiscardQubits(S)
       \/ PartialTrace(S)
       \/ CalculateFidelity(S)
       \/ \E o \in Operators : ApplyGate(o, S) \/ Measure(o, S)

Spec == Init /\ [][Next]_vars

-----------------------------------------------------------------------------
(* Properties.                                                             *)

\* The decoherence applied to a stored qubit, with the span its memory has still
\* to apply, is the time it has spent in memories and what God's gates added: no
\* span is lost, and none is applied twice but by a gate in God's name, whichever
\* operations came in between; what these add is never more than once the time.
DecoherenceAccounted ==
  \A q \in Held :
    /\ noise[q] + (now - lastTime[q]) = stored[q] + addedByGod[q]
    /\ addedByGod[q] <= qubitTime[q]

\* A measurement and a fidelity see every stored qubit with the decoherence of
\* all the time it has been stored, collapse acting on the whole state, and with
\* no more than God's gates have added to it.
ReadsAreCurrent ==
  observed = "state" => \A q \in Held : noise[q] = stored[q] + addedByGod[q]

\* A qubit in a packet is in no memory, and what it has been through is settled.
PacketsAreSettled ==
  \A q \in Qubits : packet[q] # Nobody =>
    /\ tensor[q] # "fresh" /\ holder[q] = Nobody
    /\ tensor[q] = "valid" => noise[q] = stored[q] + addedByGod[q]

\* A qubit that has not been generated is in no memory and has suffered nothing.
FreshIsClean ==
  \A q \in Qubits : tensor[q] = "fresh" =>
    holder[q] = Nobody /\ noise[q] = 0 /\ stored[q] = 0 /\ addedByGod[q] = 0

\* The entity's clock is never behind the memory's, nor ahead of the time, and
\* God's gates have added no moment twice.
ClocksInOrder ==
  \A q \in Qubits :
    lastTime[q] <= qubitTime[q] /\ qubitTime[q] <= now /\ addedByGod[q] <= qubitTime[q]

\* Gates of the owners of the qubits add nothing.
OnlyGodAdds == God \notin Operators => \A q \in Qubits : addedByGod[q] = 0

\* What is inductive, whoever operates.
PhyInv ==
  /\ PhyTypeOK
  /\ PacketsAreSettled
  /\ FreshIsClean
  /\ ClocksInOrder
  /\ OnlyGodAdds
  /\ DecoherenceAccounted
  /\ ReadsAreCurrent

=============================================================================
