--------------------------- MODULE PhyEntity_proofs ---------------------------
(***************************************************************************)
(* The two clocks of PhyEntity account for every span of decoherence once, *)
(* and once more for what gates in God's name add, for any owners,         *)
(* operators, qubits and time.                                             *)
(***************************************************************************)
EXTENDS PhyEntity, TLAPS

\* Nothing is stored in the beginning.
LEMMA InitPhyInv == Init => PhyInv
BY OwnersAssumption, TimeAssumption
DEF Init, PhyInv, PhyTypeOK, PacketsAreSettled, FreshIsClean, ClocksInOrder, OnlyGodAdds,
    DecoherenceAccounted, ReadsAreCurrent, Held, Valid

\* Time passes for the memory's clock and for the qubit alike.
LEMMA AdvanceKeeps == PhyInv /\ Advance => PhyInv'
<1> SUFFICES ASSUME PhyInv, Advance PROVE PhyInv'
  OBVIOUS
<1> USE DEF PhyInv, PhyTypeOK, Advance
<1>1. PhyTypeOK'
  BY TimeAssumption
<1>2. PacketsAreSettled' /\ FreshIsClean' /\ ReadsAreCurrent' /\ OnlyGodAdds'
  BY DEF PacketsAreSettled, FreshIsClean, ReadsAreCurrent, OnlyGodAdds
<1>3. ClocksInOrder'
  BY TimeAssumption DEF ClocksInOrder
<1>4. DecoherenceAccounted'
  BY TimeAssumption DEF DecoherenceAccounted, ClocksInOrder, Held, Valid
<1> QED
  BY <1>1, <1>2, <1>3, <1>4

\* New qubits start with both clocks at the present, wherever they are put.
LEMMA CreatedKeeps ==
  ASSUME PhyInv, NEW S \in SUBSET Qubits, Created(S),
         holder' \in [Qubits -> Owners \cup {Nobody}],
         packet' \in [Qubits -> Owners \cup {Nobody}],
         \A q \in Qubits \ S : holder'[q] = holder[q] /\ packet'[q] = packet[q],
         \A q \in S : holder'[q] = Nobody \/ packet'[q] = Nobody
  PROVE  PhyInv'
<1> USE DEF PhyInv, PhyTypeOK, Created, SetAll
<1>1. PhyTypeOK'
  BY TimeAssumption
<1>2. FreshIsClean' /\ ReadsAreCurrent' /\ OnlyGodAdds'
  BY DEF FreshIsClean, ReadsAreCurrent, OnlyGodAdds
<1>3. PacketsAreSettled'
  BY DEF PacketsAreSettled, FreshIsClean
<1>4. ClocksInOrder'
  BY TimeAssumption DEF ClocksInOrder
<1>5. DecoherenceAccounted'
  BY TimeAssumption DEF DecoherenceAccounted, FreshIsClean, ClocksInOrder, Held, Valid
<1> QED
  BY <1>1, <1>2, <1>3, <1>4, <1>5

\* A pair generated at one owner.
LEMMA GenerateQubitsKeeps ==
  ASSUME PhyInv, NEW o \in Owners, NEW p \in Qubits, NEW q \in Qubits, GenerateQubits(o, {p, q})
  PROVE  PhyInv'
<1>1. \A r \in {p, q} : packet[r] = Nobody
  BY DEF GenerateQubits, Created, PhyInv, PacketsAreSettled, PhyTypeOK
<1>2. /\ holder' \in [Qubits -> Owners \cup {Nobody}]
      /\ \A r \in Qubits \ {p, q} : holder'[r] = holder[r]
  BY DEF GenerateQubits, SetAll, PhyInv, PhyTypeOK
<1> QED
  BY <1>1, <1>2, CreatedKeeps DEF GenerateQubits, PhyInv, PhyTypeOK

\* A pair of which one qubit travels.
LEMMA DistributeEPRKeeps ==
  ASSUME PhyInv, NEW o \in Owners, NEW d \in Owners, NEW p \in Qubits, NEW q \in Qubits, p # q,
         DistributeEPR(o, d, p, q)
  PROVE  PhyInv'
<1>1. holder[q] = Nobody /\ packet[p] = Nobody
  BY DEF DistributeEPR, Created, PhyInv, PacketsAreSettled, FreshIsClean, PhyTypeOK
<1>2. /\ holder' \in [Qubits -> Owners \cup {Nobody}]
      /\ packet' \in [Qubits -> Owners \cup {Nobody}]
      /\ \A r \in Qubits \ {p, q} : holder'[r] = holder[r] /\ packet'[r] = packet[r]
      /\ holder'[q] = Nobody /\ packet'[p] = Nobody
  BY <1>1 DEF DistributeEPR, PhyInv, PhyTypeOK
<1> QED
  BY <1>2, CreatedKeeps DEF DistributeEPR

\* A pair of which one qubit is transferred at once.
LEMMA EstablishEntanglementKeeps ==
  ASSUME PhyInv, NEW o \in Owners, NEW d \in Owners, NEW p \in Qubits, NEW q \in Qubits,
         EstablishEntanglement(o, d, p, q)
  PROVE  PhyInv'
<1>1. \A r \in {p, q} : packet[r] = Nobody
  BY DEF EstablishEntanglement, Created, PhyInv, PacketsAreSettled, PhyTypeOK
<1>2. /\ holder' \in [Qubits -> Owners \cup {Nobody}]
      /\ \A r \in Qubits \ {p, q} : holder'[r] = holder[r]
  BY DEF EstablishEntanglement, PhyInv, PhyTypeOK
<1> QED
  BY <1>1, <1>2, CreatedKeeps DEF EstablishEntanglement, PhyInv, PhyTypeOK

\* A delivered qubit starts both clocks anew.
LEMMA DeliverQubitKeeps ==
  ASSUME PhyInv, NEW q \in Qubits, DeliverQubit(q)
  PROVE  PhyInv'
<1> USE DEF PhyInv, PhyTypeOK, DeliverQubit, Store
<1>1. PhyTypeOK'
  BY TimeAssumption
<1>2. PacketsAreSettled' /\ FreshIsClean' /\ ReadsAreCurrent' /\ OnlyGodAdds'
  BY DEF PacketsAreSettled, FreshIsClean, ReadsAreCurrent, OnlyGodAdds
<1>3. ClocksInOrder'
  BY TimeAssumption DEF ClocksInOrder
<1>4. DecoherenceAccounted'
  BY TimeAssumption DEF DecoherenceAccounted, PacketsAreSettled, ClocksInOrder, Held, Valid
<1> QED
  BY <1>1, <1>2, <1>3, <1>4

\* A lost packet leaves its qubit nowhere.
LEMMA LosePacketKeeps ==
  ASSUME PhyInv, NEW q \in Qubits, LosePacket(q)
  PROVE  PhyInv'
BY DEF PhyInv, PhyTypeOK, LosePacket, PacketsAreSettled, FreshIsClean,
   ReadsAreCurrent, ClocksInOrder, OnlyGodAdds, DecoherenceAccounted, Held, Valid

\* A controlled operation moves the entity's clock, which the memory sets back.
LEMMA ApplyControlledOperationKeeps ==
  ASSUME PhyInv, NEW q \in Qubits, ApplyControlledOperation(q)
  PROVE  PhyInv'
<1> USE DEF PhyInv, PhyTypeOK, ApplyControlledOperation
<1>1. PhyTypeOK' /\ ClocksInOrder'
  BY TimeAssumption DEF ClocksInOrder
<1>2. PacketsAreSettled' /\ FreshIsClean' /\ ReadsAreCurrent' /\ OnlyGodAdds'
  BY DEF PacketsAreSettled, FreshIsClean, ReadsAreCurrent, OnlyGodAdds
<1>3. DecoherenceAccounted'
  BY <1>1 DEF DecoherenceAccounted, ClocksInOrder, Held, Valid
<1> QED
  BY <1>1, <1>2, <1>3

\* What a memory applies to a set of qubits it stores, or to nothing else.
LEMMA AppliedByMemoryFacts ==
  ASSUME PhyInv, NEW S \in SUBSET Qubits, AppliedByMemory(S)
  PROVE  /\ noise' \in [Qubits -> Nat]
         /\ qubitTime' \in [Qubits -> Nat]
         /\ lastTime' \in [Qubits -> Nat]
         /\ \A q \in S :
              /\ noise'[q] = noise[q] + (now - lastTime[q])
              /\ qubitTime'[q] = now
              /\ lastTime'[q] = now
         /\ \A q \in Qubits \ S :
              noise'[q] = noise[q] /\ qubitTime'[q] = qubitTime[q] /\ lastTime'[q] = lastTime[q]
<1>1. now \in Nat /\ \A q \in Qubits : now - lastTime[q] \in Nat
  BY TimeAssumption DEF PhyInv, PhyTypeOK, ClocksInOrder
<1> QED
  BY <1>1 DEF AppliedByMemory, SetAll, PhyInv, PhyTypeOK

\* A step that brings stored qubits up to date, and reads the state or not.
LEMMA UpToDateKeeps ==
  ASSUME PhyInv, NEW S \in SUBSET Qubits, AppliedByMemory(S),
         \A q \in S : holder[q] # Nobody,
         UNCHANGED <<now, tensor, holder, packet, stored, addedByGod>>,
         \/ observed' = "nothing"
         \/ observed' = "state" /\ S = {q \in Qubits : holder[q] # Nobody}
  PROVE  PhyInv'
<1> USE AppliedByMemoryFacts DEF PhyInv, PhyTypeOK
<1>1. PhyTypeOK'
  OBVIOUS
<1>2. PacketsAreSettled' /\ FreshIsClean' /\ OnlyGodAdds'
  BY DEF PacketsAreSettled, FreshIsClean, OnlyGodAdds
<1>3. ClocksInOrder'
  BY TimeAssumption DEF ClocksInOrder
<1>4. DecoherenceAccounted'
  <2> SUFFICES ASSUME NEW q \in Held
               PROVE  /\ noise'[q] + (now - lastTime'[q]) = stored[q] + addedByGod[q]
                      /\ addedByGod[q] <= qubitTime'[q]
    BY DEF DecoherenceAccounted, Held, Valid
  <2>1. q \in Qubits /\ now \in Nat
    BY TimeAssumption DEF Held, Valid
  <2>2. noise[q] + (now - lastTime[q]) = stored[q] + addedByGod[q]
    BY DEF DecoherenceAccounted
  <2>3. addedByGod[q] <= qubitTime'[q]
    BY <1>3, <2>1 DEF ClocksInOrder
  <2>4. CASE q \in S
    BY <2>1, <2>2, <2>3, <2>4 DEF ClocksInOrder
  <2>5. CASE q \notin S
    BY <2>1, <2>2, <2>3, <2>5
  <2> QED
    BY <2>4, <2>5
<1>5. ReadsAreCurrent'
  <2> SUFFICES ASSUME observed' = "state", NEW q \in Held
               PROVE  noise'[q] = stored[q] + addedByGod[q]
    BY DEF ReadsAreCurrent, Held, Valid
  <2>1. q \in S
    BY DEF Held, Valid
  <2> QED
    BY <2>1, TimeAssumption DEF DecoherenceAccounted, ClocksInOrder
<1> QED
  BY <1>1, <1>2, <1>3, <1>4, <1>5

\* An owner's gate brings up to date what the owner holds, and nothing else; with a
\* gate in God's name TimeModel applies a span to the qubits of others, whose
\* memories will apply it too.
LEMMA ApplyGateKeeps ==
  ASSUME PhyInv, NEW o \in Operators, NEW S \in SUBSET Valid, ApplyGate(o, S)
  PROVE  PhyInv'
<1> DEFINE kept == KeptBy(o, S)
           others == S \ kept
<1>1. /\ o \in Owners /\ o # Nobody /\ S \in SUBSET Qubits
      /\ kept \in SUBSET Qubits /\ others \in SUBSET Qubits
      /\ \A q \in kept : holder[q] = o
      /\ o # God => others = {}
  BY OwnersAssumption DEF Valid, ApplyGate, CheckOwned, KeptBy
<1> HIDE DEF kept, others
<1> USE DEF PhyInv, PhyTypeOK
<1>2. /\ now \in Nat
      /\ \A q \in Qubits : now - qubitTime[q] \in Nat /\ now - lastTime[q] \in Nat
  BY TimeAssumption DEF ClocksInOrder
<1>3. /\ noise' = [q \in Qubits |->
            IF q \in kept THEN noise[q] + (now - lastTime[q])
            ELSE IF q \in S THEN noise[q] + (now - qubitTime[q]) ELSE noise[q]]
      /\ qubitTime' = [q \in Qubits |-> IF q \in S THEN now ELSE qubitTime[q]]
      /\ lastTime' = [q \in Qubits |-> IF q \in kept THEN now ELSE lastTime[q]]
      /\ addedByGod' = [q \in Qubits |->
            IF q \in others THEN addedByGod[q] + (now - qubitTime[q]) ELSE addedByGod[q]]
      /\ observed' = "nothing"
      /\ UNCHANGED <<now, tensor, holder, packet, stored>>
  BY DEF ApplyGate, Synchronized, SetAll, kept, others
<1>4. ASSUME NEW q \in Qubits
      PROVE  /\ noise'[q] \in Nat /\ qubitTime'[q] \in Nat /\ lastTime'[q] \in Nat
             /\ addedByGod'[q] \in Nat
             /\ \/ /\ q \in kept /\ holder[q] # Nobody
                   /\ noise'[q] = noise[q] + (now - lastTime[q])
                   /\ qubitTime'[q] = now /\ lastTime'[q] = now
                   /\ addedByGod'[q] = addedByGod[q]
                \/ /\ q \in others /\ o = God
                   /\ noise'[q] = noise[q] + (now - qubitTime[q])
                   /\ qubitTime'[q] = now /\ lastTime'[q] = lastTime[q]
                   /\ addedByGod'[q] = addedByGod[q] + (now - qubitTime[q])
                \/ /\ q \notin S
                   /\ noise'[q] = noise[q]
                   /\ qubitTime'[q] = qubitTime[q] /\ lastTime'[q] = lastTime[q]
                   /\ addedByGod'[q] = addedByGod[q]
  <2>1. kept \subseteq S /\ others = S \ kept
    BY DEF kept, others, KeptBy
  <2>2. CASE q \in kept
    BY <1>1, <1>2, <1>3, <2>1, <2>2
  <2>3. CASE q \in others
    <3>1. o = God /\ q \in S /\ q \notin kept
      BY <1>1, <2>1, <2>3
    <3> QED
      BY <1>2, <1>3, <2>3, <3>1
  <2>4. CASE q \notin S
    <3>1. q \notin kept /\ q \notin others
      BY <2>1, <2>4
    <3> QED
      BY <1>3, <2>4, <3>1
  <2> QED
    BY <2>1, <2>2, <2>3, <2>4
<1>5. PhyTypeOK'
  BY <1>2, <1>3, <1>4
<1>6. FreshIsClean' /\ ReadsAreCurrent'
  <2>1. \A q \in S : tensor[q] # "fresh"
    BY DEF Valid
  <2>2. \A q \in Qubits : tensor[q] = "fresh" => q \notin S /\ q \notin kept /\ q \notin others
    BY <2>1 DEF kept, others, KeptBy
  <2> QED
    BY <1>3, <2>2 DEF FreshIsClean, ReadsAreCurrent
<1>7. PacketsAreSettled'
  <2> SUFFICES ASSUME NEW q \in Qubits, packet[q] # Nobody
               PROVE  /\ tensor[q] # "fresh" /\ holder[q] = Nobody
                      /\ tensor[q] = "valid" => noise'[q] = stored[q] + addedByGod'[q]
    BY <1>3 DEF PacketsAreSettled
  <2>1. /\ tensor[q] # "fresh" /\ holder[q] = Nobody
        /\ tensor[q] = "valid" => noise[q] = stored[q] + addedByGod[q]
    BY DEF PacketsAreSettled
  <2> QED
    BY <1>2, <1>4, <2>1
<1>8. ClocksInOrder'
  <2> SUFFICES ASSUME NEW q \in Qubits
               PROVE  /\ lastTime'[q] <= qubitTime'[q] /\ qubitTime'[q] <= now
                      /\ addedByGod'[q] <= qubitTime'[q]
    BY <1>3 DEF ClocksInOrder
  <2>1. lastTime[q] <= qubitTime[q] /\ qubitTime[q] <= now /\ addedByGod[q] <= qubitTime[q]
    BY DEF ClocksInOrder
  <2> QED
    BY <1>2, <1>4, <2>1
<1>9. OnlyGodAdds'
  <2> SUFFICES ASSUME God \notin Operators, NEW q \in Qubits PROVE addedByGod'[q] = 0
    BY DEF OnlyGodAdds
  <2>1. addedByGod[q] = 0 /\ o # God
    BY DEF OnlyGodAdds
  <2> QED
    BY <1>1, <1>4, <2>1
<1>10. DecoherenceAccounted'
  <2> SUFFICES ASSUME NEW q \in Held
               PROVE  /\ noise'[q] + (now - lastTime'[q]) = stored[q] + addedByGod'[q]
                      /\ addedByGod'[q] <= qubitTime'[q]
    BY <1>3 DEF DecoherenceAccounted, Held, Valid
  <2>1. q \in Qubits
    BY DEF Held, Valid
  <2>2. noise[q] + (now - lastTime[q]) = stored[q] + addedByGod[q]
    BY DEF DecoherenceAccounted
  <2>3. addedByGod'[q] <= qubitTime'[q]
    BY <1>8, <2>1 DEF ClocksInOrder
  <2> QED
    BY <1>2, <1>4, <2>1, <2>2, <2>3
<1> QED
  BY <1>5, <1>6, <1>7, <1>8, <1>9, <1>10

\* A measurement and a fidelity bring every memory up to date.
LEMMA ReadsKeep ==
  ASSUME PhyInv, NEW S \in SUBSET Valid,
         (\E o \in Operators : Measure(o, S)) \/ CalculateFidelity(S)
  PROVE  PhyInv'
<1> DEFINE All == {q \in Qubits : holder[q] # Nobody}
<1>1. /\ AppliedByMemory(All)
      /\ UNCHANGED <<now, tensor, holder, packet, stored, addedByGod>>
      /\ observed' = "state"
  BY DEF Measure, CalculateFidelity, EnsureAllDecoherence, Stored
<1>2. All \in SUBSET Qubits /\ \A q \in All : holder[q] # Nobody
  OBVIOUS
<1> QED
  BY <1>1, <1>2, UpToDateKeeps

\* Qubits that are traced out, while their memories apply what they count to some.
LEMMA TracedKeeps ==
  ASSUME PhyInv, NEW S \in SUBSET Valid, NEW kept \in SUBSET S, Synchronized(kept, S),
         tensor' = SetAll(tensor, S, "traced"),
         holder' \in [Qubits -> Owners \cup {Nobody}],
         \A q \in Qubits : holder'[q] = holder[q] \/ holder'[q] = Nobody,
         \A q \in Qubits \ S : holder'[q] = holder[q],
         observed' = "nothing",
         UNCHANGED <<now, packet, stored, addedByGod>>
  PROVE  PhyInv'
<1> USE DEF PhyInv, PhyTypeOK, SetAll
<1>1. /\ now \in Nat
      /\ \A q \in Qubits : now - qubitTime[q] \in Nat /\ now - lastTime[q] \in Nat
  BY TimeAssumption DEF ClocksInOrder
<1>2. /\ noise' \in [Qubits -> Nat]
      /\ qubitTime' \in [Qubits -> Nat]
      /\ lastTime' \in [Qubits -> Nat]
      /\ \A q \in S : qubitTime'[q] = now
      /\ \A q \in Qubits : lastTime'[q] = lastTime[q] \/ (q \in S /\ lastTime'[q] = now)
      /\ \A q \in Qubits \ S : noise'[q] = noise[q] /\ qubitTime'[q] = qubitTime[q]
  <2>1. S \in SUBSET Qubits
    BY DEF Valid
  <2>2. noise' \in [Qubits -> Nat] /\ \A q \in Qubits \ S : noise'[q] = noise[q]
    BY <1>1, <2>1 DEF Synchronized
  <2>3. /\ qubitTime' \in [Qubits -> Nat]
        /\ \A q \in Qubits : qubitTime'[q] = IF q \in S THEN now ELSE qubitTime[q]
    BY <1>1, <2>1 DEF Synchronized
  <2>4. lastTime' \in [Qubits -> Nat]
    BY <1>1, <2>1 DEF Synchronized
  <2>5. \A q \in Qubits : lastTime'[q] = lastTime[q] \/ (q \in S /\ lastTime'[q] = now)
    <3> SUFFICES ASSUME NEW q \in Qubits
                 PROVE  lastTime'[q] = lastTime[q] \/ (q \in S /\ lastTime'[q] = now)
      OBVIOUS
    <3>1. lastTime'[q] = IF q \in kept THEN now ELSE lastTime[q]
      BY <2>1 DEF Synchronized
    <3>2. CASE q \in kept
      <4>1. q \in S
        BY <3>2
      <4>2. lastTime'[q] = now
        BY <3>1, <3>2
      <4> QED
        BY <4>1, <4>2
    <3>3. CASE q \notin kept
      BY <3>1, <3>3
    <3> QED
      BY <3>2, <3>3
  <2>6. /\ \A q \in S : qubitTime'[q] = now
        /\ \A q \in Qubits \ S : qubitTime'[q] = qubitTime[q]
    BY <2>1, <2>3
  <2> QED
    BY <2>2, <2>3, <2>4, <2>5, <2>6
<1>3. PhyTypeOK'
  BY <1>2
<1>4. FreshIsClean' /\ ReadsAreCurrent' /\ OnlyGodAdds'
  BY <1>2 DEF FreshIsClean, ReadsAreCurrent, OnlyGodAdds, Valid
<1>5. PacketsAreSettled'
  BY <1>2 DEF PacketsAreSettled
<1>6. ClocksInOrder'
  BY <1>1, <1>2 DEF ClocksInOrder
<1>7. DecoherenceAccounted'
  BY <1>2, <1>6 DEF DecoherenceAccounted, ClocksInOrder, Held, Valid
<1> QED
  BY <1>3, <1>4, <1>5, <1>6, <1>7

\* A discarded qubit is neither stored nor valid any more.
LEMMA DiscardQubitsKeeps ==
  ASSUME PhyInv, NEW S \in SUBSET Valid, DiscardQubits(S)
  PROVE  PhyInv'
<1>1. /\ holder' \in [Qubits -> Owners \cup {Nobody}]
      /\ \A q \in Qubits : holder'[q] = holder[q] \/ holder'[q] = Nobody
      /\ \A q \in Qubits \ S : holder'[q] = holder[q]
  BY DEF DiscardQubits, SetAll, PhyInv, PhyTypeOK
<1> QED
  BY <1>1, TracedKeeps DEF DiscardQubits

\* A qubit that an application traces out keeps its name in the memory.
LEMMA PartialTraceKeeps ==
  ASSUME PhyInv, NEW S \in SUBSET Valid, PartialTrace(S)
  PROVE  PhyInv'
BY TracedKeeps DEF PartialTrace, PhyInv, PhyTypeOK

\* Every step of the entity keeps the invariant.
LEMMA NextPhyInv == PhyInv /\ [Next]_vars => PhyInv'
<1> SUFFICES ASSUME PhyInv, [Next]_vars PROVE PhyInv'
  OBVIOUS
<1>1. CASE Advance
  BY <1>1, AdvanceKeeps
<1>2. ASSUME NEW p \in Qubits, NEW q \in Qubits, p # q, NEW o \in Owners, GenerateQubits(o, {p, q})
      PROVE  PhyInv'
  BY <1>2, GenerateQubitsKeeps
<1>3. ASSUME NEW p \in Qubits, NEW q \in Qubits, p # q, NEW o \in Owners, NEW d \in Owners,
             DistributeEPR(o, d, p, q) \/ EstablishEntanglement(o, d, p, q)
      PROVE  PhyInv'
  BY <1>3, DistributeEPRKeeps, EstablishEntanglementKeeps
<1>4. ASSUME NEW q \in Qubits, DeliverQubit(q) \/ LosePacket(q) PROVE PhyInv'
  BY <1>4, DeliverQubitKeeps, LosePacketKeeps
<1>5. ASSUME NEW q \in Valid, ApplyControlledOperation(q) PROVE PhyInv'
  BY <1>5, ApplyControlledOperationKeeps DEF Valid
<1>6. ASSUME NEW S \in SUBSET Valid,
             \/ DiscardQubits(S) \/ PartialTrace(S) \/ CalculateFidelity(S)
             \/ \E o \in Operators : ApplyGate(o, S) \/ Measure(o, S)
      PROVE  PhyInv'
  BY <1>6, DiscardQubitsKeeps, PartialTraceKeeps, ReadsKeep, ApplyGateKeeps
<1>7. CASE UNCHANGED vars
  BY <1>7 DEF vars, PhyInv, PhyTypeOK, PacketsAreSettled, FreshIsClean,
     ClocksInOrder, OnlyGodAdds, DecoherenceAccounted, ReadsAreCurrent, Held, Valid
<1> QED
  BY <1>1, <1>2, <1>3, <1>4, <1>5, <1>6, <1>7 DEF Next

\* Whoever operates: the decoherence applied to a stored qubit, with the span its
\* memory has still to apply, is the time it has been stored and what gates in God's
\* name added, no moment more than once (ApplyDecoherence, ApplyGate, TransferQubit
\* and the two clocks they keep).
THEOREM DecoherenceAccountedAlways == Spec => []DecoherenceAccounted
<1>1. PhyInv => DecoherenceAccounted
  BY DEF PhyInv
<1> QED
  BY <1>1, InitPhyInv, NextPhyInv, PTL DEF Spec

\* Whoever operates: a measurement and a fidelity see every stored qubit with the
\* decoherence of all the time it has been stored, and no more than God's gates have
\* added to it (Measure, CalculateFidelity).
THEOREM ReadsAreCurrentAlways == Spec => []ReadsAreCurrent
<1>1. PhyInv => ReadsAreCurrent
  BY DEF PhyInv
<1> QED
  BY <1>1, InitPhyInv, NextPhyInv, PTL DEF Spec

\* When only the holders of qubits operate, every span is applied once, and a
\* measurement sees neither more nor less than the time stored: what
\* quantum-memory.h promises.
THEOREM ExactWithoutGod ==
  ASSUME God \notin Operators
  PROVE  Spec => [](observed = "state" => \A q \in Held : noise[q] = stored[q])
<1>1. PhyInv => (observed = "state" => \A q \in Held : noise[q] = stored[q])
  <2> SUFFICES ASSUME PhyInv, observed = "state", NEW q \in Held PROVE noise[q] = stored[q]
    OBVIOUS
  <2>1. q \in Qubits /\ stored[q] \in Nat /\ addedByGod[q] = 0
    BY DEF Held, Valid, PhyInv, PhyTypeOK, OnlyGodAdds
  <2>2. noise[q] = stored[q] + addedByGod[q]
    BY DEF PhyInv, ReadsAreCurrent
  <2> QED
    BY <2>1, <2>2
<1> QED
  BY <1>1, InitPhyInv, NextPhyInv, PTL DEF Spec
=============================================================================
