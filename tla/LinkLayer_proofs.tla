--------------------------- MODULE LinkLayer_proofs ---------------------------
(***************************************************************************)
(* Proofs about LinkLayer, for any nodes, links, metrics and number of     *)
(* requests: a requester that was told READY holds its pair, qubits are    *)
(* left behind only by early consumption, and the service keeps the        *)
(* safety part of EntanglementService.                                     *)
(***************************************************************************)
EXTENDS LinkLayer, TLAPS

USE NodesAssumption, MaxRequestsAssumption, LinkMetricsAssumption

Infos == [localNode : Nodes \cup {Gone}, remoteNode : Nodes \cup {Gone}, isValid : BOOLEAN]
PairPlaces == [local : Nodes \cup {Gone}, remote : Nodes \cup {Gone}]
States == EntanglementStates \cup {"NONE"}

\* The requests up to id and those from it on.
LEMMA IdsAreNumbers == \A id \in Ids : id \in Nat /\ id \in 1..(MaxRequests + 1)
BY DEF Ids

\* The one element of an answer, and no answer, are told apart.
LEMMA Answers ==
  /\ Append(<<>>, "READY") = <<"READY">> /\ Append(<<>>, "FAILED") = <<"FAILED">>
  /\ <<"READY">> # <<>> /\ <<"FAILED">> # <<>> /\ <<"READY">> # <<"FAILED">>
  /\ Len(<<>>) = 0 /\ Len(<<"READY">>) = 1 /\ Len(<<"FAILED">>) = 1
  /\ <<"READY">>[1] = "READY" /\ <<"FAILED">>[1] = "FAILED"
  /\ <<"READY">> \in Seq({"READY", "FAILED"}) /\ <<"FAILED">> \in Seq({"READY", "FAILED"})
  /\ <<>> \in Seq({"READY", "FAILED"})
OBVIOUS

\* The delay of a completion is a number, whichever metrics are found.
LEMMA DelayIsNat ==
  ASSUME TypeOK, NEW s, NEW d
  PROVE  /\ ResolveMetrics(s, d).isAvailable \in BOOLEAN
         /\ ReadyDelay(ResolveMetrics(s, d)) \in Nat
<1> DEFINE M == [quantumSetupTimeMs : Nat, classicalControlDelayMs : Nat, latency : Nat,
                 mayFail : BOOLEAN, maySucceed : BOOLEAN, isAvailable : BOOLEAN]
<1>1. \A l \in DOMAIN links : links[l] \in M
  BY DEF TypeOK
<1>2. DefaultMetrics \in M
  BY DEF DefaultMetrics
<1>3. ResolveMetrics(s, d) \in M
  BY <1>1, <1>2 DEF ResolveMetrics
<1> QED
  BY <1>3 DEF ReadyDelay

\* Consuming changes the requests consumed and no other: it frees the qubits of
\* a valid pair and remembers the first state in which the request was consumed.
LEMMA ConsumeFacts ==
  ASSUME NEW inf \in [Ids -> Infos], NEW mem \in [Ids -> PairPlaces],
         NEW st \in [Ids -> States], NEW used \in SUBSET Ids,
         spent \in [Ids -> States],
         Consume(inf, mem, st, used)
  PROVE  /\ infos' \in [Ids -> Infos] /\ memory' \in [Ids -> PairPlaces]
         /\ states' \in [Ids -> States] /\ spent' \in [Ids -> States]
         /\ \A i \in Ids \ used :
              /\ states'[i] = st[i] /\ infos'[i] = inf[i]
              /\ memory'[i] = mem[i] /\ spent'[i] = spent[i]
         /\ \A i \in used :
              /\ states'[i] = "CONSUMED"
              /\ infos'[i].remoteNode = inf[i].remoteNode
              /\ inf[i].isValid /\ phyEntity => memory'[i] = NoPair
              /\ ~(inf[i].isValid /\ phyEntity) => memory'[i] = mem[i]
              /\ spent'[i] = IF spent[i] = "NONE" THEN st[i] ELSE spent[i]
<1>1. NoPair \in PairPlaces
  BY DEF NoPair, PairPlaces
<1>2. \A i \in Ids : /\ inf[i] \in Infos
                     /\ [inf[i] EXCEPT !.isValid = @ /\ i \notin used] \in Infos
  BY DEF Infos
<1>3. infos' \in [Ids -> Infos]
  BY <1>2 DEF Consume
<1>4. memory' \in [Ids -> PairPlaces]
  BY <1>1 DEF Consume
<1>5. states' \in [Ids -> States] /\ spent' \in [Ids -> States]
  BY DEF Consume, States, EntanglementStates
<1>6. ASSUME NEW i \in Ids \ used
      PROVE  /\ states'[i] = st[i] /\ infos'[i] = inf[i]
             /\ memory'[i] = mem[i] /\ spent'[i] = spent[i]
  <2>1. [inf[i] EXCEPT !.isValid = @ /\ i \notin used] = inf[i]
    BY <1>2 DEF Infos
  <2> QED
    BY <2>1 DEF Consume
<1>7. ASSUME NEW i \in used
      PROVE  /\ states'[i] = "CONSUMED"
             /\ infos'[i].remoteNode = inf[i].remoteNode
             /\ inf[i].isValid /\ phyEntity => memory'[i] = NoPair
             /\ ~(inf[i].isValid /\ phyEntity) => memory'[i] = mem[i]
             /\ spent'[i] = IF spent[i] = "NONE" THEN st[i] ELSE spent[i]
  <2>1. infos'[i].remoteNode = inf[i].remoteNode
    BY <1>2 DEF Consume, Infos
  <2> QED
    BY <2>1 DEF Consume
<1> QED
  BY <1>3, <1>4, <1>5, <1>6, <1>7

\* Nothing is asked for in the beginning.
LEMMA InitIInv == Init => IInv
<1> SUFFICES ASSUME Init PROVE IInv
  OBVIOUS
<1>1. TypeOK
  <2>1. DOMAIN links \subseteq Links /\ \A l \in DOMAIN links : links[l] \in LinkMetrics
    BY DEF Init
  <2>2. nextId \in 1..(MaxRequests + 1) /\ now \in Nat
    BY DEF Init
  <2>3. heard \in [Ids -> Seq({"READY", "FAILED"})]
    BY DEF Init
  <2>4. infos \in [Ids -> Infos] /\ memory \in [Ids -> PairPlaces]
    BY DEF Init, Infos, PairPlaces, NoInfo, NoPair
  <2> QED
    BY <2>1, <2>2, <2>3, <2>4 DEF Init, TypeOK, Infos, PairPlaces
<1>2. \A id \in Ids : heard[id] = <<>> /\ memory[id] = NoPair /\ states[id] = "NONE"
                      /\ spent[id] = "NONE" /\ id >= nextId
  BY IdsAreNumbers DEF Init, Ids
<1>3. pending = {}
  BY DEF Init
<1>4. nextId = 1
  BY DEF Init
<1>5. AnsweredOnce /\ PendingUnanswered /\ UnusedUntouched /\ PairsNeedEntity
  BY <1>2, <1>3 DEF AnsweredOnce, PendingUnanswered, UnusedUntouched, PairsNeedEntity
<1>6. UnansweredHasNoPair
  BY <1>2, <1>4, IdsAreNumbers DEF UnansweredHasNoPair, Ids
<1>7. ToldReadyHoldsPair /\ OnlyEarlyConsumptionLeaks
  BY <1>2, Answers DEF ToldReadyHoldsPair, OnlyEarlyConsumptionLeaks
<1> QED
  BY <1>1, <1>5, <1>6, <1>7 DEF IInv
\* Adding, updating and removing links changes nothing else.
LEMMA LinksKeep ==
  ASSUME IInv, UNCHANGED disposed, AddOrUpdateLink \/ RemoveLink
  PROVE  IInv'
<1>1. DOMAIN links' \subseteq Links /\ \A l \in DOMAIN links' : links'[l] \in LinkMetrics
  <2>1. DOMAIN links \subseteq Links /\ \A l \in DOMAIN links : links[l] \in LinkMetrics
    BY DEF IInv, TypeOK
  <2>2. CASE AddOrUpdateLink
    BY <2>1, <2>2 DEF AddOrUpdateLink
  <2>3. CASE RemoveLink
    BY <2>1, <2>3 DEF RemoveLink
  <2> QED
    BY <2>2, <2>3
<1>2. UNCHANGED <<phyEntity, nextId, pending, agenda, now, heard, tables, disposed>>
  BY DEF AddOrUpdateLink, RemoveLink
<1> QED
  BY <1>1, <1>2 DEF IInv, TypeOK, AnsweredOnce, PendingUnanswered, UnusedUntouched,
     UnansweredHasNoPair, PairsNeedEntity, ToldReadyHoldsPair, OnlyEarlyConsumptionLeaks, tables

\* A request is given an id that has left no trace.
LEMMA RequestKeeps ==
  ASSUME IInv, UNCHANGED disposed, RequestEntanglement, ~disposed
  PROVE  IInv'
<1> DEFINE new == nextId
<1>1. /\ new \in Ids /\ nextId' = new + 1
      /\ pending' = pending \cup {new}
      /\ UNCHANGED <<links, phyEntity, now, heard, memory, spent, disposed>>
  BY DEF RequestEntanglement
<1>2. PICK s \in PhyNodes, d \in Nodes :
        LET m == ResolveMetrics(s, d)
        IN /\ s # d
           /\ infos' = [infos EXCEPT ![new] =
                          [localNode |-> s, remoteNode |-> d, isValid |-> FALSE]]
           /\ agenda' = agenda \cup
                {[id |-> new, uid |-> new, kept |-> m.isAvailable,
                  at |-> now + (IF m.isAvailable THEN ReadyDelay(m) ELSE 0)]}
  BY DEF RequestEntanglement
<1>3. heard[new] = <<>> /\ states[new] = "NONE" /\ spent[new] = "NONE" /\ memory[new] = NoPair
  BY <1>1, IdsAreNumbers DEF IInv, UnusedUntouched, UnansweredHasNoPair
<1>4. states' = [states EXCEPT ![new] = "PENDING"]
  BY DEF RequestEntanglement
<1>5. /\ states'[new] = "PENDING"
      /\ \A i \in Ids \ {new} : states'[i] = states[i] /\ infos'[i] = infos[i]
  BY <1>1, <1>2, <1>4 DEF IInv, TypeOK
<1>6. \A i \in Ids : i >= nextId' <=> i >= new /\ i # new
  BY <1>1, IdsAreNumbers
<1>7. TypeOK'
  <2>1. infos' \in [Ids -> Infos]
    BY <1>1, <1>2 DEF IInv, TypeOK, Infos
  <2>2. states' \in [Ids -> States]
    BY <1>1, <1>4 DEF IInv, TypeOK, States, EntanglementStates
  <2>3. agenda' \subseteq [id : Ids, uid : Ids, kept : BOOLEAN, at : Nat]
    <3> DEFINE m == ResolveMetrics(s, d)
               at == now + (IF m.isAvailable THEN ReadyDelay(m) ELSE 0)
    <3>1. m.isAvailable \in BOOLEAN /\ ReadyDelay(m) \in Nat
      BY DelayIsNat DEF IInv
    <3>2. at \in Nat
      BY <3>1 DEF IInv, TypeOK
    <3>3. agenda' = agenda \cup {[id |-> new, uid |-> new, kept |-> m.isAvailable, at |-> at]}
      BY <1>2
    <3> HIDE DEF at, m
    <3> QED
      BY <1>1, <3>1, <3>2, <3>3 DEF IInv, TypeOK
  <2>4. nextId' \in 1..(MaxRequests + 1)
    BY <1>1 DEF Ids
  <2> QED
    BY <1>1, <2>1, <2>2, <2>3, <2>4 DEF IInv, TypeOK, Infos, States
<1>8. AnsweredOnce' /\ PairsNeedEntity'
  BY <1>1 DEF IInv, AnsweredOnce, PairsNeedEntity
<1>9. PendingUnanswered'
  <2>1. \A i \in pending : i \in Ids
    BY DEF IInv, TypeOK
  <2> QED
    BY <1>1, <1>3, <2>1, IdsAreNumbers DEF IInv, PendingUnanswered
<1>10. UnusedUntouched'
  BY <1>1, <1>5, <1>6 DEF IInv, UnusedUntouched
<1>11. UnansweredHasNoPair'
  <2>1. \A i \in Ids : i < nextId' <=> i < new \/ i = new
    BY <1>1, IdsAreNumbers
  <2> QED
    BY <1>1, <1>3, <1>5, <2>1 DEF IInv, UnansweredHasNoPair
<1>12. ToldReadyHoldsPair'
  BY <1>1, <1>3, <1>5, Answers DEF IInv, ToldReadyHoldsPair
<1>13. OnlyEarlyConsumptionLeaks'
  BY <1>1, <1>3, <1>5 DEF IInv, OnlyEarlyConsumptionLeaks
<1> QED
  BY <1>7, <1>8, <1>9, <1>10, <1>11, <1>12, <1>13 DEF IInv

\* Whoever consumes a request that has been answered READY and not consumed yet
\* frees its pair.
LEMMA ConsumeKeeps ==
  ASSUME IInv, UNCHANGED disposed, ConsumeEntanglement, ~disposed
  PROVE  IInv'
<1>1. PICK id \in Known : Consume(infos, memory, states, {id})
  BY DEF ConsumeEntanglement
<1>2. /\ infos \in [Ids -> Infos] /\ memory \in [Ids -> PairPlaces]
      /\ states \in [Ids -> States] /\ spent \in [Ids -> States]
  BY DEF IInv, TypeOK, Infos, PairPlaces, States
<1>3. id \in Ids /\ states[id] # "NONE"
  BY <1>1 DEF Known
<1>4. /\ infos' \in [Ids -> Infos] /\ memory' \in [Ids -> PairPlaces]
      /\ states' \in [Ids -> States] /\ spent' \in [Ids -> States]
      /\ \A i \in Ids \ {id} :
           /\ states'[i] = states[i] /\ infos'[i] = infos[i]
           /\ memory'[i] = memory[i] /\ spent'[i] = spent[i]
      /\ states'[id] = "CONSUMED" /\ infos'[id].remoteNode = infos[id].remoteNode
      /\ infos[id].isValid /\ phyEntity => memory'[id] = NoPair
      /\ ~(infos[id].isValid /\ phyEntity) => memory'[id] = memory[id]
      /\ spent'[id] = IF spent[id] = "NONE" THEN states[id] ELSE spent[id]
  <2>1. {id} \in SUBSET Ids
    BY <1>3
  <2> QED
    BY <1>1, <1>2, <2>1, ConsumeFacts
<1>5. UNCHANGED <<links, phyEntity, nextId, pending, agenda, now, heard, disposed>>
  BY DEF ConsumeEntanglement
<1>6. TypeOK'
  BY <1>4, <1>5 DEF IInv, TypeOK, Infos, PairPlaces, States
<1>7. AnsweredOnce' /\ PendingUnanswered'
  BY <1>5 DEF IInv, AnsweredOnce, PendingUnanswered
<1>8. UnusedUntouched'
  BY <1>3, <1>4, <1>5 DEF IInv, UnusedUntouched
<1>9. UnansweredHasNoPair'
  BY <1>3, <1>4, <1>5 DEF IInv, UnansweredHasNoPair
<1>10. PairsNeedEntity'
  BY <1>3, <1>4, <1>5 DEF IInv, PairsNeedEntity
<1>11. ToldReadyHoldsPair'
  BY <1>3, <1>4, <1>5 DEF IInv, ToldReadyHoldsPair
<1>12. OnlyEarlyConsumptionLeaks'
  <2>1. ASSUME memory'[id] # NoPair, infos'[id].remoteNode \in PhyNodes
        PROVE  spent'[id] \in {"NONE", "PENDING"} /\ heard'[id] = <<"READY">>
    <3>1. memory[id] # NoPair /\ phyEntity
      BY <1>3, <1>4, <2>1 DEF IInv, PairsNeedEntity
    <3>2. spent[id] \in {"NONE", "PENDING"} /\ heard[id] = <<"READY">>
      BY <1>3, <1>4, <2>1, <3>1 DEF IInv, OnlyEarlyConsumptionLeaks
    <3>3. ~infos[id].isValid
      BY <1>4, <2>1, <3>1
    <3>4. spent[id] # "NONE"
      BY <1>3, <3>2, <3>3 DEF IInv, ToldReadyHoldsPair
    <3> QED
      BY <1>4, <1>5, <3>2, <3>4
  <2> QED
    BY <1>4, <1>5, <2>1 DEF IInv, OnlyEarlyConsumptionLeaks
<1> QED
  BY <1>6, <1>7, <1>8, <1>9, <1>10, <1>11, <1>12 DEF IInv
\* The answer to a request comes with its pair or leaves none behind, whatever
\* pairs its callback consumes.
LEMMA NotifyKeeps ==
  ASSUME IInv, NEW id \in Ids, id \in pending,
         NEW answer \in {"READY", "FAILED"}, NEW mem \in PairPlaces,
         Notify(id, answer, mem),
         answer = "READY" => phyEntity /\ mem = SentPair(id),
         answer = "FAILED" =>
           \/ mem = memory[id]
           \/ phyEntity /\ infos[id].remoteNode \notin PhyNodes,
         pending' = pending \ {id},
         agenda' \subseteq agenda, now' \in Nat,
         UNCHANGED <<links, phyEntity, nextId, disposed>>
  PROVE  IInv'
<1> DEFINE inf == [infos EXCEPT ![id].isValid = (answer = "READY")]
           st == [states EXCEPT ![id] = answer]
           pairs == [memory EXCEPT ![id] = mem]
<1>1. PICK used \in SUBSET Known : Consume(inf, pairs, st, used)
  BY DEF Notify
<1>2. heard' = [heard EXCEPT ![id] = Append(@, answer)]
  BY DEF Notify
<1>3. /\ inf \in [Ids -> Infos] /\ pairs \in [Ids -> PairPlaces] /\ st \in [Ids -> States]
      /\ \A i \in Ids \ {id} :
           inf[i] = infos[i] /\ pairs[i] = memory[i] /\ st[i] = states[i]
      /\ inf[id].isValid = (answer = "READY")
      /\ inf[id].localNode = infos[id].localNode /\ inf[id].remoteNode = infos[id].remoteNode
      /\ pairs[id] = mem /\ st[id] = answer
  <2>1. /\ infos \in [Ids -> Infos] /\ memory \in [Ids -> PairPlaces]
        /\ states \in [Ids -> States]
    BY DEF IInv, TypeOK, Infos, PairPlaces, States
  <2>2. infos[id] \in Infos /\ (answer = "READY") \in BOOLEAN
    BY <2>1
  <2>3. [infos[id] EXCEPT !.isValid = (answer = "READY")] \in Infos
    BY <2>2 DEF Infos
  <2>4. inf = [infos EXCEPT ![id] = [infos[id] EXCEPT !.isValid = (answer = "READY")]]
    BY <2>1
  <2>5. inf \in [Ids -> Infos] /\ inf[id] = [infos[id] EXCEPT !.isValid = (answer = "READY")]
    BY <2>1, <2>3, <2>4
  <2>6. /\ inf[id].isValid = (answer = "READY")
        /\ inf[id].localNode = infos[id].localNode /\ inf[id].remoteNode = infos[id].remoteNode
    BY <2>2, <2>5 DEF Infos
  <2>7. answer \in States
    BY DEF States, EntanglementStates
  <2> QED
    BY <2>1, <2>5, <2>6, <2>7
<1> HIDE DEF inf, st, pairs
<1>4. used \in SUBSET Ids /\ \A i \in used : states[i] # "NONE"
  BY DEF Known
<1>5. /\ infos' \in [Ids -> Infos] /\ memory' \in [Ids -> PairPlaces]
      /\ states' \in [Ids -> States] /\ spent' \in [Ids -> States]
      /\ \A i \in Ids \ used :
           /\ states'[i] = st[i] /\ infos'[i] = inf[i]
           /\ memory'[i] = pairs[i] /\ spent'[i] = spent[i]
      /\ \A i \in used :
           /\ states'[i] = "CONSUMED"
           /\ infos'[i].remoteNode = inf[i].remoteNode
           /\ inf[i].isValid /\ phyEntity => memory'[i] = NoPair
           /\ ~(inf[i].isValid /\ phyEntity) => memory'[i] = pairs[i]
           /\ spent'[i] = IF spent[i] = "NONE" THEN st[i] ELSE spent[i]
  <2>1. spent \in [Ids -> States]
    BY DEF IInv, TypeOK, States
  <2> QED
    BY <1>1, <1>3, <1>4, <2>1, ConsumeFacts
<1>6. /\ id < nextId /\ heard[id] = <<>> /\ ~disposed /\ memory[id] = NoPair
      /\ \/ states[id] = "PENDING" /\ spent[id] = "NONE"
         \/ states[id] = "CONSUMED" /\ spent[id] = "PENDING"
  BY DEF IInv, PendingUnanswered, UnansweredHasNoPair
<1>7. /\ heard'[id] = <<answer>> /\ heard'[id] # <<>>
      /\ heard'[id] \in {<<"READY">>, <<"FAILED">>}
      /\ \A i \in Ids \ {id} : heard'[i] = heard[i]
      /\ heard' \in [Ids -> Seq({"READY", "FAILED"})]
  <2>1. heard \in [Ids -> Seq({"READY", "FAILED"})]
    BY DEF IInv, TypeOK
  <2>2. Append(heard[id], answer) = <<answer>>
    BY <1>6
  <2>3. heard' = [heard EXCEPT ![id] = <<answer>>]
    BY <1>2, <2>2
  <2>4. <<answer>> \in {<<"READY">>, <<"FAILED">>}
    OBVIOUS
  <2> QED
    BY <2>1, <2>3, <2>4, Answers
<1>8. TypeOK'
  <2>1. agenda' \subseteq [id : Ids, uid : Ids, kept : BOOLEAN, at : Nat] /\ pending' \subseteq Ids
    BY DEF IInv, TypeOK
  <2> QED
    BY <1>5, <1>7, <2>1 DEF IInv, TypeOK, Infos, PairPlaces, States
<1>9. AnsweredOnce' /\ PendingUnanswered'
  BY <1>7 DEF IInv, TypeOK, AnsweredOnce, PendingUnanswered
<1>10. UnusedUntouched'
  BY <1>3, <1>4, <1>5, <1>6, <1>7, IdsAreNumbers DEF IInv, TypeOK, UnusedUntouched
<1>11. UnansweredHasNoPair'
  <2>1. ASSUME NEW i \in Ids, heard'[i] = <<>>
        PROVE  /\ memory'[i] = NoPair
               /\ i < nextId' /\ ~disposed' =>
                    \/ states'[i] = "PENDING" /\ spent'[i] = "NONE"
                    \/ states'[i] = "CONSUMED" /\ spent'[i] = "PENDING"
    <3>1. i # id /\ heard[i] = <<>>
      BY <1>7, <2>1
    <3>2. /\ memory[i] = NoPair
          /\ i < nextId /\ ~disposed =>
               \/ states[i] = "PENDING" /\ spent[i] = "NONE"
               \/ states[i] = "CONSUMED" /\ spent[i] = "PENDING"
      BY <3>1 DEF IInv, UnansweredHasNoPair
    <3>3. CASE i \in used
      BY <1>3, <1>5, <3>1, <3>2, <3>3
    <3>4. CASE i \notin used
      BY <1>3, <1>5, <3>1, <3>2, <3>4
    <3> QED
      BY <3>3, <3>4
  <2> QED
    BY <2>1 DEF UnansweredHasNoPair
<1>12. PairsNeedEntity'
  BY <1>3, <1>5, <1>6 DEF IInv, PairsNeedEntity
<1>13. ToldReadyHoldsPair'
  <2>1. ASSUME heard'[id] = <<"READY">>, spent'[id] = "NONE"
        PROVE  /\ states'[id] = "READY" /\ infos'[id].isValid
               /\ memory'[id].local \in {infos'[id].localNode, Gone}
               /\ memory'[id].remote \in {infos'[id].remoteNode, Gone}
    <3>1. answer = "READY"
      BY <1>7, <2>1, Answers
    <3>2. id \notin used
      BY <1>3, <1>5, <2>1
    <3>3. mem.local = infos[id].localNode /\ mem.remote = infos[id].remoteNode
      BY <3>1 DEF SentPair
    <3>4. infos'[id] = inf[id] /\ states'[id] = st[id] /\ memory'[id] = mem
      BY <1>3, <1>5, <3>2
    <3> QED
      BY <1>3, <3>1, <3>3, <3>4
  <2>2. ASSUME NEW i \in Ids \ {id}, heard'[i] = <<"READY">>, spent'[i] = "NONE"
        PROVE  /\ states'[i] = "READY" /\ infos'[i].isValid
               /\ memory'[i].local \in {infos'[i].localNode, Gone}
               /\ memory'[i].remote \in {infos'[i].remoteNode, Gone}
    <3>1. i \notin used
      BY <1>3, <1>4, <1>5, <2>2
    <3>2. /\ infos'[i] = infos[i] /\ states'[i] = states[i] /\ memory'[i] = memory[i]
          /\ spent'[i] = spent[i] /\ heard'[i] = heard[i]
      BY <1>3, <1>5, <1>7, <3>1
    <3> QED
      BY <1>6, <2>2, <3>2 DEF IInv, ToldReadyHoldsPair
  <2> QED
    BY <2>1, <2>2 DEF ToldReadyHoldsPair
<1>14. OnlyEarlyConsumptionLeaks'
  <2>1. ASSUME memory'[id] # NoPair, infos'[id].remoteNode \in PhyNodes
        PROVE  spent'[id] \in {"NONE", "PENDING"} /\ heard'[id] = <<"READY">>
    <3>1. infos'[id].remoteNode = infos[id].remoteNode
      BY <1>3, <1>5
    <3>2. answer = "READY"
      BY <1>3, <1>5, <1>6, <2>1, <3>1
    <3>3. id \notin used
      BY <1>3, <1>5, <2>1, <3>2
    <3> QED
      BY <1>5, <1>6, <1>7, <3>2, <3>3
  <2>2. ASSUME NEW i \in Ids \ {id}, memory'[i] # NoPair, infos'[i].remoteNode \in PhyNodes
        PROVE  spent'[i] \in {"NONE", "PENDING"} /\ heard'[i] = <<"READY">>
    <3>1. memory[i] # NoPair /\ infos[i].remoteNode \in PhyNodes /\ phyEntity
      BY <1>3, <1>5, <1>6, <2>2 DEF IInv, PairsNeedEntity
    <3>2. spent[i] \in {"NONE", "PENDING"} /\ heard[i] = <<"READY">>
      BY <1>6, <3>1 DEF IInv, OnlyEarlyConsumptionLeaks
    <3>3. CASE i \notin used
      BY <1>5, <1>7, <3>2, <3>3
    <3>4. CASE i \in used
      <4>1. ~infos[i].isValid
        BY <1>3, <1>5, <2>2, <3>1, <3>4
      <4>2. spent[i] # "NONE"
        BY <1>6, <3>2, <4>1 DEF IInv, ToldReadyHoldsPair
      <4> QED
        BY <1>5, <1>7, <3>2, <3>4, <4>2
    <3> QED
      BY <3>3, <3>4
  <2> QED
    BY <2>1, <2>2 DEF OnlyEarlyConsumptionLeaks
<1> QED
  BY <1>8, <1>9, <1>10, <1>11, <1>12, <1>13, <1>14 DEF IInv

\* An event that completes a request, and one whose request is gone.
LEMMA CompleteKeeps == IInv /\ CompleteRequest => IInv'
<1> SUFFICES ASSUME IInv, CompleteRequest PROVE IInv'
  OBVIOUS
<1>1. PICK e \in agenda :
        /\ agenda' = agenda \ {e}
        /\ now' = e.at
        /\ pending' = pending \ {e.id}
        /\ IF e.id \in pending THEN Complete(e.id) ELSE UNCHANGED <<heard, tables>>
  BY DEF CompleteRequest
<1>2. UNCHANGED <<links, phyEntity, nextId, disposed>>
  BY DEF CompleteRequest
<1>3. e.id \in Ids /\ e.at \in Nat
  BY DEF IInv, TypeOK
<1>4. CASE e.id \notin pending
  <2>1. UNCHANGED <<heard, infos, states, memory, spent, pending>>
    BY <1>1, <1>4 DEF tables
  <2>2. TypeOK'
    BY <1>1, <1>2, <1>3, <2>1 DEF IInv, TypeOK
  <2> QED
    BY <1>2, <2>1, <2>2 DEF IInv, AnsweredOnce, PendingUnanswered, UnusedUntouched,
       UnansweredHasNoPair, PairsNeedEntity, ToldReadyHoldsPair, OnlyEarlyConsumptionLeaks
<1>5. CASE e.id \in pending
  <2> DEFINE id == e.id
             m == ResolveMetrics(infos[id].localNode, infos[id].remoteNode)
  <2>1. LinkFails(id, m) \/ TransferFails(id, m) \/ LinkSucceeds(id, m)
    BY <1>1, <1>5 DEF Complete
  <2>2. infos[id] \in Infos /\ memory[id] \in PairPlaces
    BY <1>3 DEF IInv, TypeOK, Infos, PairPlaces
  <2>3. SentPair(id) \in PairPlaces /\ KeptPair(id) \in PairPlaces
    BY <2>2 DEF SentPair, KeptPair, Infos, PairPlaces
  <2> HIDE DEF m
  <2>4. CASE LinkFails(id, m)
    BY <1>1, <1>2, <1>3, <1>5, <2>2, <2>4, NotifyKeeps DEF LinkFails
  <2>5. CASE TransferFails(id, m)
    <3>1. /\ phyEntity /\ infos[id].remoteNode \notin PhyNodes
          /\ Notify(id, "FAILED", KeptPair(id))
      BY <2>5 DEF TransferFails, KeptPair
    <3> QED
      BY <1>1, <1>2, <1>3, <1>5, <2>3, <3>1, NotifyKeeps
  <2>6. CASE LinkSucceeds(id, m)
    BY <1>1, <1>2, <1>3, <1>5, <2>3, <2>6, NotifyKeeps DEF LinkSucceeds
  <2> QED
    BY <2>1, <2>4, <2>5, <2>6
<1> QED
  BY <1>4, <1>5

\* A swap takes halves away and puts none anywhere.
LEMMA MeasureKeeps ==
  ASSUME IInv, UNCHANGED disposed, MeasureQubit, ~disposed
  PROVE  IInv'
<1>1. PICK id \in Ids, half \in {"local", "remote"} :
        /\ states[id] = "READY"
        /\ memory[id][half] # Gone
        /\ memory' = [memory EXCEPT ![id][half] = Gone]
  BY DEF MeasureQubit
<1>2. UNCHANGED <<links, phyEntity, nextId, pending, agenda, now, heard, infos, states,
                  spent, disposed>>
  BY DEF MeasureQubit
<1>3. memory \in [Ids -> PairPlaces] /\ memory[id] \in PairPlaces
  BY DEF IInv, TypeOK, PairPlaces
<1>4. memory[id] # NoPair
  BY <1>1 DEF NoPair
<1>5. /\ memory' \in [Ids -> PairPlaces]
      /\ \A i \in Ids \ {id} : memory'[i] = memory[i]
      /\ memory'[id].local \in {memory[id].local, Gone}
      /\ memory'[id].remote \in {memory[id].remote, Gone}
  <2>1. CASE half = "local"
    BY <1>1, <1>3, <2>1 DEF PairPlaces
  <2>2. CASE half = "remote"
    BY <1>1, <1>3, <2>2 DEF PairPlaces
  <2> QED
    BY <2>1, <2>2
<1>6. heard[id] # <<>> /\ (~disposed => phyEntity)
  BY <1>4 DEF IInv, UnansweredHasNoPair, PairsNeedEntity
<1>7. TypeOK'
  BY <1>2, <1>5 DEF IInv, TypeOK, PairPlaces
<1>8. AnsweredOnce' /\ PendingUnanswered' /\ UnusedUntouched'
  BY <1>2 DEF IInv, AnsweredOnce, PendingUnanswered, UnusedUntouched
<1>9. UnansweredHasNoPair' /\ PairsNeedEntity'
  BY <1>2, <1>5, <1>6 DEF IInv, UnansweredHasNoPair, PairsNeedEntity
<1>10. ToldReadyHoldsPair'
  BY <1>2, <1>5 DEF IInv, ToldReadyHoldsPair
<1>11. OnlyEarlyConsumptionLeaks'
  BY <1>2, <1>4, <1>5 DEF IInv, OnlyEarlyConsumptionLeaks
<1> QED
  BY <1>7, <1>8, <1>9, <1>10, <1>11 DEF IInv

\* The service is shut down: the tables are emptied.
LEMMA DisposeKeeps == IInv /\ DoDispose => IInv'
<1> SUFFICES ASSUME IInv, DoDispose PROVE IInv'
  OBVIOUS
<1>1. disposed' /\ pending' = {}
  BY DEF DoDispose
<1>2. TypeOK'
  <2>1. DOMAIN links' \subseteq Links /\ \A l \in DOMAIN links' : links'[l] \in LinkMetrics
    BY DEF DoDispose
  <2>2. NoInfo \in Infos
    BY DEF NoInfo, Infos
  <2>3. infos' \in [Ids -> Infos]
    BY <2>2 DEF DoDispose
  <2> QED
    BY <2>1, <2>3 DEF DoDispose, IInv, TypeOK, Infos
<1>3. AnsweredOnce' /\ PendingUnanswered' /\ UnusedUntouched'
  BY <1>1 DEF DoDispose, IInv, AnsweredOnce, PendingUnanswered, UnusedUntouched
<1>4. UnansweredHasNoPair' /\ PairsNeedEntity' /\ ToldReadyHoldsPair' /\ OnlyEarlyConsumptionLeaks'
  BY <1>1 DEF DoDispose, IInv, UnansweredHasNoPair, PairsNeedEntity, ToldReadyHoldsPair,
     OnlyEarlyConsumptionLeaks
<1> QED
  BY <1>2, <1>3, <1>4 DEF IInv

\* Every step of the service keeps the invariant.
LEMMA NextIInv == IInv /\ [Next]_vars => IInv'
<1> SUFFICES ASSUME IInv, [Next]_vars PROVE IInv'
  OBVIOUS
<1>1. CASE ~disposed /\ Call /\ UNCHANGED disposed
  <2>1. CASE SetPhyEntity
    BY <1>1, <2>1 DEF SetPhyEntity, tables, IInv, TypeOK, AnsweredOnce, PendingUnanswered,
       UnusedUntouched, UnansweredHasNoPair, PairsNeedEntity, ToldReadyHoldsPair,
       OnlyEarlyConsumptionLeaks
  <2> QED
    BY <1>1, <2>1, LinksKeep, RequestKeeps, ConsumeKeeps, MeasureKeeps DEF Call
<1>2. CASE UNCHANGED vars
  BY <1>2 DEF vars, tables, IInv, TypeOK, AnsweredOnce, PendingUnanswered, UnusedUntouched,
     UnansweredHasNoPair, PairsNeedEntity, ToldReadyHoldsPair, OnlyEarlyConsumptionLeaks
<1> QED
  BY <1>1, <1>2, CompleteKeeps, DisposeKeeps DEF Next

\* All of IInv holds in every state of every behaviour,
THEOREM Invariance == Spec => []IInv
BY InitIInv, NextIInv, PTL DEF Spec

\* with it the types of the variables,
THEOREM TypeCorrect == Spec => []TypeOK
<1>1. IInv => TypeOK
  BY DEF IInv
<1> QED
  BY <1>1, Invariance, PTL

\* that who was told READY finds the halves of its pair where it asked for them
\* until it consumes or measures them (NotifyEntanglementReady, CompleteRequest),
THEOREM ReadyMeansPair == Spec => []ToldReadyHoldsPair
<1>1. IInv => ToldReadyHoldsPair
  BY DEF IInv
<1> QED
  BY <1>1, Invariance, PTL

\* and that qubits stay behind only for requests that were consumed before they
\* were completed, or whose far node does not exist (ConsumeEntanglement,
\* CompleteRequest).
THEOREM LeaksExplained == Spec => []OnlyEarlyConsumptionLeaks
<1>1. IInv => OnlyEarlyConsumptionLeaks
  BY DEF IInv
<1> QED
  BY <1>1, Invariance, PTL
(***************************************************************************)
(* Refinement of EntanglementService                                       *)
(***************************************************************************)
\* How far a request has come, told from its answer.
LEMMA PhaseFacts ==
  ASSUME IInv, NEW id \in Ids
  PROVE  /\ heard[id] = <<>> /\ id \in pending => Phases[id] = "waiting"
         /\ heard[id] = <<>> /\ id \notin pending /\ id < nextId => Phases[id] = "dropped"
         /\ heard[id] = <<>> /\ id \notin pending /\ ~(id < nextId) => Phases[id] = "none"
         /\ heard[id] = <<"READY">> => Phases[id] = "READY"
         /\ heard[id] = <<"FAILED">> => Phases[id] = "FAILED"
         /\ heard[id] \in {<<>>, <<"READY">>, <<"FAILED">>}
<1>1. heard[id] \in {<<>>, <<"READY">>, <<"FAILED">>}
  BY DEF IInv, AnsweredOnce
<1>2. Phases[id] = Phase(id)
  BY DEF Phases
<1>3. CASE heard[id] = <<>>
  BY <1>2, <1>3, Answers DEF Phase
<1>4. CASE heard[id] = <<"READY">>
  BY <1>2, <1>4, Answers DEF Phase
<1>5. CASE heard[id] = <<"FAILED">>
  BY <1>2, <1>5, Answers DEF Phase
<1> QED
  BY <1>1, <1>3, <1>4, <1>5, Answers

\* A step that leaves requests and answers alone leaves every phase.
LEMMA PhasesKept ==
  ASSUME UNCHANGED <<heard, pending, nextId>>
  PROVE  Phases' = Phases
BY DEF Phases, Phase

\* Where pairs only lose halves, requests only lose complete pairs.
LEMMA HeldShrinks ==
  ASSUME NEW S \in SUBSET Ids,
         \A i \in Ids \ S :
           /\ memory'[i].local \in {memory[i].local, Gone}
           /\ memory'[i].remote \in {memory[i].remote, Gone}
  PROVE  Held' \subseteq Held \cup S
BY DEF Held

\* A new request is Ask of the service.
LEMMA RequestRefines ==
  ASSUME IInv, IInv', RequestEntanglement
  PROVE  Service!Next
<1>1. /\ nextId \in Ids /\ nextId' = nextId + 1 /\ pending' = pending \cup {nextId}
      /\ heard' = heard /\ memory' = memory
  BY DEF RequestEntanglement
<1>2. heard[nextId] = <<>> /\ nextId \notin pending
  BY <1>1, IdsAreNumbers DEF IInv, UnusedUntouched, PendingUnanswered
<1>3. Phases[nextId] = "none" /\ Phases'[nextId] = "waiting"
  BY <1>1, <1>2, IdsAreNumbers, Answers DEF Phases, Phase
<1>4. \A i \in Ids \ {nextId} : Phases'[i] = Phases[i]
  <2>1. \A i \in Ids \ {nextId} : i < nextId' <=> i < nextId
    BY <1>1, IdsAreNumbers
  <2> QED
    BY <1>1, <2>1 DEF Phases, Phase
<1>5. Phases' = [Phases EXCEPT ![nextId] = "waiting"]
  BY <1>1, <1>3, <1>4 DEF Phases
<1>6. Held' = Held
  BY <1>1 DEF Held
<1>7. Service!Ask
  BY <1>1, <1>3, <1>5, <1>6 DEF Service!Ask
<1> QED
  BY <1>7 DEF Service!Next

\* An answer is Answer of the service: who is told FAILED gets no pair.
LEMMA NotifyRefines ==
  ASSUME IInv, IInv', NEW id \in Ids, id \in pending,
         NEW answer \in {"READY", "FAILED"}, NEW mem \in PairPlaces,
         Notify(id, answer, mem),
         answer = "FAILED" => mem = memory[id] \/ mem.remote = mem.local,
         pending' = pending \ {id}, nextId' = nextId
  PROVE  Service!Next
<1>1. heard[id] = <<>>
  BY DEF IInv, PendingUnanswered
<1>2. heard' = [heard EXCEPT ![id] = <<answer>>]
  <2>1. Append(heard[id], answer) = <<answer>>
    BY <1>1
  <2> QED
    BY <2>1 DEF Notify, IInv, TypeOK
<1>3. heard'[id] = <<answer>> /\ \A i \in Ids \ {id} : heard'[i] = heard[i]
  BY <1>2 DEF IInv, TypeOK
<1>4. Phases[id] = "waiting"
  BY <1>1, PhaseFacts
<1>5. Phases'[id] = answer
  <2>1. Phases'[id] = Phase(id)'
    BY DEF Phases
  <2>2. CASE answer = "READY"
    BY <1>3, <2>1, <2>2, Answers DEF Phase
  <2>3. CASE answer = "FAILED"
    BY <1>3, <2>1, <2>3, Answers DEF Phase
  <2> QED
    BY <2>2, <2>3
<1>6. \A i \in Ids \ {id} : Phases'[i] = Phases[i]
  BY <1>3 DEF Phases, Phase
<1>7. Phases' = [Phases EXCEPT ![id] = answer]
  BY <1>5, <1>6 DEF Phases
<1> DEFINE pairs == [memory EXCEPT ![id] = mem]
<1>8. \A i \in Ids : memory'[i] \in {pairs[i], NoPair}
  BY DEF Notify, Consume
<1>9. pairs[id] = mem /\ \A i \in Ids \ {id} : pairs[i] = memory[i]
  BY DEF IInv, TypeOK
<1> HIDE DEF pairs
<1>10. \A i \in Ids \ {id} : /\ memory'[i].local \in {memory[i].local, Gone}
                              /\ memory'[i].remote \in {memory[i].remote, Gone}
  <2> SUFFICES ASSUME NEW i \in Ids \ {id}
               PROVE  /\ memory'[i].local \in {memory[i].local, Gone}
                      /\ memory'[i].remote \in {memory[i].remote, Gone}
    OBVIOUS
  <2>1. memory'[i] = memory[i] \/ memory'[i] = NoPair
    BY <1>8, <1>9
  <2>2. NoPair.local = Gone /\ NoPair.remote = Gone
    BY DEF NoPair
  <2> QED
    BY <2>1, <2>2
<1>11. Held' \subseteq Held \cup {id}
  <2>1. {id} \in SUBSET Ids
    OBVIOUS
  <2> QED
    BY <1>10, <2>1, HeldShrinks
<1>12. ASSUME answer = "FAILED" PROVE Held' \subseteq Held
  <2>1. id \in Held' => id \in Held
    BY <1>8, <1>9, <1>12 DEF Held, NoPair
  <2> QED
    BY <1>11, <2>1
<1>13. Held \subseteq Ids /\ Held' \subseteq Ids
  BY DEF Held
<1>14. Service!Answer
  <2> DEFINE used == (Held \cup {id}) \ Held'
  <2>1. used \in SUBSET Ids
    BY <1>13
  <2>2. Held' = (IF answer = "READY" THEN Held \cup {id} ELSE Held) \ used
    BY <1>11, <1>12
  <2> HIDE DEF used
  <2> QED
    BY <1>4, <1>7, <2>1, <2>2 DEF Service!Answer
<1> QED
  BY <1>14 DEF Service!Next

\* A step that only takes halves away is Use of the service.
LEMMA UseRefines ==
  ASSUME UNCHANGED <<heard, pending, nextId>>,
         \A i \in Ids : /\ memory'[i].local \in {memory[i].local, Gone}
                        /\ memory'[i].remote \in {memory[i].remote, Gone}
  PROVE  Service!Next
<1>1. Phases' = Phases
  BY PhasesKept
<1>2. Held' \subseteq Held
  BY HeldShrinks, {} \in SUBSET Ids
<1>3. \E used \in SUBSET Held : Held' = Held \ used
  <2>1. Held \ Held' \in SUBSET Held /\ Held' = Held \ (Held \ Held')
    BY <1>2
  <2> QED
    BY <2>1
<1>4. Service!Use
  BY <1>1, <1>3 DEF Service!Use
<1> QED
  BY <1>4 DEF Service!Next

\* The completion of a request is Answer; without the request it is nothing.
LEMMA CompleteRefines ==
  ASSUME IInv, IInv', CompleteRequest
  PROVE  Service!Next \/ UNCHANGED Service!vars
<1>1. PICK e \in agenda :
        /\ pending' = pending \ {e.id}
        /\ IF e.id \in pending THEN Complete(e.id) ELSE UNCHANGED <<heard, tables>>
  BY DEF CompleteRequest
<1>2. nextId' = nextId /\ e.id \in Ids
  BY DEF CompleteRequest, IInv, TypeOK
<1>3. CASE e.id \notin pending
  <2>1. UNCHANGED <<heard, memory, pending, nextId>>
    BY <1>1, <1>2, <1>3 DEF tables
  <2> QED
    BY <2>1, PhasesKept DEF Held, Service!vars
<1>4. CASE e.id \in pending
  <2> DEFINE id == e.id
             m == ResolveMetrics(infos[id].localNode, infos[id].remoteNode)
  <2>1. LinkFails(id, m) \/ TransferFails(id, m) \/ LinkSucceeds(id, m)
    BY <1>1, <1>4 DEF Complete
  <2>2. infos[id] \in Infos /\ memory[id] \in PairPlaces
    BY <1>2 DEF IInv, TypeOK, Infos, PairPlaces
  <2>3. /\ SentPair(id) \in PairPlaces /\ KeptPair(id) \in PairPlaces
        /\ KeptPair(id).remote = KeptPair(id).local
    BY <2>2 DEF SentPair, KeptPair, Infos, PairPlaces
  <2> HIDE DEF m
  <2>4. CASE LinkFails(id, m)
    BY <1>1, <1>2, <1>4, <2>2, <2>4, NotifyRefines DEF LinkFails
  <2>5. CASE TransferFails(id, m)
    <3>1. Notify(id, "FAILED", KeptPair(id))
      BY <2>5 DEF TransferFails, KeptPair
    <3> QED
      BY <1>1, <1>2, <1>4, <2>3, <3>1, NotifyRefines
  <2>6. CASE LinkSucceeds(id, m)
    <3>1. Notify(id, "READY", SentPair(id))
      BY <2>6 DEF LinkSucceeds
    <3> QED
      BY <1>1, <1>2, <1>4, <2>3, <3>1, NotifyRefines
  <2> QED
    BY <2>1, <2>4, <2>5, <2>6
<1> QED
  BY <1>3, <1>4

\* Shutting down drops the requests that wait and no other.
LEMMA DisposeRefines ==
  ASSUME IInv, DoDispose
  PROVE  Service!Next
<1>1. pending' = {} /\ heard' = heard /\ nextId' = nextId /\ memory' = memory
  BY DEF DoDispose
<1>2. ASSUME NEW id \in Ids
      PROVE  Phases'[id] = IF Phases[id] = "waiting" THEN "dropped" ELSE Phases[id]
  <2>1. CASE id \in pending
    <3>1. heard[id] = <<>> /\ id < nextId
      BY <2>1 DEF IInv, PendingUnanswered
    <3>2. Phases[id] = "waiting"
      BY <2>1, <3>1, PhaseFacts
    <3>3. Phases'[id] = "dropped"
      BY <1>1, <3>1, Answers DEF Phases, Phase
    <3> QED
      BY <3>2, <3>3
  <2>2. CASE id \notin pending
    <3>1. Phases[id] # "waiting"
      BY <2>2, PhaseFacts
    <3>2. Phases'[id] = Phases[id]
      BY <1>1, <2>2 DEF Phases, Phase
    <3> QED
      BY <3>1, <3>2
  <2> QED
    BY <2>1, <2>2
<1>3. Phases' = [id \in Ids |-> IF Phases[id] = "waiting" THEN "dropped" ELSE Phases[id]]
  BY <1>2 DEF Phases
<1>4. Held' = Held
  BY <1>1 DEF Held
<1>5. Service!ShutDown
  BY <1>3, <1>4 DEF Service!ShutDown
<1> QED
  BY <1>5 DEF Service!Next

\* Every step of the service is a step of EntanglementService or changes nothing
\* of it.
LEMMA NextRefines ==
  ASSUME IInv, IInv', [Next]_vars
  PROVE  Service!Next \/ UNCHANGED Service!vars
<1>1. CASE UNCHANGED <<heard, pending, nextId, memory>>
  BY <1>1, PhasesKept DEF Held, Service!vars
<1>2. CASE ConsumeEntanglement
  <2>1. \A i \in Ids : memory'[i] \in {memory[i], NoPair}
    BY <1>2 DEF ConsumeEntanglement, Consume
  <2>2. \A i \in Ids : /\ memory'[i].local \in {memory[i].local, Gone}
                       /\ memory'[i].remote \in {memory[i].remote, Gone}
    BY <2>1 DEF NoPair
  <2> QED
    BY <1>2, <2>2, UseRefines DEF ConsumeEntanglement
<1>3. CASE MeasureQubit
  <2>1. PICK id \in Ids, half \in {"local", "remote"} :
          memory' = [memory EXCEPT ![id][half] = Gone]
    BY <1>3 DEF MeasureQubit
  <2>2. memory \in [Ids -> PairPlaces]
    BY DEF IInv, TypeOK, PairPlaces
  <2>3. \A i \in Ids : /\ memory'[i].local \in {memory[i].local, Gone}
                       /\ memory'[i].remote \in {memory[i].remote, Gone}
    <3>1. CASE half = "local"
      BY <2>1, <2>2, <3>1 DEF PairPlaces
    <3>2. CASE half = "remote"
      BY <2>1, <2>2, <3>2 DEF PairPlaces
    <3> QED
      BY <3>1, <3>2
  <2> QED
    BY <1>3, <2>3, UseRefines DEF MeasureQubit
<1>4. CASE AddOrUpdateLink \/ RemoveLink \/ SetPhyEntity
  BY <1>1, <1>4 DEF AddOrUpdateLink, RemoveLink, SetPhyEntity, tables
<1>5. CASE UNCHANGED vars
  BY <1>1, <1>5 DEF vars, tables
<1> QED
  BY <1>2, <1>3, <1>4, <1>5, RequestRefines, CompleteRefines, DisposeRefines DEF Next, Call

\* The service keeps the safety part of EntanglementService: a request is answered
\* once or dropped at the end, and who is told FAILED is given no pair
\* (RequestEntanglement, CompleteRequest, ConsumeEntanglement, DoDispose).
THEOREM Refinement == Spec => Service!Spec
<1>1. Init => Service!Init
  <2> SUFFICES ASSUME Init PROVE Service!Init
    OBVIOUS
  <2>1. \A id \in Ids : /\ heard[id] = <<>> /\ id \notin pending /\ ~(id < nextId)
                        /\ memory[id].local = Gone
    BY IdsAreNumbers DEF Init, NoPair, Ids
  <2>2. \A id \in Ids : Phases[id] = "none"
    BY <2>1, Answers DEF Phases, Phase
  <2>3. Held = {}
    BY <2>1 DEF Held
  <2> QED
    BY <2>2, <2>3 DEF Service!Init, Phases
<1>2. IInv /\ IInv' /\ [Next]_vars => [Service!Next]_Service!vars
  BY NextRefines
<1> QED
  BY <1>1, <1>2, Invariance, PTL DEF Spec, Service!Spec
===============================================================================
