------------------------------ MODULE LinkLayer ------------------------------
(***************************************************************************)
(* QuantumLinkLayerService with its SimpleEntanglementManagers: requests   *)
(* for link pairs, the events that complete them, the table of links they  *)
(* are completed with, and the qubits they leave in the nodes' memories.   *)
(*                                                                         *)
(* The managers, one for each source node, share the counter s_nextId, so  *)
(* their tables are one table here. A qubit is known by the request it was *)
(* generated for and its end.                                              *)
(***************************************************************************)
EXTENDS EventAgenda, Sequences

CONSTANTS
  Nodes,         \* names that a request may use
  PhyNodes,      \* those the physical entity knows
  Links,         \* pairs of nodes that AddOrUpdateLink is called for
  LinkMetrics,   \* metrics that links may have
  MaxRequests    \* bound on the number of requests

ASSUME NodesAssumption == PhyNodes \subseteq Nodes /\ Links \subseteq Nodes \X Nodes
ASSUME MaxRequestsAssumption == MaxRequests \in Nat
ASSUME LinkMetricsAssumption ==
  LinkMetrics \subseteq [quantumSetupTimeMs : Nat, classicalControlDelayMs : Nat, latency : Nat,
                         mayFail : BOOLEAN, maySucceed : BOOLEAN, isAvailable : BOOLEAN]

Ids == 1..MaxRequests

EntanglementStates == {"PENDING", "READY", "CONSUMED", "FAILED"}

Gone == "gone"   \* the place of a qubit that is in no memory

NoPair == [local |-> Gone, remote |-> Gone]

\* The metrics of a link that m_links does not hold.
DefaultMetrics ==
  [quantumSetupTimeMs |-> 0, classicalControlDelayMs |-> 0, latency |-> 0,
   mayFail |-> FALSE, maySucceed |-> TRUE, isAvailable |-> FALSE]

NoInfo == [localNode |-> Gone, remoteNode |-> Gone, isValid |-> FALSE]

VARIABLES
  links,       \* m_links: the pairs of nodes it holds, with their metrics
  phyEntity,   \* whether m_qphyent is set
  nextId,      \* s_nextId
  infos,       \* m_infos of the managers
  states,      \* m_states of the managers, "NONE" without an entry
  pending,     \* keys of m_pendingRequests
  agenda,      \* events of CompleteRequest; kept: it is in m_pendingEvents
  now,         \* Simulator::Now ()
  memory,      \* where the qubits of each request are
  heard,       \* history: what the callback of each request was told
  spent,       \* history: the state in which each request was first consumed
  disposed     \* DoDispose has run

tables == <<infos, states, memory, spent>>
vars == <<links, phyEntity, nextId, pending, agenda, now, heard, disposed, tables>>

Init ==
  /\ links = <<>>
  /\ phyEntity = FALSE
  /\ nextId = 1
  /\ infos = [id \in Ids |-> NoInfo]
  /\ states = [id \in Ids |-> "NONE"]
  /\ pending = {}
  /\ agenda = {}
  /\ now = 0
  /\ memory = [id \in Ids |-> NoPair]
  /\ heard = [id \in Ids |-> <<>>]
  /\ spent = [id \in Ids |-> "NONE"]
  /\ disposed = FALSE

(***************************************************************************)
(* The table of links                                                      *)
(***************************************************************************)
AddOrUpdateLink ==
  /\ \E l \in Links, m \in LinkMetrics :
       links' = [k \in DOMAIN links \cup {l} |-> IF k = l THEN m ELSE links[k]]
  /\ UNCHANGED <<phyEntity, nextId, pending, agenda, now, heard, tables>>

RemoveLink ==
  /\ \E l \in DOMAIN links : links' = [k \in DOMAIN links \ {l} |-> links[k]]
  /\ UNCHANGED <<phyEntity, nextId, pending, agenda, now, heard, tables>>

\* The link's own entry, else that of the other direction.
ResolveMetrics(s, d) ==
  IF <<s, d>> \in DOMAIN links THEN links[<<s, d>>]
  ELSE IF <<d, s>> \in DOMAIN links THEN links[<<d, s>>]
  ELSE DefaultMetrics

ReadyDelay(m) ==
  IF m.quantumSetupTimeMs = 0 /\ m.classicalControlDelayMs = 0 THEN m.latency
  ELSE m.quantumSetupTimeMs + m.classicalControlDelayMs

(***************************************************************************)
(* Requests                                                                *)
(***************************************************************************)
\* An unavailable link is answered by an event of its own, which m_pendingEvents
\* does not know; the source must have a node, for its memory is used unchecked.
RequestEntanglement ==
  /\ nextId \in Ids
  /\ \E s \in PhyNodes, d \in Nodes :
       LET m == ResolveMetrics(s, d)
       IN /\ s # d
          /\ infos' = [infos EXCEPT ![nextId] =
                         [localNode |-> s, remoteNode |-> d, isValid |-> FALSE]]
          /\ agenda' = agenda \cup
               {[id |-> nextId, uid |-> nextId, kept |-> m.isAvailable,
                 at |-> now + (IF m.isAvailable THEN ReadyDelay(m) ELSE 0)]}
  /\ states' = [states EXCEPT ![nextId] = "PENDING"]
  /\ pending' = pending \cup {nextId}
  /\ nextId' = nextId + 1
  /\ UNCHANGED <<links, phyEntity, now, heard, memory, spent>>

\* Mutant: consuming a pair forgets the half that was sent away.
ConsumeLocalHalf(inf, mem, st, used) ==
  /\ states' = [i \in Ids |-> IF i \in used THEN "CONSUMED" ELSE st[i]]
  /\ infos' = [i \in Ids |-> [inf[i] EXCEPT !.isValid = @ /\ i \notin used]]
  /\ memory' = [i \in Ids |-> IF i \in used /\ inf[i].isValid /\ phyEntity
                              THEN [mem[i] EXCEPT !.local = Gone] ELSE mem[i]]
  /\ spent' = [i \in Ids |-> IF i \in used /\ spent[i] = "NONE" THEN st[i] ELSE spent[i]]

\* ConsumeEntanglement for each of a set of requests, on given tables: what is
\* left of a valid pair is removed from the memories and traced out.
Consume(inf, mem, st, used) ==
  /\ states' = [i \in Ids |-> IF i \in used THEN "CONSUMED" ELSE st[i]]
  /\ infos' = [i \in Ids |-> [inf[i] EXCEPT !.isValid = @ /\ i \notin used]]
  /\ memory' = [i \in Ids |-> IF i \in used /\ inf[i].isValid /\ phyEntity
                              THEN NoPair ELSE mem[i]]
  /\ spent' = [i \in Ids |-> IF i \in used /\ spent[i] = "NONE" THEN st[i] ELSE spent[i]]

Known == {id \in Ids : states[id] # "NONE"}

ConsumeEntanglement ==
  /\ \E id \in Known : Consume(infos, memory, states, {id})
  /\ UNCHANGED <<links, phyEntity, nextId, pending, agenda, now, heard>>

\* NotifyEntanglementReady and NotifyEntanglementFailed, with pair mem left in
\* the memories; the callback may consume any pairs, as the network layer does
\* with all of a path's when one of them fails.
Notify(id, answer, mem) ==
  /\ heard' = [heard EXCEPT ![id] = Append(@, answer)]
  /\ \E used \in SUBSET Known :
       Consume([infos EXCEPT ![id].isValid = (answer = "READY")],
               [memory EXCEPT ![id] = mem],
               [states EXCEPT ![id] = answer],
               used)

\* Mutant: the far half is not sent.
KeptPair(id) == [local |-> infos[id].localNode, remote |-> infos[id].localNode]

\* The pair of a request after GenerateQubitsMixed and TransferQubit.
SentPair(id) == [local |-> infos[id].localNode, remote |-> infos[id].remoteNode]

\* The link is not available, there is no physical entity, or the draw fails.
LinkFails(id, m) ==
  /\ ~m.isAvailable \/ ~phyEntity \/ m.mayFail
  /\ Notify(id, "FAILED", memory[id])

\* The far node is unknown: the pair stays in the memory of the source.
TransferFails(id, m) ==
  /\ m.isAvailable /\ phyEntity /\ m.maySucceed
  /\ infos[id].remoteNode \notin PhyNodes
  /\ Notify(id, "FAILED", [local |-> infos[id].localNode, remote |-> infos[id].localNode])

LinkSucceeds(id, m) ==
  /\ m.isAvailable /\ phyEntity /\ m.maySucceed
  /\ infos[id].remoteNode \in PhyNodes
  /\ Notify(id, "READY", SentPair(id))

\* The metrics are those of the moment of completion.
Complete(id) ==
  LET m == ResolveMetrics(infos[id].localNode, infos[id].remoteNode)
  IN LinkFails(id, m) \/ TransferFails(id, m) \/ LinkSucceeds(id, m)

CompleteRequest ==
  /\ \E e \in agenda :
       /\ IsNext(e, agenda)
       /\ agenda' = agenda \ {e}
       /\ now' = e.at
       /\ pending' = pending \ {e.id}
       /\ IF e.id \in pending THEN Complete(e.id) ELSE UNCHANGED <<heard, tables>>
  /\ UNCHANGED <<links, phyEntity, nextId, disposed>>

(***************************************************************************)
(* The environment                                                         *)
(***************************************************************************)
SetPhyEntity ==
  /\ ~phyEntity
  /\ phyEntity' = TRUE
  /\ UNCHANGED <<links, nextId, pending, agenda, now, heard, tables>>

\* A swap of the network layer measures a half of a pair it was told of, and
\* takes it out of its memory.
MeasureQubit ==
  /\ \E id \in Ids, half \in {"local", "remote"} :
       /\ states[id] = "READY"
       /\ memory[id][half] # Gone
       /\ memory' = [memory EXCEPT ![id][half] = Gone]
  /\ UNCHANGED <<links, phyEntity, nextId, pending, agenda, now, heard, infos, states, spent>>

\* Mutant: the requests survive the service.
DisposeKeepsRequests ==
  /\ disposed' = TRUE
  /\ links' = <<>>
  /\ phyEntity' = FALSE
  /\ agenda' = {e \in agenda : ~e.kept}
  /\ UNCHANGED <<nextId, now, heard, tables, pending>>

\* Only the events that m_pendingEvents knows are cancelled.
DoDispose ==
  /\ disposed' = TRUE
  /\ links' = <<>>
  /\ phyEntity' = FALSE
  /\ agenda' = {e \in agenda : ~e.kept}
  /\ pending' = {}
  /\ infos' = [id \in Ids |-> NoInfo]
  /\ states' = [id \in Ids |-> "NONE"]
  /\ UNCHANGED <<nextId, now, heard, memory, spent>>

\* Calls of the owner, which makes none after DoDispose.
Call ==
  \/ AddOrUpdateLink \/ RemoveLink \/ RequestEntanglement \/ ConsumeEntanglement
  \/ SetPhyEntity \/ MeasureQubit

Next ==
  \/ ~disposed /\ Call /\ UNCHANGED disposed
  \/ ~disposed /\ DoDispose
  \/ CompleteRequest

Spec == Init /\ [][Next]_vars /\ WF_vars(CompleteRequest)

(***************************************************************************)
(* Properties                                                              *)
(***************************************************************************)
\* Every variable has values of its kind.
TypeOK ==
  /\ DOMAIN links \subseteq Links /\ \A l \in DOMAIN links : links[l] \in LinkMetrics
  /\ phyEntity \in BOOLEAN /\ disposed \in BOOLEAN
  /\ nextId \in 1..(MaxRequests + 1)
  /\ infos \in [Ids -> [localNode : Nodes \cup {Gone}, remoteNode : Nodes \cup {Gone},
                        isValid : BOOLEAN]]
  /\ states \in [Ids -> EntanglementStates \cup {"NONE"}]
  /\ pending \subseteq Ids
  /\ agenda \subseteq [id : Ids, uid : Ids, kept : BOOLEAN, at : Nat]
  /\ now \in Nat
  /\ memory \in [Ids -> [local : Nodes \cup {Gone}, remote : Nodes \cup {Gone}]]
  /\ heard \in [Ids -> Seq({"READY", "FAILED"})]
  /\ spent \in [Ids -> EntanglementStates \cup {"NONE"}]

\* A requester that was told READY, and has not consumed the pair, finds each
\* half in the node it asked for, or has measured it; the tables agree.
ToldReadyHoldsPair ==
  \A id \in Ids :
    heard[id] = <<"READY">> /\ spent[id] = "NONE" /\ ~disposed =>
      /\ states[id] = "READY" /\ infos[id].isValid
      /\ memory[id].local \in {infos[id].localNode, Gone}
      /\ memory[id].remote \in {infos[id].remoteNode, Gone}

\* Consuming a pair frees its qubits for good, and a request that failed has
\* none: qubits stay behind only for a request that was consumed before it was
\* completed, or whose far node does not exist.
OnlyEarlyConsumptionLeaks ==
  \A id \in Ids :
    memory[id] # NoPair /\ ~disposed /\ infos[id].remoteNode \in PhyNodes =>
      spent[id] \in {"NONE", "PENDING"} /\ heard[id] = <<"READY">>

\* A callback is called at most once.
AnsweredOnce == \A id \in Ids : heard[id] \in {<<>>, <<"READY">>, <<"FAILED">>}

\* A request that m_pendingRequests holds has been made, has no answer yet, and
\* the service has not been disposed of.
PendingUnanswered == \A id \in pending : id < nextId /\ heard[id] = <<>> /\ ~disposed

\* An id that was not handed out left no trace.
UnusedUntouched ==
  \A id \in Ids : id >= nextId => heard[id] = <<>> /\ states[id] = "NONE" /\ spent[id] = "NONE"

\* Without an answer there is no pair, and all that can have happened to the
\* request is that somebody consumed it.
UnansweredHasNoPair ==
  \A id \in Ids :
    heard[id] = <<>> =>
      /\ memory[id] = NoPair
      /\ id < nextId /\ ~disposed =>
           \/ states[id] = "PENDING" /\ spent[id] = "NONE"
           \/ states[id] = "CONSUMED" /\ spent[id] = "PENDING"

\* A pair was made by the physical entity, which is set for good.
PairsNeedEntity == ~disposed /\ ~phyEntity => \A id \in Ids : memory[id] = NoPair

\* The strengthening that makes ToldReadyHoldsPair and OnlyEarlyConsumptionLeaks
\* inductive.
IInv ==
  /\ TypeOK
  /\ AnsweredOnce /\ PendingUnanswered /\ UnusedUntouched
  /\ UnansweredHasNoPair /\ PairsNeedEntity
  /\ ToldReadyHoldsPair /\ OnlyEarlyConsumptionLeaks

Phase(id) ==
  IF Len(heard[id]) > 1 THEN "twice"
  ELSE IF heard[id] # <<>> THEN heard[id][1]
  ELSE IF id \in pending THEN "waiting"
  ELSE IF id < nextId THEN "dropped" ELSE "none"

Phases == [id \in Ids |-> Phase(id)]

\* The requests with a half at either end.
Held == {id \in Ids : memory[id].local # Gone
                          /\ memory[id].remote \notin {Gone, memory[id].local}}

Service == INSTANCE EntanglementService WITH phase <- Phases, held <- Held

\* The service keeps the promises of EntanglementService: an answer to every
\* request, whatever happens to links and pairs in the meantime.
ImplementsEntanglementService == Service!LiveSpec
==============================================================================
