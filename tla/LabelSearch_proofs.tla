-------------------------- MODULE LabelSearch_proofs --------------------------
(***************************************************************************)
(* Proofs about LabelSearch: what is cached is current, and the searches   *)
(* of both protocols implement RouteService.                               *)
(***************************************************************************)
EXTENDS LabelSearch, FiniteSetTheorems, WellFoundedInduction, TLAPS

(***************************************************************************)
(* Induction                                                               *)
(***************************************************************************)
\* The theorems of the library on induction take an operator. With sets in its
\* place they follow from WFMin: the least number that is not in S.
LEMMA NatSetInduction ==
  ASSUME NEW S \in SUBSET Nat, 0 \in S, \A n \in S : n + 1 \in S
  PROVE  S = Nat
<1> SUFFICES ASSUME Nat \ S # {}
             PROVE  FALSE
  OBVIOUS
<1>1. IsWellFoundedOn(OpToRel(<, Nat), Nat)
  BY NatLessThanWellFounded
<1>2. PICK n \in Nat \ S : \A m \in Nat \ S : <<m, n>> \notin OpToRel(<, Nat)
  BY Zenon, <1>1, WFMin
<1>3. n # 0 /\ n - 1 \in Nat /\ n - 1 < n
  OBVIOUS
<1> DEFINE m == n - 1
<1> HIDE DEF m
<1>4. <<m, n>> \in OpToRel(<, Nat)
  <2>1. <<m, n>>[1] < <<m, n>>[2]
    BY <1>3 DEF m
  <2>2. <<m, n>> \in {ss \in Nat \X Nat : ss[1] < ss[2]}
    BY <1>3, <2>1 DEF m
  <2> QED  BY Zenon, <2>2 DEF OpToRel
<1>5. m \in S
  <2>1. m \in Nat
    BY <1>3 DEF m
  <2> QED  BY Zenon, <1>2, <1>4, <2>1
<1> QED  BY <1>3, <1>5 DEF m

\* The same up to a bound.
LEMMA BoundedInduction ==
  ASSUME NEW n \in Nat, NEW S, 0 \in S, \A i \in 0 .. n - 1 : i \in S => i + 1 \in S
  PROVE  0 .. n \subseteq S
<1> DEFINE T == {i \in Nat : i <= n => i \in S}
<1>1. T \in SUBSET Nat /\ 0 \in T
  OBVIOUS
<1>2. ASSUME NEW i \in T
      PROVE  i + 1 \in T
  <2>1. CASE i + 1 <= n
    BY <2>1
  <2>2. CASE ~(i + 1 <= n)
    BY <2>2
  <2> QED  BY <2>1, <2>2
<1> HIDE DEF T
<1>3. T = Nat
  BY <1>1, <1>2, NatSetInduction
<1> QED  BY <1>3 DEF T

(***************************************************************************)
(* The operators                                                           *)
(***************************************************************************)
\* As long as the topology stays the same, so do the cost and the score of a path
\* (BottleneckFidelityRoutingMetric).
LEMMA CostKept ==
  ASSUME UNCHANGED topology, NEW path
  PROVE  Cost(path)' = Cost(path) /\ Cost(best)' = Cost(best')
BY SMT DEF Cost, HopCost, TMax, LinkOf, Hops, Max

LEMMA ScoreKept ==
  ASSUME UNCHANGED topology, NEW path
  PROVE  GetScore(path)' = GetScore(path)
BY CostKept DEF GetScore

\* The pairs a label is extended along are those the service calls usable
\* (ExtendLabel).
LEMMA ExtensionsAreUsable ==
  ASSUME TypeOK, NEW path, NEW node
  PROVE  node \in Extensions(path)
           <=> /\ node \in Nodes
               /\ <<LastNode(path), node>> \in Service!UsablePairs(topology)
               /\ \A i \in DOMAIN path : path[i] # node
BY DEF TypeOK, Extensions, Links, NoLink, Service!UsablePairs, Service!NoLink

\* A label that is extended stays a path of the kind it was (ExtendLabel).
LEMMA ExtendedPath ==
  ASSUME TypeOK, NEW path \in Seq(Nodes), path # <<>>,
         Service!IsUsablePath(topology, path),
         NEW node \in Extensions(path)
  PROVE  LET next == Append(path, node)
         IN /\ next \in Seq(Nodes)
            /\ next # <<>>
            /\ next[1] = path[1]
            /\ LastNode(next) = node
            /\ \A i \in DOMAIN next : next[i] = node \/ \E j \in DOMAIN path : next[i] = path[j]
            /\ Service!IsUsablePath(topology, next)
<1> DEFINE next == Append(path, node)
<1>1. /\ node \in Nodes
      /\ <<LastNode(path), node>> \in Service!UsablePairs(topology)
      /\ \A i \in DOMAIN path : path[i] # node
  BY ExtensionsAreUsable
<1>2. /\ Len(path) \in Nat \ {0}
      /\ DOMAIN path = 1 .. Len(path)
  OBVIOUS
<1>3. /\ next \in Seq(Nodes)
      /\ Len(next) = Len(path) + 1
      /\ DOMAIN next = 1 .. Len(path) + 1
      /\ \A i \in 1 .. Len(path) : next[i] = path[i]
      /\ next[Len(path) + 1] = node
  BY <1>1, <1>2
<1>4. Service!IsSimple(next)
  BY <1>1, <1>2, <1>3 DEF Service!IsUsablePath, Service!IsSimple
<1>5. ASSUME NEW i \in 1 .. Len(path)
      PROVE  <<next[i], next[i + 1]>> \in Service!UsablePairs(topology)
  <2>1. CASE i = Len(path)
    BY <1>1, <1>2, <1>3, <2>1 DEF LastNode
  <2>2. CASE i \in 1 .. Len(path) - 1
    <3>1. next[i] = path[i] /\ next[i + 1] = path[i + 1]
      BY <1>2, <1>3, <2>2
    <3> QED  BY <2>2, <3>1 DEF Service!IsUsablePath
  <2>3. Len(path) \in Nat
    OBVIOUS
  <2> QED  BY <2>1, <2>2, <2>3
<1>6. Service!IsUsablePath(topology, next)
  <2>1. 1 .. Len(next) - 1 = 1 .. Len(path)
    BY <1>2, <1>3
  <2> QED  BY <1>4, <1>5, <2>1 DEF Service!IsUsablePath
<1>7. next # <<>> /\ next[1] = path[1] /\ LastNode(next) = node
  BY <1>2, <1>3 DEF LastNode
<1>8. \A i \in DOMAIN next : next[i] = node \/ \E j \in DOMAIN path : next[i] = path[j]
  BY <1>2, <1>3
<1> QED  BY <1>3, <1>6, <1>7, <1>8

\* However many labels are dropped, a node that is offered one has labels
\* afterwards, of those it had and the new one; the single-label search keeps
\* one of them (AdmitLabel, and the update of bestByNode).
LEMMA KeptLabels ==
  ASSUME TypeOK, NEW node \in Nodes, NEW candidate, NEW kept \in Offered(node, candidate)
  PROVE  /\ kept # {}
         /\ kept \subseteq labels[node] \cup {candidate}
         /\ ~protocol.multi => kept = labels[node] \/ kept = {candidate}
<1>1. kept \subseteq labels[node] \cup {candidate}
  BY DEF Offered
<1>2. CASE ~protocol.multi
  BY <1>1, <1>2 DEF Offered, ReplaceLabel
<1>3. CASE protocol.multi
  <2>1. AdmitLabel(node, candidate, kept)
    BY <1>3 DEF Offered
  <2>2. CASE \E rival \in Rivals(node, candidate) : Beats(rival, candidate) \/ rival = candidate
    BY <1>1, <1>3, <2>1, <2>2 DEF AdmitLabel, Rivals
  <2>3. CASE ~\E rival \in Rivals(node, candidate) : Beats(rival, candidate) \/ rival = candidate
    <3>1. PICK gone : kept \in Resized((labels[node] \ gone) \cup {candidate})
      BY <2>1, <2>3 DEF AdmitLabel
    <3>2. protocol.k \in Nat \ {0}
      BY ProtocolAssumption DEF TypeOK
    <3>3. Cardinality({}) = 0
      BY FS_EmptySet
    <3>4. kept = (labels[node] \ gone) \cup {candidate} \/ Cardinality(kept) = protocol.k
      BY <3>1 DEF Resized
    <3> QED  BY <1>1, <1>3, <3>2, <3>3, <3>4
  <2> QED  BY <2>2, <2>3
<1> QED  BY <1>2, <1>3

(***************************************************************************)
(* The invariant                                                           *)
(***************************************************************************)
\* Nothing is known or cached, and no search runs.
LEMMA InitIInv ==
  ASSUME Init
  PROVE  IInv
<1> USE DEF Init
<1>1. TypeOK
  BY DEF TypeOK, NoRoutes, NoMetrics, NoLabels
<1>2. LabelsAreRoutes /\ OnlyExtensionsLeft /\ LabelsEndAtTheirNode /\ NoNodeForgotten
  BY DEF LabelsAreRoutes, OnlyExtensionsLeft, LabelsEndAtTheirNode, NoNodeForgotten, NoLabels
<1>3. CacheHolds
  BY DEF CacheHolds, NoRoutes
<1> QED  BY <1>1, <1>2, <1>3 DEF IInv

\* What holds of a route holds until the topology changes.
LEMMA CacheKept ==
  ASSUME IInv, UNCHANGED <<topology, cache>>,
         pc' # "idle" => routes[call'.request] = <<>>
  PROVE  CacheHolds'
<1>1. \A path : GetScore(path)' = GetScore(path)
  BY ScoreKept
<1>2. \A request, path : Service!IsRoute(topology, request, path)' = Service!IsRoute(topology, request, path)
  BY DEF Service!IsRoute, Service!IsUsablePath, Service!UsablePairs
<1> QED  BY <1>1, <1>2 DEF IInv, CacheHolds, cache

\* Another topology, with an empty cache (NotifyTopologyChange).
LEMMA ChangeIInv ==
  ASSUME IInv, NEW table \in [Pairs -> LinkMetrics \cup {NoLink}], ChangeTopology(table)
  PROVE  IInv'
<1> USE DEF IInv, ChangeTopology, NotifyTopologyChange
<1>1. TypeOK'
  BY DEF TypeOK, NoRoutes, NoMetrics, NoLabels
<1>2. LabelsAreRoutes' /\ OnlyExtensionsLeft' /\ NoNodeForgotten'
  BY DEF LabelsAreRoutes, OnlyExtensionsLeft, NoNodeForgotten
<1>3. LabelsEndAtTheirNode'
  BY DEF LabelsEndAtTheirNode, NoLabels
<1>4. CacheHolds'
  BY DEF CacheHolds, NoRoutes
<1> QED  BY <1>1, <1>2, <1>3, <1>4

\* The first label is the source itself.
LEMMA StartIInv ==
  ASSUME IInv, NEW op \in Operations, NEW request \in Requests,
         pc = "idle", routes[request] = <<>>, StartSearch(op, request)
  PROVE  IInv'
<1> DEFINE start == <<request[1]>>
<1>1. request[1] \in Nodes /\ request[2] \in Nodes /\ start \in Seq(Nodes)
  BY RequestAssumption
<1>2. /\ pc' = "pop"
      /\ call' = [op |-> op, request |-> request]
      /\ labels' = [NoLabels EXCEPT ![request[1]] = {start}]
      /\ frontier' = {start}
      /\ best' = <<>>
      /\ UNCHANGED <<protocol, topology, cache, current, todo, answer>>
  BY DEF StartSearch
<1>3. labels' = [node \in Nodes |-> IF node = request[1] THEN {start} ELSE {}]
  BY <1>1, <1>2 DEF NoLabels
<1>4. UnderWay' = {start}
  BY <1>2 DEF UnderWay
<1>5. /\ start # <<>> /\ Len(start) = 1 /\ DOMAIN start = {1}
      /\ start[1] = request[1] /\ LastNode(start) = request[1]
  BY DEF LastNode
<1> HIDE DEF start
<1>6. TypeOK'
  <2>1. {start} \in SUBSET Seq(Nodes) /\ {} \in SUBSET Seq(Nodes)
    BY <1>1
  <2>2. labels' \in [Nodes -> SUBSET Seq(Nodes)]
    BY <1>3, <2>1
  <2>3. call' \in [op : Operations, request : Requests]
    BY <1>2
  <2>4. best' \in Seq(Nodes)
    BY <1>2
  <2> QED  BY <1>2, <2>1, <2>2, <2>3, <2>4 DEF IInv, TypeOK, cache
<1>7. LabelsAreRoutes'
  <2>1. Service!IsUsablePath(topology, start)'
    <3>1. Service!IsSimple(start)
      BY <1>5 DEF Service!IsSimple
    <3>2. 1 .. Len(start) - 1 = {}
      BY <1>5
    <3> QED  BY <3>1, <3>2 DEF Service!IsUsablePath
  <2> QED  BY <1>2, <1>4, <1>5, <2>1 DEF LabelsAreRoutes
<1>8. OnlyExtensionsLeft'
  BY <1>2 DEF IInv, OnlyExtensionsLeft
<1>9. LabelsEndAtTheirNode'
  BY <1>3, <1>5 DEF LabelsEndAtTheirNode, LastNode
<1>10. NoNodeForgotten'
  BY <1>1, <1>2, <1>3, <1>4, <1>5 DEF NoNodeForgotten
<1>11. CacheHolds'
  BY <1>2, CacheKept
<1> QED  BY <1>6, <1>7, <1>8, <1>9, <1>10, <1>11 DEF IInv

\* A label leaves the queue, to be extended, to be the best so far, or to be
\* dropped (the loop of CalculateRoute).
LEMMA PopIInv ==
  ASSUME IInv, NEW path \in frontier, Pop(path)
  PROVE  IInv'
<1> DEFINE atEnd == LastNode(path) = call.request[2]
           extend == StillActive(path) /\ ~atEnd
<1>1. /\ pc = "pop"
      /\ frontier' = frontier \ {path}
      /\ best' = IF StillActive(path) /\ atEnd /\ (best = <<>> \/ IsBetter(path, best))
                 THEN path ELSE best
      /\ pc' = IF extend THEN "extend" ELSE "pop"
      /\ current' = IF extend THEN path ELSE <<>>
      /\ todo' = IF extend THEN Extensions(path) ELSE {}
      /\ UNCHANGED <<protocol, topology, cache, labels, call, answer>>
  BY DEF Pop, Dequeued
<1> HIDE DEF atEnd, extend
<1>2. TypeOK /\ LabelsAreRoutes /\ LabelsEndAtTheirNode /\ NoNodeForgotten
  BY DEF IInv
<1>3. /\ path \in Seq(Nodes)
      /\ path # <<>>
      /\ path[1] = call.request[1]
      /\ Service!IsUsablePath(topology, path)
      /\ \A i \in DOMAIN path : labels[path[i]] # {}
  BY <1>1, <1>2 DEF TypeOK, LabelsAreRoutes, NoNodeForgotten, UnderWay
<1>4. \A other : Service!IsUsablePath(topology, other)' = Service!IsUsablePath(topology, other)
  BY <1>1 DEF Service!IsUsablePath, Service!UsablePairs
<1>5. UnderWay' \subseteq UnderWay
  BY <1>1 DEF UnderWay
<1>6. TypeOK'
  <2>1. Extensions(path) \in SUBSET Nodes
    BY DEF Extensions
  <2> QED  BY <1>1, <1>2, <1>3, <2>1 DEF TypeOK, cache
<1>7. LabelsAreRoutes'
  <2>1. best' # <<>> => Service!IsRoute(topology, call.request, best')
    <3>1. CASE best' = best
      BY <1>1, <1>2, <3>1 DEF LabelsAreRoutes
    <3>2. CASE best' = path /\ atEnd
      BY <1>3, <3>2 DEF Service!IsRoute, LastNode, atEnd
    <3> QED  BY <1>1, <3>1, <3>2
  <2>2. (best # <<>> => Service!IsRoute(topology, call.request, best))'
    BY <1>1, <2>1 DEF Service!IsRoute, Service!IsUsablePath, Service!UsablePairs
  <2> QED  BY <1>1, <1>2, <1>4, <1>5, <2>2 DEF LabelsAreRoutes
<1>8. OnlyExtensionsLeft'
  <2>1. Extensions(path)' = Extensions(path)
    BY <1>1 DEF Extensions, Links, LastNode
  <2> QED  BY <1>1, <2>1 DEF OnlyExtensionsLeft
<1>9. LabelsEndAtTheirNode'
  BY <1>1, <1>2 DEF LabelsEndAtTheirNode, LastNode
<1>10. NoNodeForgotten'
  <2>1. \A node \in Nodes : labels[node] \subseteq frontier' \/ Explored(node)'
    <3> SUFFICES ASSUME NEW node \in Nodes
                 PROVE  labels[node] \subseteq frontier' \/ Explored(node)'
      OBVIOUS
    <3>1. CASE Explored(node)
      BY <1>1, <1>3, <3>1 DEF Explored, Service!UsablePairs
    <3>2. CASE labels[node] \subseteq frontier /\ path \notin labels[node]
      BY <1>1, <3>2
    <3>3. CASE path \in labels[node]
      <4>1. LastNode(path) = node /\ (~protocol.multi => labels[node] = {path})
        BY <1>2, <3>3 DEF LabelsEndAtTheirNode
      <4>2. StillActive(path)
        BY <3>3, <4>1 DEF StillActive
      <4>3. CASE atEnd
        BY <1>1, <1>3, <4>1, <4>2, <4>3 DEF Explored, atEnd
      <4>4. CASE ~atEnd
        <5>1. pc' = "extend" /\ current' = path /\ todo' = Extensions(path)
          BY <1>1, <4>2, <4>4 DEF extend
        <5>2. ASSUME NEW next \in Nodes, <<node, next>> \in Service!UsablePairs(topology)
              PROVE  labels[next] # {} \/ next \in todo'
          BY <1>2, <1>3, <4>1, <5>1, <5>2, ExtensionsAreUsable
        <5> QED  BY <1>1, <4>1, <4>4, <5>1, <5>2 DEF Explored, atEnd, LastNode, Service!UsablePairs
      <4> QED  BY <4>3, <4>4
    <3> QED  BY <1>1, <1>2, <3>1, <3>2, <3>3 DEF NoNodeForgotten
  <2> QED  BY <1>1, <1>2, <1>5, <2>1 DEF NoNodeForgotten
<1>11. CacheHolds'
  BY <1>1, CacheKept DEF IInv, CacheHolds
<1> QED  BY <1>6, <1>7, <1>8, <1>9, <1>10, <1>11 DEF IInv

\* A neighbour is offered the label extended to it (ExtendLabel, AdmitLabel).
LEMMA ExtendIInv ==
  ASSUME IInv, Extend
  PROVE  IInv'
<1>1. TypeOK /\ LabelsAreRoutes /\ OnlyExtensionsLeft /\ LabelsEndAtTheirNode /\ NoNodeForgotten
  BY DEF IInv
<1>2. /\ pc = "extend"
      /\ UNCHANGED <<protocol, topology, cache, best, current, pc, call, answer>>
  BY DEF Extend
<1>3. PICK node \in todo :
        \E kept \in Offered(node, Append(current, node)) :
          /\ labels' = [labels EXCEPT ![node] = kept]
          /\ frontier' = IF Append(current, node) \in kept
                         THEN frontier \cup {Append(current, node)} ELSE frontier
          /\ todo' = todo \ {node}
  BY DEF Extend
<1> DEFINE next == Append(current, node)
<1>4. /\ current \in Seq(Nodes)
      /\ current # <<>>
      /\ current[1] = call.request[1]
      /\ Service!IsUsablePath(topology, current)
      /\ \A i \in DOMAIN current : labels[current[i]] # {}
      /\ node \in Extensions(current)
      /\ node \in Nodes
  BY <1>1, <1>2, <1>3
     DEF TypeOK, LabelsAreRoutes, NoNodeForgotten, OnlyExtensionsLeft, UnderWay
<1>5. /\ next \in Seq(Nodes)
      /\ next # <<>>
      /\ next[1] = current[1]
      /\ LastNode(next) = node
      /\ \A i \in DOMAIN next : next[i] = node \/ \E j \in DOMAIN current : next[i] = current[j]
      /\ Service!IsUsablePath(topology, next)
  BY <1>1, <1>4, ExtendedPath
<1>6. PICK kept \in Offered(node, next) :
        /\ labels' = [labels EXCEPT ![node] = kept]
        /\ frontier' = IF next \in kept THEN frontier \cup {next} ELSE frontier
        /\ todo' = todo \ {node}
  BY <1>3
<1> HIDE DEF next
<1>7. /\ kept # {}
      /\ kept \subseteq labels[node] \cup {next}
      /\ ~protocol.multi => kept = labels[node] \/ kept = {next}
  BY <1>1, <1>4, KeptLabels
<1>8. \A path : Service!IsUsablePath(topology, path)' = Service!IsUsablePath(topology, path)
  BY <1>2 DEF Service!IsUsablePath, Service!UsablePairs
<1>9. UnderWay' \subseteq UnderWay \cup {next}
  BY <1>2, <1>6 DEF UnderWay
<1>10. /\ labels'[node] = kept
       /\ \A other \in Nodes \ {node} : labels'[other] = labels[other]
       /\ \A other \in Nodes : labels[other] # {} => labels'[other] # {}
  BY <1>1, <1>4, <1>7, <1>6 DEF TypeOK
<1>11. TypeOK'
  <2>1. kept \in SUBSET Seq(Nodes)
    BY <1>1, <1>4, <1>5, <1>7 DEF TypeOK
  <2>2. labels' \in [Nodes -> SUBSET Seq(Nodes)]
    BY <1>1, <1>4, <1>6, <2>1 DEF TypeOK
  <2>3. frontier' \in SUBSET Seq(Nodes) /\ todo' \in SUBSET Nodes
    BY <1>1, <1>5, <1>6 DEF TypeOK
  <2> QED  BY <1>1, <1>2, <2>2, <2>3 DEF TypeOK, cache
<1>12. LabelsAreRoutes'
  <2>1. (best # <<>> => Service!IsRoute(topology, call.request, best))'
    BY <1>1, <1>2
       DEF LabelsAreRoutes, Service!IsRoute, Service!IsUsablePath, Service!UsablePairs
  <2> QED  BY <1>1, <1>2, <1>4, <1>5, <1>8, <1>9, <2>1 DEF LabelsAreRoutes
<1>13. OnlyExtensionsLeft'
  <2>1. Extensions(current)' = Extensions(current)
    BY <1>2 DEF Extensions, Links, LastNode
  <2> QED  BY <1>1, <1>2, <1>6, <2>1 DEF OnlyExtensionsLeft
<1>14. LabelsEndAtTheirNode'
  <2> SUFFICES ASSUME NEW other \in Nodes, NEW path \in labels'[other]
               PROVE  /\ LastNode(path) = other
                      /\ ~protocol.multi => labels'[other] = {path}
    BY <1>2 DEF LabelsEndAtTheirNode, LastNode
  <2>1. CASE other # node
    BY <1>1, <1>10, <2>1 DEF LabelsEndAtTheirNode
  <2>2. CASE other = node
    <3>1. path \in labels[node] \/ path = next
      BY <1>7, <1>10, <2>2
    <3>2. LastNode(path) = node
      BY <1>1, <1>4, <1>5, <3>1 DEF LabelsEndAtTheirNode
    <3>3. ~protocol.multi => kept = {path}
      BY <1>1, <1>4, <1>7, <1>10, <2>2 DEF LabelsEndAtTheirNode
    <3> QED  BY <1>10, <2>2, <3>2, <3>3
  <2> QED  BY <2>1, <2>2
<1>15. NoNodeForgotten'
  <2>1. labels'[call.request[1]] # {}
    <3>1. call.request \in Requests
      BY <1>1, <1>2 DEF TypeOK
    <3> QED  BY <1>1, <1>2, <1>10, <3>1, RequestAssumption DEF NoNodeForgotten
  <2>2. ASSUME NEW path \in UnderWay', NEW i \in DOMAIN path
        PROVE  labels'[path[i]] # {}
    <3>1. CASE path \in UnderWay
      <4>1. path \in Seq(Nodes)
        BY <1>1, <3>1 DEF TypeOK, UnderWay
      <4>2. path[i] \in Nodes
        BY <2>2, <4>1
      <4> QED  BY <1>1, <1>2, <1>10, <2>2, <3>1, <4>2 DEF NoNodeForgotten
    <3>2. CASE path = next
      <4>1. CASE path[i] = node
        BY <1>7, <1>10, <4>1
      <4>2. CASE path[i] # node
        <5>1. PICK j \in DOMAIN current : path[i] = current[j]
          BY <1>5, <2>2, <3>2, <4>2
        <5>2. current[j] \in Nodes
          BY <1>4
        <5> QED  BY <1>4, <1>10, <5>1, <5>2
      <4> QED  BY <4>1, <4>2
    <3> QED  BY <1>9, <2>2, <3>1, <3>2
  <2>3. ASSUME NEW other \in Nodes
        PROVE  (labels[other] \subseteq frontier \/ Explored(other))'
    <3>1. CASE Explored(other)
      <4>1. CASE other = call.request[2]
        BY <1>2, <3>1, <4>1 DEF Explored
      <4>2. CASE other # call.request[2]
        <5>1. ASSUME NEW m \in Nodes, <<other, m>> \in Service!UsablePairs(topology)
              PROVE  labels'[m] # {} \/ (LastNode(current) = other /\ m \in todo')
          BY <1>7, <1>6, <1>10, <3>1, <4>2, <5>1 DEF Explored
        <5> QED  BY <1>2, <4>2, <5>1 DEF Explored, LastNode, Service!UsablePairs
      <4> QED  BY <4>1, <4>2
    <3>2. CASE labels[other] \subseteq frontier
      <4>1. labels'[other] \subseteq frontier'
        BY <1>7, <1>6, <1>10, <3>2
      <4> QED  BY <4>1
    <3> QED  BY <1>1, <1>2, <3>1, <3>2 DEF NoNodeForgotten
  <2> QED  BY <1>2, <2>1, <2>2, <2>3 DEF NoNodeForgotten
<1>16. CacheHolds'
  BY <1>2, CacheKept DEF IInv, CacheHolds
<1> QED  BY <1>11, <1>12, <1>13, <1>14, <1>15, <1>16 DEF IInv

\* All the neighbours have been offered theirs.
LEMMA ExtendedIInv ==
  ASSUME IInv, Extended
  PROVE  IInv'
<1>1. /\ pc = "extend" /\ todo = {} /\ pc' = "pop" /\ current' = <<>>
      /\ UNCHANGED <<protocol, topology, cache, labels, frontier, best, todo, call, answer>>
  BY DEF Extended
<1>2. TypeOK /\ LabelsAreRoutes /\ LabelsEndAtTheirNode /\ NoNodeForgotten
  BY DEF IInv
<1>3. UnderWay' \subseteq UnderWay
  BY <1>1 DEF UnderWay
<1>4. TypeOK'
  BY <1>1, <1>2 DEF TypeOK, cache
<1>5. LabelsAreRoutes'
  BY <1>1, <1>2, <1>3
     DEF LabelsAreRoutes, Service!IsRoute, Service!IsUsablePath, Service!UsablePairs
<1>6. OnlyExtensionsLeft'
  BY <1>1 DEF OnlyExtensionsLeft
<1>7. LabelsEndAtTheirNode'
  BY <1>1, <1>2 DEF LabelsEndAtTheirNode, LastNode
<1>8. NoNodeForgotten'
  <2>1. \A node \in Nodes : Explored(node) => Explored(node)'
    BY <1>1 DEF Explored, Service!UsablePairs
  <2> QED  BY <1>1, <1>2, <1>3, <2>1 DEF NoNodeForgotten
<1>9. CacheHolds'
  BY <1>1, CacheKept DEF IInv, CacheHolds
<1> QED  BY <1>4, <1>5, <1>6, <1>7, <1>8, <1>9 DEF IInv

\* When the queue is empty and no route was found, the nodes with labels are
\* all that can be reached, and the destination has none.
LEMMA NoneMeansUnreachable ==
  ASSUME IInv, pc = "pop", frontier = {}, best = <<>>
  PROVE  ~Service!Reachable(topology, call.request)
<1> DEFINE reached == {node \in Nodes : labels[node] # {}}
<1>1. TypeOK /\ NoNodeForgotten
  BY DEF IInv
<1>2. call.request \in Requests
  BY <1>1 DEF TypeOK
<1>3. call.request[1] \in reached
  BY <1>1, <1>2, RequestAssumption DEF NoNodeForgotten
<1>4. ASSUME NEW node \in reached
      PROVE  Explored(node)
  BY <1>1 DEF NoNodeForgotten
<1>5. call.request[2] \notin reached
  BY <1>4 DEF Explored
<1>6. ASSUME NEW link \in Service!UsablePairs(topology), link[1] \in reached
      PROVE  link[2] \in reached
  <2>1. link \in Nodes \X Nodes
    BY <1>1, NetworkAssumption DEF TypeOK, Service!UsablePairs
  <2>2. <<link[1], link[2]>> \in Service!UsablePairs(topology)
    BY <1>6, <2>1
  <2>3. Explored(link[1]) /\ link[1] # call.request[2]
    BY <1>4, <1>5, <1>6
  <2> QED  BY <2>1, <2>2, <2>3 DEF Explored
<1>7. reached \in SUBSET Nodes
  OBVIOUS
<1> QED  BY <1>3, <1>5, <1>6, <1>7 DEF Service!Reachable

\* The route that was found is kept, with its score (CalculateRoute, HasRoute,
\* GetRouteMetric).
LEMMA FinishIInv ==
  ASSUME IInv, Finish
  PROVE  IInv'
<1>1. /\ pc = "pop" /\ frontier = {}
      /\ routes' = IF KeepsRoute /\ best # <<>> THEN [routes EXCEPT ![call.request] = best]
                   ELSE routes
      /\ routeMetrics' = IF KeepsMetric /\ best # <<>>
                         THEN [routeMetrics EXCEPT ![call.request] = {GetScore(best)}]
                         ELSE routeMetrics
      /\ pc' = "idle" /\ call' = NoCall /\ best' = <<>>
      /\ UNCHANGED <<protocol, topology, labels, frontier, current, todo>>
  BY DEF Finish
<1>2. TypeOK /\ LabelsAreRoutes /\ OnlyExtensionsLeft /\ LabelsEndAtTheirNode /\ CacheHolds
  BY DEF IInv
<1>3. call.request \in Requests
  BY <1>1, <1>2 DEF TypeOK
<1>4. TypeOK'
  <2>1. routes' \in [Requests -> Seq(Nodes)] /\ DOMAIN routeMetrics' = Requests
    BY <1>1, <1>2, <1>3 DEF TypeOK
  <2>2. best' \in Seq(Nodes)
    BY <1>1
  <2> QED  BY <1>1, <1>2, <2>1, <2>2 DEF TypeOK
<1>5. LabelsAreRoutes' /\ OnlyExtensionsLeft' /\ NoNodeForgotten'
  BY <1>1, <1>2 DEF LabelsAreRoutes, OnlyExtensionsLeft, NoNodeForgotten
<1>6. LabelsEndAtTheirNode'
  BY <1>1, <1>2 DEF LabelsEndAtTheirNode, LastNode
<1>7. ASSUME NEW request \in Requests, routes'[request] # <<>>
      PROVE  /\ Service!IsRoute(topology, request, routes'[request])
             /\ routeMetrics'[request] = {GetScore(routes'[request])}
  <2>1. CASE request = call.request
    <3>1. KeepsRoute /\ best # <<>> /\ routes'[request] = best
      BY <1>1, <1>2, <1>3, <1>7, <2>1 DEF CacheHolds, TypeOK
    <3>2. routeMetrics'[request] = {GetScore(best)}
      BY <1>1, <1>2, <1>3, <2>1, <3>1 DEF KeepsMetric, TypeOK
    <3> QED  BY <1>1, <1>2, <2>1, <3>1, <3>2 DEF LabelsAreRoutes
  <2>2. CASE request # call.request
    <3>1. routes'[request] = routes[request] /\ routeMetrics'[request] = routeMetrics[request]
      BY <1>1, <1>2, <1>3, <2>2 DEF TypeOK
    <3> QED  BY <1>2, <1>7, <3>1 DEF CacheHolds
  <2> QED  BY <2>1, <2>2
<1>8. CacheHolds'
  <2>1. \A path : GetScore(path)' = GetScore(path)
    BY <1>1, ScoreKept
  <2>2. \A request, path :
          Service!IsRoute(topology, request, path)' = Service!IsRoute(topology, request, path)
    BY <1>1 DEF Service!IsRoute, Service!IsUsablePath, Service!UsablePairs
  <2> QED  BY <1>1, <1>7, <2>1, <2>2 DEF CacheHolds
<1> QED  BY <1>4, <1>5, <1>6, <1>8 DEF IInv

\* An answer from the cache changes nothing else.
LEMMA FromCacheIInv ==
  ASSUME IInv, UNCHANGED <<protocol, topology, cache, searching, pc, call>>
  PROVE  IInv'
<1> USE DEF searching
<1>1. TypeOK'
  BY DEF IInv, TypeOK, cache
<1>2. UnderWay' = UnderWay
  BY DEF UnderWay
<1>3. LabelsAreRoutes'
  BY <1>2 DEF IInv, LabelsAreRoutes, Service!IsRoute, Service!IsUsablePath, Service!UsablePairs
<1>4. OnlyExtensionsLeft'
  BY DEF IInv, OnlyExtensionsLeft, Extensions, Links, LastNode
<1>5. LabelsEndAtTheirNode'
  BY DEF IInv, LabelsEndAtTheirNode, LastNode
<1>6. NoNodeForgotten'
  <2>1. \A node \in Nodes : Explored(node) => Explored(node)'
    BY DEF Explored, Service!UsablePairs, LastNode
  <2> QED  BY <1>2, <2>1 DEF IInv, NoNodeForgotten
<1>7. CacheHolds'
  BY CacheKept DEF IInv, CacheHolds
<1> QED  BY <1>1, <1>3, <1>4, <1>5, <1>6, <1>7 DEF IInv

LEMMA NextIInv ==
  ASSUME IInv, [Next]_vars
  PROVE  IInv'
<1>1. ASSUME NEW table \in Tables, UpdateTopology(table)
      PROVE  IInv'
  BY <1>1, ChangeIInv, NetworkAssumption DEF UpdateTopology
<1>2. ASSUME NEW link \in Pairs, RemoveNeighbor(link)
      PROVE  IInv'
  BY <1>2, ChangeIInv DEF RemoveNeighbor, IInv, TypeOK
<1>3. ASSUME NEW link \in Pairs, NEW metrics \in Offers[link], UpdateLinkMetrics(link, metrics)
      PROVE  IInv'
  BY <1>3, ChangeIInv, NetworkAssumption DEF UpdateLinkMetrics, IInv, TypeOK
<1>4. ASSUME NEW request \in Requests, NEW op \in {"CalculateRoute", "HasRoute"},
             FindRoute(op, request)
      PROVE  IInv'
  <2>1. CASE routes[request] = <<>> /\ StartSearch(op, request)
    BY <1>4, <2>1, StartIInv DEF FindRoute, Operations
  <2>2. CASE UNCHANGED <<protocol, topology, cache, searching, pc, call>>
    BY <2>2, FromCacheIInv
  <2> QED  BY <1>4, <2>1, <2>2 DEF FindRoute
<1>5. ASSUME NEW request \in Requests, GetRouteMetric(request)
      PROVE  IInv'
  <2>1. pc = "idle" /\ StartSearch("GetRouteMetric", request)
    BY <1>5 DEF GetRouteMetric
  <2>2. routes[request] = <<>>
    BY <1>5 DEF GetRouteMetric, IInv, CacheHolds
  <2> QED  BY <2>1, <2>2, StartIInv DEF Operations
<1>6. ASSUME NEW path \in frontier, Pop(path)
      PROVE  IInv'
  BY <1>6, PopIInv
<1>7. CASE Extend
  BY <1>7, ExtendIInv
<1>8. CASE Extended
  BY <1>8, ExtendedIInv
<1>9. CASE Finish
  BY <1>9, FinishIInv
<1>10. CASE UNCHANGED vars
  BY <1>10, FromCacheIInv DEF vars, cache, searching
<1> QED  BY <1>1, <1>2, <1>3, <1>4, <1>5, <1>6, <1>7, <1>8, <1>9, <1>10 DEF Next

\* The invariant holds in every state.
THEOREM Invariance == Spec => []IInv
BY InitIInv, NextIInv, PTL DEF Spec

\* Every variable has its type.
THEOREM TypeCorrect == Spec => []TypeOK
<1>1. IInv => TypeOK
  BY DEF IInv
<1> QED  BY <1>1, Invariance, PTL

\* A cached route is a route of the topology as it is, with its score as the
\* cached metric, whatever was changed and asked in which order (m_routes,
\* m_routeMetrics).
THEOREM CacheStaysCurrent == Spec => []CacheIsCurrent
<1>1. IInv => CacheIsCurrent
  BY DEF IInv, CacheHolds, CacheIsCurrent
<1> QED  BY <1>1, Invariance, PTL

(***************************************************************************)
(* Refinement of RouteService                                              *)
(***************************************************************************)
LEMMA InitRefines ==
  ASSUME Init
  PROVE  Service!Init
<1>1. Service!UsablePairs(topology) = {}
  BY DEF Init, Service!UsablePairs, NoLink, Service!NoLink
<1> QED  BY <1>1 DEF Init, Service!Init

\* Only two steps answer: one from the cache, and the end of a search.
LEMMA StepRefines ==
  ASSUME IInv, [Next]_vars
  PROVE  [Service!Next]_(Service!vars)
<1>1. ASSUME NEW request \in Requests, NEW op \in {"CalculateRoute", "HasRoute"},
             FindRoute(op, request)
      PROVE  Service!Next
  <2>1. CASE StartSearch(op, request)
    BY <2>1 DEF StartSearch, Service!Next, Service!Change
  <2>2. CASE /\ routes[request] # <<>>
             /\ answer' = [request |-> request, route |-> routes[request]]
             /\ UNCHANGED <<protocol, topology, cache, searching, pc, call>>
    <3>1. Service!IsRoute(topology, request, routes[request])
      BY <2>2 DEF IInv, CacheHolds
    <3> QED  BY <2>2, <3>1 DEF Service!Next, Service!Answer
  <2> QED  BY <1>1, <2>1, <2>2 DEF FindRoute
<1>2. CASE Finish
  <2>1. CASE call.op = "GetRouteMetric"
    BY <1>2, <2>1 DEF Finish, Service!Next, Service!Change
  <2>2. CASE call.op # "GetRouteMetric"
    <3>1. /\ answer' = [request |-> call.request, route |-> best]
          /\ UNCHANGED topology
          /\ pc = "pop" /\ frontier = {}
      BY <1>2, <2>2 DEF Finish
    <3>2. call.request \in Requests
      BY <3>1 DEF IInv, TypeOK
    <3>3. \/ Service!IsRoute(topology, call.request, best)
          \/ best = <<>> /\ ~Service!Reachable(topology, call.request)
      BY <3>1, NoneMeansUnreachable DEF IInv, LabelsAreRoutes
    <3> QED  BY <3>1, <3>2, <3>3 DEF Service!Next, Service!Answer
  <2> QED  BY <2>1, <2>2
<1>3. CASE UNCHANGED answer
  BY <1>3 DEF Service!Next, Service!Change
<1>4. CASE \/ \E table \in Tables : UpdateTopology(table)
           \/ \E link \in Pairs :
                \/ RemoveNeighbor(link)
                \/ \E metrics \in Offers[link] : UpdateLinkMetrics(link, metrics)
           \/ \E request \in Requests : GetRouteMetric(request)
           \/ \E path \in frontier : Pop(path)
           \/ Extend \/ Extended
           \/ UNCHANGED vars
  BY <1>3, <1>4
     DEF UpdateTopology, RemoveNeighbor, UpdateLinkMetrics, ChangeTopology, GetRouteMetric,
         StartSearch, Pop, Extend, Extended, vars
<1> QED  BY <1>1, <1>2, <1>4 DEF Next

\* The routes the protocols answer with are simple paths over usable links of
\* the topology as it is, and none is the answer only when the destination is
\* out of reach, however many labels AdmitLabel drops.
THEOREM Refinement == Spec => ImplementsRouteService
<1>1. Init => Service!Init
  BY InitRefines
<1>2. IInv /\ [Next]_vars => [Service!Next]_(Service!vars)
  BY StepRefines
<1> QED  BY <1>1, <1>2, Invariance, PTL DEF Spec, Service!Spec, ImplementsRouteService

(***************************************************************************)
(* The costs when the links are ready at the same time                     *)
(***************************************************************************)
CostUpTo(upTo, path, n) ==
  upTo = [i \in 0 .. n |-> IF i = 0 THEN 0 ELSE upTo[i - 1] + HopCost(path, i, TMax(path))]

\* Cost is a sum hop by hop.
LEMMA CostDefined ==
  ASSUME NEW path \in Seq(Nodes), path # <<>>
  PROVE  \E upTo : CostUpTo(upTo, path, Len(path) - 1) /\ Cost(path) = upTo[Len(path) - 1]
<1> DEFINE Cut(i) == HopCost(path, i, TMax(path))
           Defines(g, m) == g = [i \in 0 .. m |-> IF i = 0 THEN 0 ELSE g[i - 1] + Cut(i)]
           S == {m \in Nat : \E g : Defines(g, m)}
<1> HIDE DEF Cut
<1>1. S \in SUBSET Nat
  OBVIOUS
<1>2. 0 \in S
  <2> DEFINE g == [i \in 0 .. 0 |-> 0]
  <2>1. Defines(g, 0)
    OBVIOUS
  <2> QED  BY <2>1
<1>3. ASSUME NEW m \in S
      PROVE  m + 1 \in S
  <2>1. PICK g : Defines(g, m)
    OBVIOUS
  <2> DEFINE h == [i \in 0 .. m + 1 |-> IF i = m + 1 THEN g[m] + Cut(m + 1) ELSE g[i]]
  <2>2. m \in Nat
    OBVIOUS
  <2>3. ASSUME NEW i \in 0 .. m + 1
        PROVE  h[i] = IF i = 0 THEN 0 ELSE h[i - 1] + Cut(i)
    <3>1. CASE i = m + 1
      <4>1. h[i] = g[m] + Cut(m + 1) /\ h[i - 1] = g[m] /\ i # 0
        BY <2>2, <3>1
      <4> QED  BY <3>1, <4>1
    <3>2. CASE i \in 0 .. m
      <4>1. g[i] = IF i = 0 THEN 0 ELSE g[i - 1] + Cut(i)
        BY <2>1, <3>2
      <4>2. h[i] = g[i] /\ (i # 0 => h[i - 1] = g[i - 1])
        BY <2>2, <3>2
      <4> QED  BY <4>1, <4>2
    <3> QED  BY <2>2, <3>1, <3>2
  <2>4. Defines(h, m + 1)
    BY <2>3
  <2> HIDE DEF Defines, h
  <2> QED  BY <2>2, <2>4
<1> DEFINE n == Len(path) - 1
<1>4. n \in Nat
  OBVIOUS
<1> HIDE DEF S
<1>5. n \in S
  BY <1>1, <1>2, <1>3, <1>4, NatSetInduction
<1>6. \E g : Defines(g, n)
  BY <1>5 DEF S
<1> DEFINE upTo == CHOOSE g : Defines(g, n)
<1>7. Defines(upTo, n)
  BY <1>6
<1>8. Cost(path) = upTo[n]
  BY DEF Cost, Cut
<1> HIDE DEF upTo
<1> QED  BY <1>7, <1>8 DEF CostUpTo, Cut

\* A hop costs what its link loses: no pair waits (BottleneckFidelityRoutingMetric).
LEMMA HopsCostTheirLoss ==
  ASSUME TypeOK, OneSetup, NEW path, Service!IsUsablePath(topology, path), NEW i \in Hops(path)
  PROVE  /\ HopCost(path, i, TMax(path)) = LinkOf(path, i).loss
         /\ LinkOf(path, i).loss \in Nat
<1>1. \A j \in Hops(path) : <<path[j], path[j + 1]>> \in Service!UsablePairs(topology)
  BY DEF Service!IsUsablePath, Hops
<1>2. ASSUME NEW j \in Hops(path)
      PROVE  LinkOf(path, j) \in LinkMetrics
  BY <1>1 DEF TypeOK, LinkOf, Service!UsablePairs, NoLink, Service!NoLink
<1> DEFINE s == LinkOf(path, i).setup
<1>3. s \in Nat /\ LinkOf(path, i).loss \in Nat
  BY <1>2 DEF LinkMetrics
<1>4. \A j \in Hops(path) : LinkOf(path, j).setup = s
  BY <1>1 DEF OneSetup, LinkOf
<1> HIDE DEF s
<1>5. {LinkOf(path, j).setup : j \in Hops(path)} \cup {0} = {s, 0}
  BY <1>4
<1>6. TMax(path) = s
  <2>1. s \in {s, 0} /\ \A y \in {s, 0} : s >= y
    BY <1>3
  <2>2. \A x \in {s, 0} : (\A y \in {s, 0} : x >= y) => x = s
    BY <1>3
  <2> DEFINE m == CHOOSE x \in {s, 0} : \A y \in {s, 0} : x >= y
  <2>3. m \in {s, 0} /\ \A y \in {s, 0} : m >= y
    BY <2>1
  <2>4. TMax(path) = m
    BY <1>5 DEF TMax, Max
  <2> QED  BY <2>2, <2>3, <2>4
<1> QED  BY <1>3, <1>6 DEF HopCost, s

\* The losses along the path up to a hop.
SumsLosses(upTo, path, n) ==
  /\ upTo[0] = 0
  /\ \A i \in 0 .. n : upTo[i] \in Nat
  /\ \A i \in 1 .. n : upTo[i] = upTo[i - 1] + LinkOf(path, i).loss

LEMMA CostIsLosses ==
  ASSUME TypeOK, OneSetup,
         NEW path \in Seq(Nodes), path # <<>>, Service!IsUsablePath(topology, path)
  PROVE  \E upTo : SumsLosses(upTo, path, Len(path) - 1) /\ Cost(path) = upTo[Len(path) - 1]
<1> DEFINE n == Len(path) - 1
<1>1. n \in Nat /\ Hops(path) = 1 .. n
  BY DEF Hops
<1>2. PICK upTo : CostUpTo(upTo, path, n) /\ Cost(path) = upTo[n]
  BY CostDefined
<1> HIDE DEF n
<1>3. upTo[0] = 0
  BY <1>1, <1>2 DEF CostUpTo
<1>4. ASSUME NEW i \in 1 .. n
      PROVE  upTo[i] = upTo[i - 1] + LinkOf(path, i).loss /\ LinkOf(path, i).loss \in Nat
  <2>1. upTo[i] = upTo[i - 1] + HopCost(path, i, TMax(path))
    BY <1>1, <1>2 DEF CostUpTo
  <2> QED  BY <1>1, <2>1, HopsCostTheirLoss
<1> DEFINE S == {i \in 0 .. n : upTo[i] \in Nat}
<1>5. 0 \in S
  BY <1>1, <1>3
<1>6. ASSUME NEW i \in 0 .. n - 1, i \in S
      PROVE  i + 1 \in S
  <2>1. i + 1 \in 1 .. n /\ (i + 1) - 1 = i
    BY <1>1
  <2>2. upTo[i + 1] = upTo[i] + LinkOf(path, i + 1).loss /\ LinkOf(path, i + 1).loss \in Nat
    BY <1>4, <2>1
  <2> QED  BY <1>6, <2>1, <2>2
<1> HIDE DEF S
<1>7. 0 .. n \subseteq S
  BY <1>1, <1>5, <1>6, BoundedInduction
<1>8. SumsLosses(upTo, path, n)
  BY <1>3, <1>4, <1>7 DEF S, SumsLosses
<1> QED  BY <1>2, <1>8 DEF n

\* A path of one node costs nothing, and a cost is a number.
LEMMA CostIsNat ==
  ASSUME TypeOK, OneSetup,
         NEW path \in Seq(Nodes), path # <<>>, Service!IsUsablePath(topology, path)
  PROVE  Cost(path) \in Nat /\ (Len(path) = 1 => Cost(path) = 0)
<1> DEFINE n == Len(path) - 1
<1>1. n \in Nat /\ (Len(path) = 1 => n = 0)
  OBVIOUS
<1>2. PICK upTo : SumsLosses(upTo, path, n) /\ Cost(path) = upTo[n]
  BY CostIsLosses
<1> HIDE DEF n
<1>3. upTo[n] \in Nat /\ upTo[0] = 0
  BY <1>1, <1>2 DEF SumsLosses
<1> QED  BY <1>1, <1>2, <1>3

\* A label that is extended costs more by the loss of the link (ExtendLabel).
LEMMA CostOfExtended ==
  ASSUME TypeOK, OneSetup,
         NEW path \in Seq(Nodes), path # <<>>, Service!IsUsablePath(topology, path),
         NEW node \in Extensions(path)
  PROVE  Cost(Append(path, node)) = Cost(path) + topology[<<LastNode(path), node>>].loss
<1> DEFINE next == Append(path, node)
           n == Len(path) - 1
<1>1. n \in Nat /\ Len(next) - 1 = n + 1 /\ Len(path) = n + 1
  OBVIOUS
<1>2. next \in Seq(Nodes) /\ next # <<>> /\ Service!IsUsablePath(topology, next)
  BY ExtendedPath
<1>3. PICK f : SumsLosses(f, path, n) /\ Cost(path) = f[n]
  BY CostIsLosses
<1> HIDE DEF n
<1>4. PICK g : SumsLosses(g, next, n + 1) /\ Cost(next) = g[n + 1]
  BY <1>1, <1>2, CostIsLosses
<1>5. /\ \A i \in 1 .. n + 1 : next[i] = path[i]
      /\ next[n + 2] = node
  BY <1>1 DEF n
<1> HIDE DEF next
<1>6. ASSUME NEW i \in 1 .. n
      PROVE  LinkOf(next, i) = LinkOf(path, i)
  <2>1. next[i] = path[i] /\ next[i + 1] = path[i + 1]
    BY <1>1, <1>5
  <2> QED  BY <2>1 DEF LinkOf
<1> DEFINE S == {i \in 0 .. n : g[i] = f[i]}
<1>7. 0 \in S
  BY <1>1, <1>3, <1>4 DEF SumsLosses
<1>8. ASSUME NEW i \in 0 .. n - 1, i \in S
      PROVE  i + 1 \in S
  <2>1. i + 1 \in 1 .. n /\ i + 1 \in 1 .. n + 1 /\ (i + 1) - 1 = i
    BY <1>1
  <2>2. f[i + 1] = f[i] + LinkOf(path, i + 1).loss
    BY <1>3, <2>1 DEF SumsLosses
  <2>3. g[i + 1] = g[i] + LinkOf(next, i + 1).loss
    BY <1>4, <2>1 DEF SumsLosses
  <2>4. LinkOf(next, i + 1) = LinkOf(path, i + 1)
    BY <1>6, <2>1
  <2>5. g[i] = f[i]
    BY <1>8
  <2>6. g[i + 1] = f[i + 1]
    BY <2>2, <2>3, <2>4, <2>5
  <2>7. i + 1 \in 0 .. n
    BY <1>1, <2>1
  <2> QED  BY <2>6, <2>7
<1> HIDE DEF S
<1>9. n \in S
  <2>1. 0 .. n \subseteq S
    BY <1>1, <1>7, <1>8, BoundedInduction
  <2> QED  BY <1>1, <2>1
<1>10. g[n + 1] = g[n] + LinkOf(next, n + 1).loss
  <2>1. n + 1 \in 1 .. n + 1 /\ (n + 1) - 1 = n
    BY <1>1
  <2> QED  BY <1>4, <2>1 DEF SumsLosses
<1>11. LinkOf(next, n + 1) = topology[<<LastNode(path), node>>]
  <2>1. next[n + 1] = LastNode(path) /\ next[(n + 1) + 1] = node
    BY <1>1, <1>5 DEF LastNode
  <2> QED  BY <2>1 DEF LinkOf
<1> QED  BY <1>3, <1>4, <1>9, <1>10, <1>11 DEF S, next

\* A node that is offered a label keeps one that costs no more, and so it does for
\* each label it had: what displaces a label is no worse (AdmitLabel, and the
\* update of bestByNode).
LEMMA OfferedCostsNoMore ==
  ASSUME TypeOK, LabelsEndAtTheirNode,
         NEW node \in Nodes, NEW candidate, NEW kept \in Offered(node, candidate),
         \A path \in labels[node] \cup {candidate} : Cost(path) \in Nat
  PROVE  \A path \in labels[node] \cup {candidate} : \E left \in kept : Cost(left) <= Cost(path)
<1> DEFINE all == labels[node] \cup {candidate}
<1>1. kept \subseteq all
  BY DEF Offered
<1>2. ASSUME NEW lhs \in all, NEW rhs \in all
      PROVE  /\ IsBetter(lhs, rhs) => Cost(lhs) <= Cost(rhs)
             /\ ~IsBetter(lhs, rhs) => Cost(rhs) <= Cost(lhs)
             /\ Beats(lhs, rhs) => Cost(lhs) <= Cost(rhs)
  <2>1. Cost(lhs) \in Nat /\ Cost(rhs) \in Nat
    OBVIOUS
  <2>2. IsBetter(lhs, rhs) => Cost(lhs) <= Cost(rhs)
    BY <2>1 DEF IsBetter, GetScore
  <2>3. ~IsBetter(lhs, rhs) => Cost(rhs) <= Cost(lhs)
    BY <2>1 DEF IsBetter, GetScore
  <2>4. Dominates(lhs, rhs) => Cost(lhs) <= Cost(rhs)
    BY <2>1 DEF Dominates, GetScore
  <2> QED  BY <2>2, <2>3, <2>4 DEF Beats
<1> SUFFICES ASSUME NEW path \in all
             PROVE  \E left \in kept : Cost(left) <= Cost(path)
  OBVIOUS
<1>3. Cost(path) \in Nat /\ Cost(candidate) \in Nat /\ candidate \in all
  OBVIOUS
<1>4. CASE ~protocol.multi
  <2>1. kept = IF labels[node] = {} \/ \E old \in labels[node] : IsBetter(candidate, old)
               THEN {candidate} ELSE labels[node]
    BY <1>4 DEF Offered, ReplaceLabel
  <2>2. CASE path = candidate /\ kept # {candidate}
    <3>1. PICK old \in labels[node] : ~IsBetter(candidate, old) /\ old \in kept
      BY <2>1, <2>2
    <3>2. Cost(old) <= Cost(candidate)
      BY <1>2, <1>3, <3>1
    <3> QED  BY <2>2, <3>1, <3>2
  <2>3. CASE path \in labels[node] /\ kept = labels[node]
    BY <1>3, <2>3
  <2>4. CASE kept = {candidate}
    <3>1. CASE path \in labels[node]
      <4>1. labels[node] = {path}
        BY <1>4, <3>1 DEF LabelsEndAtTheirNode
      <4>2. IsBetter(candidate, path) \/ candidate = path
        BY <2>1, <2>4, <3>1, <4>1
      <4> QED  BY <1>2, <1>3, <2>4, <4>2
    <3> QED  BY <1>3, <2>4, <3>1
  <2>5. kept = {candidate} \/ kept = labels[node]
    BY <2>1
  <2> QED  BY <2>2, <2>3, <2>4, <2>5
<1>5. CASE protocol.multi
  <2>1. AdmitLabel(node, candidate, kept)
    BY <1>5 DEF Offered
  <2>2. CASE \E rival \in Rivals(node, candidate) : Beats(rival, candidate) \/ rival = candidate
    <3>1. kept = labels[node]
      BY <2>1, <2>2 DEF AdmitLabel
    <3>2. PICK rival \in labels[node] : Beats(rival, candidate) \/ rival = candidate
      BY <2>2 DEF Rivals
    <3>3. Cost(rival) <= Cost(candidate)
      BY <1>2, <1>3, <3>2
    <3> QED  BY <1>3, <3>1, <3>2, <3>3
  <2>3. CASE ~\E rival \in Rivals(node, candidate) : Beats(rival, candidate) \/ rival = candidate
    <3>1. PICK gone \in Displaced(node, candidate) :
            kept \in Resized((labels[node] \ gone) \cup {candidate})
      BY <2>1, <2>3 DEF AdmitLabel
    <3> DEFINE some == (labels[node] \ gone) \cup {candidate}
    <3>2. \A other \in gone : other \in labels[node] /\ Beats(candidate, other)
      BY <3>1 DEF Displaced, Rivals
    <3>3. PICK first \in some : Cost(first) <= Cost(path)
      BY <1>2, <1>3, <3>2
    <3>4. some \subseteq all /\ kept \in Resized(some)
      BY <3>1
    <3> HIDE DEF some
    <3>5. CASE first \in kept
      BY <3>3, <3>5
    <3>6. CASE first \notin kept
      <4>1. /\ kept \subseteq some
            /\ Cardinality(kept) = protocol.k
            /\ \A in \in kept, out \in some \ kept : ~IsBetter(out, in)
        BY <3>3, <3>4, <3>6 DEF Resized
      <4>2. protocol.k \in Nat \ {0}
        BY <1>5, ProtocolAssumption DEF TypeOK
      <4>3. kept # {}
        BY <4>1, <4>2, FS_EmptySet
      <4>4. PICK left \in kept : ~IsBetter(first, left)
        BY <3>3, <3>6, <4>1, <4>3
      <4>5. left \in all /\ first \in all
        BY <3>3, <3>4, <4>1, <4>4
      <4>6. Cost(left) <= Cost(first)
        BY <1>2, <4>4, <4>5
      <4>7. Cost(left) \in Nat /\ Cost(first) \in Nat
        BY <4>5
      <4> HIDE DEF all
      <4> QED  BY <1>3, <3>3, <4>4, <4>6, <4>7
    <3> QED  BY <3>5, <3>6
  <2> QED  BY <2>2, <2>3
<1> QED  BY <1>4, <1>5

(***************************************************************************)
(* The route that is found is a best one                                   *)
(***************************************************************************)
LEMMA StartCheaper ==
  ASSUME IInv, IInv', NEW op \in Operations, NEW request \in Requests, StartSearch(op, request)
  PROVE  NoneForgottenIsCheaper'
<1> DEFINE start == <<request[1]>>
<1>1. /\ request[1] \in Nodes
      /\ pc' = "pop"
      /\ call'.request = request
      /\ labels' = [node \in Nodes |-> IF node = request[1] THEN {start} ELSE {}]
      /\ frontier' = {start}
      /\ UNCHANGED topology
  BY RequestAssumption DEF StartSearch, NoLabels
<1>2. UnderWay' = {start}
  BY <1>1 DEF UnderWay
<1>3. start \in Seq(Nodes) /\ start # <<>> /\ Len(start) = 1 /\ DOMAIN start = {1}
      /\ start[1] = request[1]
  BY <1>1
<1> HIDE DEF start
<1>4. Service!IsUsablePath(topology, start)'
  BY <1>1, <1>2 DEF IInv, LabelsAreRoutes
<1> SUFFICES ASSUME OneSetup'
             PROVE  NoneForgottenIsCheaper'
  BY DEF NoneForgottenIsCheaper
<1>5. Cost(start)' = 0
  <2>1. OneSetup /\ Service!IsUsablePath(topology, start)
    BY <1>1, <1>4 DEF OneSetup, Service!IsUsablePath, Service!UsablePairs
  <2>2. Cost(start) = 0
    BY <1>3, <2>1, CostIsNat DEF IInv
  <2> QED  BY <1>1, <2>2, CostKept
<1>6. CostsAtMost(request[1], 0)' /\ CostsAtMost(request[1], Cost(start))'
  BY <1>1, <1>5 DEF CostsAtMost
<1> QED  BY <1>1, <1>2, <1>3, <1>4, <1>6 DEF NoneForgottenIsCheaper

LEMMA PopCheaper ==
  ASSUME IInv, NoneForgottenIsCheaper, NEW path \in frontier, Pop(path)
  PROVE  NoneForgottenIsCheaper'
<1> DEFINE atEnd == LastNode(path) = call.request[2]
           extend == StillActive(path) /\ ~atEnd
<1>1. /\ pc = "pop"
      /\ frontier' = frontier \ {path}
      /\ best' = IF StillActive(path) /\ atEnd /\ (best = <<>> \/ IsBetter(path, best))
                 THEN path ELSE best
      /\ pc' = IF extend THEN "extend" ELSE "pop"
      /\ current' = IF extend THEN path ELSE <<>>
      /\ todo' = IF extend THEN Extensions(path) ELSE {}
      /\ UNCHANGED <<protocol, topology, cache, labels, call, answer>>
  BY DEF Pop, Dequeued
<1> HIDE DEF atEnd, extend
<1>2. TypeOK /\ LabelsAreRoutes /\ LabelsEndAtTheirNode
  BY DEF IInv
<1>3. /\ \A other : Cost(other)' = Cost(other)
      /\ Cost(best)' = Cost(best')
      /\ \A other : Service!IsUsablePath(topology, other)' = Service!IsUsablePath(topology, other)
      /\ Service!UsablePairs(topology)' = Service!UsablePairs(topology)
      /\ OneSetup' = OneSetup
  BY <1>1, CostKept DEF Service!IsUsablePath, Service!UsablePairs, OneSetup
<1>4. \A node, cost : CostsAtMost(node, cost)' <=> CostsAtMost(node, cost)
  BY <1>1, <1>3 DEF CostsAtMost
<1> SUFFICES ASSUME OneSetup
             PROVE  NoneForgottenIsCheaper'
  BY <1>3 DEF NoneForgottenIsCheaper
<1>5. /\ CostsAtMost(call.request[1], 0)
      /\ \A other \in UnderWay : \A i \in DOMAIN other : CostsAtMost(other[i], Cost(other))
      /\ \A node \in Nodes : \A other \in labels[node] :
           /\ other # <<>>
           /\ Service!IsUsablePath(topology, other)
           /\ other \in frontier \/ Settled(node, other)
  BY <1>1 DEF NoneForgottenIsCheaper
<1>6. UnderWay' \subseteq UnderWay
  BY <1>1 DEF UnderWay
<1>7. /\ path \in Seq(Nodes)
      /\ path # <<>>
      /\ Service!IsUsablePath(topology, path)
      /\ \A i \in DOMAIN path : CostsAtMost(path[i], Cost(path))
      /\ Cost(path) \in Nat
  BY <1>1, <1>2, <1>5, CostIsNat DEF TypeOK, LabelsAreRoutes, UnderWay
<1>8. best # <<>> => best \in Seq(Nodes) /\ Cost(best) \in Nat
  <2>1. best # <<>> => Service!IsUsablePath(topology, best)
    BY <1>1, <1>2 DEF LabelsAreRoutes, Service!IsRoute
  <2> QED  BY <1>2, <2>1, CostIsNat DEF TypeOK
<1>9. best # <<>> => best' # <<>> /\ Cost(best') <= Cost(best)
  BY <1>1, <1>7, <1>8 DEF IsBetter, GetScore
<1>10. ASSUME NEW node \in Nodes, NEW other \in labels[node]
       PROVE  other \in frontier' \/ Settled(node, other)'
  <2>1. Cost(other) \in Nat
    BY <1>2, <1>5, CostIsNat DEF TypeOK
  <2>2. CASE other = path
    <3>1. LastNode(path) = node /\ StillActive(path)
      BY <1>2, <1>10, <2>2 DEF LabelsEndAtTheirNode, StillActive
    <3>2. CASE atEnd
      <4>1. best' # <<>> /\ Cost(best') <= Cost(path)
        BY <1>1, <1>7, <1>8, <3>1, <3>2 DEF IsBetter, GetScore
      <4>2. best' # <<>> /\ Cost(best)' <= Cost(path)'
        BY <1>3, <4>1
      <4> QED  BY <1>1, <2>2, <3>1, <3>2, <4>2 DEF Settled, atEnd
    <3>3. CASE ~atEnd
      <4>1. pc' = "extend" /\ current' = path /\ todo' = Extensions(path)
        BY <1>1, <3>1, <3>3 DEF extend
      <4>2. ASSUME NEW next \in Nodes, <<node, next>> \in Service!UsablePairs(topology)
            PROVE  \/ CostsAtMost(next, Cost(path) + topology[<<node, next>>].loss)
                   \/ next \in todo'
        <5>1. CASE next \in Extensions(path)
          BY <4>1, <5>1
        <5>2. CASE next \notin Extensions(path)
          <6>1. PICK i \in DOMAIN path : path[i] = next
            BY <1>2, <3>1, <4>2, <5>2, ExtensionsAreUsable
          <6>2. PICK shorter \in labels[next] : Cost(shorter) <= Cost(path)
            BY <1>7, <6>1 DEF CostsAtMost
          <6>3. Cost(shorter) \in Nat
            BY <1>2, <1>5, <6>2, CostIsNat DEF TypeOK
          <6>4. topology[<<node, next>>].loss \in Nat
            BY <1>2, <4>2 DEF TypeOK, Service!UsablePairs, LinkMetrics, NoLink, Service!NoLink
          <6>5. Cost(shorter) <= Cost(path) + topology[<<node, next>>].loss
            BY <1>7, <6>2, <6>3, <6>4
          <6> QED  BY <6>2, <6>5 DEF CostsAtMost
        <5> QED  BY <5>1, <5>2
      <4>3. node # call'.request[2]
        BY <1>1, <3>1, <3>3 DEF atEnd
      <4>4. Cost(other)' = Cost(path) /\ topology' = topology
        BY <1>1, <1>3, <2>2
      <4> QED  BY <1>3, <1>4, <2>2, <4>1, <4>2, <4>3, <4>4 DEF Settled
    <3> QED  BY <3>2, <3>3
  <2>3. CASE other # path /\ other \in frontier
    BY <1>1, <2>3
  <2>4. CASE Settled(node, other)
    <3>1. CASE node = call.request[2]
      <4>1. best' # <<>> /\ Cost(best') <= Cost(other)
        <5>1. best # <<>> /\ Cost(best) <= Cost(other)
          BY <2>4, <3>1 DEF Settled
        <5>2. Cost(best') \in Nat
          BY <1>1, <1>7, <1>8, <5>1
        <5> QED  BY <1>8, <1>9, <2>1, <5>1, <5>2
      <4>2. best' # <<>> /\ Cost(best)' <= Cost(other)'
        BY <1>3, <4>1
      <4> QED  BY <1>1, <3>1, <4>2 DEF Settled
    <3>2. CASE node # call.request[2]
      <4>1. \A next \in Nodes :
              <<node, next>> \in Service!UsablePairs(topology) =>
                CostsAtMost(next, Cost(other) + topology[<<node, next>>].loss)
        BY <1>1, <2>4, <3>2 DEF Settled
      <4>2. Cost(other)' = Cost(other) /\ topology' = topology /\ call' = call
        BY <1>1, <1>3
      <4> QED  BY <1>3, <1>4, <3>2, <4>1, <4>2 DEF Settled
    <3> QED  BY <3>1, <3>2
  <2> QED  BY <1>5, <2>2, <2>3, <2>4
<1> QED  BY <1>1, <1>3, <1>4, <1>5, <1>6, <1>10 DEF NoneForgottenIsCheaper

LEMMA ExtendCheaper ==
  ASSUME IInv, NoneForgottenIsCheaper, Extend
  PROVE  NoneForgottenIsCheaper'
<1>1. TypeOK /\ LabelsAreRoutes /\ OnlyExtensionsLeft /\ LabelsEndAtTheirNode
  BY DEF IInv
<1>2. /\ pc = "extend"
      /\ UNCHANGED <<protocol, topology, cache, best, current, pc, call, answer>>
  BY DEF Extend
<1>3. PICK node \in todo :
        \E kept \in Offered(node, Append(current, node)) :
          /\ labels' = [labels EXCEPT ![node] = kept]
          /\ frontier' = IF Append(current, node) \in kept
                         THEN frontier \cup {Append(current, node)} ELSE frontier
          /\ todo' = todo \ {node}
  BY DEF Extend
<1> DEFINE longer == Append(current, node)
<1>4. /\ current \in Seq(Nodes)
      /\ current # <<>>
      /\ Service!IsUsablePath(topology, current)
      /\ node \in Extensions(current)
      /\ node \in Nodes
      /\ <<LastNode(current), node>> \in Service!UsablePairs(topology)
  BY <1>1, <1>2, <1>3, ExtensionsAreUsable
     DEF TypeOK, LabelsAreRoutes, OnlyExtensionsLeft, UnderWay
<1>5. /\ longer \in Seq(Nodes)
      /\ longer # <<>>
      /\ \A i \in DOMAIN longer :
           longer[i] = node \/ \E j \in DOMAIN current : longer[i] = current[j]
      /\ Service!IsUsablePath(topology, longer)
  BY <1>1, <1>4, ExtendedPath
<1>6. PICK kept \in Offered(node, longer) :
        /\ labels' = [labels EXCEPT ![node] = kept]
        /\ frontier' = IF longer \in kept THEN frontier \cup {longer} ELSE frontier
        /\ todo' = todo \ {node}
  BY <1>3
<1>7. /\ \A path : Cost(path)' = Cost(path)
      /\ Cost(best)' = Cost(best)
      /\ \A path : Service!IsUsablePath(topology, path)' = Service!IsUsablePath(topology, path)
      /\ Service!UsablePairs(topology)' = Service!UsablePairs(topology)
      /\ OneSetup' = OneSetup
  BY <1>2, CostKept DEF Service!IsUsablePath, Service!UsablePairs, OneSetup
<1> SUFFICES ASSUME OneSetup
             PROVE  NoneForgottenIsCheaper'
  BY <1>7 DEF NoneForgottenIsCheaper
<1>8. /\ CostsAtMost(call.request[1], 0)
      /\ \A path \in UnderWay : \A i \in DOMAIN path : CostsAtMost(path[i], Cost(path))
      /\ \A other \in Nodes : \A path \in labels[other] :
           /\ path # <<>>
           /\ Service!IsUsablePath(topology, path)
           /\ path \in frontier \/ Settled(other, path)
  BY <1>2 DEF NoneForgottenIsCheaper
<1>9. /\ Cost(longer) = Cost(current) + topology[<<LastNode(current), node>>].loss
      /\ Cost(longer) \in Nat
      /\ Cost(current) \in Nat
      /\ topology[<<LastNode(current), node>>].loss \in Nat
  <2>1. topology[<<LastNode(current), node>>].loss \in Nat
    BY <1>1, <1>4 DEF TypeOK, Service!UsablePairs, LinkMetrics, NoLink, Service!NoLink
  <2> QED  BY <1>1, <1>4, <1>5, <2>1, CostOfExtended, CostIsNat
<1> HIDE DEF longer
<1>10. \A other \in Nodes : \A path \in labels[other] : Cost(path) \in Nat
  BY <1>1, <1>8, CostIsNat DEF TypeOK
<1>11. /\ kept \subseteq labels[node] \cup {longer}
       /\ \A path \in labels[node] \cup {longer} : \E left \in kept : Cost(left) <= Cost(path)
  <2>1. \A path \in labels[node] \cup {longer} : Cost(path) \in Nat
    BY <1>4, <1>9, <1>10
  <2> QED  BY <1>1, <1>4, <2>1, OfferedCostsNoMore DEF Offered
<1>12. /\ labels'[node] = kept
       /\ \A other \in Nodes \ {node} : labels'[other] = labels[other]
  BY <1>1, <1>4, <1>6 DEF TypeOK
<1>13. \E left \in labels'[node] : Cost(left) <= Cost(longer)
  BY <1>11, <1>12
<1>14. ASSUME NEW other \in Nodes, NEW cost \in Nat, CostsAtMost(other, cost)
       PROVE  CostsAtMost(other, cost)'
  <2>1. PICK path \in labels[other] : Cost(path) <= cost
    BY <1>14 DEF CostsAtMost
  <2>2. CASE other = node
    <3>1. PICK left \in kept : Cost(left) <= Cost(path)
      BY <1>11, <2>1, <2>2
    <3>2. Cost(left) \in Nat /\ Cost(path) \in Nat
      BY <1>4, <1>9, <1>10, <1>11, <2>1, <3>1
    <3>3. Cost(left) <= cost
      BY <1>14, <2>1, <3>1, <3>2
    <3> QED  BY <1>7, <1>12, <2>2, <3>1, <3>3 DEF CostsAtMost
  <2>3. CASE other # node
    BY <1>7, <1>12, <2>1, <2>3 DEF CostsAtMost
  <2> QED  BY <2>2, <2>3
<1>15. CostsAtMost(call.request[1], 0)'
  <2>1. call.request[1] \in Nodes
    BY <1>1, <1>2, RequestAssumption DEF TypeOK
  <2> QED  BY <1>2, <1>8, <1>14, <2>1
<1>16. ASSUME NEW path \in UnderWay', NEW i \in DOMAIN path
       PROVE  CostsAtMost(path[i], Cost(path))'
  <2>1. UnderWay' \subseteq UnderWay \cup {longer}
    BY <1>2, <1>6 DEF UnderWay
  <2>2. CASE path \in UnderWay
    <3>1. path \in Seq(Nodes) /\ path # <<>> /\ Service!IsUsablePath(topology, path)
      BY <1>1, <1>2, <2>2 DEF TypeOK, LabelsAreRoutes, UnderWay
    <3>2. path[i] \in Nodes /\ Cost(path) \in Nat
      BY <1>1, <1>16, <3>1, CostIsNat
    <3>3. CostsAtMost(path[i], Cost(path))
      BY <1>8, <1>16, <2>2
    <3>4. PICK left \in labels'[path[i]] : Cost(left)' <= Cost(path)
      BY <1>14, <3>2, <3>3 DEF CostsAtMost
    <3> QED  BY <1>7, <3>4 DEF CostsAtMost
  <2>3. CASE path = longer
    <3>1. CASE path[i] = node
      BY <1>7, <1>13, <2>3, <3>1 DEF CostsAtMost
    <3>2. CASE path[i] # node
      <4>1. PICK j \in DOMAIN current : path[i] = current[j]
        BY <1>5, <1>16, <2>3, <3>2
      <4>2. path[i] \in Nodes
        BY <1>4, <4>1
      <4>3. CostsAtMost(path[i], Cost(current))
        BY <1>2, <1>8, <4>1 DEF UnderWay
      <4>4. PICK left \in labels'[path[i]] : Cost(left) <= Cost(current)
        BY <1>7, <1>9, <1>14, <4>2, <4>3 DEF CostsAtMost
      <4>5. Cost(left) \in Nat
        BY <1>4, <1>9, <1>10, <1>11, <1>12, <4>2, <4>4
      <4>6. Cost(left) <= Cost(path)
        BY <1>9, <2>3, <4>4, <4>5
      <4> QED  BY <1>7, <4>4, <4>6 DEF CostsAtMost
    <3> QED  BY <3>1, <3>2
  <2> QED  BY <1>16, <2>1, <2>2, <2>3
<1>17. ASSUME NEW other \in Nodes, NEW path \in labels'[other]
       PROVE  /\ path # <<>>
              /\ Service!IsUsablePath(topology, path)
              /\ (path \in frontier \/ Settled(other, path))'
  <2>1. CASE path = longer /\ other = node
    <3>1. path \in frontier'
      BY <1>6, <1>12, <1>17, <2>1
    <3> QED  BY <1>5, <2>1, <3>1
  <2>2. CASE path \in labels[other]
    <3>1. path # <<>> /\ Service!IsUsablePath(topology, path) /\ Cost(path) \in Nat
      BY <1>8, <1>10, <2>2
    <3>2. CASE path \in frontier
      BY <1>6, <3>1, <3>2
    <3>3. CASE Settled(other, path) /\ other = call.request[2]
      <4>1. (best # <<>> /\ Cost(best) <= Cost(path))'
        BY <1>2, <1>7, <3>3 DEF Settled
      <4> QED  BY <1>2, <3>1, <3>3, <4>1 DEF Settled
    <3>4. CASE Settled(other, path) /\ other # call.request[2]
      <4>1. ASSUME NEW next \in Nodes, <<other, next>> \in Service!UsablePairs(topology)
            PROVE  \/ CostsAtMost(next, Cost(path) + topology[<<other, next>>].loss)'
                   \/ current = path /\ next \in todo'
        <5> DEFINE loss == topology[<<other, next>>].loss
        <5>1. loss \in Nat /\ Cost(path) + loss \in Nat
          <6>1. loss \in Nat
            BY <1>1, <4>1 DEF TypeOK, Service!UsablePairs, LinkMetrics, NoLink, Service!NoLink
          <6> HIDE DEF loss
          <6> QED  BY <3>1, <6>1
        <5>2. CASE CostsAtMost(next, Cost(path) + loss)
          <6>1. PICK left \in labels'[next] : Cost(left) <= Cost(path) + loss
            BY <1>7, <1>14, <5>1, <5>2 DEF CostsAtMost
          <6> QED  BY <1>2, <1>7, <6>1 DEF CostsAtMost
        <5>3. CASE current = path /\ next \in todo /\ next # node
          BY <1>6, <5>3
        <5>4. CASE current = path /\ next = node
          <6>1. LastNode(current) = other
            BY <1>1, <2>2, <5>4 DEF LabelsEndAtTheirNode
          <6>2. Cost(longer) = Cost(path) + loss
            BY <1>9, <5>4, <6>1
          <6>3. PICK left \in labels'[next] : Cost(left) <= Cost(path) + loss
            BY <1>13, <5>4, <6>2
          <6> QED  BY <1>2, <1>7, <6>3 DEF CostsAtMost
        <5> QED  BY <3>4, <4>1, <5>2, <5>3, <5>4 DEF Settled
      <4>2. call' = call /\ pc' = "extend" /\ current' = current
        BY <1>2
      <4> QED  BY <1>7, <3>1, <3>4, <4>1, <4>2 DEF Settled
    <3> QED  BY <1>8, <2>2, <3>2, <3>3, <3>4
  <2> QED  BY <1>11, <1>12, <1>17, <2>1, <2>2
<1> QED  BY <1>2, <1>7, <1>15, <1>16, <1>17 DEF NoneForgottenIsCheaper

LEMMA ExtendedCheaper ==
  ASSUME IInv, NoneForgottenIsCheaper, Extended
  PROVE  NoneForgottenIsCheaper'
<1>1. /\ pc = "extend" /\ todo = {} /\ pc' = "pop" /\ current' = <<>>
      /\ UNCHANGED <<protocol, topology, cache, labels, frontier, best, todo, call, answer>>
  BY DEF Extended
<1>2. /\ \A path : Cost(path)' = Cost(path)
      /\ Cost(best)' = Cost(best)
      /\ \A path : Service!IsUsablePath(topology, path)' = Service!IsUsablePath(topology, path)
      /\ Service!UsablePairs(topology)' = Service!UsablePairs(topology)
      /\ OneSetup' = OneSetup
  BY <1>1, CostKept DEF Service!IsUsablePath, Service!UsablePairs, OneSetup
<1>3. \A node, cost : CostsAtMost(node, cost)' <=> CostsAtMost(node, cost)
  BY <1>1, <1>2 DEF CostsAtMost
<1>4. \A node, path : Settled(node, path) => Settled(node, path)'
  BY <1>1, <1>2, <1>3 DEF Settled
<1>5. UnderWay' \subseteq UnderWay
  BY <1>1 DEF UnderWay
<1> QED  BY <1>1, <1>2, <1>3, <1>4, <1>5 DEF NoneForgottenIsCheaper

\* When the queue is empty no route costs less than the one found: hop by hop, each
\* node on its way has a label that costs no more than the route up to there.
LEMMA FoundIsBest ==
  ASSUME IInv, NoneForgottenIsCheaper, OneSetup, pc = "pop", frontier = {},
         NEW path \in Seq(Nodes), Service!IsRoute(topology, call.request, path)
  PROVE  best # <<>> /\ Cost(best) <= Cost(path)
<1> DEFINE n == Len(path) - 1
           dst == call.request[2]
<1>1. TypeOK
  BY DEF IInv
<1>2. /\ CostsAtMost(call.request[1], 0)
      /\ \A node \in Nodes : \A other \in labels[node] :
           /\ other # <<>>
           /\ Service!IsUsablePath(topology, other)
           /\ Settled(node, other)
  BY DEF NoneForgottenIsCheaper
<1>3. /\ path # <<>>
      /\ path[1] = call.request[1]
      /\ path[Len(path)] = dst
      /\ Service!IsUsablePath(topology, path)
  BY DEF Service!IsRoute
<1>4. n \in Nat /\ DOMAIN path = 1 .. n + 1 /\ n + 1 = Len(path)
      /\ \A i \in 1 .. n + 1 : path[i] \in Nodes
  BY <1>3
<1>5. PICK upTo : SumsLosses(upTo, path, n) /\ Cost(path) = upTo[n]
  BY <1>1, <1>3, CostIsLosses
<1> DEFINE S == {i \in 0 .. n : CostsAtMost(path[i + 1], upTo[i])}
<1> HIDE DEF n, dst
<1>6. 0 \in S
  BY <1>2, <1>3, <1>4, <1>5 DEF SumsLosses
<1>7. ASSUME NEW i \in 0 .. n - 1, i \in S
      PROVE  i + 1 \in S
  <2>1. i + 1 \in 1 .. n /\ (i + 1) - 1 = i /\ i \in 0 .. n /\ i + 1 # n + 1
        /\ i + 1 \in 1 .. n + 1 /\ (i + 1) + 1 \in 1 .. n + 1 /\ i + 1 \in 0 .. n
    BY <1>4
  <2> DEFINE here == path[i + 1]
             next == path[(i + 1) + 1]
  <2>2. here \in Nodes /\ next \in Nodes
    BY <1>4, <2>1
  <2>3. <<here, next>> \in Service!UsablePairs(topology)
    BY <1>3, <1>4, <2>1 DEF Service!IsUsablePath, n
  <2>4. here # dst
    <3>1. path[n + 1] = dst /\ n + 1 \in DOMAIN path
      BY <1>3, <1>4
    <3> QED  BY <1>3, <1>4, <2>1, <3>1 DEF Service!IsUsablePath, Service!IsSimple
  <2>5. upTo[i + 1] = upTo[i] + topology[<<here, next>>].loss /\ upTo[i] \in Nat
    BY <1>5, <2>1 DEF SumsLosses, LinkOf
  <2> HIDE DEF here, next
  <2>6. PICK label \in labels[here] : Cost(label) <= upTo[i]
    BY <1>7 DEF CostsAtMost, here
  <2>7. CostsAtMost(next, Cost(label) + topology[<<here, next>>].loss)
    BY <1>2, <2>2, <2>3, <2>4, <2>6 DEF Settled, dst
  <2>8. PICK shorter \in labels[next] : Cost(shorter) <= Cost(label) + topology[<<here, next>>].loss
    BY <2>7 DEF CostsAtMost
  <2>9. Cost(label) \in Nat /\ Cost(shorter) \in Nat
    BY <1>1, <1>2, <2>2, <2>6, <2>8, CostIsNat DEF TypeOK
  <2>10. topology[<<here, next>>].loss \in Nat
    BY <1>1, <2>3 DEF TypeOK, Service!UsablePairs, LinkMetrics, NoLink, Service!NoLink
  <2>11. Cost(shorter) <= upTo[i + 1]
    BY <2>5, <2>6, <2>8, <2>9, <2>10
  <2> QED  BY <2>1, <2>8, <2>11 DEF CostsAtMost, next
<1> HIDE DEF S
<1>8. n \in S
  BY <1>4, <1>6, <1>7, BoundedInduction
<1>9. PICK label \in labels[dst] : Cost(label) <= Cost(path)
  BY <1>3, <1>4, <1>5, <1>8 DEF S, CostsAtMost
<1>10. dst \in Nodes
  BY <1>3, <1>4
<1>11. best # <<>> /\ Cost(best) <= Cost(label)
  BY <1>2, <1>9, <1>10 DEF Settled, dst
<1>12. Cost(best) \in Nat /\ Cost(label) \in Nat /\ Cost(path) \in Nat
  <2>1. Service!IsUsablePath(topology, best)
    BY <1>11 DEF IInv, LabelsAreRoutes, Service!IsRoute
  <2> QED  BY <1>1, <1>2, <1>3, <1>9, <1>10, <1>11, <2>1, CostIsNat DEF TypeOK
<1> QED  BY <1>9, <1>11, <1>12

\* What is cached stays best until the topology changes.
LEMMA BestKept ==
  ASSUME IInv, BestWhenAdditive, UNCHANGED topology,
         \A request \in Requests : routes'[request] # <<>> => routes'[request] = routes[request]
  PROVE  BestWhenAdditive'
<1>1. \A path : GetScore(path)' = GetScore(path)
  BY ScoreKept
<1>2. /\ \A request : AllRoutes(request)' = AllRoutes(request)
      /\ OneSetup' = OneSetup
  BY DEF AllRoutes, OneSetup, Service!IsRoute, Service!IsUsablePath, Service!UsablePairs
<1>3. ASSUME OneSetup, NEW request \in Requests, routes'[request] # <<>>,
             NEW path \in AllRoutes(request)
      PROVE  GetScore(path) <= GetScore(routes[request])
  BY <1>3 DEF BestWhenAdditive
<1> QED  BY <1>1, <1>2, <1>3 DEF BestWhenAdditive

LEMMA FinishBest ==
  ASSUME IInv, NoneForgottenIsCheaper, BestWhenAdditive, Finish
  PROVE  BestWhenAdditive'
<1>1. /\ pc = "pop" /\ frontier = {} /\ UNCHANGED topology
      /\ routes' = IF KeepsRoute /\ best # <<>> THEN [routes EXCEPT ![call.request] = best]
                   ELSE routes
  BY DEF Finish
<1>2. TypeOK
  BY DEF IInv
<1>3. CASE routes' = routes
  BY <1>1, <1>3, BestKept
<1>4. CASE best # <<>> /\ routes' = [routes EXCEPT ![call.request] = best]
  <2>1. /\ \A path : GetScore(path)' = GetScore(path)
        /\ \A request : GetScore(routes[request])' = GetScore(routes'[request])
    BY <1>1, SMT DEF GetScore, Cost, HopCost, TMax, LinkOf, Hops, Max
  <2>2. /\ \A request : AllRoutes(request)' = AllRoutes(request)
        /\ OneSetup' = OneSetup
    BY <1>1 DEF AllRoutes, OneSetup, Service!IsRoute, Service!IsUsablePath, Service!UsablePairs
  <2>3. ASSUME OneSetup, NEW request \in Requests, routes'[request] # <<>>,
               NEW path \in AllRoutes(request)
        PROVE  GetScore(path) <= GetScore(routes'[request])
    <3>1. CASE request = call.request
      <4>1. routes'[request] = best
        BY <1>2, <1>4, <2>3, <3>1 DEF TypeOK
      <4>2. path \in Seq(Nodes) /\ Service!IsRoute(topology, call.request, path)
        BY <3>1 DEF AllRoutes
      <4>3. Cost(best) <= Cost(path)
        BY <1>1, <2>3, <4>2, FoundIsBest
      <4>4. Cost(best) \in Nat /\ Cost(path) \in Nat
        <5>1. Service!IsUsablePath(topology, best)
          BY <1>1, <1>4 DEF IInv, LabelsAreRoutes, Service!IsRoute
        <5> QED  BY <1>2, <1>4, <2>3, <4>2, <5>1, CostIsNat DEF TypeOK, Service!IsRoute
      <4> QED  BY <4>1, <4>3, <4>4 DEF GetScore
    <3>2. CASE request # call.request
      <4>1. routes'[request] = routes[request]
        BY <1>2, <1>4, <2>3, <3>2 DEF TypeOK
      <4> QED  BY <2>3, <4>1 DEF BestWhenAdditive
    <3> QED  BY <3>1, <3>2
  <2>4. ASSUME OneSetup', NEW request \in Requests, routes'[request] # <<>>,
               NEW path \in AllRoutes(request)'
        PROVE  GetScore(path)' <= GetScore(routes[request])'
    BY <2>1, <2>2, <2>3, <2>4
  <2> QED  BY <2>4 DEF BestWhenAdditive
<1> QED  BY <1>1, <1>3, <1>4

LEMMA NextCheaper ==
  ASSUME IInv, IInv', NoneForgottenIsCheaper, BestWhenAdditive, [Next]_vars
  PROVE  NoneForgottenIsCheaper' /\ BestWhenAdditive'
<1>1. ASSUME NEW table, ChangeTopology(table)
      PROVE  NoneForgottenIsCheaper' /\ BestWhenAdditive'
  <2>1. pc' = "idle" /\ routes' = NoRoutes
    BY <1>1 DEF ChangeTopology, NotifyTopologyChange
  <2>2. NoneForgottenIsCheaper'
    BY <2>1 DEF NoneForgottenIsCheaper
  <2>3. BestWhenAdditive'
    BY <2>1 DEF BestWhenAdditive, NoRoutes
  <2> QED  BY <2>2, <2>3
<1>2. ASSUME UNCHANGED <<topology, routes>>
      PROVE  BestWhenAdditive'
  BY <1>2, BestKept
<1>3. ASSUME NEW op \in Operations, NEW request \in Requests, StartSearch(op, request)
      PROVE  NoneForgottenIsCheaper' /\ BestWhenAdditive'
  BY <1>2, <1>3, StartCheaper DEF StartSearch, cache
<1>4. CASE UNCHANGED <<protocol, topology, cache, searching, pc, call>>
  <2>1. /\ \A path : Cost(path)' = Cost(path)
        /\ Cost(best)' = Cost(best)
        /\ \A path : Service!IsUsablePath(topology, path)' = Service!IsUsablePath(topology, path)
        /\ Service!UsablePairs(topology)' = Service!UsablePairs(topology)
        /\ OneSetup' = OneSetup
    BY <1>4, CostKept DEF Service!IsUsablePath, Service!UsablePairs, OneSetup, searching
  <2>2. \A node, cost : CostsAtMost(node, cost)' <=> CostsAtMost(node, cost)
    BY <1>4, <2>1 DEF CostsAtMost, searching
  <2>3. \A node, path : Settled(node, path) => Settled(node, path)'
    BY <1>4, <2>1, <2>2 DEF Settled, searching
  <2>4. UnderWay' = UnderWay
    BY <1>4 DEF UnderWay, searching
  <2>5. NoneForgottenIsCheaper'
    BY <1>4, <2>1, <2>2, <2>3, <2>4 DEF NoneForgottenIsCheaper, searching
  <2> QED  BY <1>2, <1>4, <2>5 DEF cache
<1>5. ASSUME NEW path \in frontier, Pop(path)
      PROVE  NoneForgottenIsCheaper' /\ BestWhenAdditive'
  BY <1>2, <1>5, PopCheaper DEF Pop, cache
<1>6. CASE Extend
  BY <1>2, <1>6, ExtendCheaper DEF Extend, cache
<1>7. CASE Extended
  BY <1>2, <1>7, ExtendedCheaper DEF Extended, cache
<1>8. CASE Finish
  <2>1. NoneForgottenIsCheaper'
    BY <1>8 DEF Finish, NoneForgottenIsCheaper
  <2> QED  BY <1>8, <2>1, FinishBest
<1>9. CASE \/ \E table \in Tables : UpdateTopology(table)
           \/ \E link \in Pairs :
                \/ RemoveNeighbor(link)
                \/ \E metrics \in Offers[link] : UpdateLinkMetrics(link, metrics)
  BY <1>1, <1>9 DEF UpdateTopology, RemoveNeighbor, UpdateLinkMetrics
<1>10. CASE \E request \in Requests :
              \/ \E op \in {"CalculateRoute", "HasRoute"} : FindRoute(op, request)
              \/ GetRouteMetric(request)
  BY <1>3, <1>4, <1>10 DEF FindRoute, GetRouteMetric, Operations
<1>11. CASE UNCHANGED vars
  BY <1>4, <1>11 DEF vars, cache, searching
<1> QED  BY <1>5, <1>6, <1>7, <1>8, <1>9, <1>10, <1>11 DEF Next

\* When all links are ready at the same time, the route that is cached is a best
\* one, whichever labels were dropped on the way (AdmitLabel, and the check of
\* stale labels in CalculateRoute).
THEOREM RoutesAreBest == Spec => []BestWhenAdditive
<1>1. Init => NoneForgottenIsCheaper /\ BestWhenAdditive
  BY DEF Init, NoneForgottenIsCheaper, BestWhenAdditive, NoRoutes
<1>2. /\ IInv /\ IInv' /\ NoneForgottenIsCheaper /\ BestWhenAdditive /\ [Next]_vars
      => NoneForgottenIsCheaper' /\ BestWhenAdditive'
  BY NextCheaper
<1> QED  BY <1>1, <1>2, Invariance, PTL DEF Spec
===============================================================================
