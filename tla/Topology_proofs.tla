---------------------------- MODULE Topology_proofs ----------------------------
(***************************************************************************)
(* Topology keeps its copies in agreement, for any layers, links and       *)
(* metrics.                                                                *)
(***************************************************************************)
EXTENDS Topology, TLAPS

\* The copies agree in the beginning.
LEMMA InitIInv == Init => IInv
BY DEF Init, IInv, TypeOK, FreshIsEmpty, UnusedIsEmpty, ViewsAgree, RoutesAreCurrent, NeighborsAgree,
   LinkTableAgrees, OwnDelaysKnown, Tables, EmptyTable, NoDelays

\* Taking over a table of the right kind leaves views and routes well-formed,
\* and those of the other layers alone.
LEMMA UpdateFacts ==
  ASSUME TypeOK, NEW ls, NEW t \in Tables, UpdateTopology(ls, t)
  PROVE  /\ views' \in [Layers -> Tables]
         /\ routes' \in [Layers -> Tables \cup {NoRoute}]
         /\ \A l \in Layers : l \in ls => views'[l] = t /\ routes'[l] = NoRoute
         /\ \A l \in Layers : l \notin ls => views'[l] = views[l] /\ routes'[l] = routes[l]
BY DEF TypeOK, UpdateTopology

\* The grade of an entry is one that a channel can be told.
LEMMA GradeFacts ==
  ASSUME NEW t \in Tables, NEW link \in Links, t[link] # NoLink
  PROVE  t[link] \in Metrics /\ t[link].grade \in Grades \cup {"none"}
<1>1. t[link] \in Metrics
  BY DEF Tables
<1> QED
  BY <1>1 DEF Metrics

\* Telling a channel the topology makes its delays well-formed, and right for
\* every link.
LEMMA SeededFacts ==
  ASSUME TypeOK, NEW d \in [Links -> Grades \cup {"none"}]
  PROVE  /\ SeededFrom(d) \in [Links -> Grades \cup {"none"}]
         /\ \A link \in Links :
              topology[link] # NoLink => SeededFrom(d)[link] = topology[link].grade
BY GradeFacts DEF TypeOK, SeededFrom

\* A layer that is set up, with the topology as it is, finds it everywhere.
LEMMA SetOwnerStep ==
  ASSUME IInv, NEW l \in Layers, SetOwner(l)
  PROVE  IInv'
<1>1. TypeOK'
  BY DEF IInv, TypeOK, SetOwner
<1>2. NeighborsAgree'
  BY DEF IInv, FreshIsEmpty, NeighborsAgree, SetOwner
<1> QED
  BY <1>1, <1>2 DEF IInv, FreshIsEmpty, UnusedIsEmpty, ViewsAgree, RoutesAreCurrent, LinkTableAgrees,
     OwnDelaysKnown, SetOwner

\* A new routing protocol sees the topology as it is.
LEMMA SetRoutingProtocolStep ==
  ASSUME IInv, NEW l \in Layers, SetRoutingProtocol(l)
  PROVE  IInv'
<1>0. TypeOK /\ topology \in Tables /\ UpdateTopology({l}, topology)
  BY DEF IInv, TypeOK, SetRoutingProtocol
<1>1. /\ views' \in [Layers -> Tables]
      /\ routes' \in [Layers -> Tables \cup {NoRoute}]
      /\ views'[l] = topology /\ routes'[l] = NoRoute
      /\ \A k \in Layers \ {l} : views'[k] = views[k] /\ routes'[k] = routes[k]
  BY <1>0, UpdateFacts
<1>2. TypeOK'
  BY <1>0, <1>1 DEF TypeOK, SetRoutingProtocol
<1>3. \A k \in routers' \ {l} : k \in routers /\ k \in Layers
  BY <1>0 DEF SetRoutingProtocol, TypeOK
<1>4. ViewsAgree' /\ RoutesAreCurrent'
  BY <1>1, <1>3 DEF IInv, ViewsAgree, RoutesAreCurrent, SetRoutingProtocol
<1> QED
  BY <1>2, <1>4 DEF IInv, FreshIsEmpty, UnusedIsEmpty, NeighborsAgree, LinkTableAgrees, OwnDelaysKnown,
     SetRoutingProtocol

\* The link layer gets the row of the layer: its neighbours, and nothing else
\* was there before.
LEMMA SetLinkLayerStep ==
  ASSUME IInv, NEW l \in Layers, SetLinkLayer(l)
  PROVE  IInv'
<1>0. TypeOK
  BY DEF IInv
<1>1. TypeOK'
  <2>1. WithNeighbors(l) \in Tables
    BY <1>0 DEF TypeOK, Tables, WithNeighbors
  <2> QED
    BY <1>0, <2>1 DEF TypeOK, SetLinkLayer
<1>2. ASSUME NEW link \in Links, link[1] \in linked'
      PROVE  linkTable'[link] = topology[link]
  <2>1. /\ linkTable' = WithNeighbors(l) /\ linked' = linked \cup {l}
        /\ l \in instances
    BY DEF SetLinkLayer
  <2>2. CASE link[1] = l
    <3>1. neighbors[link] = topology[link]
      BY <2>1, <2>2 DEF IInv, NeighborsAgree
    <3>2. CASE neighbors[link] # NoLink
      BY <2>1, <2>2, <3>1, <3>2 DEF WithNeighbors
    <3>3. CASE neighbors[link] = NoLink
      <4>1. linkTable'[link] = linkTable[link]
        BY <2>1, <3>3 DEF WithNeighbors
      <4>2. linkTable[link] = NoLink
        <5>1. CASE l \in linked
          BY <2>2, <3>1, <3>3, <5>1 DEF IInv, LinkTableAgrees
        <5>2. CASE l \notin linked
          BY <1>0, <2>1, <2>2, <5>2 DEF IInv, TypeOK, UnusedIsEmpty
        <5> QED
          BY <5>1, <5>2
      <4> QED
        BY <3>1, <3>3, <4>1, <4>2
    <3> QED
      BY <3>2, <3>3
  <2>3. CASE link[1] # l
    BY <1>2, <2>1, <2>3 DEF WithNeighbors, IInv, LinkTableAgrees
  <2> QED
    BY <2>2, <2>3
<1>3. UnusedIsEmpty'
  BY DEF IInv, UnusedIsEmpty, WithNeighbors, SetLinkLayer
<1> QED
  BY <1>1, <1>2, <1>3 DEF IInv, FreshIsEmpty, ViewsAgree, RoutesAreCurrent, NeighborsAgree,
     LinkTableAgrees, OwnDelaysKnown, SetLinkLayer

\* A new channel is told every link.
LEMMA SetSignalingChannelStep ==
  ASSUME IInv, NEW l \in Layers, SetSignalingChannel(l)
  PROVE  IInv'
<1>0. TypeOK /\ NoDelays \in [Links -> Grades \cup {"none"}]
  BY DEF IInv, NoDelays
<1>1. /\ SeededFrom(NoDelays) \in [Links -> Grades \cup {"none"}]
      /\ \A link \in Links :
           topology[link] # NoLink => SeededFrom(NoDelays)[link] = topology[link].grade
  BY <1>0, SeededFacts
<1>2. /\ linkDelays' = [linkDelays EXCEPT ![l] = SeededFrom(NoDelays)]
      /\ channels' = channels \cup {l} /\ l \in instances
      /\ UNCHANGED <<topology, instances, neighbors, initialized, routers, views, routes,
                     linked, linkTable, disposed>>
  BY DEF SetSignalingChannel
<1> HIDE DEF SeededFrom
<1>3. TypeOK'
  BY <1>0, <1>1, <1>2 DEF TypeOK
<1>4. OwnDelaysKnown'
  BY <1>0, <1>1, <1>2, TopologyAssumption DEF OwnDelaysKnown, IInv, TypeOK
<1> QED
  BY <1>2, <1>3, <1>4 DEF IInv, FreshIsEmpty, UnusedIsEmpty, ViewsAgree, RoutesAreCurrent, NeighborsAgree,
     LinkTableAgrees

\* Initialize refreshes the view and the delays of the layer.
LEMMA InitializeStep ==
  ASSUME IInv, NEW l \in Layers, Initialize(l)
  PROVE  IInv'
<1>0. /\ TypeOK /\ topology \in Tables /\ UpdateTopology({l} \cap routers, topology)
      /\ linkDelays[l] \in [Links -> Grades \cup {"none"}]
  BY DEF IInv, TypeOK, Initialize
<1>1. /\ views' \in [Layers -> Tables]
      /\ routes' \in [Layers -> Tables \cup {NoRoute}]
      /\ \A k \in Layers : k \in {l} \cap routers => views'[k] = topology /\ routes'[k] = NoRoute
      /\ \A k \in Layers : k \notin {l} \cap routers => views'[k] = views[k] /\ routes'[k] = routes[k]
  BY <1>0, UpdateFacts
<1>2. /\ SeededFrom(linkDelays[l]) \in [Links -> Grades \cup {"none"}]
      /\ \A link \in Links :
           topology[link] # NoLink =>
             SeededFrom(linkDelays[l])[link] = topology[link].grade
  BY <1>0, SeededFacts
<1>3. /\ linkDelays' = [linkDelays EXCEPT ![l] = SeededFrom(linkDelays[l])]
      /\ channels' = channels \cup {l} /\ initialized' = initialized \cup {l} /\ l \in instances
      /\ UNCHANGED <<topology, instances, neighbors, routers, linked, linkTable, disposed>>
  BY DEF Initialize
<1> HIDE DEF SeededFrom
<1>4. TypeOK'
  BY <1>0, <1>1, <1>2, <1>3 DEF TypeOK
<1>5. OwnDelaysKnown'
  BY <1>0, <1>2, <1>3, TopologyAssumption DEF OwnDelaysKnown, IInv, TypeOK
<1>6. ViewsAgree' /\ RoutesAreCurrent'
  BY <1>0, <1>1, <1>3 DEF IInv, ViewsAgree, RoutesAreCurrent, TypeOK
<1> QED
  BY <1>3, <1>4, <1>5, <1>6 DEF IInv, FreshIsEmpty, UnusedIsEmpty, NeighborsAgree, LinkTableAgrees

\* A route is cached with the view it comes from, which is the topology.
LEMMA CalculateRouteStep ==
  ASSUME IInv, NEW l \in Layers, CalculateRoute(l)
  PROVE  IInv'
<1>1. TypeOK'
  BY DEF IInv, TypeOK, CalculateRoute
<1>2. RoutesAreCurrent'
  BY DEF IInv, TypeOK, ViewsAgree, RoutesAreCurrent, CalculateRoute
<1> QED
  BY <1>1, <1>2 DEF IInv, FreshIsEmpty, UnusedIsEmpty, ViewsAgree, NeighborsAgree, LinkTableAgrees,
     OwnDelaysKnown, CalculateRoute

\* A change of one link of a live layer, made everywhere and published, keeps
\* the invariant.
LEMMA ChangeStep ==
  ASSUME IInv, NEW link \in Links, NEW entry \in Metrics \cup {NoLink}, link[1] \in instances,
         topology' = [topology EXCEPT ![link] = entry],
         neighbors' = [neighbors EXCEPT ![link] = entry],
         SetLink(link, entry), PublishTopology,
         linkDelays' \in [Layers -> [Links -> Grades \cup {"none"}]], OwnDelaysKnown',
         UNCHANGED <<instances, initialized, routers, linked, channels, disposed>>
  PROVE  IInv'
<1>0. TypeOK
  BY DEF IInv
<1>1. topology' \in Tables /\ neighbors' \in Tables
  BY <1>0 DEF TypeOK, Tables
<1>2. linkTable' \in Tables
  BY <1>0 DEF TypeOK, Tables, SetLink
<1>3. /\ views' \in [Layers -> Tables]
      /\ routes' \in [Layers -> Tables \cup {NoRoute}]
      /\ \A l \in Layers : l \in instances \cap routers =>
           views'[l] = topology' /\ routes'[l] = NoRoute
  BY <1>0, <1>1, UpdateFacts DEF PublishTopology
<1>4. TypeOK'
  BY <1>0, <1>1, <1>2, <1>3 DEF TypeOK
<1>5. ViewsAgree' /\ RoutesAreCurrent'
  BY <1>0, <1>3 DEF TypeOK, ViewsAgree, RoutesAreCurrent
<1>6. NeighborsAgree' /\ FreshIsEmpty'
  BY <1>0 DEF IInv, TypeOK, Tables, NeighborsAgree, FreshIsEmpty
<1>7. LinkTableAgrees' /\ UnusedIsEmpty'
  BY <1>0 DEF IInv, TypeOK, Tables, LinkTableAgrees, UnusedIsEmpty, SetLink
<1> QED
  BY <1>4, <1>5, <1>6, <1>7 DEF IInv

\* A new or changed neighbour.
LEMMA AddNeighborStep ==
  ASSUME IInv, NEW link \in Links, NEW g \in Grades, AddNeighbor(link, g)
  PROVE  IInv'
<1> DEFINE metrics == [grade |-> g, isAvailable |-> TRUE]
<1>0. TypeOK /\ OwnDelaysKnown /\ metrics \in Metrics /\ link[1] \in Layers /\ metrics # NoLink
  BY TopologyAssumption DEF IInv, Metrics, NoLink
<1>1. /\ link[1] \in instances
      /\ topology' = [topology EXCEPT ![link] = metrics]
      /\ neighbors' = [neighbors EXCEPT ![link] = metrics]
      /\ SetLink(link, metrics) /\ PublishTopology
      /\ linkDelays' = IF link[1] \in channels THEN [linkDelays EXCEPT ![link[1]][link] = g]
                       ELSE linkDelays
      /\ UNCHANGED <<instances, initialized, routers, linked, channels, disposed>>
  BY DEF AddNeighbor
<1>2. linkDelays' \in [Layers -> [Links -> Grades \cup {"none"}]]
  BY <1>0, <1>1 DEF TypeOK
<1>3. OwnDelaysKnown'
  <2> SUFFICES ASSUME NEW k \in Links, k[1] \in channels, topology'[k] # NoLink
               PROVE  linkDelays'[k[1]][k] = topology'[k].grade
    BY <1>1 DEF OwnDelaysKnown
  <2>0. k[1] \in Layers
    BY TopologyAssumption
  <2>1. CASE k = link
    BY <1>0, <1>1, <2>0, <2>1 DEF TypeOK, Tables
  <2>2. CASE k # link
    <3>1. topology'[k] = topology[k]
      BY <1>0, <1>1, <2>2 DEF TypeOK, Tables
    <3>2. linkDelays'[k[1]][k] = linkDelays[k[1]][k]
      BY <1>0, <1>1, <2>0, <2>2 DEF TypeOK
    <3> QED
      BY <1>0, <3>1, <3>2 DEF OwnDelaysKnown
  <2> QED
    BY <2>1, <2>2
<1> HIDE DEF metrics
<1> QED
  BY <1>0, <1>1, <1>2, <1>3, ChangeStep

\* A neighbour less.
LEMMA RemoveNeighborStep ==
  ASSUME IInv, NEW link \in Links, RemoveNeighbor(link)
  PROVE  IInv'
<1>1. /\ link[1] \in instances
      /\ topology' = [topology EXCEPT ![link] = NoLink]
      /\ neighbors' = [neighbors EXCEPT ![link] = NoLink]
      /\ SetLink(link, NoLink) /\ PublishTopology
      /\ UNCHANGED <<instances, initialized, routers, linked, channels, linkDelays, disposed>>
  BY DEF RemoveNeighbor
<1>2. linkDelays' \in [Layers -> [Links -> Grades \cup {"none"}]]
  BY <1>1 DEF IInv, TypeOK
<1>3. OwnDelaysKnown'
  BY <1>1 DEF IInv, TypeOK, Tables, OwnDelaysKnown
<1> QED
  BY <1>1, <1>2, <1>3, ChangeStep

\* The availability of a neighbour that is known, so that its row exists.
LEMMA UpdateNeighborAvailabilityStep ==
  ASSUME IInv, NEW link \in Links, NEW available \in BOOLEAN,
         UpdateNeighborAvailability(link, available)
  PROVE  IInv'
<1> DEFINE metrics == [EntryOf(link) EXCEPT !.isAvailable = available]
<1>0. TypeOK /\ OwnDelaysKnown
  BY DEF IInv
<1>1. /\ link[1] \in instances /\ neighbors[link] # NoLink
      /\ topology[link] = neighbors[link]
  BY DEF UpdateNeighborAvailability, IInv, NeighborsAgree
<1>2. HasRow(link[1]) /\ EntryOf(link) = topology[link] /\ topology[link] \in Metrics
  BY <1>0, <1>1 DEF HasRow, EntryOf, TypeOK, Tables
<1>3. metrics \in Metrics /\ metrics.grade = topology[link].grade
  BY <1>2 DEF Metrics
<1>4. /\ topology' = [topology EXCEPT ![link] = metrics]
      /\ neighbors' = [neighbors EXCEPT ![link].isAvailable = available]
      /\ SetLink(link, metrics) /\ PublishTopology
      /\ UNCHANGED <<instances, initialized, routers, linked, channels, linkDelays, disposed>>
  BY <1>2 DEF UpdateNeighborAvailability
<1>5. neighbors' = [neighbors EXCEPT ![link] = metrics]
  BY <1>1, <1>2, <1>4
<1>6. linkDelays' \in [Layers -> [Links -> Grades \cup {"none"}]]
  BY <1>0, <1>4 DEF TypeOK
<1>7. OwnDelaysKnown'
  <2>1. \A k \in Links : topology'[k] # NoLink =>
          topology[k] # NoLink /\ topology'[k].grade = topology[k].grade
    BY <1>0, <1>1, <1>3, <1>4 DEF TypeOK, Tables
  <2> QED
    BY <1>0, <1>4, <2>1 DEF OwnDelaysKnown
<1> HIDE DEF metrics
<1> QED
  BY <1>1, <1>3, <1>4, <1>5, <1>6, <1>7, ChangeStep

\* What a disposed layer leaves behind concerns no live layer.
LEMMA DoDisposeStep ==
  ASSUME IInv, NEW l \in Layers, DoDispose(l)
  PROVE  IInv'
<1>0. TypeOK
  BY DEF IInv
<1>1. /\ l \in instances /\ instances' = instances \ {l} /\ disposed' = disposed \cup {l}
      /\ topology' = IF instances' = {} THEN EmptyTable ELSE topology
      /\ neighbors' = [link \in Links |-> IF link[1] = l THEN NoLink ELSE neighbors[link]]
      /\ routers' = routers \ {l} /\ linked' = linked \ {l} /\ channels' = channels \ {l}
      /\ UNCHANGED <<initialized, views, routes, linkTable, linkDelays>>
  BY DEF DoDispose, Unregistered, TopologyFor
<1>2. EmptyTable \in Tables /\ \A link \in Links : EmptyTable[link] = NoLink
  BY DEF EmptyTable, Tables
<1>3. TypeOK'
  <2>1. topology' \in Tables /\ neighbors' \in Tables
    BY <1>0, <1>1, <1>2 DEF TypeOK, Tables
  <2> QED
    BY <1>0, <1>1, <2>1 DEF TypeOK
<1>4. FreshIsEmpty' /\ UnusedIsEmpty'
  BY <1>0, <1>1, <1>2 DEF IInv, FreshIsEmpty, UnusedIsEmpty, TypeOK
<1>5. CASE instances' = {}
  BY <1>3, <1>4, <1>5 DEF IInv, TypeOK, ViewsAgree, RoutesAreCurrent, NeighborsAgree,
     LinkTableAgrees, OwnDelaysKnown
<1>6. CASE instances' # {}
  BY <1>1, <1>3, <1>4, <1>6 DEF IInv, ViewsAgree, RoutesAreCurrent, NeighborsAgree,
     LinkTableAgrees, OwnDelaysKnown
<1> QED
  BY <1>5, <1>6

\* Every step keeps the invariant.
LEMMA NextIInv == IInv /\ [Next]_vars => IInv'
<1> SUFFICES ASSUME IInv, [Next]_vars PROVE IInv'
  OBVIOUS
<1>1. CASE UNCHANGED vars
  BY <1>1 DEF vars, IInv, TypeOK, FreshIsEmpty, UnusedIsEmpty, ViewsAgree, RoutesAreCurrent,
     NeighborsAgree, LinkTableAgrees, OwnDelaysKnown
<1>2. CASE Next
  BY <1>2, SetOwnerStep, SetRoutingProtocolStep, SetLinkLayerStep, SetSignalingChannelStep,
     InitializeStep, CalculateRouteStep, DoDisposeStep, AddNeighborStep, RemoveNeighborStep,
     UpdateNeighborAvailabilityStep DEF Next
<1> QED
  BY <1>1, <1>2

\* IInv is an invariant, for any layers, links and metrics.
THEOREM Invariance == Spec => []IInv
BY InitIInv, NextIInv, PTL DEF Spec

\* Every variable keeps values of its kind.
THEOREM TypeCorrect == Spec => []TypeOK
<1>1. IInv => TypeOK
  BY DEF IInv
<1> QED
  BY <1>1, Invariance, PTL

\* The routing protocol of every live layer always sees the shared topology
\* as it is (PublishTopology, SetRoutingProtocol, DoDispose).
THEOREM ViewsAlwaysAgree == Spec => []ViewsAgree
<1>1. IInv => ViewsAgree
  BY DEF IInv
<1> QED
  BY <1>1, Invariance, PTL

\* No layer ever routes by a cached route of an older topology
\* (UpdateTopology, CalculateRoute).
THEOREM RoutesStayCurrent == Spec => []RoutesAreCurrent
<1>1. IInv => RoutesAreCurrent
  BY DEF IInv
<1> QED
  BY <1>1, Invariance, PTL

\* The link layer and the routing protocols always decide by the same metrics
\* (AddNeighbor, RemoveNeighbor, UpdateNeighborAvailability, SetLinkLayer).
THEOREM LinkTableAlwaysAgrees == Spec => []LinkTableAgrees
<1>1. IInv => LinkTableAgrees
  BY DEF IInv
<1> QED
  BY <1>1, Invariance, PTL
=============================================================================
