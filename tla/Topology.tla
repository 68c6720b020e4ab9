------------------------------- MODULE Topology -------------------------------
(***************************************************************************)
(* The topology that all QuantumNetworkLayers share (s_topology), and its  *)
(* copies: the neighbours each layer keeps (m_neighbors), the view of its  *)
(* routing protocol with the routes cached for it, the table of the link   *)
(* layer they share, and the delays each signaling channel is told.        *)
(*                                                                         *)
(* A layer is named by its owner. SetOwner is the first call made on it,   *)
(* once, as in all set-up code of the repository. A route is represented   *)
(* by the view it was computed from. The routing protocol is               *)
(* DijkstraRoutingProtocol or SlicedDijkstraRoutingProtocol, which treat   *)
(* their views alike.                                                      *)
(***************************************************************************)
EXTENDS Naturals

CONSTANTS
  Layers,   \* names of the layers
  Links,    \* pairs of a layer and a neighbour it may have
  Grades    \* the metrics AddNeighbor is given, availability apart

ASSUME TopologyAssumption == \A link \in Links : link[1] \in Layers

Metrics == [grade : Grades \cup {"none"}, isAvailable : BOOLEAN]

\* LinkMetrics ()
DefaultMetrics == [grade |-> "none", isAvailable |-> FALSE]

NoLink == [isLink |-> FALSE]

Tables == [Links -> Metrics \cup {NoLink}]
EmptyTable == [link \in Links |-> NoLink]

VARIABLES
  topology,      \* s_topology
  instances,     \* domain of s_instances
  neighbors,     \* m_neighbors of every layer, in one table
  initialized,   \* layers with m_initialized
  routers,       \* layers with a routing protocol
  views,         \* its m_topology
  routes,        \* the view its cached route comes from, or NoRoute
  linked,        \* layers with a link layer
  linkTable,     \* m_links of the link layer
  channels,      \* layers with a signaling channel
  linkDelays,    \* grades its m_linkDelayModels come from
  disposed       \* layers with DoDispose behind them

vars == <<topology, instances, neighbors, initialized, routers, views, routes, linked,
          linkTable, channels, linkDelays, disposed>>

NoRoute == [link \in {} |-> NoLink]

NoDelays == [link \in Links |-> "none"]

Init ==
  /\ topology = EmptyTable
  /\ instances = {}
  /\ neighbors = EmptyTable
  /\ initialized = {}
  /\ routers = {}
  /\ views = [l \in Layers |-> EmptyTable]
  /\ routes = [l \in Layers |-> NoRoute]
  /\ linked = {}
  /\ linkTable = EmptyTable
  /\ channels = {}
  /\ linkDelays = [l \in Layers |-> NoDelays]
  /\ disposed = {}

(***************************************************************************)
(* Parts of the operations                                                 *)
(***************************************************************************)
\* Mutant: cached routes survive a new topology.
UpdateViewsOnly(ls, t) ==
  /\ views' = [l \in Layers |-> IF l \in ls THEN t ELSE views[l]]
  /\ UNCHANGED routes

\* The routing protocols of ls take over table t and drop their routes.
UpdateTopology(ls, t) ==
  /\ views' = [l \in Layers |-> IF l \in ls THEN t ELSE views[l]]
  /\ routes' = [l \in Layers |-> IF l \in ls THEN NoRoute ELSE routes[l]]

\* Mutant: the change comes after the others have been told.
PublishBeforeChange == UpdateTopology(instances \cap routers, topology)

\* The routing protocols of all instances take over the new topology.
PublishTopology == UpdateTopology(instances \cap routers, topology')

\* The delay models a channel has once it is told all links of the topology.
SeededFrom(delays) ==
  [link \in Links |-> IF topology[link] = NoLink THEN delays[link] ELSE topology[link].grade]

\* Mutant: SetLinkLayer leaves the neighbours known so far out.
LinkTableAsIs(l) == linkTable

\* The link table once it holds the neighbours of l.
WithNeighbors(l) ==
  [link \in Links |-> IF link[1] = l /\ neighbors[link] # NoLink THEN neighbors[link]
                      ELSE linkTable[link]]

\* An entry of the link table, if the link's layer has a link layer.
SetLink(link, metrics) ==
  linkTable' = IF link[1] \in linked THEN [linkTable EXCEPT ![link] = metrics] ELSE linkTable

(***************************************************************************)
(* Set-up                                                                  *)
(***************************************************************************)
SetOwner(l) ==
  /\ l \notin instances \cup disposed
  /\ instances' = instances \cup {l}
  /\ UNCHANGED <<topology, neighbors, initialized, routers, views, routes, linked,
                 linkTable, channels, linkDelays, disposed>>

SetRoutingProtocol(l) ==
  /\ l \in instances
  /\ routers' = routers \cup {l}
  /\ UpdateTopology({l}, topology)
  /\ UNCHANGED <<topology, instances, neighbors, initialized, linked, linkTable, channels,
                 linkDelays, disposed>>

SetLinkLayer(l) ==
  /\ l \in instances
  /\ linked' = linked \cup {l}
  /\ linkTable' = WithNeighbors(l)
  /\ UNCHANGED <<topology, instances, neighbors, initialized, routers, views, routes,
                 channels, linkDelays, disposed>>

\* A new channel.
SetSignalingChannel(l) ==
  /\ l \in instances
  /\ channels' = channels \cup {l}
  /\ linkDelays' = [linkDelays EXCEPT ![l] = SeededFrom(NoDelays)]
  /\ UNCHANGED <<topology, instances, neighbors, initialized, routers, views, routes,
                 linked, linkTable, disposed>>

\* A layer without a channel gets one; later calls return at once.
Initialize(l) ==
  /\ l \in instances \ initialized
  /\ initialized' = initialized \cup {l}
  /\ channels' = channels \cup {l}
  /\ linkDelays' = [linkDelays EXCEPT ![l] = SeededFrom(@)]
  /\ UpdateTopology({l} \cap routers, topology)
  /\ UNCHANGED <<topology, instances, neighbors, routers, linked, linkTable, disposed>>

(***************************************************************************)
(* Changes of the topology                                                 *)
(***************************************************************************)
AddNeighbor(link, g) ==
  LET l == link[1]
      metrics == [grade |-> g, isAvailable |-> TRUE]
  IN /\ l \in instances
     /\ neighbors' = [neighbors EXCEPT ![link] = metrics]
     /\ topology' = [topology EXCEPT ![link] = metrics]
     /\ SetLink(link, metrics)
     /\ linkDelays' = IF l \in channels THEN [linkDelays EXCEPT ![l][link] = g]
                      ELSE linkDelays
     /\ PublishTopology
     /\ UNCHANGED <<instances, initialized, routers, linked, channels, disposed>>

RemoveNeighbor(link) ==
  /\ link[1] \in instances
  /\ neighbors' = [neighbors EXCEPT ![link] = NoLink]
  /\ topology' = [topology EXCEPT ![link] = NoLink]
  /\ SetLink(link, NoLink)
  /\ PublishTopology
  /\ UNCHANGED <<instances, initialized, routers, linked, channels, linkDelays, disposed>>

\* The layer has a row in the topology. (The empty row that RemoveNeighbor may
\* leave is that of a layer without neighbours to update.)
HasRow(l) == \E link \in Links : link[1] = l /\ topology[link] # NoLink

\* The entry as topology[owner][neighbor] finds or makes it.
EntryOf(link) == IF topology[link] = NoLink THEN DefaultMetrics ELSE topology[link]

UpdateNeighborAvailability(link, available) ==
  LET metrics == [EntryOf(link) EXCEPT !.isAvailable = available]
  IN /\ link[1] \in instances
     /\ neighbors[link] # NoLink
     /\ neighbors' = [neighbors EXCEPT ![link].isAvailable = available]
     /\ topology' = IF HasRow(link[1]) THEN [topology EXCEPT ![link] = metrics] ELSE topology
     /\ SetLink(link, IF HasRow(link[1]) THEN metrics ELSE linkTable[link])
     /\ PublishTopology
     /\ UNCHANGED <<instances, initialized, routers, linked, channels, linkDelays, disposed>>

Unregistered(l) == instances \ {l}

\* What is left of the topology when rest is left of the layers.
TopologyFor(rest) == IF rest = {} THEN EmptyTable ELSE topology

\* The row of the layer stays in the topology while others are left, and
\* nothing is published.
DoDispose(l) ==
  /\ l \in instances
  /\ disposed' = disposed \cup {l}
  /\ instances' = Unregistered(l)
  /\ topology' = TopologyFor(Unregistered(l))
  /\ neighbors' = [link \in Links |-> IF link[1] = l THEN NoLink ELSE neighbors[link]]
  /\ routers' = routers \ {l}
  /\ linked' = linked \ {l}
  /\ channels' = channels \ {l}
  /\ UNCHANGED <<initialized, views, routes, linkTable, linkDelays>>

\* SetupPath asks for a route; the protocol answers from its cache, or computes
\* one and, when there is one, caches it.
CalculateRoute(l) ==
  /\ l \in instances \cap initialized \cap routers
  /\ routes[l] = NoRoute
  /\ routes' = [routes EXCEPT ![l] = views[l]]
  /\ UNCHANGED <<topology, instances, neighbors, initialized, routers, views, linked,
                 linkTable, channels, linkDelays, disposed>>

Next ==
  \/ \E l \in Layers :
       \/ SetOwner(l) \/ SetRoutingProtocol(l) \/ SetLinkLayer(l) \/ SetSignalingChannel(l)
       \/ Initialize(l) \/ DoDispose(l) \/ CalculateRoute(l)
  \/ \E link \in Links :
       \/ RemoveNeighbor(link)
       \/ \E g \in Grades : AddNeighbor(link, g)
       \/ \E available \in BOOLEAN : UpdateNeighborAvailability(link, available)

Spec == Init /\ [][Next]_vars

(***************************************************************************)
(* Properties                                                              *)
(***************************************************************************)
\* Every variable has values of its kind.
TypeOK ==
  /\ topology \in Tables /\ neighbors \in Tables /\ linkTable \in Tables
  /\ views \in [Layers -> Tables]
  /\ routes \in [Layers -> Tables \cup {NoRoute}]
  /\ linkDelays \in [Layers -> [Links -> Grades \cup {"none"}]]
  /\ instances \subseteq Layers /\ disposed \subseteq Layers /\ initialized \subseteq Layers
  /\ routers \subseteq instances /\ linked \subseteq instances /\ channels \subseteq instances
  /\ instances \cap disposed = {}

\* The routing protocol of every live layer sees the topology as it is, whatever
\* the order in which layers are set up, changed and disposed of
\* (PublishTopology, SetRoutingProtocol, Initialize, DoDispose).
ViewsAgree == \A l \in routers : views[l] = topology

\* A cached route was computed from the topology as it is (UpdateTopology).
RoutesAreCurrent == \A l \in routers : routes[l] # NoRoute => routes[l] = topology

\* The neighbours of a live layer are its row of the topology.
NeighborsAgree ==
  \A link \in Links : link[1] \in instances => neighbors[link] = topology[link]

\* The link layer decides about requests by the same metrics as the routing
\* protocols: for every live layer that uses it the table is the topology.
LinkTableAgrees ==
  \A link \in Links : link[1] \in linked => linkTable[link] = topology[link]

\* The channel of a live layer knows the delay of each of its links.
OwnDelaysKnown ==
  \A link \in Links :
    link[1] \in channels /\ topology[link] # NoLink =>
      linkDelays[link[1]][link] = topology[link].grade

\* A layer without an owner has left no trace.
FreshIsEmpty ==
  \A link \in Links :
    link[1] \notin instances \cup disposed =>
      neighbors[link] = NoLink /\ topology[link] = NoLink

\* A layer that has not used the link layer has no entry in its table.
UnusedIsEmpty ==
  \A link \in Links : link[1] \notin linked \cup disposed => linkTable[link] = NoLink

\* All of it, which is inductive.
IInv ==
  /\ TypeOK
  /\ FreshIsEmpty
  /\ UnusedIsEmpty
  /\ ViewsAgree
  /\ RoutesAreCurrent
  /\ NeighborsAgree
  /\ LinkTableAgrees
  /\ OwnDelaysKnown
=============================================================================
