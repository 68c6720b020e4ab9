----------------------------- MODULE LabelSearch -----------------------------
(***************************************************************************)
(* DijkstraRoutingProtocol and SlicedDijkstraRoutingProtocol: the topology *)
(* they are told, the routes and metrics they cache, and the best-first    *)
(* search over labels, one step per label taken from the queue and per     *)
(* neighbour looked at.                                                    *)
(*                                                                         *)
(* A label is its path: the segments and the scalars of a label follow     *)
(* from the path and the topology. Scores are those of                     *)
(* BottleneckFidelityRoutingMetric for links of the phase-flip family and  *)
(* one coherence time: the fidelity F of a route is given by               *)
(*   -ln(2F-1) = sum of -ln(2f-1), f the fidelity of a link, and of the    *)
(* times its pair waits for the slowest link. Cost is this number, with    *)
(* loss for -ln(2f-1) in the unit of the waiting times.                    *)
(*                                                                         *)
(* A request of a node to itself never gets to a search and is left out.   *)
(***************************************************************************)
EXTENDS Integers, Sequences, FiniteSets, FiniteSetsExt

CONSTANTS
  Nodes,      \* names of the nodes
  Pairs,      \* the pairs of them that may be linked
  Offers,     \* for each pair of nodes, the metrics its link may have
  Tables,     \* the topologies UpdateTopology may bring
  Requests,   \* pairs of a source and a destination
  Protocols   \* the protocols with the values of their attributes

\* In place of the metrics of a link that does not exist.
NoLink == [isLink |-> FALSE]

LinkMetrics == [isAvailable : BOOLEAN, loss : Nat, setup : Nat]

\* isAvailable says that the link is available and its success rate is not 0.
ASSUME NetworkAssumption ==
  /\ Pairs \subseteq Nodes \X Nodes
  /\ \A link \in Pairs : Offers[link] \subseteq LinkMetrics
  /\ \A table \in Tables :
       /\ table \in [Pairs -> LinkMetrics \cup {NoLink}]
       /\ \A link \in Pairs : table[link] \in Offers[link] \cup {NoLink}

ASSUME RequestAssumption ==
  \A request \in Requests : request \in Nodes \X Nodes /\ request[1] # request[2]

\* multi is SlicedDijkstraRoutingProtocol, with K, BucketWidthMs and UseBuckets.
ASSUME ProtocolAssumption ==
  Protocols \subseteq [multi : BOOLEAN, k : Nat \ {0}, width : Nat, buckets : BOOLEAN]

Operations == {"CalculateRoute", "HasRoute", "GetRouteMetric"}

VARIABLES
  protocol,      \* which of the protocols it is
  topology,      \* m_topology: the metrics of each link there is
  routes,        \* m_routes: a path for each request, <<>> if there is none
  routeMetrics,  \* m_routeMetrics: the set of the score, or the empty set
  labels,        \* bestByNode, labelsByNode; after a search m_lastLabelsByNode
  frontier,      \* the priority queue
  best,          \* bestDestination
  current,       \* the label being extended
  todo,          \* the neighbours it has not been extended to
  pc,            \* "idle", or in the search: "pop", "extend"
  call,          \* the operation the search runs for
  answer         \* the last request for a route with the answer

searching == <<labels, frontier, best, current, todo>>
cache == <<routes, routeMetrics>>
vars == <<protocol, topology, routes, routeMetrics, labels, frontier, best, current, todo,
          pc, call, answer>>

NoCall == [op |-> "none", request |-> <<>>]
NoRoutes == [request \in Requests |-> <<>>]
NoMetrics == [request \in Requests |-> {}]
NoLabels == [node \in Nodes |-> {}]

Service == INSTANCE RouteService

Init ==
  /\ protocol \in Protocols
  /\ topology = [link \in Pairs |-> NoLink]
  /\ routes = NoRoutes
  /\ routeMetrics = NoMetrics
  /\ labels = NoLabels
  /\ frontier = {}
  /\ best = <<>>
  /\ current = <<>>
  /\ todo = {}
  /\ pc = "idle"
  /\ call = NoCall
  /\ answer = Service!NoAnswer

(***************************************************************************)
(* The metric                                                              *)
(***************************************************************************)
Links == {link \in Pairs : topology[link] # NoLink}
LastNode(path) == path[Len(path)]
Hops(path) == 1 .. Len(path) - 1
LinkOf(path, i) == topology[<<path[i], path[i + 1]>>]

TMax(path) == Max({LinkOf(path, i).setup : i \in Hops(path)} \cup {0})

\* What the pair of a hop loses, and by waiting for the slowest link.
HopCost(path, i, tMax) == LinkOf(path, i).loss + tMax - LinkOf(path, i).setup

\* The sum over the hops of the path.
Cost(path) ==
  LET upTo[i \in 0 .. Len(path) - 1] ==
        IF i = 0 THEN 0 ELSE upTo[i - 1] + HopCost(path, i, TMax(path))
  IN upTo[Len(path) - 1]

GetScore(path) == -Cost(path)

IsBetter(lhs, rhs) ==
  \/ GetScore(lhs) > GetScore(rhs)
  \/ /\ GetScore(lhs) = GetScore(rhs)
     /\ \/ TMax(lhs) < TMax(rhs)
        \/ TMax(lhs) = TMax(rhs) /\ Len(lhs) < Len(rhs)

Dominates(lhs, rhs) ==
  /\ GetScore(lhs) >= GetScore(rhs)
  /\ TMax(lhs) <= TMax(rhs)
  /\ GetScore(lhs) > GetScore(rhs) \/ TMax(lhs) < TMax(rhs)

\* Mutant: the link may be down.
NeighboursOff(path) ==
  {node \in Nodes :
     <<LastNode(path), node>> \in Links /\ \A i \in DOMAIN path : path[i] # node}

\* The nodes the label may be extended to.
Extensions(path) ==
  {node \in Nodes :
     /\ <<LastNode(path), node>> \in Links
     /\ topology[<<LastNode(path), node>>].isAvailable
     /\ \A i \in DOMAIN path : path[i] # node}

GetBucketId(path) == IF protocol.width = 0 THEN TMax(path) ELSE TMax(path) \div protocol.width

(***************************************************************************)
(* Admission of a label                                                    *)
(***************************************************************************)
\* The labels that are left when one more than k is: a sort leaves the order of
\* equal labels open.
Resized(kept) ==
  IF Cardinality(kept) <= protocol.k THEN {kept}
  ELSE {some \in SUBSET kept :
          /\ Cardinality(some) = protocol.k
          /\ \A in \in some, out \in kept \ some : ~IsBetter(out, in)}

\* The labels the candidate competes with.
Rivals(node, candidate) ==
  IF protocol.buckets
  THEN {kept \in labels[node] : GetBucketId(kept) = GetBucketId(candidate)}
  ELSE labels[node]

Beats(lhs, rhs) == IF protocol.buckets THEN IsBetter(lhs, rhs) ELSE Dominates(lhs, rhs)

\* The labels that make way: with buckets only the first in the order of the
\* list, a best one of those that are worse.
Displaced(node, candidate) ==
  LET worse == {kept \in Rivals(node, candidate) : Beats(candidate, kept)}
  IN IF protocol.buckets /\ worse # {}
     THEN {{first} : first \in {kept \in worse : \A other \in worse : ~IsBetter(other, kept)}}
     ELSE {worse}

\* AdmitLabel leaves the labels kept at node.
AdmitLabel(node, candidate, kept) ==
  IF \E rival \in Rivals(node, candidate) : Beats(rival, candidate) \/ rival = candidate
  THEN kept = labels[node]
  ELSE \E gone \in Displaced(node, candidate) :
         kept \in Resized((labels[node] \ gone) \cup {candidate})

\* Mutant: the first label of a node stays.
FirstLabelStays(node, candidate, kept) ==
  kept = IF labels[node] = {} THEN {candidate} ELSE labels[node]

\* The one label of a node in the single-label search.
ReplaceLabel(node, candidate, kept) ==
  kept = IF labels[node] = {} \/ \E old \in labels[node] : IsBetter(candidate, old)
         THEN {candidate} ELSE labels[node]

\* The labels kept at node once candidate has been offered.
Offered(node, candidate) ==
  {kept \in SUBSET (labels[node] \cup {candidate}) :
     IF protocol.multi THEN AdmitLabel(node, candidate, kept)
     ELSE ReplaceLabel(node, candidate, kept)}

StillActive(path) ==
  LET kept == labels[LastNode(path)]
  IN IF protocol.multi THEN path \in kept
     ELSE \A other \in kept : other = path \/ ~IsBetter(other, path)

(***************************************************************************)
(* The search                                                              *)
(***************************************************************************)
StartSearch(op, request) ==
  LET start == <<request[1]>>
  IN /\ pc' = "pop"
     /\ call' = [op |-> op, request |-> request]
     /\ labels' = [NoLabels EXCEPT ![request[1]] = {start}]
     /\ frontier' = {start}
     /\ best' = <<>>
     /\ UNCHANGED <<protocol, topology, cache, current, todo, answer>>

\* One of the best labels of the queue.
IsTop(path) == path \in frontier /\ \A other \in frontier : GetScore(other) <= GetScore(path)

\* Mutant: the label stays in the queue.
StillQueued(path) == frontier

Dequeued(path) == frontier \ {path}

Pop(path) ==
  LET atEnd == LastNode(path) = call.request[2]
      extend == StillActive(path) /\ ~atEnd
  IN /\ pc = "pop"
     /\ IsTop(path)
     /\ frontier' = Dequeued(path)
     /\ best' = IF StillActive(path) /\ atEnd /\ (best = <<>> \/ IsBetter(path, best))
                THEN path ELSE best
     /\ pc' = IF extend THEN "extend" ELSE "pop"
     /\ current' = IF extend THEN path ELSE <<>>
     /\ todo' = IF extend THEN Extensions(path) ELSE {}
     /\ UNCHANGED <<protocol, topology, cache, labels, call, answer>>

\* ExtendLabel, and the label offered to its node. The neighbours come in the
\* order of their names; each has labels of its own, so the order is not told.
Extend ==
  /\ pc = "extend"
  /\ todo # {}
  /\ LET node == CHOOSE node \in todo : TRUE
         next == Append(current, node)
     IN /\ \E kept \in Offered(node, next) :
             /\ labels' = [labels EXCEPT ![node] = kept]
             /\ frontier' = IF next \in kept THEN frontier \cup {next} ELSE frontier
        /\ todo' = todo \ {node}
  /\ UNCHANGED <<protocol, topology, cache, best, current, pc, call, answer>>

Extended ==
  /\ pc = "extend"
  /\ todo = {}
  /\ pc' = "pop"
  /\ current' = <<>>
  /\ UNCHANGED <<protocol, topology, cache, labels, frontier, best, todo, call, answer>>

\* HasRoute of DijkstraRoutingProtocol keeps nothing of what it finds.
KeepsRoute == call.op = "CalculateRoute" \/ (call.op = "HasRoute" /\ protocol.multi)
KeepsMetric == KeepsRoute \/ call.op = "GetRouteMetric"

Finish ==
  /\ pc = "pop"
  /\ frontier = {}
  /\ routes' = IF KeepsRoute /\ best # <<>> THEN [routes EXCEPT ![call.request] = best]
               ELSE routes
  /\ routeMetrics' = IF KeepsMetric /\ best # <<>>
                     THEN [routeMetrics EXCEPT ![call.request] = {GetScore(best)}]
                     ELSE routeMetrics
  /\ answer' = IF call.op = "GetRouteMetric" THEN answer
               ELSE [request |-> call.request, route |-> best]
  /\ pc' = "idle"
  /\ call' = NoCall
  /\ best' = <<>>
  /\ UNCHANGED <<protocol, topology, labels, frontier, current, todo>>

(***************************************************************************)
(* Operations                                                              *)
(***************************************************************************)
\* CalculateRoute and HasRoute, from the cache or by a search.
FindRoute(op, request) ==
  /\ pc = "idle"
  /\ \/ /\ routes[request] = <<>>
        /\ StartSearch(op, request)
     \/ /\ routes[request] # <<>>
        /\ answer' = [request |-> request, route |-> routes[request]]
        /\ UNCHANGED <<protocol, topology, cache, searching, pc, call>>

\* A metric that is cached is returned, which changes nothing.
GetRouteMetric(request) ==
  /\ pc = "idle"
  /\ routeMetrics[request] = {}
  /\ StartSearch("GetRouteMetric", request)

\* Mutant: the routes outlive the topology.
ForgetLabels == labels' = NoLabels /\ UNCHANGED cache

NotifyTopologyChange ==
  /\ routes' = NoRoutes
  /\ routeMetrics' = NoMetrics
  /\ labels' = NoLabels

ChangeTopology(table) ==
  /\ pc = "idle"
  /\ topology' = table
  /\ NotifyTopologyChange
  /\ UNCHANGED <<protocol, frontier, best, current, todo, pc, call, answer>>

UpdateTopology(table) == ChangeTopology(table)

\* AddNeighbor, UpdateLinkMetrics
UpdateLinkMetrics(link, metrics) ==
  ChangeTopology([topology EXCEPT ![link] = metrics])

\* DijkstraRoutingProtocol does nothing about a link it does not have.
RemoveNeighbor(link) ==
  /\ link \in Links \/ protocol.multi
  /\ ChangeTopology([topology EXCEPT ![link] = NoLink])

Next ==
  \/ \E table \in Tables : UpdateTopology(table)
  \/ \E link \in Pairs :
       \/ RemoveNeighbor(link)
       \/ \E metrics \in Offers[link] : UpdateLinkMetrics(link, metrics)
  \/ \E request \in Requests :
       \/ \E op \in {"CalculateRoute", "HasRoute"} : FindRoute(op, request)
       \/ GetRouteMetric(request)
  \/ \E path \in frontier : Pop(path)
  \/ Extend \/ Extended \/ Finish

Spec == Init /\ [][Next]_vars

\* The event loop waits for a search to come to its end.
FairSpec == Spec /\ WF_vars((\E path \in frontier : Pop(path)) \/ Extend \/ Extended \/ Finish)

(***************************************************************************)
(* What every state keeps, so that the answers are right                   *)
(***************************************************************************)
TypeOK ==
  /\ protocol \in Protocols
  /\ topology \in [Pairs -> LinkMetrics \cup {NoLink}]
  /\ routes \in [Requests -> Seq(Nodes)]
  /\ DOMAIN routeMetrics = Requests
  /\ labels \in [Nodes -> SUBSET Seq(Nodes)]
  /\ frontier \in SUBSET Seq(Nodes)
  /\ best \in Seq(Nodes)
  /\ current \in Seq(Nodes)
  /\ todo \in SUBSET Nodes
  /\ pc \in {"idle", "pop", "extend"}
  /\ call \in IF pc = "idle" THEN {NoCall} ELSE [op : Operations, request : Requests]

\* The labels that may still be extended.
UnderWay == frontier \cup IF pc = "extend" THEN {current} ELSE {}

\* They lead from the source over usable links, and nothing is left of a search
\* that is over.
LabelsAreRoutes ==
  IF pc = "idle" THEN frontier = {} /\ best = <<>>
  ELSE /\ best # <<>> => Service!IsRoute(topology, call.request, best)
       /\ \A path \in UnderWay :
            /\ path # <<>>
            /\ path[1] = call.request[1]
            /\ Service!IsUsablePath(topology, path)

OnlyExtensionsLeft == todo \subseteq IF pc = "extend" THEN Extensions(current) ELSE {}

LabelsEndAtTheirNode ==
  \A node \in Nodes : \A path \in labels[node] :
    /\ LastNode(path) = node
    /\ ~protocol.multi => labels[node] = {path}

\* What has to be done at a node has been done, or is about to be: its
\* neighbours have labels, and the destination is the end of a route.
Explored(node) ==
  IF node = call.request[2] THEN best # <<>>
  ELSE \A next \in Nodes :
         <<node, next>> \in Service!UsablePairs(topology) =>
           labels[next] # {} \/ (pc = "extend" /\ LastNode(current) = node /\ next \in todo)

\* A node that has been reached is explored, or all the labels it has now are in
\* the queue, whichever of them were dropped.
NoNodeForgotten ==
  pc # "idle" =>
    /\ labels[call.request[1]] # {}
    /\ \A path \in UnderWay : \A i \in DOMAIN path : labels[path[i]] # {}
    /\ \A node \in Nodes : labels[node] \subseteq frontier \/ Explored(node)

\* No search runs for a route that is cached, so that its metric stays its own.
CacheHolds ==
  /\ pc # "idle" => routes[call.request] = <<>>
  /\ \A request \in Requests :
       routes[request] # <<>> =>
         /\ Service!IsRoute(topology, request, routes[request])
         /\ routeMetrics[request] = {GetScore(routes[request])}

\* The links are ready at the same time.
OneSetup == \A l, m \in Service!UsablePairs(topology) : topology[l].setup = topology[m].setup

CostsAtMost(node, cost) == \E path \in labels[node] : Cost(path) <= cost

\* The label has done what it can at its node: the route found costs no more, or
\* no neighbour is left with labels that cost more than by the link to it.
Settled(node, path) ==
  IF node = call.request[2] THEN best # <<>> /\ Cost(best) <= Cost(path)
  ELSE \A next \in Nodes :
         <<node, next>> \in Service!UsablePairs(topology) =>
           \/ CostsAtMost(next, Cost(path) + topology[<<node, next>>].loss)
           \/ pc = "extend" /\ current = path /\ next \in todo

\* A label that is kept is in the queue or settled, and what has displaced a label
\* costs no more.
NoneForgottenIsCheaper ==
  OneSetup /\ pc # "idle" =>
    /\ CostsAtMost(call.request[1], 0)
    /\ \A path \in UnderWay : \A i \in DOMAIN path : CostsAtMost(path[i], Cost(path))
    /\ \A node \in Nodes : \A path \in labels[node] :
         /\ path # <<>>
         /\ Service!IsUsablePath(topology, path)
         /\ path \in frontier \/ Settled(node, path)

IInv ==
  /\ TypeOK
  /\ LabelsAreRoutes
  /\ OnlyExtensionsLeft
  /\ LabelsEndAtTheirNode
  /\ NoNodeForgotten
  /\ CacheHolds

(***************************************************************************)
(* Properties                                                              *)
(***************************************************************************)
\* The routes the protocol answers with, from its cache or from a search, are
\* simple paths over usable links of the topology as it is, and it answers
\* that there is none only when the destination is out of reach, however many
\* labels are dropped on the way (AdmitLabel, the check of stale labels).
ImplementsRouteService == Service!Spec

\* A cached route is a route of the topology as it is, and the metric cached for
\* it is its score there.
CacheIsCurrent ==
  \A request \in Requests :
    routes[request] # <<>> =>
      /\ Service!IsRoute(topology, request, routes[request])
      /\ pc = "idle" => routeMetrics[request] = {GetScore(routes[request])}

\* All the simple paths for the request.
AllRoutes(request) ==
  {path \in UNION {[1 .. n -> Nodes] : n \in 2 .. Cardinality(Nodes)} :
     Service!IsRoute(topology, request, path)}

\* When all links are ready at the same time the costs add up, and the search is
\* Dijkstra's: the route that is cached is a best one.
BestWhenAdditive ==
  OneSetup =>
    \A request \in Requests :
      routes[request] # <<>> =>
        \A path \in AllRoutes(request) : GetScore(path) <= GetScore(routes[request])

\* Every search comes to its end (a label is put in the queue once).
SearchEnds == pc # "idle" ~> pc = "idle"
===============================================================================
