-------------------------------- MODULE QCast --------------------------------
(***************************************************************************)
(* QCastRoutingProtocol: the link probabilities it caches, the greedy      *)
(* selection of paths for a batch of requests (CalculateRoutesGEDA) with   *)
(* the extended Dijkstra search it runs for every request in every round,  *)
(* the recovery paths of a selected path and the resources both consume.   *)
(*                                                                         *)
(* A success rate p is given by its loss -ln p in some unit, and the       *)
(* expected throughput and the width of a label by their logarithms in the *)
(* same unit: an expected throughput of 1 is 0. The breadth-first search   *)
(* for a recovery path is given by what it returns, one of the shortest    *)
(* paths.                                                                  *)
(*                                                                         *)
(* A request of a node to itself is left out, and every node has a row in  *)
(* m_linkProbabilities, so that the fall-backs to the neighbours of the    *)
(* network layer do not come in. No link has a success rate of 0.          *)
(***************************************************************************)
EXTENDS Integers, SequencesExt

CONSTANTS
  Nodes,       \* names of the nodes
  Pairs,       \* the pairs of them that may be linked
  Losses,      \* losses of a link that changes
  Unsteady,    \* the pairs whose link changes by itself
  Tables,      \* the topologies UpdateTopology may bring
  LocalLinks,  \* the links of the network layer's neighbours
  Batches,     \* the sequences of requests asked for together
  Configs,     \* values of the attributes
  SwapLoss,    \* -ln S(h), for each number of hops h
  MaxPaths,    \* bound: paths m_qcastPaths may hold
  MaxChanges   \* bound: changes of single links

NoLink == -1

ASSUME GraphAssumption ==
  /\ Pairs \subseteq Nodes \X Nodes
  /\ Unsteady \subseteq Pairs
  /\ Losses \subseteq Nat
  /\ Tables \subseteq [Pairs -> Nat \cup {NoLink}]
  /\ LocalLinks \in [Pairs -> Nat \cup {NoLink}]

ASSUME BatchAssumption ==
  \A batch \in Batches :
    /\ batch \in Seq(Nodes \X Nodes) \ {<<>>}
    /\ \A i \in 1 .. Len(batch) : batch[i][1] # batch[i][2]

ASSUME ConfigAssumption == Configs \subseteq [maxHops : Nat, kHop : Nat, capacity : Nat]

\* A swap chain over more hops fails more often (m_alpha, a failure rate).
ASSUME SwapAssumption ==
  /\ SwapLoss[0] = 0 /\ SwapLoss[1] = 0
  /\ \A c \in Configs : 0 .. c.maxHops \subseteq DOMAIN SwapLoss
  /\ \A h \in DOMAIN SwapLoss : SwapLoss[h] \in Nat
  /\ \A g, h \in DOMAIN SwapLoss : g <= h => SwapLoss[g] <= SwapLoss[h]

VARIABLES
  config,          \* m_maxHops, m_kHop, m_nodeCapacity
  linkLoss,        \* m_linkProbabilities
  initialized,     \* m_initialized
  paths,           \* m_qcastPaths, in the order of their identifiers
  base,            \* how many of them are older than the last call or change
  changes,         \* single links changed so far
  pc,              \* "idle"; in CalculateRoutesGEDA "eda", "select"
  remaining,       \* remainingRequests
  availableNodes,
  availableEdges,
  remainingCap,    \* nodeRemainingCap
  index,           \* i, the request whose search runs
  queue,           \* pq
  paretoLabels,
  bestLabel,       \* NoLabel if there is none
  bestIndex        \* bestRequestIdx

tables == <<config, linkLoss, initialized, changes>>
search == <<index, queue, paretoLabels>>
resources == <<availableNodes, availableEdges, remainingCap>>
vars == <<config, linkLoss, initialized, paths, base, changes, pc, remaining, availableNodes,
          availableEdges, remainingCap, index, queue, paretoLabels, bestLabel, bestIndex>>

\* Of a QCastLabel: its node is the last of its path, and the hops follow too.
NoLabel == [path |-> <<>>, expectedThroughput |-> 0, pathWidth |-> 0]
NoLabels == [node \in Nodes |-> {}]

Init ==
  /\ config \in Configs
  /\ linkLoss = [pair \in Pairs |-> NoLink]
  /\ initialized = FALSE
  /\ paths = <<>>
  /\ base = 0
  /\ changes = 0
  /\ pc = "idle"
  /\ remaining = <<>>
  /\ availableNodes = {}
  /\ availableEdges = {}
  /\ remainingCap = [node \in Nodes |-> 0]
  /\ index = 0
  /\ queue = {}
  /\ paretoLabels = NoLabels
  /\ bestLabel = NoLabel
  /\ bestIndex = 0

(***************************************************************************)
(* Labels                                                                  *)
(***************************************************************************)
LastNode(path) == path[Len(path)]
Hops(path) == Len(path) - 1
Links(path) == {<<path[i], path[i + 1]>> : i \in 1 .. Hops(path)}

\* A link, whichever way it is used.
BothWays(links) == links \cup {<<link[2], link[1]>> : link \in links}

\* The paths known, and those with one hop more that visit no node twice.
OneHopMore(known, links) ==
  known \cup {Append(step[1], step[2]) :
    step \in {s \in known \X Nodes :
               <<LastNode(s[1]), s[2]>> \in links /\ s[2] \notin Range(s[1])}}

\* The simple paths of up to n hops from node over the links.
SimplePaths(node, n, links) ==
  LET upTo[i \in 0 .. n] == IF i = 0 THEN {<<node>>} ELSE OneHopMore(upTo[i - 1], links)
  IN upTo[n]

SourceLabel(src) == [NoLabel EXCEPT !.path = <<src>>]

\* The factor of the swaps is S(h+1)/S(h).
CalculateExpectedThroughput(label, loss) ==
  LET h == Hops(label.path)
  IN label.expectedThroughput - loss + SwapLoss[h] - SwapLoss[h + 1]

\* newLabel: the label extended to its neighbour node.
Extended(label, node) ==
  LET loss == linkLoss[<<LastNode(label.path), node>>]
  IN [path |-> Append(label.path, node),
      expectedThroughput |-> CalculateExpectedThroughput(label, loss),
      pathWidth |-> IF label.pathWidth <= -loss THEN label.pathWidth ELSE -loss]

\* Mutant: more hops are no worse.
DominatesAnyway(label1, label2) ==
  /\ label1.expectedThroughput >= label2.expectedThroughput
  /\ label1.pathWidth >= label2.pathWidth

Dominates(label1, label2) ==
  /\ label1.expectedThroughput >= label2.expectedThroughput
  /\ label1.pathWidth >= label2.pathWidth
  /\ Hops(label1.path) <= Hops(label2.path)

IsEdgeAvailable(link) == <<link[1], link[2]>> \in availableEdges \/ <<link[2], link[1]>> \in availableEdges

\* The neighbours a label at node is extended to.
FreeNeighbors(node) ==
  {next \in availableNodes :
     /\ <<node, next>> \in Pairs
     /\ linkLoss[<<node, next>>] # NoLink
     /\ IsEdgeAvailable(<<node, next>>)}

(***************************************************************************)
(* ExtendedDijkstra                                                        *)
(***************************************************************************)
\* The neighbours at which no label dominates the extended one.
Admitted(label) ==
  {next \in FreeNeighbors(LastNode(label.path)) :
     \A old \in paretoLabels[next] : ~Dominates(old, Extended(label, next))}

\* Mutant: one hop too many.
WithinOneMore(label) == Hops(label.path) <= config.maxHops

WithinHops(label) == Hops(label.path) < config.maxHops

WithLabel(labels, label) == {old \in labels : ~Dominates(label, old)} \cup {label}

StartSearch(i, requests) ==
  LET src == requests[i][1]
  IN /\ index' = i
     /\ queue' = {SourceLabel(src)}
     /\ paretoLabels' = [NoLabels EXCEPT ![src] = {SourceLabel(src)}]

IsBest(label) ==
  /\ label # NoLabel
  /\ bestLabel = NoLabel \/ label.expectedThroughput > bestLabel.expectedThroughput

\* The search for one request is over; the next one begins, or the selection.
SearchDone(label) ==
  /\ bestLabel' = IF IsBest(label) THEN label ELSE bestLabel
  /\ bestIndex' = IF IsBest(label) THEN index ELSE bestIndex
  /\ IF index < Len(remaining)
     THEN StartSearch(index + 1, remaining) /\ UNCHANGED pc
     ELSE pc' = "select" /\ index' = 0 /\ queue' = {} /\ paretoLabels' = NoLabels

\* Every admitted extension is queued, and drops the labels it dominates.
Expand(label) ==
  LET next == IF WithinHops(label) THEN Admitted(label) ELSE {}
  IN /\ queue' = (queue \ {label}) \cup {Extended(label, node) : node \in next}
     /\ paretoLabels' =
          [node \in Nodes |->
             IF node \in next THEN WithLabel(paretoLabels[node], Extended(label, node))
             ELSE paretoLabels[node]]
     /\ UNCHANGED <<pc, index, bestLabel, bestIndex>>

\* Labels are taken by their throughput; those that were dominated since are
\* not left out.
PopLabel(label) ==
  /\ pc = "eda"
  /\ label \in queue
  /\ \A other \in queue : other.expectedThroughput <= label.expectedThroughput
  /\ IF LastNode(label.path) = remaining[index][2] THEN SearchDone(label) ELSE Expand(label)
  /\ UNCHANGED <<tables, paths, base, remaining, resources>>

NoPath ==
  /\ pc = "eda"
  /\ queue = {}
  /\ SearchDone(NoLabel)
  /\ UNCHANGED <<tables, paths, base, remaining, resources>>

(***************************************************************************)
(* Recovery paths                                                          *)
(***************************************************************************)
\* The parts of the path a recovery path is looked for: from its i-th to its
\* j-th node.
Spans(path) ==
  {span \in (1 .. Len(path)) \X (1 .. Len(path)) :
     span[1] + 2 <= span[2] /\ span[2] <= span[1] + config.kHop}

SpanLinks(path, span) == {<<path[k], path[k + 1]>> : k \in span[1] .. span[2] - 1}

\* bfsEdges
EdgesAround(path, span) == availableEdges \ BothWays(SpanLinks(path, span))

LinksAround(path, span) ==
  {link \in Pairs :
     /\ linkLoss[link] # NoLink
     /\ link[2] \in availableNodes
     /\ {link, <<link[2], link[1]>>} \cap EdgesAround(path, span) # {}}

\* Mutant: they end a node early.
DetoursToLastInner(path, span) ==
  {detour \in SimplePaths(path[span[1]], config.maxHops - 1, LinksAround(path, span)) :
     LastNode(detour) = path[span[2] - 1]}

\* The simple paths between the ends of the part over the edges that are left.
Detours(path, span) ==
  {detour \in SimplePaths(path[span[1]], config.maxHops - 1, LinksAround(path, span)) :
     LastNode(detour) = path[span[2]]}

\* FindRecoveryPathBFS returns one of the shortest.
FindRecoveryPathBFS(path, span) ==
  {detour \in Detours(path, span) :
     \A other \in Detours(path, span) : Len(detour) <= Len(other)}

\* Every way to have a recovery path for each part that has one.
DiscoverRecoveryPaths(path) ==
  LET spans == {span \in Spans(path) : Detours(path, span) # {}}
  IN {recovery \in [spans -> UNION {FindRecoveryPathBFS(path, span) : span \in spans}] :
        \A span \in spans : recovery[span] \in FindRecoveryPathBFS(path, span)}

(***************************************************************************)
(* CalculateRoutesGEDA                                                     *)
(***************************************************************************)
\* How many of the paths lead over node.
Uses(node, path, recovery) ==
  (IF node \in {path[i] : i \in DOMAIN path} THEN 1 ELSE 0)
    + Cardinality({span \in DOMAIN recovery :
                     node \in {recovery[span][i] : i \in DOMAIN recovery[span]}})

\* Mutant: the links of the recovery paths stay free.
PrimaryLinks(path, recovery) == Links(path)

UsedLinks(path, recovery) ==
  Links(path) \cup UNION {Links(recovery[span]) : span \in DOMAIN recovery}

\* Links are consumed, and capacity by each path that uses a node. A capacity of
\* zero to begin with is never used up.
ConsumeResources(path, recovery) ==
  /\ availableEdges' = availableEdges \ BothWays(UsedLinks(path, recovery))
  /\ remainingCap' = [node \in Nodes |-> Max({0, remainingCap[node] - Uses(node, path, recovery)})]
  /\ availableNodes' = {node \in availableNodes : remainingCap[node] = 0 \/ remainingCap'[node] > 0}

Select ==
  /\ pc = "select"
  /\ bestLabel # NoLabel
  /\ LET rest == RemoveAt(remaining, bestIndex)
         path == bestLabel.path
     IN \E recovery \in DiscoverRecoveryPaths(path) :
          /\ paths' = Append(paths, [request |-> remaining[bestIndex],
                                     primaryPath |-> path,
                                     recoveryPaths |-> recovery])
          /\ ConsumeResources(path, recovery)
          /\ remaining' = rest
          /\ bestLabel' = NoLabel
          /\ bestIndex' = 0
          /\ IF rest = <<>> THEN pc' = "idle" /\ UNCHANGED search
             ELSE pc' = "eda" /\ StartSearch(1, rest)
  /\ UNCHANGED <<tables, base>>

\* No more feasible paths.
Stop ==
  /\ pc = "select"
  /\ bestLabel = NoLabel
  /\ pc' = "idle"
  /\ UNCHANGED <<tables, paths, base, remaining, resources, search, bestLabel, bestIndex>>

\* The call, with the table of link losses it works on.
StartSelection(batch, table) ==
  LET edges == {pair \in Pairs : table[pair] # NoLink}
  IN /\ Len(paths) + Len(batch) <= MaxPaths
     /\ base' = Len(paths)
     /\ remaining' = batch
     /\ availableEdges' = edges
     /\ availableNodes' = {link[1] : link \in edges} \cup {link[2] : link \in edges}
     /\ remainingCap' = [node \in Nodes |-> config.capacity]
     /\ StartSearch(1, batch)
     /\ pc' = "eda"
     /\ UNCHANGED <<config, changes, paths, bestLabel, bestIndex>>

CalculateRoutesGEDA(batch) ==
  /\ pc = "idle"
  /\ StartSelection(batch, linkLoss)
  /\ UNCHANGED <<linkLoss, initialized>>

(***************************************************************************)
(* Operations                                                              *)
(***************************************************************************)
\* What CalculateRoutesGEDA worked on is gone by the next operation.
Returned ==
  /\ pc = "idle"
  /\ remaining' = <<>>
  /\ availableNodes' = {}
  /\ availableEdges' = {}
  /\ remainingCap' = [node \in Nodes |-> 0]
  /\ UNCHANGED <<pc, search, bestLabel, bestIndex>>

\* The cache once the rates of the network layer's neighbours are in it.
WithLocalLinks ==
  [pair \in Pairs |-> IF LocalLinks[pair] # NoLink THEN LocalLinks[pair] ELSE linkLoss[pair]]

\* CalculateRoute and HasRoute. (GetRouteMetric is CalculateRoutesGEDA for one
\* request.)
CalculateRoute(request) ==
  LET table == IF initialized THEN linkLoss ELSE WithLocalLinks
  IN /\ pc = "idle"
     /\ linkLoss' = table
     /\ initialized' = TRUE
     /\ StartSelection(<<request>>, table)

Initialize ==
  /\ Returned
  /\ ~initialized
  /\ linkLoss' = WithLocalLinks
  /\ initialized' = TRUE
  /\ base' = Len(paths)
  /\ UNCHANGED <<config, paths, changes>>

\* The neighbours' rates are cached again, and the paths are dropped.
NotifyTopologyChange ==
  /\ Returned
  /\ linkLoss' = WithLocalLinks
  /\ initialized' = TRUE
  /\ paths' = <<>>
  /\ base' = 0
  /\ UNCHANGED <<config, changes>>

ChangeTable(table) ==
  /\ Returned
  /\ linkLoss' = table
  /\ base' = Len(paths)
  /\ UNCHANGED <<config, paths>>

UpdateTopology(table) ==
  /\ ChangeTable(table)
  /\ initialized' = FALSE
  /\ UNCHANGED changes

\* One change of a link, of at most MaxChanges.
ChangeLink(pair, loss) ==
  /\ changes < MaxChanges
  /\ changes' = changes + 1
  /\ ChangeTable([linkLoss EXCEPT ![pair] = loss])

AddNeighbor(pair, loss) == ChangeLink(pair, loss) /\ initialized' = FALSE

RemoveNeighbor(pair) == ChangeLink(pair, NoLink) /\ initialized' = FALSE

UpdateLinkMetrics(pair, loss) == ChangeLink(pair, loss) /\ UNCHANGED initialized

\* Another layer: what was cached of the old one is forgotten.
SetNetworkLayer ==
  /\ ChangeTable([pair \in Pairs |-> NoLink])
  /\ initialized' = FALSE
  /\ UNCHANGED changes

DoDispose ==
  /\ Returned
  /\ linkLoss' = [pair \in Pairs |-> NoLink]
  /\ paths' = <<>>
  /\ base' = 0
  /\ UNCHANGED <<config, initialized, changes>>

\* SetMaxHops, SetKHop and SetNodeCapacity.
SetAttributes(newConfig) ==
  /\ Returned
  /\ config' = newConfig
  /\ base' = Len(paths)
  /\ UNCHANGED <<linkLoss, initialized, changes, paths>>

Next ==
  \/ \E table \in Tables : UpdateTopology(table)
  \/ \E pair \in Unsteady :
       \/ RemoveNeighbor(pair)
       \/ \E loss \in Losses : AddNeighbor(pair, loss) \/ UpdateLinkMetrics(pair, loss)
  \/ Initialize \/ NotifyTopologyChange \/ SetNetworkLayer \/ DoDispose
  \/ \E newConfig \in Configs : SetAttributes(newConfig)
  \/ \E batch \in Batches : CalculateRoutesGEDA(batch) \/ CalculateRoute(batch[1])
  \/ \E label \in queue : PopLabel(label)
  \/ NoPath \/ Select \/ Stop

Spec == Init /\ [][Next]_vars

(***************************************************************************)
(* Properties                                                              *)
(***************************************************************************)
SelectedPaths == base + 1 .. Len(paths)

\* A selected path leads from the source of its request to the destination over
\* links that are known, within the hop limit, and visits no node twice: nothing
\* keeps a label from coming back to a node but that it is dominated there
\* (ExtendedDijkstra).
PathsAreRoutes ==
  \A k \in SelectedPaths :
    LET path == paths[k].primaryPath
    IN /\ <<path[1], LastNode(path)>> = paths[k].request
       /\ Hops(path) <= config.maxHops
       /\ \A link \in Links(path) : linkLoss[link] # NoLink
       /\ \A i, j \in DOMAIN path : path[i] = path[j] => i = j

AllLinks(k) ==
  BothWays(UNION {Links(path) : path \in {paths[k].primaryPath} \cup Range(paths[k].recoveryPaths)})

\* The selected paths that lead through node, or to it.
Through(node) ==
  {k \in SelectedPaths : node \in Range(paths[k].primaryPath) \ {paths[k].request[1]}}

\* No link is used by two of the paths selected together, be it by the path
\* itself or for its recovery, and no node has more of them through it, or to
\* it, than its capacity; the capacity of a source is not looked at
\* (CalculateRoutesGEDA: W_e = 1, ExtendedDijkstra).
NoContention ==
  /\ \A k, l \in SelectedPaths : k # l => AllLinks(k) \cap AllLinks(l) = {}
  /\ config.capacity > 0 =>
       \A node \in Nodes : Cardinality(Through(node)) <= config.capacity

\* The paths of up to maxHops hops over what is left, each of them simple.
FreePaths(request) ==
  LET links == {edge \in availableEdges : edge[2] \in availableNodes}
  IN {path \in SimplePaths(request[1], config.maxHops, links) : LastNode(path) = request[2]}

\* A request is left without a path only when the resources that are left have
\* none within the hop limit: a label that is longer but better must not
\* displace one that can still be extended (Dominates).
GreedyIsMaximal ==
  pc = "idle" => \A i \in DOMAIN remaining : FreePaths(remaining[i]) = {}

(***************************************************************************)
(* What every state keeps, so that the selection is right                  *)
(***************************************************************************)
Requests == {request \in Nodes \X Nodes : request[1] # request[2]}
Labels == [path : Seq(Nodes) \ {<<>>}, expectedThroughput : Int, pathWidth : Int]

TypeOK ==
  /\ config \in Configs
  /\ linkLoss \in [Pairs -> Nat \cup {NoLink}]
  /\ paths \in Seq(Range(paths))
  /\ base \in 0 .. Len(paths)
  /\ pc \in {"idle", "eda", "select"}
  /\ remaining \in Seq(Requests)
  /\ availableNodes \in SUBSET Nodes
  /\ availableEdges \in SUBSET Pairs
  /\ remainingCap \in [Nodes -> Nat]
  /\ queue \in SUBSET Labels
  /\ paretoLabels \in [Nodes -> SUBSET Labels]
  /\ bestLabel \in Labels \cup {NoLabel}

InSearch ==
  /\ IF pc = "eda" THEN index \in DOMAIN remaining ELSE queue = {}
  /\ IF pc = "idle" THEN bestLabel = NoLabel ELSE remaining # <<>>
  /\ bestLabel # NoLabel => bestIndex \in DOMAIN remaining

\* path is one for the request over what has not been consumed.
IsFree(request, path) ==
  /\ path[1] = request[1]
  /\ Hops(path) <= config.maxHops
  /\ \A i \in 1 .. Hops(path) : path[i + 1] \in FreeNeighbors(path[i])
  /\ \A i, j \in DOMAIN path : path[i] = path[j] => i = j

LabelsAreFree ==
  /\ \A label \in queue : IsFree(remaining[index], label.path)
  /\ bestLabel # NoLabel =>
       /\ IsFree(remaining[bestIndex], bestLabel.path)
       /\ LastNode(bestLabel.path) = remaining[bestIndex][2]

\* No label may come back to a node it has been at: one that is kept there
\* dominates it, whatever was dropped since.
NoWayBack ==
  \A label \in queue : \A i \in DOMAIN label.path :
    \E old \in paretoLabels[label.path[i]] : Dominates(old, label)

\* Some label at node took no more than so many hops.
ReachedWithin(node, hops) == \E label \in paretoLabels[node] : Hops(label.path) <= hops

\* A label that is kept is still queued or has been expanded: each neighbour has a
\* label that is no longer than the extended one, if not that itself.
KeptAreExpanded ==
  pc = "eda" =>
    /\ ReachedWithin(remaining[index][1], 0)
    /\ paretoLabels[remaining[index][2]] \subseteq queue
    /\ \A node \in Nodes : \A label \in paretoLabels[node] :
         /\ LastNode(label.path) = node
         /\ \/ label \in queue
            \/ ~WithinHops(label)
            \/ \A next \in FreeNeighbors(node) : ReachedWithin(next, Hops(label.path) + 1)

\* While none is found, the requests that have been searched for have no path.
SearchedInVain ==
  bestLabel = NoLabel =>
    \A i \in DOMAIN remaining :
      pc # "eda" \/ i < index => FreePaths(remaining[i]) = {}

\* What the selected paths use is not free any more, and what they leave of the
\* capacities is not more than there is.
NothingUsedIsFree ==
  /\ \A edge \in availableEdges : linkLoss[edge] # NoLink
  /\ \A k \in SelectedPaths : AllLinks(k) \cap BothWays(availableEdges) = {}
  /\ config.capacity > 0 =>
       \A node \in Nodes :
         /\ Cardinality(Through(node)) + remainingCap[node] <= config.capacity
         /\ node \in availableNodes => remainingCap[node] > 0

IInv ==
  /\ TypeOK
  /\ InSearch
  /\ LabelsAreFree
  /\ NoWayBack
  /\ KeptAreExpanded
  /\ SearchedInVain
  /\ NothingUsedIsFree
  /\ PathsAreRoutes
  /\ NoContention
=============================================================================
