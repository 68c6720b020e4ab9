---------------------------- MODULE RecoveryStudy ----------------------------
(***************************************************************************)
(* What becomes of the paths that QCast selects when links fail: the       *)
(* recovery rings that ExecuteXORRecovery activates, and the requests that *)
(* dijkstra-vs-qcast.cc simulates on one realisation of the links, with    *)
(* its own greedy cover of the failures and the path it puts together.     *)
(*                                                                         *)
(* Density matrices and delays are left out: a request succeeds or fails   *)
(* before they are computed.                                               *)
(***************************************************************************)
EXTENDS QCast

CONSTANT MaxFailures   \* bound: links that fail at once

ASSUME MaxFailuresAssumption == MaxFailures \in Nat

ASSUME NodesAssumption == IsFiniteSet(Nodes)

VARIABLE record   \* the RequestRecord of the request just simulated

studyVars == <<vars, record>>

NoRecord ==
  [protocol |-> "none", request |-> <<>>, path |-> <<>>, selected |-> <<>>, rings |-> {},
   uncovered |-> {}, up |-> {}, succeeded |-> FALSE]

StudyInit == Init /\ record = NoRecord

(***************************************************************************)
(* Links                                                                   *)
(***************************************************************************)
Undirected(links) == {{link[1], link[2]} : link \in links}

KnownLinks == {pair \in Pairs : linkLoss[pair] # NoLink}

\* GenerateLinkStates draws once for both directions of a link.
LinkStates ==
  {{link \in KnownLinks : {link[1], link[2]} \notin down} :
     down \in UNION {kSubset(n, Undirected(KnownLinks)) : n \in 0 .. MaxFailures}}

\* The routes there are for a request.
Routes(request) ==
  {path \in SimplePaths(request[1], Cardinality(Nodes) - 1, KnownLinks) :
     LastNode(path) = request[2]}

\* SimulatePath: every link of the path is up.
SimulatePath(path, up) == Len(path) >= 2 /\ Links(path) \subseteq up

(***************************************************************************)
(* Recovery rings                                                          *)
(***************************************************************************)
\* The links of a path by the index of their first node.
FailedLinks(path, up) == {i \in 1 .. Hops(path) : <<path[i], path[i + 1]>> \notin up}

Covered(ring) == ring[1] .. ring[2] - 1

\* Every ring around a failed link, whether the rings overlap or not.
ActiveRings(path, failed) ==
  {ring \in DOMAIN path.recoveryPaths : failed \cap Covered(ring) # {}}

\* A ring is used when it overlaps none in use, covers a failure that is not
\* covered yet and its own links are up.
CanActivate(path, up, state, ring) ==
  /\ \A other \in state.rings : ~(ring[1] < other[2] /\ other[1] < ring[2])
  /\ state.uncovered \cap Covered(ring) # {}
  /\ Links(path.recoveryPaths[ring]) \subseteq up

CoverStep(path, up, state, ring) ==
  IF CanActivate(path, up, state, ring)
  THEN [rings |-> state.rings \cup {ring}, uncovered |-> state.uncovered \ Covered(ring)]
  ELSE state

\* The rings by descending span, those of one span in any order.
SortedRings(path) ==
  {rings \in SetToSeqs(DOMAIN path.recoveryPaths) :
     \A i \in 1 .. Len(rings) - 1 :
       rings[i][2] - rings[i][1] >= rings[i + 1][2] - rings[i + 1][1]}

\* The greedy cover of the failed links.
GreedyCover(path, up, sorted) ==
  LET upTo[i \in 0 .. Len(sorted)] ==
        IF i = 0 THEN [rings |-> {}, uncovered |-> FailedLinks(path.primaryPath, up)]
        ELSE CoverStep(path, up, upTo[i - 1], sorted[i])
  IN upTo[Len(sorted)]

\* The path so far and its next part, which begins with the node that is last so far.
Joined(done, part) == IF done = <<>> THEN part ELSE done \o Tail(part)

\* The path so far at the i-th node of the primary path: a ring that begins here puts its
\* recovery path, and the nodes within a ring are left out.
CompositeStep(path, rings, done, i) ==
  LET begins == {ring \in rings : ring[1] = i}
      node == path.primaryPath[i]
  IN IF \E ring \in rings : i \in ring[1] + 1 .. ring[2] - 1 THEN done
     ELSE IF begins # {} THEN Joined(done, path.recoveryPaths[CHOOSE ring \in begins : TRUE])
     ELSE IF done # <<>> /\ LastNode(done) = node THEN done
     ELSE Append(done, node)

\* The path of the pair: along the primary path, but where a ring begins along its recovery
\* path.
CompositePath(path, rings) ==
  LET upTo[i \in 0 .. Len(path.primaryPath)] ==
        IF i = 0 THEN <<>> ELSE CompositeStep(path, rings, upTo[i - 1], i)
  IN upTo[Len(path.primaryPath)]

(***************************************************************************)
(* Operations                                                              *)
(***************************************************************************)
\* One request of RunComparison, or of the caller of ExecuteXORRecovery, is
\* recorded once the call that selected its path has returned; no link has been
\* changed, and no other selection made, since the topology was given.
Record(new) ==
  /\ pc = "idle" /\ record = NoRecord /\ changes = 0 /\ base = 0
  /\ record' = new
  /\ UNCHANGED vars

\* DijkstraRoutingProtocol's route for the same request: some simple path.
SimulateDijkstraRequest ==
  \E k \in SelectedPaths, up \in LinkStates :
    \E route \in Routes(paths[k].request) :
      Record([NoRecord EXCEPT !.protocol = "Dijkstra", !.request = paths[k].request,
                              !.path = route, !.up = up, !.succeeded = SimulatePath(route, up)])

SimulateQCastRequest ==
  \E k \in SelectedPaths, up \in LinkStates :
    \E sorted \in SortedRings(paths[k]) :
      LET cover == GreedyCover(paths[k], up, sorted)
          path == CompositePath(paths[k], cover.rings)
      IN Record([NoRecord EXCEPT !.protocol = "QCAST", !.request = paths[k].request,
                                 !.path = path, !.rings = cover.rings,
                                 !.uncovered = cover.uncovered, !.up = up,
                                 !.succeeded = cover.uncovered = {} /\ SimulatePath(path, up)])

ExecuteXORRecovery ==
  \E k \in SelectedPaths, up \in LinkStates :
    Record([NoRecord EXCEPT !.protocol = "XOR", !.request = paths[k].request,
                            !.selected = paths[k], !.up = up,
                            !.rings = ActiveRings(paths[k], FailedLinks(paths[k].primaryPath, up))])

\* The record is filed.
FileRecord ==
  /\ record # NoRecord
  /\ record' = NoRecord
  /\ UNCHANGED vars

StudyNext ==
  \/ record = NoRecord /\ Next /\ UNCHANGED record
  \/ SimulateDijkstraRequest \/ SimulateQCastRequest \/ ExecuteXORRecovery \/ FileRecord

StudySpec == StudyInit /\ [][StudyNext]_studyVars

(***************************************************************************)
(* Properties                                                              *)
(***************************************************************************)
\* The links of a ring: those of the primary path that it covers, and its own.
RingLinks(path, ring) ==
  Undirected(SpanLinks(path.primaryPath, ring) \cup Links(path.recoveryPaths[ring]))

\* The links that the primary path and the rings use an odd number of times.
XorLinks(path, rings) ==
  LET uses(link) ==
        Cardinality({ring \in rings : link \in RingLinks(path, ring)})
          + (IF link \in Undirected(Links(path.primaryPath)) THEN 1 ELSE 0)
  IN {link \in Undirected(Pairs) : uses(link) % 2 = 1}

\* A request that is recorded as succeeded has a path from its source to its
\* destination over links that are up: what the recovery paths are put together to is a
\* path (SimulateQCastRequest). Whatever rings are activated together, overlapping ones
\* too, the links that they and the primary path do not use twice lead from the source
\* to the destination: an odd number of them meets at the two ends, an even number at
\* every other node (DiscoverRecoveryPaths, ExecuteXORRecovery).
RecoveryConnects ==
  /\ record.succeeded =>
       /\ <<record.path[1], LastNode(record.path)>> = record.request
       /\ Links(record.path) \subseteq record.up
  /\ record.protocol = "XOR" =>
       \A node \in Nodes :
         (Cardinality({link \in XorLinks(record.selected, record.rings) : node \in link}) % 2 = 1)
           <=> node \in Range(record.request)

\* "Composite path: concatenate non-replaced primary segments and recovery
\* sub-paths": once the rings in use cover every failure, the request succeeds
\* (SimulateQCastRequest).
CoveredSucceeds ==
  record.protocol = "QCAST" /\ record.uncovered = {} => record.succeeded

(***************************************************************************)
(* What every state keeps, so that recovery connects                       *)
(***************************************************************************)
\* path is one over pairs that may be linked, and visits no node twice.
IsSimple(path) ==
  /\ path \in Seq(Nodes) \ {<<>>}
  /\ Links(path) \subseteq Pairs
  /\ \A i, j \in DOMAIN path : path[i] = path[j] => i = j

\* detour leads from one node of the path to a later one over none of the links between them.
IsRing(path, ring, detour) ==
  /\ ring \in (1 .. Len(path)) \X (1 .. Len(path)) /\ ring[1] < ring[2]
  /\ IsSimple(detour)
  /\ detour[1] = path[ring[1]] /\ LastNode(detour) = path[ring[2]]
  /\ Links(detour) \cap BothWays(SpanLinks(path, ring)) = {}

\* A path with its recovery paths is a path between two nodes and rings around its parts.
GoesAround(selected) ==
  LET path == selected.primaryPath
      recovery == selected.recoveryPaths
  IN /\ IsSimple(path)
     /\ selected.request = <<path[1], LastNode(path)>> /\ path[1] # LastNode(path)
     /\ \A ring \in DOMAIN recovery : IsRing(path, ring, recovery[ring])

RingsGoAround == \A k \in DOMAIN paths : GoesAround(paths[k])

StudyIInv == IInv /\ RingsGoAround /\ RecoveryConnects
=============================================================================
