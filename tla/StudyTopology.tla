---------------------------- MODULE StudyTopology ----------------------------
(***************************************************************************)
(* The networks the studies run on: GenerateTopology and                   *)
(* LoadTopologyZooGraphml of the dijkstra-vs-sliced studies, with the      *)
(* choice of a pair of nodes and the repetition of a run whose routes are  *)
(* too long, the generators of QuantumTopologyHelper and                   *)
(* QuantumMismatchTopologyHelper, and the search of the mismatch example.  *)
(*                                                                         *)
(* A random draw is a choice of any outcome it can have. Positions are     *)
(* points of a grid, and distances are compared by their squares. Qualities*)
(* of links are left out, but in the mismatch topology, so a routing       *)
(* protocol may return any simple route.                                   *)
(***************************************************************************)
EXTENDS Integers, SequencesExt, FiniteSetsExt

CONSTANT Studies   \* the settings of the programs

VARIABLES
  study,       \* the settings
  stage,       \* what the program does next
  local,       \* localTopology: the links without the long ones
  links,       \* the links
  pushed,      \* the records of links that have been pushed: m_edges, or longLinks
  candidates,  \* candidates for long links that have not been tried
  result       \* source, destination, routes, what was simulated, and m_edgeProps

topology == <<local, links, pushed, candidates>>
vars == <<study, stage, topology, result>>

Nodes == 1 .. study.nodes
PairsOf(S) == {{a, b} : a, b \in S} \ {{a} : a \in S}

\* The nodes a set of links joins to node n.
Neighbors(T, n) == {m \in Nodes : {m, n} \in T /\ m # n}

\* The hops from the reached nodes to node b when h have been taken: the breadth-first
\* search. It ends with as many hops as there are nodes when there is no path.
RECURSIVE HopsTo(_, _, _, _)
HopsTo(T, reached, b, h) ==
  IF b \in reached THEN h
  ELSE IF h = study.nodes THEN h
  ELSE HopsTo(T, reached \cup UNION {Neighbors(T, n) : n \in reached}, b, h + 1)

HopTable(T) == [a \in Nodes |-> [b \in Nodes |-> HopsTo(T, {a}, b, 0)]]

\* ShortestPathByHops finds a path.
Reaches(hop, a, b) == hop[a][b] < study.nodes
Connected(T) == LET hop == HopTable(T) IN \A n \in Nodes : Reaches(hop, 1, n)

Square(n) == n * n
Distance2(a, b) ==
  LET p == study.at[a]  q == study.at[b] IN Square(p[1] - q[1]) + Square(p[2] - q[2])
XOf(n) == study.at[n][1]

\* AddBidirectionalLink: neither loops nor a second link.
AddBidirectionalLink(T, a, b) == IF a = b THEN T ELSE T \cup {{a, b}}

Blank ==
  [src |-> 0, dst |-> 0, routes |-> <<>>, success |-> FALSE, simulated |-> {}, seeds |-> 1,
   props |-> <<>>]

Init ==
  /\ study \in Studies
  /\ stage = "generate"
  /\ local = {} /\ links = {} /\ pushed = <<>> /\ candidates = {}
  /\ result = Blank

At(s, kinds) == stage = s /\ study.kind \in kinds

-----------------------------------------------------------------------------
(* GenerateTopology: node 1 is the source and node 2 the destination.      *)

\* The localK nodes that are nearest to n, the first in name among equals.
Nearest(n) ==
  {m \in Nodes \ {n} :
     Cardinality({o \in Nodes \ {n} :
                    \/ Distance2(n, o) < Distance2(n, m)
                    \/ Distance2(n, o) = Distance2(n, m) /\ o < m}) < study.localK}

\* Every two nodes within the radius may be linked, and every node is to its nearest.
DrawLocalLinks ==
  /\ At("generate", {"random"})
  /\ \E drawn \in SUBSET {l \in PairsOf(Nodes) :
                            \A a, b \in l : Distance2(a, b) <= Square(study.radius)} :
       local' = drawn \cup UNION {{{n, m} : m \in Nearest(n)} : n \in Nodes}
  /\ links' = local'
  /\ stage' = "connect"
  /\ UNCHANGED <<study, pushed, candidates, result>>

\* The closest pairs of nodes of different components.
Closest(hop) ==
  LET apart == {p \in Nodes \X Nodes : ~ Reaches(hop, p[1], p[2])}
  IN {p \in apart : \A q \in apart : Distance2(p[1], p[2]) <= Distance2(q[1], q[2])}

\* ConnectLocalComponents: one round of its loop.
ConnectLocalComponents ==
  /\ At("connect", {"random"})
  /\ ~ Connected(local)
  /\ \E p \in Closest(HopTable(local)) :
       /\ local' = AddBidirectionalLink(local, p[1], p[2])
       /\ links' = AddBidirectionalLink(links, p[1], p[2])
  /\ UNCHANGED <<study, stage, pushed, candidates, result>>

\* Where a long link may go: to the right, far enough, and where there is no link.
MayBeLong(a, b) ==
  /\ XOf(a) <= study.maxStartX /\ XOf(b) <= study.maxEndX
  /\ XOf(b) > XOf(a) + study.minProgress
  /\ Distance2(a, b) >= Square(study.minDistance)
  /\ {a, b} \notin links

CollectCandidates ==
  /\ At("connect", {"random"})
  /\ Connected(local)
  /\ candidates' = {p \in Nodes \X Nodes : p[1] # p[2] /\ 2 \notin {p[1], p[2]} /\ MayBeLong(p[1], p[2])}
  /\ stage' = "long"
  /\ UNCHANGED <<study, local, links, pushed, result>>

-----------------------------------------------------------------------------
(* LoadTopologyZooGraphml.                                                 *)

\* The edges of the file whose ends are nodes of it.
LoadTopologyZooGraphml ==
  /\ At("generate", {"zoo"})
  /\ local' = {{e[1], e[2]} : e \in {e \in study.edges : {e[1], e[2]} \subseteq Nodes /\ e[1] # e[2]}}
  /\ links' = local'
  /\ stage' = "satellites"
  /\ UNCHANGED <<study, pushed, candidates, result>>

CollectSatellites ==
  /\ At("satellites", {"zoo"})
  /\ LET hop == HopTable(local)
     IN candidates' =
          {p \in Nodes \X Nodes :
             /\ p[1] # p[2] /\ MayBeLong(p[1], p[2])
             /\ Reaches(hop, p[1], p[2]) /\ hop[p[1]][p[2]] >= study.minGraphHops}
  /\ stage' = "long"
  /\ UNCHANGED <<study, local, links, pushed, result>>

\* The long links a node has.
SatelliteDegree(n) == Cardinality({k \in DOMAIN pushed : n \in {pushed[k][1], pushed[k][2]}})

\* Mutant: the degree is checked on one side only.
LeftDegreeAllows(c) == study.maxDegree > 0 => SatelliteDegree(c[1]) < study.maxDegree

DegreeAllows(c) ==
  study.maxDegree > 0 => \A n \in {c[1], c[2]} : SatelliteDegree(n) < study.maxDegree

\* The candidates in any order; the sources of random draws order them.
AddLongLink ==
  /\ At("long", {"random", "zoo"})
  /\ Len(pushed) < study.longLinks
  /\ \E c \in candidates :
       /\ candidates' = candidates \ {c}
       /\ IF study.kind = "zoo" /\ ~ DegreeAllows(c) THEN UNCHANGED <<links, pushed>>
          ELSE /\ links' = AddBidirectionalLink(links, c[1], c[2])
               /\ pushed' = Append(pushed, c)
  /\ UNCHANGED <<study, stage, local, result>>

AllLongLinks == Len(pushed) >= study.longLinks \/ candidates = {}

\* The pairs that may be drawn, and the first that serves when none of them was.
PairCandidates(hop) ==
  LET short == {p \in Nodes \X Nodes :
                  p[1] # p[2] /\ Reaches(hop, p[1], p[2]) /\ hop[p[1]][p[2]] <= study.maxHops}
      first == {p \in short : \A q \in short : p[1] < q[1] \/ (p[1] = q[1] /\ p[2] <= q[2])}
  IN {p \in short : hop[p[1]][p[2]] >= study.minHops} \cup first

\* The source and the destination; the program cannot go on without.
ChoosePair ==
  /\ At("long", {"random", "zoo"}) /\ AllLongLinks
  /\ \/ /\ study.kind = "random"
        /\ result' = [result EXCEPT !.src = 1, !.dst = 2]
        /\ stage' = "route"
     \/ /\ study.kind = "zoo"
        /\ \E p \in PairCandidates(HopTable(local)) : result' = [result EXCEPT !.src = p[1], !.dst = p[2]]
        /\ stage' = "route"
     \/ /\ study.kind = "zoo" /\ PairCandidates(HopTable(local)) = {}
        /\ stage' = "fatal" /\ UNCHANGED result
  /\ UNCHANGED <<study, topology>>

-----------------------------------------------------------------------------
(* RunOne and RunOneTopologyZoo.                                           *)

\* The simple routes from a to b.
Routes(a, b) ==
  LET grown[h \in 0 .. study.nodes - 1] ==
        IF h = 0 THEN {<<a>>}
        ELSE LET shorter == grown[h - 1]
             IN shorter \cup UNION {{Append(r, n) : n \in Neighbors(links, Last(r)) \ Range(r)}
                                   : r \in {r \in shorter : Last(r) # b}}
  IN {r \in grown[study.nodes - 1] : Last(r) = b}

HopsOf(r) == Len(r) - 1

Finished(rs, ran, simulated) ==
  /\ result' = [result EXCEPT !.routes = rs, !.success = ran, !.simulated = simulated]
  /\ stage' = "done"
  /\ UNCHANGED topology

\* Both protocols compute a route. The second is simulated when it differs.
RunOne ==
  /\ At("route", {"random"})
  /\ \E rs \in LET routes == Routes(result.src, result.dst) IN routes \X routes :
       Finished(rs, TRUE, ToSet(rs))
  /\ UNCHANGED study

\* Mutant: only the route of the first protocol may be too long.
FirstTooLong(rs) == HopsOf(rs[1]) > study.maxHops

TooLong(rs) == \E k \in DOMAIN rs : HopsOf(rs[k]) > study.maxHops

\* When a route is too long, all starts again with another seed, or the run has failed
\* when that has been done often enough.
RunOneTopologyZoo ==
  /\ At("route", {"zoo"})
  /\ \E rs \in LET routes == Routes(result.src, result.dst) IN routes \X routes :
       \/ ~ TooLong(rs) /\ Finished(rs, TRUE, ToSet(rs))
       \/ /\ TooLong(rs) /\ result.seeds <= study.retries
          /\ result' = [Blank EXCEPT !.seeds = result.seeds + 1]
          /\ stage' = "generate"
          /\ local' = {} /\ links' = {} /\ pushed' = <<>> /\ candidates' = {}
       \/ TooLong(rs) /\ result.seeds > study.retries /\ Finished(rs, FALSE, {})
  /\ UNCHANGED study

-----------------------------------------------------------------------------
(* QuantumTopologyHelper: m_edges has a record for each link.              *)

Helped(ls, records) ==
  /\ local' = ls /\ links' = ls
  /\ pushed' = records
  /\ stage' = "done"
  /\ UNCHANGED <<study, candidates, result>>

\* The loop over i and the greater j.
RecordsOf(ls) ==
  LET n == study.nodes
      loop == [k \in 1 .. n * n |-> <<((k - 1) \div n) + 1, ((k - 1) % n) + 1>>]
  IN SelectSeq(loop, LAMBDA e : e[1] < e[2] /\ {e[1], e[2]} \in ls)

GenerateRandomGeometric ==
  At("generate", {"geometric"}) /\ LET near == {l \in PairsOf(Nodes) : \A a, b \in l : Distance2(a, b) <= Square(study.radius)}
  IN Helped(near, RecordsOf(near))

GenerateErdosRenyi ==
  At("generate", {"erdos"}) /\ \E ls \in SUBSET PairsOf(Nodes) : Helped(ls, RecordsOf(ls))

\* The clique GenerateScaleFree starts with: the minimum is 2 or one less than all.
Clique ==
  LET m0 == IF study.nodes <= 3 THEN Min({2, study.nodes - 1}) ELSE 3 IN 1 .. m0

\* GenerateScaleFree: the next node is linked to two earlier ones, drawn among those
\* that have links.
GenerateScaleFree ==
  /\ At("generate", {"scalefree"})
  /\ IF candidates = {}
     THEN /\ links' = PairsOf(Clique)
          /\ pushed' = RecordsOf(links')
          /\ candidates' = Nodes \ Clique
          /\ stage' = IF Clique = Nodes THEN "done" ELSE stage
     ELSE LET n == Min(candidates)
              linked == {m \in 1 .. n - 1 : Neighbors(links, m) # {}}
          IN /\ \E targets \in kSubset(Min({2, Cardinality(linked)}), linked) :
                  /\ links' = links \cup {{n, m} : m \in targets}
                  /\ pushed' = pushed \o SetToSeq({<<n, m>> : m \in targets})
             /\ candidates' = candidates \ {n}
             /\ stage' = IF candidates' = {} THEN "done" ELSE stage
  /\ local' = links'
  /\ UNCHANGED <<study, result>>

\* The search of m_edges for a link.
EdgeExists(a, b) == \E k \in DOMAIN pushed : pushed[k] \in {<<a, b>>, <<b, a>>}

\* GenerateGridRandom: the grid, ...
GenerateGrid ==
  /\ At("generate", {"grid"})
  /\ LET beside == {l \in PairsOf(Nodes) : \A a, b \in l : a = b \/ Distance2(a, b) = 1}
     IN links' = beside /\ local' = beside /\ pushed' = RecordsOf(beside)
  /\ candidates' = 1 .. study.nodes \div 2
  /\ stage' = "extra"
  /\ UNCHANGED <<study, result>>

\* ... and a draw of two nodes for half the nodes, which may be in vain.
AddRandomEdge ==
  /\ At("extra", {"grid"})
  /\ \/ /\ candidates # {}
        /\ candidates' = candidates \ {Min(candidates)}
        /\ \E a, b \in Nodes :
             IF a = b \/ EdgeExists(a, b) THEN UNCHANGED <<links, local, pushed>>
             ELSE /\ links' = links \cup {{a, b}} /\ local' = links'
                  /\ pushed' = Append(pushed, <<a, b>>)
        /\ UNCHANGED stage
     \/ candidates = {} /\ stage' = "done" /\ UNCHANGED topology
  /\ UNCHANGED <<study, result>>

-----------------------------------------------------------------------------
(* QuantumMismatchTopologyHelper::Generate, and FindMismatchDiamond of the *)
(* mismatch example. Success rates are in hundredths, delays in            *)
(* milliseconds. The backbone has the six nodes after the drawn ones.      *)

Low == 5
High == 500

\* The links that may be drawn, as many of them as there are at least.
Drawable == {ls \in SUBSET {{e[1], e[2]} : e \in study.edges} : Cardinality(ls) >= study.atLeast}

\* The chain that is added when there are fewer links than it has.
ChainOf(perm) == {{perm[k], perm[k + 1]} : k \in 1 .. Len(perm) - 1}

GenerateMismatch ==
  At("generate", {"mismatch"}) /\ \E drawn \in Drawable :
    LET sparse == Cardinality(drawn) < study.nodes - 1
    IN \E perm \in IF sparse THEN SetToSeqs(Nodes) ELSE {[n \in Nodes |-> n]} :
         LET chain == SelectSeq([k \in 1 .. study.nodes - 1 |-> <<perm[k], perm[k + 1]>>],
                                LAMBDA e : {e[1], e[2]} \notin drawn)
         IN /\ links' = IF sparse THEN drawn \cup ChainOf(perm) ELSE drawn
            /\ pushed' = RecordsOf(drawn) \o IF sparse THEN chain ELSE <<>>
            /\ local' = links'
            /\ stage' = "traps"
            /\ UNCHANGED <<study, candidates, result>>

EdgeProps(trap, rate, delay) == [trap |-> trap, rate |-> rate, delay |-> delay]

NumTrap == Max({1, (study.trapShare * Cardinality(links) + 50) \div 100})

\* The nodes of the backbone: trapSrc, trapRelay, hwySrc, hwyRelay, garbagePivot, Dst.
Bone(k) == study.nodes + k
Backbone ==
  << <<Bone(1), Bone(2)>>, <<Bone(2), Bone(5)>>, <<Bone(3), Bone(4)>>, <<Bone(4), Bone(5)>>,
     <<Bone(5), Bone(6)>> >>
BackboneProps ==
  << EdgeProps(TRUE, 95, Low), EdgeProps(FALSE, 95, High), EdgeProps(FALSE, 90, Low),
     EdgeProps(FALSE, 90, Low), EdgeProps(FALSE, 90, Low) >>

\* Some of the links are made traps, and the backbone is added.
AssignTraps ==
  /\ At("traps", {"mismatch"})
  /\ \E traps \in kSubset(Min({NumTrap, Cardinality(links)}), links) :
       \E rates \in [links -> study.rates] :
         LET drawn == [l \in links |-> IF l \in traps THEN EdgeProps(TRUE, 95, High)
                                       ELSE EdgeProps(FALSE, rates[l], Low)]
             bone == IF study.inject THEN ToSet(Backbone) ELSE {}
             boneProps == [l \in {ToSet(e) : e \in bone} |->
                             BackboneProps[CHOOSE k \in 1 .. 5 : ToSet(Backbone[k]) = l]]
         IN /\ \A l \in traps : rates[l] = Min(study.rates)   \* their rates are not drawn
            /\ result' = [result EXCEPT !.props = drawn @@ boneProps]
            /\ links' = DOMAIN result'.props
            /\ pushed' = IF study.inject THEN pushed \o Backbone ELSE pushed
  /\ local' = links'
  /\ stage' = "diamond"
  /\ UNCHANGED <<study, candidates>>

\* Both ends of a trap are perfect.
IsPerfectNode(n) == \E l \in links : n \in l /\ result.props[l].trap

\* The ways to the pivot of one and of two hops, other than from the destination. For the
\* one hop the relay is the source.
WaysTo(pivot, dst) ==
  LET joined(a, b) == {a, b} \in links
      relays == {n \in UNION links \ {pivot, dst} : joined(n, pivot)}
  IN {[src |-> w[1], relay |-> w[2], pivot |-> pivot, dst |-> dst] :
        w \in {w \in (UNION links \ {pivot, dst}) \X relays :
                 w[1] = w[2] \/ joined(w[1], w[2])}}

DirectHop(way) == way.src = way.relay
LastHop(way) == result.props[{way.relay, way.pivot}]
HasTrap(way) ==
  LastHop(way).trap \/ (~ DirectHop(way) /\ result.props[{way.src, way.relay}].trap)

\* etApprox: the product of the rates and the factor for the hops, in thousandths.
\* What is left out for a direct hop is the rate of its link, which stands first.
EtApprox(way) ==
  LET shared == result.props[{way.pivot, way.dst}].rate
  IN IF DirectHop(way) THEN 10000 * shared * 933
     ELSE result.props[{way.src, way.relay}].rate * LastHop(way).rate * shared * 840

\* Mutant: the delays of the two ways are not compared.
PreferredOnly(tc, hc) == EtApprox(tc) > EtApprox(hc)

\* Q-CAST prefers the way with the trap, although its signal takes longer.
PreferredButSlow(tc, hc) ==
  EtApprox(tc) > EtApprox(hc) /\ LastHop(tc).delay > LastHop(hc).delay

\* The pairs of ways through the link that make a diamond.
Diamonds(e) ==
  LET ways == IF result.props[ToSet(e)].trap \/ IsPerfectNode(e[1]) THEN {} ELSE WaysTo(e[1], e[2])
  IN {d \in ways \X ways :
        /\ HasTrap(d[1]) /\ ~ HasTrap(d[2])
        /\ d[1].src # d[2].src
        /\ d[1].relay = d[2].relay => DirectHop(d[1])
        /\ PreferredButSlow(d[1], d[2])}

\* The first in the orders of both lists of candidates.
BestOf(ds) ==
  LET withTrap == {d \in ds : \A o \in ds : EtApprox(d[1]) >= EtApprox(o[1])}
  IN {d \in withTrap : \A o \in withTrap : o[1] = d[1] => EtApprox(d[2]) >= EtApprox(o[2])}

\* The drawn links come first, shuffled. Without a diamond the backbone is taken as it is, and
\* without a backbone main fails.
FindMismatchDiamond ==
  LET drawn == {e \in ToSet(pushed) : ToSet(e) \subseteq Nodes}
      first == {e \in drawn : Diamonds(e) # {}}
      rest == {e \in ToSet(pushed) \ drawn : Diamonds(e) # {}}
      found == IF first # {} THEN first ELSE rest
      bone(a, b) == [src |-> Bone(a), relay |-> Bone(b), pivot |-> Bone(5), dst |-> Bone(6)]
  IN /\ At("diamond", {"mismatch"})
     /\ \/ \E e \in found : \E d \in BestOf(Diamonds(e)) :
             result' = [result EXCEPT !.routes = d, !.success = TRUE] /\ stage' = "done"
        \/ /\ found = {} /\ study.inject
           /\ result' = [result EXCEPT !.routes = <<bone(1, 2), bone(3, 4)>>, !.success = TRUE]
           /\ stage' = "done"
        \/ found = {} /\ ~ study.inject /\ stage' = "fatal" /\ UNCHANGED result
     /\ UNCHANGED <<study, topology>>

Next ==
  \/ DrawLocalLinks \/ ConnectLocalComponents \/ CollectCandidates
  \/ LoadTopologyZooGraphml \/ CollectSatellites
  \/ AddLongLink \/ ChoosePair \/ RunOne \/ RunOneTopologyZoo
  \/ GenerateRandomGeometric \/ GenerateErdosRenyi \/ GenerateScaleFree
  \/ GenerateGrid \/ AddRandomEdge \/ GenerateMismatch \/ AssignTraps \/ FindMismatchDiamond

Spec == Init /\ [][Next]_vars

-----------------------------------------------------------------------------
(* Properties.                                                             *)

\* The counts of edges that the studies report are those of the network: no link has
\* two records, a long link is not a local one too, and no node of a zoo network has
\* more long links than it may.
EdgesCountedOnce ==
  stage = "done" =>
    /\ Len(pushed) = Cardinality(IF study.kind \in {"random", "zoo"} THEN links \ local ELSE links)
    /\ study.kind = "zoo" /\ study.maxDegree > 0 =>
         \A n \in Nodes : Cardinality({l \in links \ local : n \in l}) <= study.maxDegree

\* A study is about two nodes that its network joins: a random network is connected
\* without its long links; in a zoo network the pair has a route of at most maxHops
\* without them, and no simulation is of a route that is longer, whatever the
\* protocols return and however often the run was repeated. A run that gave up has
\* simulated nothing. The mismatch example compares two ways that share nothing but the
\* pivot and the destination, the pivot is no perfect node, and these are always those
\* of the backbone: none are found in the network that was drawn.
StudiesAreWellPosed ==
  /\ study.kind = "random" /\ stage \in {"long", "route", "done"} => Connected(local)
  /\ study.kind \in {"scalefree", "grid"} /\ stage = "done" /\ study.nodes > 2 =>
       Connected(links)
  /\ study.kind = "zoo" /\ stage \in {"route", "done"} =>
       LET hop == HopTable(local)
       IN hop[result.src][result.dst] <= Min({study.maxHops, study.nodes - 1})
  /\ study.kind = "zoo" => \A r \in result.simulated : HopsOf(r) <= study.maxHops
  /\ stage = "done" /\ ~ result.success => result.simulated = {}
  /\ study.kind = "mismatch" /\ stage = "done" =>
       LET a == result.routes[1]  b == result.routes[2]
       IN /\ {a.src, a.relay} \cap {b.src, b.relay} = {}
          /\ a.pivot = b.pivot /\ a.dst = b.dst /\ ~ IsPerfectNode(a.pivot)
          /\ {a.src, a.relay, b.src, b.relay} \cap Nodes = {}
=============================================================================
