----------------------------- MODULE RouteService -----------------------------
(***************************************************************************)
(* What a QuantumRoutingProtocol promises to the network layer: a request  *)
(* is answered with a simple path over usable links of the topology as it  *)
(* is now, and with no route only when the destination cannot be reached.  *)
(* Which of the routes is taken is left open.                              *)
(***************************************************************************)
EXTENDS Integers, Sequences

CONSTANTS
  Nodes,    \* names of the nodes
  Requests  \* pairs of a source and a destination

\* In place of the metrics of a link that does not exist.
NoLink == [isLink |-> FALSE]

\* The pairs of nodes with a link that may be used.
UsablePairs(table) ==
  {link \in DOMAIN table : table[link] # NoLink /\ table[link].isAvailable}

\* Nothing that contains the source and is closed under usable links misses the
\* destination.
Reachable(table, request) ==
  \A closed \in SUBSET Nodes :
    (/\ request[1] \in closed
     /\ \A link \in UsablePairs(table) : link[1] \in closed => link[2] \in closed)
      => request[2] \in closed

IsSimple(path) == \A i, j \in DOMAIN path : path[i] = path[j] => i = j

\* path leads over usable links and visits no node twice.
IsUsablePath(table, path) ==
  /\ IsSimple(path)
  /\ \A i \in 1 .. Len(path) - 1 : <<path[i], path[i + 1]>> \in UsablePairs(table)

IsRoute(table, request, path) ==
  /\ path # <<>>
  /\ path[1] = request[1]
  /\ path[Len(path)] = request[2]
  /\ IsUsablePath(table, path)

VARIABLES
  topology,  \* the topology the protocol has been told
  answer     \* the last request with its answer, <<>> for no route

vars == <<topology, answer>>

NoAnswer == [request |-> <<>>, route |-> <<>>]

Init == UsablePairs(topology) = {} /\ answer = NoAnswer

Change == UNCHANGED answer

Answer ==
  /\ \E request \in Requests :
       /\ answer'.request = request
       /\ answer' = [request |-> request, route |-> answer'.route]
       /\ \/ IsRoute(topology, request, answer'.route)
          \/ answer'.route = <<>> /\ ~Reachable(topology, request)
  /\ UNCHANGED topology

Next == Change \/ Answer

Spec == Init /\ [][Next]_vars
=============================================================================
