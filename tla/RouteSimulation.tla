--------------------------- MODULE RouteSimulation ---------------------------
(***************************************************************************)
(* The programs that play the swaps of a route on a physical entity:       *)
(*   "study"    SimulateRouteActualFidelity of the dijkstra-vs-sliced      *)
(*              studies: a pair per link when its setup time is over, then *)
(*              ExecuteSwapStep from relay to relay;                       *)
(*   "requests" CalculatePhysicalFidelity of QCastRandomTopologyApp: one   *)
(*              route after the other, all at one instant;                 *)
(*   "mismatch" routing-mismatch-example: two routes at once, whose relays *)
(*              tell a pivot by packets that may be late or lost;          *)
(*   "test"     swap-fidelity-test: a wait, and one swap.                  *)
(*                                                                         *)
(* A pair is its two ends and the Pauli operator by which it differs from  *)
(* the Bell state it should be; the loss of fidelity is not in the model.  *)
(* The nodes of a route are their ranks. Link i joins ranks i and i + 1;   *)
(* its qubits are <<route, i, "left">> and <<route, i, "right">>.          *)
(***************************************************************************)
EXTENDS EventAgenda, Integers, Sequences, FiniteSetsExt

CONSTANTS
  God,    \* the owner that may operate on every qubit
  Unit,   \* setup times and delays are given in so many parts of a millisecond
  Plays   \* the simulations: a program, the setup times of the links of each of
          \* its routes, the signal delay of each, and the other settings

\* Every route has a link. The study and the test play one route; those of the
\* mismatch example have a relay at most before the pivot.
ASSUME RouteAssumption ==
  /\ Unit \in Nat \ {0}
  /\ \A p \in Plays :
       /\ p.program \in {"study", "requests", "mismatch", "test"}
       /\ p.routes \in Seq(Seq(Nat) \ {<<>>}) \ {<<>>}
       /\ p.delays \in [DOMAIN p.routes -> Nat]
       /\ p.jitters \subseteq Nat /\ p.losses \subseteq BOOLEAN
       /\ p.program \in {"study", "test"} => Len(p.routes) = 1
       /\ p.program = "test" => Len(p.routes[1]) = 2
       /\ p.program = "mismatch" =>
            Len(p.routes) = 2 /\ \A r \in {1, 2} : Len(p.routes[r]) \in {2, 3}

VARIABLES
  play,     \* the simulation
  events,   \* the events of the simulator
  issued,   \* the number of events scheduled so far
  lab,      \* the physical entity
  results   \* what CalculateFidelity was asked

routeVars == <<play, events, issued, lab, results>>

Left(r, i) == <<r, i, "left">>
Right(r, i) == <<r, i, "right">>
Links(r) == Len(play.routes[r])
LinksOf(r) == {r} \X (0 .. Links(r) - 1)
Ends(r) == {Left(r, 0), Right(r, Links(r) - 1)}

\* ResolveSetupTimeMs, and the conversion to Time: MilliSeconds takes an integer.
Setup(r, i) == play.routes[r][i + 1]
MilliSeconds(t) == t \div Unit
TMax(r) == Max({Setup(r, i) : i \in 0 .. Links(r) - 1})

\* Mutant: the links are set up one after the other.
AfterAllSetups == MilliSeconds(MapThenSumSet(LAMBDA i : Setup(1, i), 0 .. Links(1) - 1))

\* When the first relay swaps.
ChainStart == MilliSeconds(TMax(1))

\* The memory a qubit is in: the study sends the right one to the next owner.
Owner(q) ==
  IF play.program # "study" THEN God
  ELSE IF q[3] = "left" THEN q[2] ELSE q[2] + 1

\* The owner in whose name relay k of a route operates.
Operator(k) == IF play.program = "study" THEN k ELSE God

due == CHOOSE e \in events : IsNext(e, events)
time == due.at

Event(t, n, op, r, k) == [at |-> t, uid |-> n, op |-> op, r |-> r, k |-> k, x |-> 0, z |-> 0]

-----------------------------------------------------------------------------
(* The physical entity: the pairs, the qubits the tensor network still     *)
(* has, the names in the memories with the time up to which they have      *)
(* decohered, and for each qubit when it was made and how long it waited.  *)

EmptyLab == [pairs |-> {}, live |-> {}, memory |-> <<>>, born |-> <<>>, waited |-> <<>>,
             failed |-> "nothing"]

LinkPair(r, i) == [ends |-> {Left(r, i), Right(r, i)}, x |-> 0, z |-> 0]
QubitsOf(L) == {<<l[1], l[2], side>> : l \in L, side \in {"left", "right"}}

\* The clock of each qubit of S is set to t.
Stamped(clock, S, t) == [q \in DOMAIN clock \cup S |-> IF q \in S THEN t ELSE clock[q]]

\* A perfect or a mixed pair for each of the links, at time t.
Generated(s, L, t) ==
  [s EXCEPT !.pairs = @ \cup {LinkPair(l[1], l[2]) : l \in L},
            !.live = @ \cup QubitsOf(L),
            !.memory = Stamped(@, QubitsOf(L), t),
            !.born = Stamped(@, QubitsOf(L), t)]

\* EnsureAllDecoherence: the noise of waiting asserts that the qubit is valid.
Swept(s) ==
  IF \E q \in DOMAIN s.memory \ s.live : s.memory[q] < time
  THEN [s EXCEPT !.failed = "stale"]
  ELSE [s EXCEPT !.memory = [q \in DOMAIN @ |-> time]]

Owned(s, o, S) == o = God \/ \A q \in S : q \in DOMAIN s.memory /\ Owner(q) = o

PairOf(pairs, q) == CHOOSE p \in pairs : q \in p.ends

\* PX and PZ on qubit q for the outcomes that are 1.
Corrected(s, o, q, x, z) ==
  LET p == PairOf(s.pairs, q)
  IN [s EXCEPT !.pairs = (@ \ {p}) \cup
                           {[ends |-> p.ends, x |-> (p.x + x) % 2, z |-> (p.z + z) % 2]},
               !.failed = IF Owned(s, o, {q}) THEN @ ELSE "owner"]

Waited(s, S) ==
  [q \in DOMAIN s.waited \cup S |-> IF q \in S THEN time - s.born[q] ELSE s.waited[q]]

\* CNOT of near onto carried, H on carried, both measured and traced: their partners
\* become a pair, up to Z for the outcome of carried and X for that of near.
BellMeasured(s, o, carried, near, x, z) ==
  LET p == PairOf(s.pairs, carried)
      r == PairOf(s.pairs, near)
      gone == {carried, near}
  IN [Swept(s) EXCEPT
        !.pairs = (@ \ {p, r}) \cup {[ends |-> (p.ends \cup r.ends) \ gone,
                                      x |-> (p.x + r.x + x) % 2, z |-> (p.z + r.z + z) % 2]},
        !.live = @ \ gone,
        !.waited = Waited(s, gone),
        !.failed = IF Owned(s, o, gone) THEN @ ELSE "owner"]

\* Mutant: the names stay in the memory.
KeepQubits(s, S) == s

\* RemoveQubit.
RemoveQubits(s, S) == [s EXCEPT !.memory = [q \in DOMAIN @ \ S |-> @[q]]]

\* PartialTrace of the two ends of a route.
EndsTraced(s, r) == [s EXCEPT !.live = @ \ Ends(r), !.pairs = {p \in @ : p.ends # Ends(r)}]

\* CalculateFidelity of the ends of route r.
Evaluated(s, r) == [Swept(s) EXCEPT !.waited = Waited(s, Ends(r))]
Measurement(s, r) == [r |-> r, pair |-> PairOf(s.pairs, Left(r, 0))]

-----------------------------------------------------------------------------
\* What is scheduled, and what there is, when the simulator starts.
FirstEvents ==
  CASE play.program = "study" ->
         {Event(MilliSeconds(Setup(1, i)), i, "generate", 1, i) : i \in 0 .. Links(1) - 1}
         \cup {Event(ChainStart, Links(1), IF Links(1) = 1 THEN "evaluate" ELSE "swap", 1, 1)}
    [] play.program = "requests" -> {Event(0, 0, "request", 1, 1)}
    [] play.program = "mismatch" -> {Event(0, 0, "relay", 1, 1), Event(0, 1, "relay", 2, 1)}
    [] play.program = "test" -> {Event(MilliSeconds(play.delays[1]), 0, "wait", 1, 1)}

FirstLab ==
  Generated(EmptyLab, IF play.program \in {"study", "requests"} THEN {}
                      ELSE UNION {LinksOf(r) : r \in DOMAIN play.routes}, 0)

RouteInit ==
  /\ play \in Plays
  /\ events = FirstEvents
  /\ issued = Cardinality(FirstEvents)
  /\ lab = FirstLab
  /\ results = {}

Bits == {0, 1}

\* The first event runs; an assertion that fails ends the program. A call that
\* follows at once is an event of the same instant, when nothing else is due.
Runs(op, after, new) ==
  /\ events # {} /\ due.op = op
  /\ lab' = after
  /\ events' = IF after.failed = "nothing" THEN (events \ {due}) \cup new ELSE {}
  /\ issued' = issued + Cardinality(new)
  /\ UNCHANGED play

\* GenerateQubitsMixed and TransferQubit, when the setup time of a link is over.
Generate ==
  /\ Runs("generate", Generated(lab, {<<due.r, due.k>>}, time), {})
  /\ UNCHANGED results

\* ExecuteSwapStep up to the signal.
ExecuteSwapStep ==
  \E x, z \in Bits :
    LET gone == {Right(1, due.k - 1), Left(1, due.k)}
        after == BellMeasured(lab, Operator(due.k), Right(1, due.k - 1), Left(1, due.k), x, z)
    IN /\ Runs("swap", RemoveQubits(after, gone),
               {[Event(time + MilliSeconds(play.delays[1]), issued, "signal", 1, due.k)
                   EXCEPT !.x = x, !.z = z]})
       /\ UNCHANGED results

\* continueAfterSignal: the next owner corrects, and swaps or evaluates.
ContinueAfterSignal ==
  /\ Runs("signal", Corrected(lab, Operator(due.k + 1), Right(1, due.k), due.x, due.z),
          {Event(time, issued, IF due.k + 1 < Links(1) THEN "swap" ELSE "evaluate", 1, due.k + 1)})
  /\ UNCHANGED results

Evaluate ==
  /\ Runs("evaluate", Evaluated(lab, due.r), {})
  /\ results' = results \cup {Measurement(lab, due.r)}

\* CalculatePhysicalFidelity: the pairs of a route, ...
StartRequest ==
  /\ Runs("request", Generated(lab, LinksOf(due.r), time),
          {Event(time, issued, IF Links(due.r) > 1 THEN "hop" ELSE "finish", due.r, 1)})
  /\ UNCHANGED results

\* ... the swap of each relay, ...
SwapHop ==
  \E x, z \in Bits :
    LET r == due.r
        k == due.k
    IN /\ Runs("hop",
               Corrected(BellMeasured(lab, God, Right(r, k - 1), Left(r, k), x, z),
                         God, Right(r, k), x, z),
               {Event(time, issued, IF k + 1 < Links(r) THEN "hop" ELSE "finish", r, k + 1)})
       /\ UNCHANGED results

\* ... and the fidelity, after which the ends are traced for the next route.
FinishRequest ==
  LET r == due.r
  IN /\ Runs("finish", EndsTraced(Evaluated(lab, r), r),
             IF r < Len(play.routes) THEN {Event(time, issued, "request", r + 1, 1)} ELSE {})
     /\ results' = results \cup {Measurement(lab, r)}

\* RelayAct: a relay between the source and the pivot swaps, and sends the outcomes,
\* or zeros when there is no such relay. The packet may be delayed, and lost.
RelayAct ==
  \E x, z \in Bits, jitter \in play.jitters, lost \in play.losses :
    LET r == due.r
        direct == Links(r) = 2
        arrival == time + MilliSeconds(play.delays[r] + jitter)
    IN /\ Runs("relay",
               IF direct THEN lab ELSE BellMeasured(lab, God, Right(r, 0), Left(r, 1), x, z),
               IF lost THEN {}
               ELSE {[Event(arrival, issued, "pivot", r, Links(r) - 1) EXCEPT !.x = x, !.z = z]})
       /\ direct => x = 0 /\ z = 0
       /\ UNCHANGED results

\* PivotRecv and FinishPath: the pivot corrects its qubit by what the packet says,
\* swaps, and the destination is corrected.
FinishPath ==
  \E x, z \in Bits :
    LET r == due.r
        k == due.k
        told == Corrected(lab, God, Right(r, k - 1), due.x, due.z)
        swapped == Corrected(BellMeasured(told, God, Right(r, k - 1), Left(r, k), x, z),
                             God, Right(r, k), x, z)
    IN /\ Runs("pivot", IF swapped.failed = "nothing" THEN Evaluated(swapped, r) ELSE swapped, {})
       /\ results' = IF swapped.failed = "nothing"
                     THEN results \cup {Measurement(swapped, r)} ELSE results

\* AfterWait: the fidelities of both pairs, the swap, and that of the result.
AfterWait ==
  \E x, z \in Bits :
    LET after == Corrected(BellMeasured(Swept(lab), God, Right(1, 0), Left(1, 1), x, z),
                           God, Right(1, 1), x, z)
    IN /\ Runs("wait", Evaluated(after, 1), {})
       /\ results' = results \cup {Measurement(after, 1)}

RouteNext ==
  \/ Generate \/ ExecuteSwapStep \/ ContinueAfterSignal \/ Evaluate
  \/ StartRequest \/ SwapHop \/ FinishRequest
  \/ RelayAct \/ FinishPath
  \/ AfterWait

RouteSpec == RouteInit /\ [][RouteNext]_routeVars

-----------------------------------------------------------------------------
(* Properties.                                                             *)

\* Whatever the relays measured and whenever the signals came, CalculateFidelity is
\* asked about the two ends of a route when they share the Bell state itself, and a
\* study or a test that is over has evaluated its route and left nothing else. No
\* assertion fails on the way: operands are in the memory of the owner that operates
\* on them, and no qubit that has been traced is brought up to date; only the mismatch
\* example, which lets time pass with traced names in memory, can run into the latter.
EndsLeftAlone ==
  /\ \A m \in results : m.pair = [ends |-> Ends(m.r), x |-> 0, z |-> 0]
  /\ events = {} /\ lab.failed = "nothing" =>
       /\ play.program # "mismatch" => {m.r : m \in results} = DOMAIN play.routes
       /\ play.program \in {"study", "test"} => lab.live = Ends(1)
       /\ play.program = "study" => DOMAIN lab.memory = Ends(1)
  /\ lab.failed # "nothing" => lab.failed = "stale" /\ play.program = "mismatch"

\* The swaps of a study before the one that measures a qubit, or before the end.
SwapsBefore(q) ==
  IF q \in Ends(1) THEN Links(1) - 1
  ELSE IF q[3] = "left" THEN q[2] - 1 ELSE q[2]

\* The routing metric takes for the wait of a link's pair the time from the end of its
\* own setup to that of the slowest link. In the study each qubit waits that long, up
\* to the rounding of the setup times, and one signal delay per swap before its own.
WaitsAsPredicted ==
  play.program = "study" =>
    \A q \in DOMAIN lab.waited :
      LET predicted == TMax(1) - Setup(1, q[2])
          signals == SwapsBefore(q) * MilliSeconds(play.delays[1]) * Unit
          measured == lab.waited[q] * Unit - signals
      IN /\ measured < predicted + Unit
         /\ predicted < measured + Unit

\* routing-mismatch-example expects to end "when both PivotActA and PivotActB have
\* fired" when no packet is lost.
BothPathsFinish ==
  play.program = "mismatch" /\ play.losses = {FALSE} /\ events = {} =>
    {m.r : m \in results} = {1, 2}

-----------------------------------------------------------------------------
(* What every state keeps, so that the ends are left alone.                *)

RouteQubits == Nat \X Nat \X {"left", "right"}
Clocks == UNION {[S -> Int] : S \in SUBSET RouteQubits}
PairType == [ends : SUBSET RouteQubits, x : Bits, z : Bits]
Labs == [pairs : SUBSET PairType, live : SUBSET RouteQubits,
         failed : {"nothing", "stale", "owner"},
         memory : Clocks, born : Clocks, waited : Clocks]
EventType == [at : Nat, uid : Nat, r : Nat, k : Nat, x : Bits, z : Bits,
              op : {"generate", "swap", "signal", "evaluate", "request", "hop", "finish",
                    "relay", "pivot", "wait"}]

\* Every qubit of a pair was made at some time.
AllBorn(s) == \A p \in s.pairs : p.ends \subseteq DOMAIN s.born

RouteTypeOK ==
  /\ play \in Plays
  /\ events \subseteq EventType
  /\ issued \in Nat
  /\ lab \in Labs /\ AllBorn(lab)

\* A route of n links, the first k of which have become one pair.
Joined(r, k, x, z) == [ends |-> {Left(r, 0), Right(r, k - 1)}, x |-> x, z |-> z]
Row(r, n, k, x, z) == {Joined(r, k, x, z)} \cup {LinkPair(r, i) : i \in k .. n - 1}
RowQubits(r, n, k) == {Left(r, 0), Right(r, k - 1)} \cup QubitsOf({r} \X (k .. n - 1))

\* One event is to come.
Awaits(op, r, k) == \E e \in events : events = {e} /\ e.op = op /\ e.r = r /\ e.k = k

\* The fidelity of the routes was that of the Bell state.
Reports(routes) ==
  results = {[r |-> r, pair |-> [ends |-> Ends(r), x |-> 0, z |-> 0]] : r \in routes}

\* In a study that has made k - 1 swaps: who has waited, and the time of the next step.
Swapped(k) == {Right(1, j - 1) : j \in 1 .. k - 1} \cup {Left(1, j) : j \in 1 .. k - 1}
SwapTime(k) == ChainStart + (k - 1) * MilliSeconds(play.delays[1])
AllDue(t) == \A e \in events : e.at = t

\* The links in G are still to be set up.
SetsUp(G) ==
  LET n == Links(1)
      up == {1} \X ((0 .. n - 1) \ G)
  IN /\ events = {Event(MilliSeconds(Setup(1, i)), i, "generate", 1, i) : i \in G}
                 \cup {Event(ChainStart, n, IF n = 1 THEN "evaluate" ELSE "swap", 1, 1)}
     /\ lab.pairs = {LinkPair(l[1], l[2]) : l \in up}
     /\ lab.live = QubitsOf(up)
     /\ DOMAIN lab.waited = {}
     /\ Reports({})

\* Relay k is to swap, or the last owner is to evaluate.
Swaps(k) ==
  LET n == Links(1)
  IN /\ Awaits(IF k < n THEN "swap" ELSE "evaluate", 1, k) /\ AllDue(SwapTime(k))
     /\ lab.pairs = Row(1, n, k, 0, 0) /\ lab.live = RowQubits(1, n, k)
     /\ DOMAIN lab.waited = Swapped(k)
     /\ Reports({})

\* Relay k has swapped, and its outcomes are on their way.
Signals(k) ==
  LET n == Links(1)
  IN \E x, z \in Bits :
       /\ Awaits("signal", 1, k) /\ AllDue(SwapTime(k + 1))
       /\ \A e \in events : e.x = x /\ e.z = z
       /\ lab.pairs = Row(1, n, k + 1, x, z) /\ lab.live = RowQubits(1, n, k + 1)
       /\ DOMAIN lab.waited = Swapped(k + 1)
       /\ Reports({})

EndIsReached ==
  /\ events = {} /\ lab.live = Ends(1)
  /\ DOMAIN lab.waited = Swapped(Links(1)) \cup Ends(1)
  /\ Reports({1})

\* What a study remembers, and which of its qubits are where.
StudyKept ==
  /\ lab.failed = "nothing" /\ DOMAIN lab.memory = lab.live
  /\ lab.live \subseteq DOMAIN lab.born
  /\ \A q \in DOMAIN lab.born : q[2] < Links(1) /\ lab.born[q] = MilliSeconds(Setup(1, q[2]))
  /\ \A q \in DOMAIN lab.waited :
       /\ q[2] < Links(1)
       /\ lab.waited[q] = SwapTime(SwapsBefore(q) + 1) - MilliSeconds(Setup(1, q[2]))
  /\ \/ \E G \in SUBSET (0 .. Links(1) - 1) : SetsUp(G)
     \/ \E k \in 1 .. Links(1) : Swaps(k)
     \/ \E k \in 1 .. Links(1) - 1 : Signals(k)
     \/ EndIsReached

\* The requests are served one after the other, at one time, so that no name in a
\* memory is out of date.
RequestsKept ==
  /\ lab.failed = "nothing"
  /\ AllDue(0) /\ \A q \in DOMAIN lab.memory : lab.memory[q] = 0
  /\ \/ \E r \in DOMAIN play.routes :
          /\ Reports(1 .. r - 1)
          /\ \/ Awaits("request", r, 1) /\ lab.pairs = {}
             \/ \E k \in 1 .. Links(r) :
                  /\ Awaits(IF k < Links(r) THEN "hop" ELSE "finish", r, k)
                  /\ lab.pairs = Row(r, Links(r), k, 0, 0)
     \/ events = {} /\ Reports(DOMAIN play.routes)

\* The test has its two pairs, and swaps them.
TestKept ==
  /\ lab.failed = "nothing"
  /\ \/ /\ Awaits("wait", 1, 1)
        /\ DOMAIN lab.memory = lab.live
        /\ lab.pairs = Row(1, 2, 1, 0, 0) /\ lab.live = RowQubits(1, 2, 1)
        /\ Reports({})
     \/ events = {} /\ lab.live = Ends(1) /\ Reports({1})

\* Of the two routes each has its first k[r] links joined, up to the outcomes that the
\* pivot is told, if it is; or the noise of waiting has met a traced qubit.
Told(k, x, z) ==
  /\ lab.pairs = UNION {Row(r, Links(r), k[r], x[r], z[r]) : r \in {1, 2}}
  /\ \A r \in {1, 2} : k[r] <= Links(r)
  /\ \A e \in events :
       /\ e.r \in {1, 2} /\ e.uid < issued
       /\ e.op = "relay" => e.k = 1 /\ k[e.r] = 1 /\ e.x = 0 /\ e.z = 0
       /\ e.op = "pivot" => e.k = Links(e.r) - 1 /\ k[e.r] = e.k
       /\ e.op \in {"relay", "pivot"} /\ e.x = x[e.r] /\ e.z = z[e.r]
  /\ \A e, f \in events : e.uid = f.uid \/ e.r = f.r => e = f

MismatchKept ==
  /\ \E routes \in SUBSET {1, 2} : Reports(routes)
  /\ \/ lab.failed = "stale" /\ events = {}
     \/ /\ lab.failed = "nothing"
        /\ \E k \in [{1, 2} -> 1 .. 3], x, z \in [{1, 2} -> Bits] : Told(k, x, z)

RouteIInv ==
  /\ RouteTypeOK
  /\ play.program = "study" => StudyKept
  /\ play.program = "requests" => RequestsKept
  /\ play.program = "test" => TestKept
  /\ play.program = "mismatch" => MismatchKept
=============================================================================
