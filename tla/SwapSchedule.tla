----------------------------- MODULE SwapSchedule -----------------------------
(***************************************************************************)
(* The logarithmic swap schedule of QuantumSignalingChannel (and its copy  *)
(* in SwapScheduler), and its execution: a chain of link pairs that the    *)
(* swaps of each round merge, in any order within the round, since the     *)
(* schedule gives them one time.                                           *)
(*                                                                         *)
(* Nodes are their indices in the path, 0..numHops.                        *)
(***************************************************************************)
EXTENDS Integers

CONSTANT MaxHops   \* bound on the length of a path

ASSUME MaxHopsAssumption == MaxHops \in Nat

\* 1 << n
PowerOfTwo[n \in Nat] == IF n = 0 THEN 1 ELSE 2 * PowerOfTwo[n - 1]

\* Mutant: the logarithm is rounded down.
FloorLog2(hops) ==
  IF hops <= 1 THEN 0
  ELSE CHOOSE r \in 0..hops : PowerOfTwo[r] <= hops /\ hops < PowerOfTwo[r + 1]

\* GetNumSwapRounds: the logarithm, rounded up.
GetNumSwapRounds(hops) ==
  IF hops <= 1 THEN 0
  ELSE CHOOSE r \in 1..hops : PowerOfTwo[r - 1] < hops /\ hops <= PowerOfTwo[r]

\* Mutant: each round takes every other index of its own step.
NodesOfHalfStep(round, hops) ==
  {i \in PowerOfTwo[round - 1]..(hops - 1) :
     (i - PowerOfTwo[round - 1]) % PowerOfTwo[round - 1] = 0}

\* The indices of the relays that swap in a round: from the offset, in steps of
\* twice the offset.
NodesOfRound(round, hops) ==
  {i \in PowerOfTwo[round - 1]..(hops - 1) :
     (i - PowerOfTwo[round - 1]) % PowerOfTwo[round] = 0}

\* baseSwapDuration; only its multiples matter.
Base == 1

RoundStart(round) == Base * (round - 1)

\* The entries of the schedule, those of a round at one time; paths of less
\* than three nodes have none.
GenerateLogarithmicSwapSchedule(hops) ==
  IF hops < 2 THEN {}
  ELSE UNION {{[round |-> r, nodeIndex |-> i, scheduledTime |-> RoundStart(r)]
                 : i \in NodesOfRound(r, hops)}
               : r \in 1..GetNumSwapRounds(hops)}

VARIABLES
  numHops,   \* length of the path
  schedule,  \* entries that are still to be executed
  swapTime,  \* time of the round that runs
  segments   \* pairs of nodes that share an entangled pair

swapVars == <<numHops, schedule, swapTime, segments>>

SwapInit ==
  /\ numHops \in 1..MaxHops
  /\ schedule = GenerateLogarithmicSwapSchedule(numHops)
  /\ swapTime = 0
  /\ segments = {<<i, i + 1>> : i \in 0..(numHops - 1)}

\* The segments that end and start at a relay.
LeftOf(i) == {s \in segments : s[2] = i}
RightOf(i) == {s \in segments : s[1] = i}

\* A swap that is due merges the two segments that meet at its relay.
Swap(entry) ==
  /\ entry.scheduledTime = swapTime
  /\ schedule' = schedule \ {entry}
  /\ \E l \in LeftOf(entry.nodeIndex), r \in RightOf(entry.nodeIndex) :
       segments' = (segments \ {l, r}) \cup {<<l[1], r[2]>>}
  /\ UNCHANGED <<numHops, swapTime>>

\* Time moves to the next round when this one is done.
NextRound ==
  /\ schedule # {}
  /\ \A entry \in schedule : entry.scheduledTime > swapTime
  /\ swapTime' = swapTime + Base
  /\ UNCHANGED <<numHops, schedule, segments>>

SwapNext == NextRound \/ \E entry \in schedule : Swap(entry)

SwapSpec == SwapInit /\ [][SwapNext]_swapVars /\ WF_swapVars(SwapNext)

(***************************************************************************)
(* Properties                                                              *)
(***************************************************************************)
Touched(i) == LeftOf(i) \cup RightOf(i)

Due == {entry \in schedule : entry.scheduledTime = swapTime}

\* The swaps of one time touch different segments, so that their order does
\* not matter and none waits for the outcome of another.
SwapsAreIndependent ==
  \A a, b \in Due :
    a # b => Touched(a.nodeIndex) \cap Touched(b.nodeIndex) = {}

\* The execution ends with one pair between the ends of the path.
EndsInOnePair == <>[](segments = {<<0, numHops>>} /\ schedule = {})

(***************************************************************************)
(* What every state keeps, so that the swaps are independent               *)
(***************************************************************************)
\* Every variable has values of its kind, and the schedule is over after
\* GetNumSwapRounds rounds.
SwapTypeOK ==
  /\ numHops \in 1..MaxHops
  /\ swapTime \in 0..GetNumSwapRounds(numHops)
  /\ schedule \subseteq GenerateLogarithmicSwapSchedule(numHops)

Executed == GenerateLogarithmicSwapSchedule(numHops) \ schedule

\* The rounds before the one that runs are done, those after it have not begun.
InRounds ==
  /\ \A entry \in schedule : entry.scheduledTime >= swapTime
  /\ \A entry \in Executed : entry.scheduledTime <= swapTime

\* The nodes that still hold what was distributed to them.
Holders == (0..numHops) \ {entry.nodeIndex : entry \in Executed}

\* Each of them is entangled with the next.
SegmentsJoinHolders ==
  segments = {s \in Holders \X Holders :
                s[1] < s[2] /\ \A i \in Holders : ~(s[1] < i /\ i < s[2])}

SwapIInv == SwapTypeOK /\ InRounds /\ SegmentsJoinHolders

\* Every swap that is due finds its two segments, and when none is left one pair remains
\* between the ends of the path (GenerateLogarithmicSwapSchedule, GetNumSwapRounds).
SwapsAreComplete ==
  /\ \A entry \in Due : LeftOf(entry.nodeIndex) # {} /\ RightOf(entry.nodeIndex) # {}
  /\ schedule = {} => segments = {<<0, numHops>>}
=============================================================================
