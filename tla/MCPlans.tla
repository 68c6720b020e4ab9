------------------------------ MODULE MCPlans ------------------------------
(***************************************************************************)
(* What the programs plan with, for TLC: DelayModel, SwapSchedule and      *)
(* StudyTopology in one run. A behaviour is one of one of them; a delay    *)
(* model and a path that are not used stay as they are made, and the       *)
(* variables of a study are not used.                                      *)
(***************************************************************************)
EXTENDS DelayModel, SwapSchedule

CONSTANTS
  Studies,    \* StudyTopology
  Unused      \* the value of a variable that is not used

VARIABLES
  scenario,
  study, stage, local, links, pushed, candidates, result

studyVars == <<study, stage, local, links, pushed, candidates, result>>
planVars == <<scenario, vars, swapVars, studyVars>>

Study == INSTANCE StudyTopology

-----------------------------------------------------------------------------
(* Delays and durations to draw from.                                      *)
ZeroOrTwo == {0, 2}
ZeroOrTen == {0, 10}
OneOrTwo == {1, 2}
DrawnDurations == {0, 2, 9}

(* The settings of the programs that make a network.                       *)
Setting(kind, n, at) ==
  [kind |-> kind, nodes |-> n, at |-> at, edges |-> {}, radius |-> 2, localK |-> 1, longLinks |-> 2,
   minDistance |-> 2, minProgress |-> 1, maxStartX |-> 4, maxEndX |-> 6,
   minGraphHops |-> 2, maxDegree |-> 1, minHops |-> 2, maxHops |-> 3, retries |-> 1,
   atLeast |-> 0, rates |-> {90}, trapShare |-> 10, inject |-> TRUE]

\* The source to the left, the destination to the right; two clusters, and a line.
Clusters == << <<0, 1>>, <<6, 1>>, <<1, 0>>, <<5, 2>>, <<4, 1>> >>
Line == << <<0, 0>>, <<8, 0>>, <<2, 0>>, <<4, 0>>, <<6, 0>> >>
RandomStudies == {Setting("random", 5, at) : at \in {Clusters, Line}}

\* A line, a ring with a loop, a second edge, an unknown node and a node without links; and a
\* network of two parts without any link.
Line5 == {<<1, 2>>, <<2, 3>>, <<3, 4>>, <<4, 5>>}
Ring == {<<1, 2>>, <<2, 3>>, <<3, 4>>, <<4, 5>>, <<5, 1>>, <<2, 1>>, <<3, 3>>, <<4, 9>>}
ZooPlaces == << <<0, 0>>, <<1, 2>>, <<3, 3>>, <<4, 2>>, <<3, 0>>, <<6, 6>> >>
ZooStudies ==
  {[Setting("zoo", 6, ZooPlaces) EXCEPT !.edges = e, !.maxDegree = d, !.minHops = h,
                                        !.maxHops = m, !.minGraphHops = 1] :
     d \in {0, 1}, h \in {2, 3}, m \in {2, 3}, e \in {Ring, Line5}}
  \cup {Setting("zoo", 3, ZooPlaces)}

GridPlaces == << <<0, 0>>, <<1, 0>>, <<2, 0>>, <<0, 1>>, <<1, 1>>, <<2, 1>> >>

\* All pairs of four nodes, and the links of a diamond with a chord between its sides.
Full4 == {e \in (1 .. 4) \X (1 .. 4) : e[1] < e[2]}
Diamond == {<<1, 2>>, <<2, 4>>, <<1, 4>>, <<1, 3>>, <<4, 5>>}

HelperStudies ==
  {Setting("grid", 6, GridPlaces), Setting("geometric", 5, Clusters), Setting("erdos", 4, Line),
   [Setting("mismatch", 4, Line) EXCEPT !.edges = Full4],
   [Setting("mismatch", 4, Line) EXCEPT !.edges = Full4, !.atLeast = 4, !.rates = {88, 96},
                                        !.inject = FALSE],
   [Setting("mismatch", 5, Line) EXCEPT !.edges = Diamond, !.atLeast = 5, !.rates = {88, 96}]}
  \cup {Setting("scalefree", n, Line) : n \in {2, 3, 4, 5}}

AllStudies == RandomStudies \cup ZooStudies \cup HelperStudies

-----------------------------------------------------------------------------
NoDelay ==
  /\ Init
  /\ subclass = "static"
  /\ baseDelay = CHOOSE d \in BaseDelays : TRUE
  /\ maxDeviation = CHOOSE d \in MaxDeviations : TRUE
  /\ updateInterval = CHOOSE i \in UpdateIntervals : TRUE

\* A path of one hop, whose schedule is empty.
NoSwap == SwapInit /\ numHops = 1

NoStudy ==
  /\ study = Unused /\ stage = Unused /\ local = Unused /\ links = Unused
  /\ pushed = Unused /\ candidates = Unused /\ result = Unused

PlanInit ==
  \/ scenario = "delay" /\ Init /\ NoSwap /\ NoStudy
  \/ scenario = "swap" /\ SwapInit /\ NoDelay /\ NoStudy
  \/ scenario = "study" /\ Study!Init /\ NoDelay /\ NoSwap

DelayNext == scenario = "delay" /\ Next /\ UNCHANGED <<scenario, swapVars, studyVars>>
SwapsNext == scenario = "swap" /\ SwapNext /\ UNCHANGED <<scenario, vars, studyVars>>
StudyNext == scenario = "study" /\ Study!Next /\ UNCHANGED <<scenario, vars, swapVars>>

PlanNext == DelayNext \/ SwapsNext \/ StudyNext

\* The simulator runs the swaps that are scheduled.
PlanSpec == PlanInit /\ [][PlanNext]_planVars /\ WF_planVars(SwapsNext)

-----------------------------------------------------------------------------
(* The properties of StudyTopology.                                        *)

\* A network has one record for each of its links (StudyTopology).
EdgesCountedOnce == scenario = "study" => Study!EdgesCountedOnce

\* A study is about nodes its network joins, and routes it may simulate (StudyTopology).
StudiesAreWellPosed == scenario = "study" => Study!StudiesAreWellPosed
=============================================================================
