----------------------------- MODULE MCPrograms -----------------------------
(***************************************************************************)
(* The programs on physical entities for TLC: ChainApps, AdaptApps,        *)
(* DistillApps and RouteSimulation in one run. A behaviour is one of one   *)
(* of them; a chain, a distillation or a route that is not used stays as   *)
(* it starts, and the variables of AdaptApps are not used.                 *)
(***************************************************************************)
EXTENDS ChainApps, DistillApps, RouteSimulation, TLC

CONSTANTS
  Nobody, Qubits, PacketLatency, EprDelay, ClassicalDelay, Programs, \* AdaptApps
  Scenarios,                                                      \* which of them
  Unused                                                          \* what others keep

VARIABLES
  scenario,
  net, subcircs, contraction, hasGod, now, agenda, holder, lastTime, qubitTime, occupied, status,
  intended

adaptVars ==
  <<net, subcircs, contraction, hasGod, now, agenda, holder, lastTime, qubitTime, occupied, status,
    intended>>
vars == <<scenario, chainVars, adaptVars, distillVars, routeVars>>

Adapt == INSTANCE AdaptApps

ASSUME ProgramsAssumption == Adapt!QubitsAssumption /\ Adapt!DelaysAssumption

-----------------------------------------------------------------------------
(* Chains of six owners: a fast and a slow network, a receiver of the swap *)
(* outcomes that starts in time or only after the first of them, and       *)
(* relays that start one after another or at once, with God's node or not. *)
MCListenTimes == {LocalDelay, Hop + 1}

(* Every application of AdaptApps alone, as in the examples, and those     *)
(* that do not checkpoint two at a time on one entity, the second starting *)
(* before, while or after the first runs.                                  *)
AllQubits ==
  LET chain(app) == {app} \X {"former", "latter"} \X (0 .. 3)
  IN UNION {chain(app) : app \in {"local", "swap", "telep", "lin"}}
     \cup ({"swap"} \X {"x", "z"} \X {0})
     \cup ({"distill"} \X {"A", "B", "anc"} \X (0 .. 7)) \cup {<<"distill", "flag", 0>>}

Program(app, t, n) == <<[app |-> app, at |-> t, n |-> n]>>

SimpleApps == {"startLocal", "startSwap", "startTelep", "startLin"}

Simulations ==
  {Program("startDistill", 0, n) : n \in {2, 4, 8}}
  \cup {Program(app, 0, 4) : app \in SimpleApps}
  \cup {Program(p[1], 0, 3) \o Program(p[2], t, 3) :
          p \in {p \in SimpleApps \X SimpleApps : p[1] # p[2]}, t \in 0 .. 8}

(* Distillation of 2, 4 and 8 pairs, with packets that arrive before the   *)
(* next step, after it, and after the three after it.                      *)
Distillation(app, halvings, bits) ==
  {[app |-> app, halvings |-> halvings, latency |-> l, bits |-> bits] : l \in {1, 15, 35}}

MCDistillations ==
  Distillation("DistillApp", 0, {0, 1}) \cup Distillation("DistillNestedApp", 0, {0, 1})
  \cup Distillation("DistillNestedApp", 1, {0, 1}) \cup Distillation("DistillNestedApp", 2, {0})

(* Routes of one to four links; times are in thirds of a millisecond.      *)
RoutePlay(program, routes, delays, jitters, losses) ==
  [program |-> program, routes |-> routes, delays |-> delays, jitters |-> jitters, losses |-> losses]

SetupTimes == {2, 3, 7}
StudyPlays ==
  {RoutePlay("study", <<route>>, <<d>>, {0}, {FALSE}) :
     route \in UNION {[1 .. n -> SetupTimes] : n \in 1 .. 4}, d \in {0, 2, 4}}

Instant(n) == [i \in 1 .. n |-> 0]
RequestPlays ==
  {RoutePlay("requests", <<Instant(m), Instant(n)>>, <<0, 0>>, {0}, {FALSE}) : m, n \in 1 .. 3}

\* Two and three links to the destination; the trap's packet takes longer.
MismatchPlays(losses) ==
  {RoutePlay("mismatch", <<Instant(m), Instant(n)>>, <<30, 6>>, {0, 4}, losses) : m, n \in 2 .. 3}

TestPlays == {RoutePlay("test", <<Instant(2)>>, <<30>>, {0}, {FALSE})}

AllPlays == StudyPlays \cup RequestPlays \cup MismatchPlays(BOOLEAN) \cup TestPlays
ReliablePlays == MismatchPlays({FALSE})

-----------------------------------------------------------------------------
NoChain ==
  /\ ChainInit
  /\ chainApp = "EntSwap"
  /\ latency = CHOOSE l \in Latencies : TRUE
  /\ listenTime = CHOOSE t \in ListenTimes : TRUE
  /\ godNode /\ spaced

NoAdapt ==
  /\ net = Unused /\ subcircs = Unused /\ contraction = Unused /\ hasGod = Unused /\ now = Unused
  /\ agenda = Unused /\ holder = Unused /\ lastTime = Unused /\ qubitTime = Unused /\ occupied = Unused
  /\ status = Unused /\ intended = Unused

NoDistill ==
  /\ distillation = CHOOSE d \in Distillations : d.halvings = 0
  /\ flips = [q \in Pairs |-> 0]
  /\ DistillInit

NoRoute ==
  /\ play = CHOOSE p \in Plays : p.program = "test"
  /\ RouteInit

Init ==
  \/ /\ "chain" \in Scenarios /\ scenario = "chain" /\ ChainInit
     /\ NoAdapt /\ NoDistill /\ NoRoute
  \/ /\ "adapt" \in Scenarios /\ scenario = "adapt" /\ Adapt!Init
     /\ NoChain /\ NoDistill /\ NoRoute
  \/ /\ "distill" \in Scenarios /\ scenario = "distill" /\ DistillInit
     /\ NoChain /\ NoAdapt /\ NoRoute
  \/ /\ "route" \in Scenarios /\ scenario = "route" /\ RouteInit
     /\ NoChain /\ NoAdapt /\ NoDistill

ChainsNext ==
  /\ scenario = "chain" /\ ChainNext
  /\ UNCHANGED <<scenario, adaptVars, distillVars, routeVars>>

AdaptNext ==
  /\ scenario = "adapt" /\ Adapt!Next
  /\ UNCHANGED <<scenario, chainVars, distillVars, routeVars>>

DistillationsNext ==
  /\ scenario = "distill" /\ DistillNext
  /\ UNCHANGED <<scenario, chainVars, adaptVars, routeVars>>

RoutesNext ==
  /\ scenario = "route" /\ RouteNext
  /\ UNCHANGED <<scenario, chainVars, adaptVars, distillVars>>

Next == ChainsNext \/ AdaptNext \/ DistillationsNext \/ RoutesNext

\* The simulator runs the events of a chain until it stops.
Spec == Init /\ [][Next]_vars /\ WF_vars(ChainsNext)

-----------------------------------------------------------------------------
(* The properties of the modules.                                          *)

\* In a fast network with a receiver in time a chain delivers unless a relay's call is to
\* fail, and then it fails (ChainApps).
ChainsDeliver == scenario = "chain" => ChainDelivers

\* The legs the simulator gives the qubits are those of the network (TensorNetwork).
LegsAgree == scenario = "adapt" => Adapt!LegsAgree

\* A contraction sequence contracts every tensor once (TensorNetwork).
SequenceContractsAll == scenario = "adapt" => Adapt!SequenceContractsAll

\* The applications leave the qubits they are there for, unless the sweep of a traced
\* name or a call in the name of a God without a node ends the program (AdaptApps).
OnlyGoalIsLeft == scenario = "adapt" => Adapt!OnlyGoalIsLeft
=============================================================================
