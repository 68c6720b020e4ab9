------------------------- MODULE EntanglementService -------------------------
(***************************************************************************)
(* What ILinkLayerService promises to the network layer: a request for a   *)
(* pair is answered once, READY or FAILED, unless the service is shut down *)
(* first; with READY both halves of the pair are where they were asked     *)
(* for, until somebody uses them up; and without it there is no pair.      *)
(***************************************************************************)
EXTENDS Naturals

CONSTANT Ids   \* identifiers of the requests

VARIABLES
  phase,   \* what has become of each request
  held     \* requests whose pair is complete

vars == <<phase, held>>

Phases == {"none", "waiting", "READY", "FAILED", "dropped"}

TypeOK == phase \in [Ids -> Phases] /\ held \subseteq Ids

Init == phase = [id \in Ids |-> "none"] /\ held = {}

Ask ==
  /\ \E id \in Ids : phase[id] = "none" /\ phase' = [phase EXCEPT ![id] = "waiting"]
  /\ UNCHANGED held

\* An answer, in whose course the requester may use up pairs it holds, the new
\* one included.
Answer ==
  \E id \in Ids, answer \in {"READY", "FAILED"}, used \in SUBSET Ids :
    /\ phase[id] = "waiting"
    /\ phase' = [phase EXCEPT ![id] = answer]
    /\ held' = (IF answer = "READY" THEN held \cup {id} ELSE held) \ used

Use ==
  /\ \E used \in SUBSET held : held' = held \ used
  /\ UNCHANGED phase

ShutDown ==
  /\ phase' = [id \in Ids |-> IF phase[id] = "waiting" THEN "dropped" ELSE phase[id]]
  /\ UNCHANGED held

Next == Ask \/ Answer \/ Use \/ ShutDown

Spec == Init /\ [][Next]_vars

\* Every request is answered or dropped.
Settles == \A id \in Ids : (phase[id] = "waiting") ~> (phase[id] # "waiting")

LiveSpec == Spec /\ Settles
==============================================================================
