----------------------------- MODULE EventAgenda -----------------------------
(***************************************************************************)
(* The event list of ns3::Simulator as the modules of src/model use it.    *)
(* An event is a record with at least the fields at, the time it runs, and *)
(* uid, the order in which it was scheduled. Simulator::Schedule inserts   *)
(* an event, EventId::Cancel removes one, and the simulator runs the event *)
(* that is first in time, in scheduling order among events of one instant. *)
(***************************************************************************)
EXTENDS Naturals

Precedes(e, f) == e.at < f.at \/ (e.at = f.at /\ e.uid < f.uid)

\* e is the event that the simulator runs next.
IsNext(e, agenda) == e \in agenda /\ \A f \in agenda \ {e} : Precedes(e, f)
=============================================================================
