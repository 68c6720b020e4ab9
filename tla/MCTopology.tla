------------------------------ MODULE MCTopology ------------------------------
(***************************************************************************)
(* Instances of Topology for TLC.                                          *)
(***************************************************************************)
EXTENDS Topology

BothWays == {<<"A", "B">>, <<"B", "A">>}
=============================================================================
