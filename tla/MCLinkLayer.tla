------------------------------ MODULE MCLinkLayer ------------------------------
(***************************************************************************)
(* Instance of LinkLayer for TLC: two nodes and one the physical entity    *)
(* does not know, and a link that may fail, one that cannot, one that is   *)
(* down.                                                                   *)
(***************************************************************************)
EXTENDS LinkLayer

MCNodes == {"a", "b", "u"}
MCPhyNodes == {"a", "b"}
MCLinks == {<<"a", "b">>, <<"a", "u">>}

Metrics(setup, control, latency, fail, up) ==
  [quantumSetupTimeMs |-> setup, classicalControlDelayMs |-> control, latency |-> latency,
   mayFail |-> fail, maySucceed |-> TRUE, isAvailable |-> up]

MCLinkMetrics ==
  {Metrics(1, 1, 0, TRUE, TRUE), Metrics(0, 0, 1, FALSE, TRUE), Metrics(1, 0, 0, FALSE, FALSE)}
================================================================================
