-------------------------- MODULE MCSignalingChannel --------------------------
(***************************************************************************)
(* Instances of SignalingChannel for TLC.                                  *)
(***************************************************************************)
EXTENDS SignalingChannel

OneLink == {<<"A", "B">>}
NoTimeoutOrOne == {0, 1}
JustZero == {0}
\* What the uninitialised counters hold.
NotZero == {3}
=============================================================================
