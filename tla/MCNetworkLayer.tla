---------------------------- MODULE MCNetworkLayer ----------------------------
(***************************************************************************)
(* Small instances of NetworkLayer for TLC.                                *)
(***************************************************************************)
EXTENDS NetworkLayerInv

CONSTANTS A, B, C, D, E, F

\* A single link, and a chain with one relay.
ShortRoutes == {<<A, B>>, <<A, B, C>>}

\* A chain with three relays, and a route whose last node the physical entity
\* does not have.
ChainRoutes == {<<A, B, C, D, E>>, <<A, B, F>>}
=============================================================================
