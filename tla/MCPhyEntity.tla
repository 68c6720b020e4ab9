----------------------------- MODULE MCPhyEntity -----------------------------
(***************************************************************************)
(* Instances of PhyEntity for TLC: nodes that operate on what they hold,   *)
(* and God, who may operate on everything.                                 *)
(***************************************************************************)
EXTENDS PhyEntity, TLC

Symmetry == Permutations(Qubits) \cup Permutations(Owners \ {God})
=============================================================================
