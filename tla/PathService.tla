----------------------------- MODULE PathService -----------------------------
(***************************************************************************)
(* What the quantum network layer promises to an application that sets up  *)
(* end-to-end paths (quantum-network-layer.h, SetupPath, PathReadyCallback *)
(* and ReleasePath), with no route, link, swap, message or retry in sight. *)
(*                                                                         *)
(* A path that was set up is decided once, READY or FAILED; the            *)
(* application is told the decision exactly once, unless it releases the   *)
(* path first; a released path is never heard of again.                    *)
(***************************************************************************)
EXTENDS Naturals, Sequences

CONSTANT Paths

VARIABLES
  pathState,   \* state of each path identifier
  notified     \* results the application's callback was given, in order

vars == <<pathState, notified>>

PathStates == {"NONE", "PENDING", "READY", "FAILED", "RELEASED"}

Decided(p) == pathState[p] \in {"READY", "FAILED"}

Init ==
  /\ pathState = [p \in Paths |-> "NONE"]
  /\ notified = [p \in Paths |-> <<>>]

\* SetupPath allocates p; a path with no route, or from a node to itself, is
\* decided on the spot and its notification left for later.
Setup(p) ==
  /\ pathState[p] = "NONE"
  /\ \E s \in {"PENDING", "READY", "FAILED"} :
       pathState' = [pathState EXCEPT ![p] = s]
  /\ UNCHANGED notified

\* SetupPath refuses p and says so before it returns (no link layer).
Refuse(p) ==
  /\ pathState[p] = "NONE"
  /\ pathState' = [pathState EXCEPT ![p] = "FAILED"]
  /\ notified' = [notified EXCEPT ![p] = <<FALSE>>]

\* A pending path is decided and the application told, in one step.
Decide(p) ==
  /\ pathState[p] = "PENDING"
  /\ \E ok \in BOOLEAN :
       /\ pathState' = [pathState EXCEPT ![p] = IF ok THEN "READY" ELSE "FAILED"]
       /\ notified' = [notified EXCEPT ![p] = <<ok>>]

\* The notification of a path that was decided inside SetupPath.
Notify(p) ==
  /\ Decided(p)
  /\ notified[p] = <<>>
  /\ notified' = [notified EXCEPT ![p] = <<pathState[p] = "READY">>]
  /\ UNCHANGED pathState

Release(p) ==
  /\ pathState[p] \in {"PENDING", "READY", "FAILED"}
  /\ pathState' = [pathState EXCEPT ![p] = "RELEASED"]
  /\ UNCHANGED notified

Next == \E p \in Paths : Setup(p) \/ Refuse(p) \/ Decide(p) \/ Notify(p) \/ Release(p)

Fairness == \A p \in Paths : WF_vars(Decide(p)) /\ WF_vars(Notify(p))

Spec == Init /\ [][Next]_vars

FairSpec == Spec /\ Fairness
=============================================================================
