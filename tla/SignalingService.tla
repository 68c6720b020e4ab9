--------------------------- MODULE SignalingService ---------------------------
(***************************************************************************)
(* What the classical signaling channel promises the sender of a message   *)
(* (quantum-signaling-channel.h, SendMessage, RegisterCallback,            *)
(* ClearHistory), with no clock, timer or event in sight.                  *)
(*                                                                         *)
(* A message is delivered or lost, once. A callback registered before that *)
(* hears it, once; no callback ever hears TIMEOUT. Clearing the history    *)
(* makes the channel forget every message, also those on their way.        *)
(***************************************************************************)
EXTENDS Naturals, Sequences

CONSTANT MessageIds

VARIABLES
  status,      \* fate of each message id
  registered,  \* ids with a callback
  heard        \* what the callback of each id was given, in order

vars == <<status, registered, heard>>

Init ==
  /\ status = [id \in MessageIds |-> "UNSENT"]
  /\ registered = {}
  /\ heard = [id \in MessageIds |-> <<>>]

Send(id) ==
  /\ status[id] = "UNSENT"
  /\ status' = [status EXCEPT ![id] = "PENDING"]
  /\ UNCHANGED <<registered, heard>>

Register(id) ==
  /\ status[id] # "UNSENT"
  /\ registered' = registered \cup {id}
  /\ UNCHANGED <<status, heard>>

\* The fate of a message is settled and its callback, if any, told.
Settle(id) ==
  /\ status[id] = "PENDING"
  /\ \E fate \in {"DELIVERED", "LOST"} :
       /\ status' = [status EXCEPT ![id] = fate]
       /\ heard' = IF id \in registered
                   THEN [heard EXCEPT ![id] = Append(@, fate)]
                   ELSE heard
  /\ UNCHANGED registered

Forget ==
  /\ status' = [id \in MessageIds |->
                  IF status[id] = "UNSENT" THEN "UNSENT" ELSE "FORGOTTEN"]
  /\ registered' = {}
  /\ UNCHANGED heard

Next ==
  \/ Forget
  \/ \E id \in MessageIds : Send(id) \/ Register(id) \/ Settle(id)

Spec == Init /\ [][Next]_vars

FairSpec == Spec /\ \A id \in MessageIds : WF_vars(Settle(id))
=============================================================================
