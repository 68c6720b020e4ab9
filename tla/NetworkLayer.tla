----------------------------- MODULE NetworkLayer -----------------------------
(***************************************************************************)
(* The path life cycle of QuantumNetworkLayer together with the parts it   *)
(* drives: the link layer service that completes one entanglement request  *)
(* per hop, the physical entity that holds the qubits, and the signaling   *)
(* channel that carries swap outcomes.                                     *)
(*                                                                         *)
(* The ns-3 scheduler is the only source of concurrency: a handler runs to *)
(* completion, with every synchronous call and callback it makes, and what *)
(* it schedules becomes a member of one of the event sets below. Time is   *)
(* abstracted: scheduled events run in any order, so every combination of  *)
(* delays, retry interval and timeout is covered.                          *)
(*                                                                         *)
(* Identifiers are structural. An entanglement id, which is also the id of *)
(* the hop's request, is <<path, attempt, hop>>: RequestEntanglement is    *)
(* called once per hop of an attempt and its counter never repeats. The    *)
(* attempt is the path's retryCount. A signaling message id is             *)
(* <<path, attempt, index of the relay in the route>>.                     *)
(***************************************************************************)
EXTENDS Naturals, Sequences

CONSTANTS
  MaxPaths,    \* bound on the number of SetupPath calls
  MaxRetries,  \* m_maxRetries
  Nodes,       \* node names
  Owners,      \* nodes of the physical entity (m_owner2pnode)
  Routes       \* routes CalculateRoute can return

(***************************************************************************)
(* The routing protocols return simple paths of at least two nodes; the    *)
(* shorter results are SetupPath's "no route" case. The node that asks for *)
(* a hop's pair is one of the physical entity's, or CheckOwned throws and  *)
(* the program ends; the last node of a route need not be.                 *)
(***************************************************************************)
ASSUME ParamAssumption ==
  /\ MaxPaths \in Nat
  /\ MaxRetries \in Nat
  /\ Routes \subseteq Seq(Nodes)
  /\ Owners \subseteq Nodes
  /\ \A r \in Routes :
       /\ Len(r) >= 2
       /\ \A i \in 1..(Len(r) - 1) : r[i] \in Owners
       /\ \A i, j \in 1..Len(r) : r[i] = r[j] => i = j

Paths == 1..MaxPaths
Attempts == 0..MaxRetries
Hops == UNION {1..(Len(r) - 1) : r \in Routes}
Relays == UNION {2..(Len(r) - 1) : r \in Routes}
EntIds == Paths \X Attempts \X Hops
MsgIds == Paths \X Attempts \X Relays

\* Qubit names: the "ent_<id>_<node>_l" and "_r" halves of a link pair.
Qubits == EntIds \X {"l", "r"}
LinkPair(e) == {<<e, "l">>, <<e, "r">>}

Segments == [leftNode : Nodes, rightNode : Nodes,
             leftQubit : Qubits, rightQubit : Qubits]

VARIABLES
  \* QuantumNetworkLayer
  parts,         \* which of m_linkLayer and m_signalingChannel were set
  pathState,     \* m_paths: PathInfo.state; NONE and RELEASED are not in m_paths
  route,         \* PathInfo.route, kept after release
  retryCount,    \* PathInfo.retryCount
  req,           \* m_entanglementRequests and m_entanglementToRequest
  segs,          \* m_pathSegments; <<>> when the path has no entry
  signals,       \* m_pendingSwapSignals
  notified,      \* results given to the path's callback (history)
  \* events scheduled by the network layer
  timers,        \* HandlePathTimeout (path, retryCount)
  rebuilds,      \* StartPathBuilding, tagged with retryCount when scheduled
  notices,       \* NotifyPathResult (path, success)
  swaps,         \* ExecuteSwapAtNode (path, nodeIndex), tagged with retryCount
  \* QuantumLinkLayerService
  ent,           \* EntanglementState of every id issued
  linkPending,   \* m_pendingRequests, each with its CompleteRequest event
  \* QuantumPhyEntity and the nodes' memories
  qubits,        \* valid qubits
  \* QuantumSignalingChannel
  sends,         \* DoSendMessage events
  deliveries     \* DeliverMessage events

pathVars == <<pathState, route, retryCount, notified>>
resourceVars == <<req, segs, signals, ent, qubits>>
messageVars == <<sends, deliveries>>
vars == <<parts, pathVars, resourceVars, timers, rebuilds, notices,
          swaps, linkPending, messageVars>>

(***************************************************************************)
(* The state of a request while its entanglementId is attached, that is    *)
(* mapped in m_entanglementToRequest; DETACHED once the id was set to      *)
(* INVALID_ENTANGLEMENT_ID and unmapped; NONE when not in                  *)
(* m_entanglementRequests. FAILED lasts only inside one handler.           *)
(***************************************************************************)
ReqStates == {"NONE", "PENDING", "READY", "DETACHED"}
EntStates == {"NONE", "PENDING", "READY", "FAILED", "CONSUMED"}
PathStates == {"NONE", "PENDING", "READY", "FAILED", "RELEASED"}

\* Both settings are made before paths are built and stay as they are. The
\* channel is missing only after SetSignalingChannel (nullptr): Initialize
\* creates one by default.
HasLinkLayer == "linkLayer" \in parts
HasSignaling == "signaling" \in parts

InPaths(p) == pathState[p] \in {"PENDING", "READY", "FAILED"}
Mapped(e) == req[e] \in {"PENDING", "READY"}

\* entanglementRequestIds of an attempt along route r
HopIds(p, a, r) == {<<p, a, h>> : h \in 1..(Len(r) - 1)}

Init ==
  /\ parts \in SUBSET {"linkLayer", "signaling"}
  /\ pathState = [p \in Paths |-> "NONE"]
  /\ route = [p \in Paths |-> <<>>]
  /\ retryCount = [p \in Paths |-> 0]
  /\ req = [e \in EntIds |-> "NONE"]
  /\ segs = [p \in Paths |-> <<>>]
  /\ signals = {}
  /\ notified = [p \in Paths |-> <<>>]
  /\ timers = {} /\ rebuilds = {} /\ notices = {} /\ swaps = {}
  /\ ent = [e \in EntIds |-> "NONE"]
  /\ linkPending = {}
  /\ qubits = {}
  /\ sends = {} /\ deliveries = {}

(***************************************************************************)
(* Synchronous calls inside one handler. Where a call happens after its    *)
(* caller already changed the resources, they are passed on in a record.   *)
(***************************************************************************)
Resources ==
  [req |-> req, segs |-> segs, signals |-> signals, ent |-> ent, qubits |-> qubits]

Store(res) ==
  /\ req' = res.req
  /\ segs' = res.segs
  /\ signals' = res.signals
  /\ ent' = res.ent
  /\ qubits' = res.qubits

\* The callback part of NotifyPathResult.
Notify(p, ok) == notified' = [notified EXCEPT ![p] = Append(@, ok)]

\* Mutant: the timer keeps running.
TimerKept(p) == UNCHANGED timers

\* m_pathTimers[p].Cancel: the entry is the timer armed by the last
\* StartPathBuilding, and retryCount changes only where the entry is erased.
CancelTimer(p) == timers' = timers \ {<<p, retryCount[p]>>}

SegmentQubits(s) == {s.leftQubit, s.rightQubit}

\* Mutant: no qubit of the segments is traced out.
HeldByNone(p, res) == {}

\* The qubits of the path's segments.
HeldQubits(p, res) == UNION {SegmentQubits(res.segs[p][i]) : i \in DOMAIN res.segs[p]}

\* Mutant: the signals of the path are kept.
SignalsOfNone(p, res) == {}

\* The entries of m_pendingSwapSignals that belong to the path.
OwnSignals(p, res) == {s \in res.signals : s.id[1] = p}

(***************************************************************************)
(* Attached entanglements are consumed, which frees the qubits of those    *)
(* that are ready; the qubits of the segments are traced out; pending      *)
(* signals of the path are forgotten. A CompleteRequest event that is      *)
(* still scheduled is not cancelled.                                       *)
(***************************************************************************)
CleanupPathResources(p, res) ==
  LET attached == {e \in EntIds : e[1] = p /\ res.req[e] \in {"PENDING", "READY"}}
      freed == UNION {LinkPair(e) : e \in {d \in attached : res.ent[d] = "READY"}}
  IN [req |-> [e \in EntIds |-> IF e \in attached THEN "DETACHED" ELSE res.req[e]],
      segs |-> [res.segs EXCEPT ![p] = <<>>],
      signals |-> res.signals \ OwnSignals(p, res),
      ent |-> [e \in EntIds |-> IF e \in attached THEN "CONSUMED" ELSE res.ent[e]],
      qubits |-> res.qubits \ (freed \cup HeldQubits(p, res))]

\* m_entanglementRequests.erase for every request of the path
ForgetRequests(p, res) ==
  [res EXCEPT !.req = [e \in EntIds |-> IF e[1] = p THEN "NONE" ELSE res.req[e]]]

\* Mutant: one attempt too few.
MayRetryOnceLess(p) == retryCount[p] + 1 < MaxRetries

MayRetry(p) == retryCount[p] < MaxRetries

HandlePathFailure(p, res) ==
  /\ CancelTimer(p)
  /\ \/ /\ MayRetry(p)
        /\ retryCount' = [retryCount EXCEPT ![p] = @ + 1]
        /\ pathState' = [pathState EXCEPT ![p] = "PENDING"]
        /\ Store(ForgetRequests(p, CleanupPathResources(p, res)))
        /\ rebuilds' = rebuilds \cup {<<p, retryCount[p] + 1>>}
        /\ UNCHANGED notified
     \/ /\ ~MayRetry(p)
        /\ pathState' = [pathState EXCEPT ![p] = "FAILED"]
        /\ Store(CleanupPathResources(p, res))
        /\ Notify(p, FALSE)
        /\ UNCHANGED <<retryCount, rebuilds>>
  /\ UNCHANGED route

\* The fidelity of the end-to-end pair either reaches minFidelity or not.
FinalizePath(p, res) ==
  /\ \/ /\ pathState' = [pathState EXCEPT ![p] = "READY"]
        /\ Store(res)
        /\ Notify(p, TRUE)
        /\ CancelTimer(p)
        /\ UNCHANGED <<route, retryCount, rebuilds>>
     \/ HandlePathFailure(p, res)
  /\ UNCHANGED swaps

\* Mutant: the path is final with two segments left.
BeginNextSwapOneShort(p, res) ==
  \/ /\ Len(res.segs[p]) <= 2
     /\ FinalizePath(p, res)
  \/ /\ Len(res.segs[p]) > 2
     /\ swaps' = swaps \cup
          {<<p, retryCount[p], Len(route[p]) - Len(res.segs[p]) + 1>>}
     /\ Store(res)
     /\ CancelTimer(p)
     /\ UNCHANGED <<pathVars, rebuilds>>

\* The timer was cancelled by CheckPathEntanglements just before, or with an
\* earlier swap of the same attempt.
BeginNextSwap(p, res) ==
  \/ /\ Len(res.segs[p]) <= 1
     /\ FinalizePath(p, res)
  \/ /\ Len(res.segs[p]) > 1
     /\ swaps' = swaps \cup
          {<<p, retryCount[p], Len(route[p]) - Len(res.segs[p]) + 1>>}
     /\ Store(res)
     /\ CancelTimer(p)
     /\ UNCHANGED <<pathVars, rebuilds>>

\* The segment a ready hop contributes.
HopSegment(p, h) ==
  [leftNode |-> route[p][h], rightNode |-> route[p][h + 1],
   leftQubit |-> <<<<p, retryCount[p], h>>, "l">>,
   rightQubit |-> <<<<p, retryCount[p], h>>, "r">>]

\* Requests are turned into segments and their ids detached, up to the first
\* one whose entanglement is not valid.
PerformEntanglementSwapping(p, res) ==
  LET ids == HopIds(p, retryCount[p], route[p])
      invalid == {e \in ids : res.ent[e] # "READY"}
      detached == {e \in ids : \A d \in invalid : e[3] < d[3]}
      newReq == [e \in EntIds |-> IF e \in detached THEN "DETACHED" ELSE res.req[e]]
  IN \/ /\ invalid = {}
        /\ BeginNextSwap(p,
             [res EXCEPT
                !.segs = [@ EXCEPT ![p] = [h \in 1..(Len(route[p]) - 1) |-> HopSegment(p, h)]],
                !.req = newReq])
     \/ /\ invalid # {}
        /\ HandlePathFailure(p, [res EXCEPT !.req = newReq])
        /\ UNCHANGED swaps

\* Swapping starts when every request of the attempt is ready.
CheckPathEntanglements(p, res) ==
  LET allReady == \A e \in HopIds(p, retryCount[p], route[p]) : res.req[e] = "READY"
  IN \/ /\ allReady
        /\ PerformEntanglementSwapping(p, res)
     \/ /\ ~allReady
        /\ Store(res)
        /\ UNCHANGED <<pathVars, timers, rebuilds, swaps>>

\* One link request per hop, then the timeout of this attempt.
StartPathBuilding(p, r) ==
  LET ids == HopIds(p, retryCount[p], r)
  IN \/ /\ HasLinkLayer
        /\ pathState' = [pathState EXCEPT ![p] = "PENDING"]
        /\ req' = [e \in EntIds |-> IF e \in ids THEN "PENDING" ELSE req[e]]
        /\ ent' = [e \in EntIds |-> IF e \in ids THEN "PENDING" ELSE ent[e]]
        /\ linkPending' = linkPending \cup ids
        /\ timers' = timers \cup {<<p, retryCount[p]>>}
        /\ UNCHANGED notified
     \/ /\ ~HasLinkLayer
        /\ pathState' = [pathState EXCEPT ![p] = "FAILED"]
        /\ Notify(p, FALSE)
        /\ UNCHANGED <<req, ent, linkPending, timers>>

(***************************************************************************)
(* Calls of the application                                                *)
(***************************************************************************)
SetupPath(p) ==
  /\ pathState[p] = "NONE"
  /\ \A q \in Paths : q < p => pathState[q] # "NONE"
  /\ \/ \* source and destination are the same node
        /\ \E n \in Nodes : route' = [route EXCEPT ![p] = <<n>>]
        /\ pathState' = [pathState EXCEPT ![p] = "READY"]
        /\ notices' = notices \cup {<<p, TRUE>>}
        /\ UNCHANGED <<notified, req, ent, linkPending, timers>>
     \/ \* the routing protocol finds no route
        /\ pathState' = [pathState EXCEPT ![p] = "FAILED"]
        /\ notices' = notices \cup {<<p, FALSE>>}
        /\ UNCHANGED <<route, notified, req, ent, linkPending, timers>>
     \/ \E r \in Routes :
        /\ route' = [route EXCEPT ![p] = r]
        /\ StartPathBuilding(p, r)
        /\ UNCHANGED notices
  /\ UNCHANGED <<parts, retryCount, segs, signals, qubits, rebuilds,
                 swaps, messageVars>>

ReleasePath(p) ==
  /\ InPaths(p)
  /\ pathState' = [pathState EXCEPT ![p] = "RELEASED"]
  /\ CancelTimer(p)
  /\ Store(ForgetRequests(p, CleanupPathResources(p, Resources)))
  /\ UNCHANGED <<parts, route, retryCount, notified, rebuilds, notices,
                 swaps, linkPending, messageVars>>

(***************************************************************************)
(* Events                                                                  *)
(***************************************************************************)
NotifyPathResult(p, ok) ==
  /\ <<p, ok>> \in notices
  /\ notices' = notices \ {<<p, ok>>}
  /\ \/ InPaths(p) /\ Notify(p, ok)
     \/ ~InPaths(p) /\ UNCHANGED notified
  /\ UNCHANGED <<parts, pathState, route, retryCount, resourceVars, timers,
                 rebuilds, swaps, linkPending, messageVars>>

RetryPath(p, a) ==
  /\ <<p, a>> \in rebuilds
  /\ rebuilds' = rebuilds \ {<<p, a>>}
  /\ \/ InPaths(p) /\ StartPathBuilding(p, route[p])
     \/ ~InPaths(p) /\ UNCHANGED <<pathState, notified, req, ent, linkPending, timers>>
  /\ UNCHANGED <<parts, route, retryCount, segs, signals, qubits, notices,
                 swaps, messageVars>>

HandlePathTimeout(p, a) ==
  /\ <<p, a>> \in timers
  /\ LET stale == ~InPaths(p) \/ retryCount[p] # a \/ pathState[p] = "READY"
     IN \/ /\ stale
           /\ timers' = timers \ {<<p, a>>}
           /\ UNCHANGED <<pathVars, resourceVars, rebuilds>>
        \/ /\ ~stale
           /\ HandlePathFailure(p, Resources)
  /\ UNCHANGED <<parts, notices, swaps, linkPending, messageVars>>

(***************************************************************************)
(* CompleteRequest of the link layer. The link can be down by then, the    *)
(* attempt can fail at random or the generation be refused; otherwise the  *)
(* pair is generated at the near node. Its second half is transferred when *)
(* the physical entity knows the far node; when it does not, the request   *)
(* fails, and both halves stay valid at the near node: the info never      *)
(* became valid, so consuming the id frees nothing. The callback           *)
(* HandleLinkLayerEntanglement does nothing when the id is not mapped.     *)
(***************************************************************************)
FarNode(e) == route[e[1]][e[3] + 1]

LinkFails(e) ==
  LET res == [Resources EXCEPT !.ent[e] = "FAILED"]
  IN /\ \/ Mapped(e) /\ HandlePathFailure(e[1], res)
        \/ ~Mapped(e) /\ Store(res) /\ UNCHANGED <<pathVars, timers, rebuilds>>
     /\ UNCHANGED swaps

TransferFails(e) ==
  LET res == [Resources EXCEPT !.ent[e] = "FAILED", !.qubits = @ \cup LinkPair(e)]
  IN /\ FarNode(e) \notin Owners
     /\ \/ Mapped(e) /\ HandlePathFailure(e[1], res)
        \/ ~Mapped(e) /\ Store(res) /\ UNCHANGED <<pathVars, timers, rebuilds>>
     /\ UNCHANGED swaps

LinkSucceeds(e) ==
  LET res == [Resources EXCEPT !.ent[e] = "READY", !.qubits = @ \cup LinkPair(e)]
  IN /\ FarNode(e) \in Owners
     /\ \/ Mapped(e) /\ CheckPathEntanglements(e[1], [res EXCEPT !.req[e] = "READY"])
        \/ ~Mapped(e) /\ Store(res) /\ UNCHANGED <<pathVars, timers, rebuilds, swaps>>

CompleteRequest(e) ==
  /\ e \in linkPending
  /\ linkPending' = linkPending \ {e}
  /\ LinkFails(e) \/ TransferFails(e) \/ LinkSucceeds(e)
  /\ UNCHANGED <<parts, notices, messageVars>>

(***************************************************************************)
(* The Bell measurement at the relay. Its two qubits are traced out and    *)
(* the outcomes are sent on with a pending signal that remembers both      *)
(* segments; the segments themselves are merged only when it arrives.      *)
(***************************************************************************)
SwapPossible(p, n) ==
  /\ Len(segs[p]) >= 2
  /\ n \in 1..Len(route[p])
  /\ segs[p][1].rightNode = route[p][n]
  /\ segs[p][2].leftNode = route[p][n]

ExecuteSwapAtNode(p, a, n) ==
  /\ <<p, a, n>> \in swaps
  /\ \/ /\ InPaths(p) /\ HasSignaling /\ SwapPossible(p, n)
        /\ qubits' = qubits \ {segs[p][1].rightQubit, segs[p][2].leftQubit}
        /\ sends' = sends \cup {<<p, a, n>>}
        /\ signals' = signals \cup
             {[id |-> <<p, a, n>>, left |-> segs[p][1], right |-> segs[p][2]]}
        /\ swaps' = swaps \ {<<p, a, n>>}
        /\ UNCHANGED <<pathVars, req, segs, ent, timers, rebuilds>>
     \/ /\ InPaths(p) /\ ~(HasSignaling /\ SwapPossible(p, n))
        /\ swaps' = swaps \ {<<p, a, n>>}
        /\ HandlePathFailure(p, Resources)
        /\ UNCHANGED sends
     \/ /\ ~InPaths(p)
        /\ swaps' = swaps \ {<<p, a, n>>}
        /\ UNCHANGED <<pathVars, resourceVars, timers, rebuilds, sends>>
  /\ UNCHANGED <<parts, notices, linkPending, deliveries>>

(***************************************************************************)
(* HandleSwapSignal, the channel's callback: a lost message fails the      *)
(* path; a delivered one corrects the right qubit and merges the first two *)
(* segments into the span that the signal recorded.                        *)
(***************************************************************************)
\* Mutant: the merged segment keeps the measured qubit.
MergeKeepsMeasured(s) ==
  [leftNode |-> s.left.leftNode, rightNode |-> s.right.rightNode,
   leftQubit |-> s.left.leftQubit, rightQubit |-> s.left.rightQubit]

Merge(s) ==
  [leftNode |-> s.left.leftNode, rightNode |-> s.right.rightNode,
   leftQubit |-> s.left.leftQubit, rightQubit |-> s.right.rightQubit]

SignalKnown(m) == \E s \in signals : s.id = m

\* Mutant: only the delivered state is acted upon.
SignalLostIgnored(m) ==
  \/ \E s \in signals :
       /\ s.id = m
       /\ Store([Resources EXCEPT !.signals = @ \ {s}])
       /\ UNCHANGED <<pathVars, timers, rebuilds, swaps>>
  \/ ~SignalKnown(m) /\ UNCHANGED <<pathVars, resourceVars, timers, rebuilds, swaps>>

SignalLost(m) ==
  /\ \/ \E s \in signals :
          s.id = m /\ HandlePathFailure(m[1], [Resources EXCEPT !.signals = @ \ {s}])
     \/ ~SignalKnown(m) /\ UNCHANGED <<pathVars, resourceVars, timers, rebuilds>>
  /\ UNCHANGED swaps

SignalDelivered(m) ==
  \/ \E s \in signals :
       LET p == m[1]
           res == [Resources EXCEPT !.signals = @ \ {s}]
           rest == SubSeq(segs[p], 3, Len(segs[p]))
       IN /\ s.id = m
          /\ \/ /\ Len(segs[p]) >= 2
                /\ BeginNextSwap(p, [res EXCEPT !.segs[p] = <<Merge(s)>> \o rest])
             \/ /\ Len(segs[p]) = 1
                /\ HandlePathFailure(p, res)
                /\ UNCHANGED swaps
             \/ /\ segs[p] = <<>>
                /\ Store(res)
                /\ UNCHANGED <<pathVars, timers, rebuilds, swaps>>
  \/ ~SignalKnown(m) /\ UNCHANGED <<pathVars, resourceVars, timers, rebuilds, swaps>>

DoSendMessage(m) ==
  /\ m \in sends
  /\ sends' = sends \ {m}
  /\ \/ /\ deliveries' = deliveries \cup {m}
        /\ UNCHANGED <<pathVars, resourceVars, timers, rebuilds, swaps>>
     \/ /\ SignalLost(m)
        /\ UNCHANGED deliveries
  /\ UNCHANGED <<parts, notices, linkPending>>

DeliverMessage(m) ==
  /\ m \in deliveries
  /\ deliveries' = deliveries \ {m}
  /\ SignalDelivered(m)
  /\ UNCHANGED <<parts, notices, linkPending, sends>>

Application == \E p \in Paths : SetupPath(p) \/ ReleasePath(p)

Scheduler ==
  \/ \E p \in Paths, ok \in BOOLEAN : NotifyPathResult(p, ok)
  \/ \E p \in Paths, a \in Attempts : RetryPath(p, a) \/ HandlePathTimeout(p, a)
  \/ \E e \in EntIds : CompleteRequest(e)
  \/ \E m \in MsgIds : DoSendMessage(m) \/ DeliverMessage(m)
                       \/ ExecuteSwapAtNode(m[1], m[2], m[3])

Next == Application \/ Scheduler

Spec == Init /\ [][Next]_vars

(***************************************************************************)
(* Simulator::Run executes every event that was scheduled and not          *)
(* cancelled; nothing obliges the application to set up or release paths.  *)
(***************************************************************************)
Fairness ==
  /\ \A p \in Paths, ok \in BOOLEAN : WF_vars(NotifyPathResult(p, ok))
  /\ \A p \in Paths, a \in Attempts :
       WF_vars(RetryPath(p, a)) /\ WF_vars(HandlePathTimeout(p, a))
  /\ \A e \in EntIds : WF_vars(CompleteRequest(e))
  /\ \A m \in MsgIds :
       /\ WF_vars(DoSendMessage(m))
       /\ WF_vars(DeliverMessage(m))
       /\ WF_vars(ExecuteSwapAtNode(m[1], m[2], m[3]))

FairSpec == Spec /\ Fairness

(***************************************************************************)
(* Properties                                                              *)
(***************************************************************************)

\* Every variable stays in its range.
TypeOK ==
  /\ parts \subseteq {"linkLayer", "signaling"}
  /\ pathState \in [Paths -> PathStates]
  /\ route \in [Paths -> Routes \cup {<<n>> : n \in Nodes} \cup {<<>>}]
  /\ retryCount \in [Paths -> Attempts]
  /\ req \in [EntIds -> ReqStates]
  /\ segs \in [Paths -> Seq(Segments)]
  /\ signals \subseteq [id : MsgIds, left : Segments, right : Segments]
  /\ notified \in [Paths -> Seq(BOOLEAN)]
  /\ timers \subseteq Paths \X Attempts
  /\ rebuilds \subseteq Paths \X Attempts
  /\ notices \subseteq Paths \X BOOLEAN
  /\ swaps \subseteq MsgIds
  /\ ent \in [EntIds -> EntStates]
  /\ linkPending \subseteq EntIds
  /\ qubits \subseteq Qubits
  /\ sends \subseteq MsgIds
  /\ deliveries \subseteq MsgIds

(***************************************************************************)
(* What moves a pending path forward: its timeout, a scheduled retry, a    *)
(* scheduled swap, or a pending signal whose message is still travelling.  *)
(***************************************************************************)
TimerDrives(p) == <<p, retryCount[p]>> \in timers
RetryDrives(p) == <<p, retryCount[p]>> \in rebuilds
SwapDrives(p) == \E n \in Relays : <<p, retryCount[p], n>> \in swaps
SignalDrives(p) ==
  \E s \in signals : s.id[1] = p /\ s.id[2] = retryCount[p] /\ s.id \in sends \cup deliveries

(***************************************************************************)
(* A path that is still PENDING is in exactly one phase of                 *)
(* StartPathBuilding / ExecuteSwapAtNode / HandleSwapSignal / retry, so it *)
(* is neither stuck nor advanced by two events at once.                    *)
(***************************************************************************)
PendingPathHasOneDriver ==
  \A p \in Paths : pathState[p] = "PENDING" =>
    \/ TimerDrives(p) /\ ~RetryDrives(p) /\ ~SwapDrives(p) /\ ~SignalDrives(p)
    \/ ~TimerDrives(p) /\ RetryDrives(p) /\ ~SwapDrives(p) /\ ~SignalDrives(p)
    \/ ~TimerDrives(p) /\ ~RetryDrives(p) /\ SwapDrives(p) /\ ~SignalDrives(p)
    \/ ~TimerDrives(p) /\ ~RetryDrives(p) /\ ~SwapDrives(p) /\ SignalDrives(p)

(***************************************************************************)
(* Timeouts and retries never outlive the attempt that scheduled them: the *)
(* retryCount guard of HandlePathTimeout is a second line of defence, and  *)
(* StartPathBuilding never runs twice for one attempt.                     *)
(***************************************************************************)
NoStaleTimerOrRetry ==
  /\ \A p \in Paths, a \in Attempts :
       <<p, a>> \in timers => pathState[p] = "PENDING" /\ a = retryCount[p]
  /\ \A p \in Paths, a \in Attempts :
       <<p, a>> \in rebuilds /\ InPaths(p) => pathState[p] = "PENDING" /\ a = retryCount[p]

\* The node that holds a qubit since CompleteRequest transferred one half.
Holder(q) ==
  LET p == q[1][1]
      h == q[1][3]
  IN IF q[2] = "l" THEN route[p][h] ELSE route[p][h + 1]

\* Every end of a segment is a valid qubit in the memory of the node it names.
EndsHeld(s) ==
  /\ {s.leftQubit, s.rightQubit} \subseteq qubits
  /\ Holder(s.leftQubit) = s.leftNode
  /\ Holder(s.rightQubit) = s.rightNode

(***************************************************************************)
(* A swap that is due finds what ExecuteSwapAtNode and the physical        *)
(* entity's assertions need: two segments that meet at the relay, and both *)
(* measured qubits valid and owned by the relay.                           *)
(***************************************************************************)
SwapOperandsHeld ==
  \A p \in Paths, n \in Relays :
    /\ InPaths(p)
    /\ <<p, retryCount[p], n>> \in swaps
    => /\ SwapPossible(p, n)
       /\ EndsHeld(segs[p][1])
       /\ EndsHeld(segs[p][2])

(***************************************************************************)
(* When a swap outcome is due, the first two segments of the path are      *)
(* still the two that the relay measured, and the qubit that the           *)
(* correction is applied to is still held by the right node.               *)
(***************************************************************************)
SignalMatchesSegments ==
  \A s \in signals :
    LET p == s.id[1]
    IN /\ pathState[p] = "PENDING"
       /\ s.id[2] = retryCount[p]
       /\ Len(segs[p]) >= 2
       /\ s.left = segs[p][1]
       /\ s.right = segs[p][2]
       /\ s.right.rightQubit \in qubits
       /\ Holder(s.right.rightQubit) = s.right.rightNode

(***************************************************************************)
(* The segments of a path always span its whole route, end to end, without *)
(* a gap: what HandleSwapSignal merges is adjacent.                        *)
(***************************************************************************)
SegmentsSpanRoute ==
  \A p \in Paths : segs[p] # <<>> =>
    /\ segs[p][1].leftNode = route[p][1]
    /\ segs[p][Len(segs[p])].rightNode = route[p][Len(route[p])]
    /\ \A i \in 1..(Len(segs[p]) - 1) : segs[p][i].rightNode = segs[p][i + 1].leftNode

(***************************************************************************)
(* What a READY path hands to the application is one end-to-end pair: one  *)
(* segment from source to destination with both qubits valid and held by   *)
(* the two end nodes, and nothing still scheduled that would touch it.     *)
(***************************************************************************)
ReadyPathHoldsPair ==
  \A p \in Paths : pathState[p] = "READY" /\ Len(route[p]) > 1 =>
    /\ Len(segs[p]) = 1
    /\ EndsHeld(segs[p][1])
    /\ segs[p][1].leftNode = route[p][1]
    /\ segs[p][1].rightNode = route[p][Len(route[p])]
    /\ ~TimerDrives(p) /\ ~RetryDrives(p) /\ ~SwapDrives(p) /\ ~SignalDrives(p)

(***************************************************************************)
(* A retry starts from nothing: while StartPathBuilding is scheduled the   *)
(* path has no request, segment, pending signal or qubit of the new        *)
(* attempt.                                                                *)
(***************************************************************************)
RetryStartsClean ==
  \A p \in Paths : RetryDrives(p) /\ InPaths(p) =>
    /\ segs[p] = <<>>
    /\ \A e \in EntIds : e[1] = p => req[e] = "NONE"
    /\ \A s \in signals : s.id[1] # p
    /\ \A q \in qubits : q[1][1] = p => q[1][2] # retryCount[p]

(***************************************************************************)
(* A path fails for good only when its route was missing, the link layer   *)
(* is missing, or every retry was used; and then it holds nothing, and its *)
(* application was told so, or the one NotifyPathResult event that will    *)
(* tell it is scheduled.                                                   *)
(***************************************************************************)
FailedOnlyAfterAllRetries ==
  \A p \in Paths : pathState[p] = "FAILED" =>
    /\ route[p] = <<>> \/ ~HasLinkLayer \/ retryCount[p] = MaxRetries
    /\ segs[p] = <<>>
    /\ \A e \in EntIds : e[1] = p => ~Mapped(e)
    /\ \/ notified[p] = <<FALSE>> /\ <<p, FALSE>> \notin notices
       \/ notified[p] = <<>> /\ <<p, FALSE>> \in notices
    /\ <<p, TRUE>> \notin notices

\* A qubit that some request or segment still knows of.
Accounted(q) ==
  \/ Mapped(q[1])
  \/ \E i \in DOMAIN segs[q[1][1]] : q \in SegmentQubits(segs[q[1][1]][i])

Orphans == {q \in qubits : ~Accounted(q)}

(***************************************************************************)
(* Qubits get lost only where a link request is completed: one that was    *)
(* consumed before its CompleteRequest event ran, or one whose second half *)
(* has nowhere to go. Failing, timing out, swapping, merging and releasing *)
(* never lose one.                                                         *)
(***************************************************************************)
OnlyCompletionsOrphan ==
  [][ \A q \in Orphans' \ Orphans :
        /\ q[1] \in linkPending \ linkPending'
        /\ ent[q[1]] = "CONSUMED" \/ FarNode(q[1]) \notin Owners ]_vars

\* What the application was promised.
Service == INSTANCE PathService

\* Every step of the layer is a step the application was promised, or none.
ImplementsPathService == Service!Spec

\* Under the scheduler's fairness the promised answer does arrive: every path
\* that was set up is decided and the application told, unless it releases the
\* path before, on every schedule of failures, losses and retries.
ImplementsPathServiceLive == Service!FairSpec

(***************************************************************************)
(* "Release a path and free resources ... It releases entanglements and    *)
(* cleans up internal state" (quantum-network-layer.h:313-318): no qubit   *)
(* of a released path stays valid.                                         *)
(***************************************************************************)
ReleaseFreesQubits ==
  \A q \in qubits : pathState[q[1][1]] # "RELEASED"
=============================================================================
