--------------------------- MODULE NetworkLayerInv ---------------------------
(***************************************************************************)
(* The inductive invariant of NetworkLayer. A path is in exactly one of    *)
(* seven phases, and the phase determines every event, request, segment,   *)
(* pending signal and message that belongs to the path. The one thing that *)
(* may outlive an attempt is its link requests.                            *)
(***************************************************************************)
EXTENDS NetworkLayer

(***************************************************************************)
(* What may be missing for a path                                          *)
(***************************************************************************)
NoTimer(p) == \A a \in Attempts : <<p, a>> \notin timers
NoRebuild(p) == \A a \in Attempts : <<p, a>> \notin rebuilds
NoSwap(p) == \A a \in Attempts, n \in Relays : <<p, a, n>> \notin swaps
NoMessage(p) ==
  \A a \in Attempts, n \in Relays : <<p, a, n>> \notin sends /\ <<p, a, n>> \notin deliveries
NoSignal(p) == \A s \in signals : s.id[1] # p
NoNotice(p) == \A ok \in BOOLEAN : <<p, ok>> \notin notices
NoRequest(p) == \A a \in Attempts, h \in Hops : req[<<p, a, h>>] = "NONE"
NothingMapped(p) == \A a \in Attempts, h \in Hops : ~Mapped(<<p, a, h>>)

\* No link request of attempt a was ever made.
Untouched(p, a) ==
  \A h \in Hops :
    /\ <<p, a, h>> \notin linkPending
    /\ ent[<<p, a, h>>] = "NONE"
    /\ <<<<p, a, h>>, "l">> \notin qubits
    /\ <<<<p, a, h>>, "r">> \notin qubits

FutureUntouched(p) == \A a \in Attempts : a > retryCount[p] => Untouched(p, a)

(***************************************************************************)
(* Segments: swapping goes from the source to the destination, so with k   *)
(* segments left the first one spans the first Links(p) - k + 1 hops and   *)
(* every other one is a single hop.                                        *)
(***************************************************************************)
Links(p) == Len(route[p]) - 1

SegmentAt(p, k, i) ==
  IF i = 1
  THEN [leftNode |-> route[p][1], rightNode |-> route[p][Links(p) - k + 2],
        leftQubit |-> <<<<p, retryCount[p], 1>>, "l">>,
        rightQubit |-> <<<<p, retryCount[p], Links(p) - k + 1>>, "r">>]
  ELSE HopSegment(p, Links(p) - k + i)

IsChain(p) ==
  /\ Len(segs[p]) \in 1..Links(p)
  /\ \A i \in 1..Len(segs[p]) : segs[p][i] = SegmentAt(p, Len(segs[p]), i)

\* The relay of the next swap, as an index into the route.
NextRelay(p) == Len(route[p]) - Len(segs[p]) + 1
NextSwap(p) == <<p, retryCount[p], NextRelay(p)>>

LeftValid(p, i) == segs[p][i].leftQubit \in qubits
RightValid(p, i) == segs[p][i].rightQubit \in qubits

(***************************************************************************)
(* The phases                                                              *)
(***************************************************************************)
Fresh(p) ==
  /\ pathState[p] = "NONE" /\ route[p] = <<>> /\ retryCount[p] = 0
  /\ notified[p] = <<>> /\ NoNotice(p)
  /\ NoTimer(p) /\ NoRebuild(p) /\ NoSwap(p) /\ NoMessage(p) /\ NoSignal(p)
  /\ NoRequest(p) /\ segs[p] = <<>>
  /\ Untouched(p, 0) /\ FutureUntouched(p)

Pending(p) ==
  /\ pathState[p] = "PENDING" /\ route[p] \in Routes
  /\ notified[p] = <<>> /\ NoNotice(p)
  /\ FutureUntouched(p)

\* Link requests are out and the timeout is armed.
Building(p) ==
  /\ Pending(p)
  /\ \A a \in Attempts : <<p, a>> \in timers <=> a = retryCount[p]
  /\ NoRebuild(p) /\ NoSwap(p) /\ NoMessage(p) /\ NoSignal(p)
  /\ segs[p] = <<>>
  /\ \A h \in 1..Links(p) :
       LET e == <<p, retryCount[p], h>>
       IN \/ req[e] = "PENDING" /\ ent[e] = "PENDING"
          \/ req[e] = "READY" /\ ent[e] = "READY" /\ LinkPair(e) \subseteq qubits
  /\ \A a \in Attempts, h \in Hops :
       a # retryCount[p] \/ h > Links(p) => req[<<p, a, h>>] = "NONE"

\* The last attempt failed and StartPathBuilding is scheduled.
Waiting(p) ==
  /\ Pending(p)
  /\ \A a \in Attempts : <<p, a>> \in rebuilds <=> a = retryCount[p]
  /\ NoTimer(p) /\ NoSwap(p) /\ NoMessage(p) /\ NoSignal(p)
  /\ NoRequest(p) /\ segs[p] = <<>>
  /\ Untouched(p, retryCount[p])

\* ExecuteSwapAtNode is scheduled for the next relay.
Swapping(p) ==
  /\ Pending(p)
  /\ NoTimer(p) /\ NoRebuild(p) /\ NoMessage(p) /\ NoSignal(p)
  /\ NothingMapped(p)
  /\ IsChain(p) /\ Len(segs[p]) >= 2
  /\ \A i \in 1..Len(segs[p]) : LeftValid(p, i) /\ RightValid(p, i)
  /\ \A a \in Attempts, n \in Relays :
       <<p, a, n>> \in swaps <=> <<p, a, n>> = NextSwap(p)

\* The outcomes of the swap at the next relay are on their way.
Signalling(p) ==
  /\ Pending(p)
  /\ NoTimer(p) /\ NoRebuild(p) /\ NoSwap(p)
  /\ NothingMapped(p)
  /\ IsChain(p) /\ Len(segs[p]) >= 2
  /\ LeftValid(p, 1) /\ RightValid(p, 2)
  /\ \A i \in 3..Len(segs[p]) : LeftValid(p, i) /\ RightValid(p, i)
  /\ [id |-> NextSwap(p), left |-> segs[p][1], right |-> segs[p][2]] \in signals
  /\ \A s \in signals : s.id[1] = p =>
       s = [id |-> NextSwap(p), left |-> segs[p][1], right |-> segs[p][2]]
  /\ \A a \in Attempts, n \in Relays :
       /\ <<p, a, n>> \in sends \cup deliveries <=> <<p, a, n>> = NextSwap(p)
       /\ ~(<<p, a, n>> \in sends /\ <<p, a, n>> \in deliveries)

\* Decided, and the application told or about to be.
Finished(p) ==
  /\ pathState[p] \in {"READY", "FAILED"}
  /\ NoTimer(p) /\ NoRebuild(p) /\ NoSwap(p) /\ NoMessage(p) /\ NoSignal(p)
  /\ NothingMapped(p)
  /\ LET ok == pathState[p] = "READY"
     IN \/ notified[p] = <<ok>> /\ NoNotice(p)
        \/ notified[p] = <<>> /\ \A b \in BOOLEAN : <<p, b>> \in notices <=> b = ok
  /\ \/ pathState[p] = "READY" /\ route[p] \in Routes /\ IsChain(p) /\ Len(segs[p]) = 1
        /\ LeftValid(p, 1) /\ RightValid(p, 1)
     \/ segs[p] = <<>> /\ (pathState[p] = "READY" => Len(route[p]) = 1)

Released(p) ==
  /\ pathState[p] = "RELEASED"
  /\ NoTimer(p) /\ NoSignal(p) /\ NothingMapped(p) /\ segs[p] = <<>>

Phase(p) ==
  Fresh(p) \/ Building(p) \/ Waiting(p) \/ Swapping(p) \/ Signalling(p)
    \/ Finished(p) \/ Released(p)

\* The phases cover every reachable state of every path.
IInv == TypeOK /\ \A p \in Paths : Phase(p)

(***************************************************************************)
(* What keeps qubits from getting lost: with IInv the next four parts make *)
(* OnlyCompletionsOrphan provable.                                         *)
(***************************************************************************)
\* A link request of p that is not completed yet is attached, or was consumed.
LateOrAsked(p) ==
  \A a \in Attempts, h \in Hops : <<p, a, h>> \in linkPending =>
    \/ req[<<p, a, h>>] = "PENDING" /\ ent[<<p, a, h>>] = "PENDING"
    \/ ~Mapped(<<p, a, h>>) /\ ent[<<p, a, h>>] = "CONSUMED"

\* A request that is not completed has no qubits.
NoEarlyQubits(p) ==
  \A a \in Attempts, h \in Hops : ent[<<p, a, h>>] = "PENDING" =>
    <<<<p, a, h>>, "l">> \notin qubits /\ <<<<p, a, h>>, "r">> \notin qubits

\* The link pairs that the segments are made of stay READY: they are detached,
\* so nobody consumes them.
SegmentsReady(p) ==
  segs[p] # <<>> => \A h \in 1..Links(p) : ent[<<p, retryCount[p], h>>] = "READY"

\* The qubits a pending signal measured are gone.
MeasuredGone(p) ==
  \A s \in signals : s.id[1] = p =>
    s.left.rightQubit \notin qubits /\ s.right.leftQubit \notin qubits

QubitsOf(p) == LateOrAsked(p) /\ NoEarlyQubits(p) /\ SegmentsReady(p) /\ MeasuredGone(p)

QubitInv == \A p \in Paths : QubitsOf(p)
=============================================================================
