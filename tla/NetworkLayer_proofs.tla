------------------------- MODULE NetworkLayer_proofs -------------------------
(***************************************************************************)
(* Proofs about NetworkLayer, for every bound on paths and retries and     *)
(* every set of simple routes.                                             *)
(***************************************************************************)
EXTENDS NetworkLayerInv, SequenceTheorems, TLAPS

(***************************************************************************)
(* Routes                                                                  *)
(***************************************************************************)

\* The lengths and indices that the phases use are in range.
LEMMA RouteFacts ==
  ASSUME TypeOK, NEW p \in Paths, route[p] \in Routes
  PROVE  /\ Len(route[p]) \in Nat
         /\ Len(route[p]) >= 2
         /\ Links(p) \in Nat
         /\ Links(p) >= 1
         /\ 1..Links(p) \subseteq Hops
         /\ \A i \in 1..Len(route[p]) : route[p][i] \in Nodes
         /\ 2..Links(p) \subseteq Relays
<1>1. route[p] \in Seq(Nodes) /\ Len(route[p]) >= 2
  BY ParamAssumption
<1>2. Len(route[p]) \in Nat
  BY <1>1
<1>3. 1..Links(p) \subseteq Hops
  BY <1>1 DEF Links, Hops
<1>4. 2..Links(p) \subseteq Relays
  BY <1>1 DEF Links, Relays
<1> QED
  BY <1>1, <1>2, <1>3, <1>4 DEF Links

\* Attempts and hops are natural numbers.
LEMMA IndexFacts ==
  /\ Attempts \subseteq Nat
  /\ Hops \subseteq Nat \ {0}
  /\ Relays \subseteq Nat \ {0}
  /\ Paths \subseteq Nat
<1>1. \A r \in Routes : Len(r) \in Nat
  BY ParamAssumption
<1> QED
  BY <1>1, ParamAssumption DEF Attempts, Hops, Relays, Paths

(***************************************************************************)
(* Frame: the phase of a path depends only on what belongs to the path.    *)
(***************************************************************************)
SamePath(q) ==
  /\ pathState'[q] = pathState[q]
  /\ route'[q] = route[q]
  /\ retryCount'[q] = retryCount[q]
  /\ notified'[q] = notified[q]
  /\ segs'[q] = segs[q]

SameEvents(q) ==
  /\ \A a \in Attempts :
       /\ <<q, a>> \in timers' <=> <<q, a>> \in timers
       /\ <<q, a>> \in rebuilds' <=> <<q, a>> \in rebuilds
  /\ \A ok \in BOOLEAN : <<q, ok>> \in notices' <=> <<q, ok>> \in notices
  /\ \A a \in Attempts, n \in Relays :
       /\ <<q, a, n>> \in swaps' <=> <<q, a, n>> \in swaps
       /\ <<q, a, n>> \in sends' <=> <<q, a, n>> \in sends
       /\ <<q, a, n>> \in deliveries' <=> <<q, a, n>> \in deliveries

SameSignals(q) ==
  /\ \A s \in signals' : s.id[1] = q => s \in signals
  /\ \A s \in signals : s.id[1] = q => s \in signals'

SameLinks(q) ==
  \A a \in Attempts, h \in Hops :
    /\ req'[<<q, a, h>>] = req[<<q, a, h>>]
    /\ ent'[<<q, a, h>>] = ent[<<q, a, h>>]
    /\ <<q, a, h>> \in linkPending' => <<q, a, h>> \in linkPending
    /\ <<<<q, a, h>>, "l">> \in qubits' <=> <<<<q, a, h>>, "l">> \in qubits
    /\ <<<<q, a, h>>, "r">> \in qubits' <=> <<<<q, a, h>>, "r">> \in qubits

Same(q) == SamePath(q) /\ SameEvents(q) /\ SameSignals(q) /\ SameLinks(q)

\* A segment of a chain has the qubits of the two hops it spans.
LEMMA SegmentQubitNames ==
  ASSUME TypeOK, NEW p \in Paths, route[p] \in Routes, IsChain(p),
         NEW i \in 1..Len(segs[p])
  PROVE  /\ \E h \in Hops : segs[p][i].leftQubit = <<<<p, retryCount[p], h>>, "l">>
         /\ \E h \in Hops : segs[p][i].rightQubit = <<<<p, retryCount[p], h>>, "r">>
<1>1. /\ Links(p) \in Nat /\ 1..Links(p) \subseteq Hops
  BY RouteFacts
<1>2. Len(segs[p]) \in 1..Links(p) /\ segs[p][i] = SegmentAt(p, Len(segs[p]), i)
  BY DEF IsChain
<1>3. CASE i = 1
  <2>1. 1 \in 1..Links(p) /\ Links(p) - Len(segs[p]) + 1 \in 1..Links(p)
    BY <1>1, <1>2
  <2> QED
    BY <1>1, <1>2, <1>3, <2>1 DEF SegmentAt
<1>4. CASE i # 1
  <2>1. Links(p) - Len(segs[p]) + i \in 1..Links(p)
    BY <1>1, <1>2
  <2> QED
    BY <1>1, <1>2, <1>4, <2>1 DEF SegmentAt, HopSegment
<1> QED
  BY <1>3, <1>4

\* A step that leaves everything of path q alone keeps q in its phase.
LEMMA Frame ==
  ASSUME TypeOK, TypeOK', NEW q \in Paths, Phase(q), Same(q)
  PROVE  Phase(q)'
<1>0. retryCount[q] \in Attempts
  BY DEF TypeOK
<1>a. NoTimer(q) => NoTimer(q)'
  BY DEF NoTimer, Same, SameEvents
<1>b. NoRebuild(q) => NoRebuild(q)'
  BY DEF NoRebuild, Same, SameEvents
<1>c. NoSwap(q) => NoSwap(q)'
  BY DEF NoSwap, Same, SameEvents
<1>d. NoMessage(q) => NoMessage(q)'
  BY DEF NoMessage, Same, SameEvents
<1>e. NoSignal(q) => NoSignal(q)'
  BY DEF NoSignal, Same, SameSignals
<1>f. NoNotice(q) => NoNotice(q)'
  BY DEF NoNotice, Same, SameEvents
<1>g. NoRequest(q) => NoRequest(q)'
  BY DEF NoRequest, Same, SameLinks
<1>h. NothingMapped(q) => NothingMapped(q)'
  BY DEF NothingMapped, Mapped, Same, SameLinks
<1>i. \A a \in Attempts : Untouched(q, a) => Untouched(q, a)'
  BY DEF Untouched, Same, SameLinks
<1>j. FutureUntouched(q) => FutureUntouched(q)'
  BY <1>i DEF FutureUntouched, Same, SamePath
<1>k. Pending(q) => Pending(q)'
  BY <1>f, <1>j DEF Pending, Same, SamePath
<1> DEFINE k == Len(segs[q])
<1>l. IsChain(q) => IsChain(q)'
  BY DEF IsChain, Links, SegmentAt, HopSegment, Same, SamePath
<1>m. ASSUME route[q] \in Routes, IsChain(q), NEW i \in 1..k
      PROVE  /\ LeftValid(q, i) => LeftValid(q, i)'
             /\ RightValid(q, i) => RightValid(q, i)'
  <2> DEFINE left == segs[q][i].leftQubit
             right == segs[q][i].rightQubit
  <2>1. /\ \E h \in Hops : left = <<<<q, retryCount[q], h>>, "l">>
        /\ \E h \in Hops : right = <<<<q, retryCount[q], h>>, "r">>
    BY <1>m, SegmentQubitNames
  <2>2. \A h \in Hops :
          /\ <<<<q, retryCount[q], h>>, "l">> \in qubits => <<<<q, retryCount[q], h>>, "l">> \in qubits'
          /\ <<<<q, retryCount[q], h>>, "r">> \in qubits => <<<<q, retryCount[q], h>>, "r">> \in qubits'
    BY <1>0 DEF Same, SameLinks
  <2>3. segs'[q] = segs[q]
    BY DEF Same, SamePath
  <2> HIDE DEF left, right
  <2>4. (left \in qubits => left \in qubits') /\ (right \in qubits => right \in qubits')
    BY <2>1, <2>2
  <2> QED
    BY <2>3, <2>4 DEF LeftValid, RightValid, left, right
<1>n. NextSwap(q)' = NextSwap(q)
  BY DEF NextSwap, NextRelay, Same, SamePath
<1>1. CASE Fresh(q)
  <2>1. Untouched(q, 0)'
    BY <1>1, <1>i, <1>0 DEF Fresh
  <2> QED
    BY <1>1, <2>1, <1>a, <1>b, <1>c, <1>d, <1>e, <1>f, <1>g, <1>j
    DEF Fresh, Phase, Same, SamePath
<1>2. CASE Building(q)
  <2>1. 1..Links(q) \subseteq Hops
    BY <1>2, RouteFacts DEF Building, Pending
  <2>2. Links(q)' = Links(q)
    BY DEF Links, Same, SamePath
  <2>3. ASSUME NEW h \in 1..Links(q)
        PROVE  (LET e == <<q, retryCount[q], h>>
                IN \/ req[e] = "PENDING" /\ ent[e] = "PENDING"
                   \/ req[e] = "READY" /\ ent[e] = "READY" /\ LinkPair(e) \subseteq qubits)'
    <3> DEFINE e == <<q, retryCount[q], h>>
    <3>1. h \in Hops /\ retryCount'[q] = retryCount[q]
      BY <2>1 DEF Same, SamePath
    <3>2. /\ req'[e] = req[e] /\ ent'[e] = ent[e]
          /\ <<e, "l">> \in qubits' <=> <<e, "l">> \in qubits
          /\ <<e, "r">> \in qubits' <=> <<e, "r">> \in qubits
      BY <3>1, <1>0 DEF Same, SameLinks
    <3>3. \/ req[e] = "PENDING" /\ ent[e] = "PENDING"
          \/ req[e] = "READY" /\ ent[e] = "READY" /\ LinkPair(e) \subseteq qubits
      BY <1>2 DEF Building
    <3> QED
      BY <3>1, <3>2, <3>3 DEF LinkPair
  <2>4. \A a \in Attempts, h \in Hops :
          a # retryCount'[q] \/ h > Links(q)' => req'[<<q, a, h>>] = "NONE"
    <3>1. retryCount'[q] = retryCount[q]
      BY DEF Same, SamePath
    <3>2. \A a \in Attempts, h \in Hops :
            a # retryCount[q] \/ h > Links(q) => req[<<q, a, h>>] = "NONE"
      BY <1>2 DEF Building
    <3>3. \A a \in Attempts, h \in Hops : req'[<<q, a, h>>] = req[<<q, a, h>>]
      BY DEF Same, SameLinks
    <3> QED
      BY <2>2, <3>1, <3>2, <3>3
  <2>5. \A a \in Attempts : <<q, a>> \in timers' <=> a = retryCount'[q]
    BY <1>2 DEF Building, Same, SamePath, SameEvents
  <2>6. \A h \in 1..Links(q)' :
          (LET e == <<q, retryCount[q], h>>
           IN \/ req[e] = "PENDING" /\ ent[e] = "PENDING"
              \/ req[e] = "READY" /\ ent[e] = "READY" /\ LinkPair(e) \subseteq qubits)'
    BY <2>2, <2>3
  <2>7. segs'[q] = <<>>
    BY <1>2 DEF Building, Same, SamePath
  <2>8. Building(q)'
    BY <1>2, <2>4, <2>5, <2>6, <2>7, <1>k, <1>b, <1>c, <1>d, <1>e DEF Building
  <2> QED
    BY <2>8 DEF Phase
<1>3. CASE Waiting(q)
  <2>1. Untouched(q, retryCount[q])'
    BY <1>3, <1>0, <1>i DEF Waiting, Same, SamePath
  <2>2. Waiting(q)'
    BY <1>3, <2>1, <1>0, <1>k, <1>a, <1>c, <1>d, <1>e, <1>g
    DEF Waiting, Same, SamePath, SameEvents
  <2> QED
    BY <2>2 DEF Phase
<1>4. CASE Swapping(q)
  <2>1. \A i \in 1..k : LeftValid(q, i)' /\ RightValid(q, i)'
    BY <1>4, <1>m DEF Swapping, Pending
  <2>2. Swapping(q)'
    BY <1>4, <2>1, <1>k, <1>a, <1>b, <1>d, <1>e, <1>h, <1>l, <1>n
    DEF Swapping, Same, SamePath, SameEvents
  <2> QED
    BY <2>2 DEF Phase
<1>5. CASE Signalling(q)
  <2>1. k \in Nat /\ k >= 2
    BY <1>5 DEF Signalling, TypeOK
  <2>2. LeftValid(q, 1)' /\ RightValid(q, 2)'
    BY <1>5, <2>1, <1>m DEF Signalling, Pending
  <2>3. \A i \in 3..k : LeftValid(q, i)' /\ RightValid(q, i)'
    BY <1>5, <2>1, <1>m DEF Signalling, Pending
  <2>4. Signalling(q)'
    BY <1>5, <2>2, <2>3, <1>k, <1>a, <1>b, <1>c, <1>h, <1>l, <1>n
    DEF Signalling, NextSwap, Same, SamePath, SameEvents, SameSignals
  <2> QED
    BY <2>4 DEF Phase
<1>6. CASE Finished(q)
  <2>1. route[q] \in Routes /\ IsChain(q) /\ k = 1 /\ LeftValid(q, 1) /\ RightValid(q, 1)
        => LeftValid(q, 1)' /\ RightValid(q, 1)'
    BY <1>m
  <2>2. Finished(q)'
    BY <1>6, <2>1, <1>a, <1>b, <1>c, <1>d, <1>e, <1>f, <1>h, <1>l
    DEF Finished, Same, SamePath, SameEvents
  <2> QED
    BY <2>2 DEF Phase
<1>7. CASE Released(q)
  BY <1>7, <1>a, <1>e, <1>h DEF Released, Phase, Same, SamePath
<1> QED
  BY <1>1, <1>2, <1>3, <1>4, <1>5, <1>6, <1>7 DEF Phase

(***************************************************************************)
(* Resources passed between the handlers                                   *)
(***************************************************************************)
SignalRecords == [id : MsgIds, left : Segments, right : Segments]

ResourceRecords ==
  [req : [EntIds -> ReqStates], segs : [Paths -> Seq(Segments)],
   signals : SUBSET SignalRecords, ent : [EntIds -> EntStates],
   qubits : SUBSET Qubits]

\* The segments of p name qubits of p only.
OwnSegments(p, res) ==
  \A i \in 1..Len(res.segs[p]) :
    /\ res.segs[p][i].leftQubit[1][1] = p
    /\ res.segs[p][i].rightQubit[1][1] = p

\* res agrees with the state on what belongs to q.
KeptLink(q, res, a, h) ==
  /\ res.req[<<q, a, h>>] = req[<<q, a, h>>]
  /\ res.ent[<<q, a, h>>] = ent[<<q, a, h>>]
  /\ <<<<q, a, h>>, "l">> \in res.qubits <=> <<<<q, a, h>>, "l">> \in qubits
  /\ <<<<q, a, h>>, "r">> \in res.qubits <=> <<<<q, a, h>>, "r">> \in qubits

Kept(q, res) ==
  /\ res.segs[q] = segs[q]
  /\ \A s \in res.signals : s.id[1] = q => s \in signals
  /\ \A s \in signals : s.id[1] = q => s \in res.signals
  /\ \A a \in Attempts, h \in Hops : KeptLink(q, res, a, h)

\* res differs from the state only in what belongs to p.
OthersKept(p, res) == \A q \in Paths : q # p => Kept(q, res)

\* No later attempt of p has been requested.
FutureFree(p, res) ==
  \A a \in Attempts, h \in Hops : a > retryCount[p] =>
    /\ <<p, a, h>> \notin linkPending
    /\ res.req[<<p, a, h>>] \notin {"PENDING", "READY"}
    /\ res.ent[<<p, a, h>>] = "NONE"
    /\ <<<<p, a, h>>, "l">> \notin res.qubits
    /\ <<<<p, a, h>>, "r">> \notin res.qubits

\* CleanupPathResources releases what p holds and touches no other path.
LEMMA CleanupFacts ==
  ASSUME NEW p \in Paths, NEW res \in ResourceRecords, OwnSegments(p, res)
  PROVE  LET c == CleanupPathResources(p, res)
         IN /\ c \in ResourceRecords
            /\ c.segs = [res.segs EXCEPT ![p] = <<>>]
            /\ c.signals = {s \in res.signals : s.id[1] # p}
            /\ \A a \in Attempts, h \in Hops :
                 /\ c.req[<<p, a, h>>] \notin {"PENDING", "READY"}
                 /\ res.req[<<p, a, h>>] \notin {"PENDING", "READY"} =>
                      /\ c.req[<<p, a, h>>] = res.req[<<p, a, h>>]
                      /\ c.ent[<<p, a, h>>] = res.ent[<<p, a, h>>]
            /\ \A q \in Paths, a \in Attempts, h \in Hops : q # p =>
                 /\ c.req[<<q, a, h>>] = res.req[<<q, a, h>>]
                 /\ c.ent[<<q, a, h>>] = res.ent[<<q, a, h>>]
                 /\ <<<<q, a, h>>, "l">> \in c.qubits <=> <<<<q, a, h>>, "l">> \in res.qubits
                 /\ <<<<q, a, h>>, "r">> \in c.qubits <=> <<<<q, a, h>>, "r">> \in res.qubits
            /\ c.qubits \subseteq res.qubits
<1> DEFINE c == CleanupPathResources(p, res)
           attached == {e \in EntIds : e[1] = p /\ res.req[e] \in {"PENDING", "READY"}}
           freed == UNION {LinkPair(e) : e \in {d \in attached : res.ent[d] = "READY"}}
           held == UNION {SegmentQubits(res.segs[p][i]) : i \in DOMAIN res.segs[p]}
<1>1. /\ c.req = [e \in EntIds |-> IF e \in attached THEN "DETACHED" ELSE res.req[e]]
      /\ c.segs = [res.segs EXCEPT ![p] = <<>>]
      /\ c.signals = {s \in res.signals : s.id[1] # p}
      /\ c.ent = [e \in EntIds |-> IF e \in attached THEN "CONSUMED" ELSE res.ent[e]]
      /\ c.qubits = res.qubits \ (freed \cup held)
      /\ c = [req |-> c.req, segs |-> c.segs, signals |-> c.signals,
              ent |-> c.ent, qubits |-> c.qubits]
  BY DEF CleanupPathResources, HeldQubits, OwnSignals
<1>2. c \in ResourceRecords
  <2>1. c.req \in [EntIds -> ReqStates] /\ c.ent \in [EntIds -> EntStates]
    BY <1>1 DEF ResourceRecords, ReqStates, EntStates
  <2>2. c.segs \in [Paths -> Seq(Segments)]
    BY <1>1 DEF ResourceRecords
  <2>3. c.signals \in SUBSET SignalRecords /\ c.qubits \in SUBSET Qubits
    BY <1>1 DEF ResourceRecords
  <2> HIDE DEF c
  <2> QED
    BY <1>1, <2>1, <2>2, <2>3 DEF ResourceRecords
<1>3. ASSUME NEW x \in freed \cup held PROVE x[1][1] = p
  <2>1. CASE x \in freed
    BY <2>1 DEF LinkPair
  <2>2. CASE x \in held
    <3>1. DOMAIN res.segs[p] = 1..Len(res.segs[p])
      BY DEF ResourceRecords
    <3> QED
      BY <2>2, <3>1 DEF OwnSegments, SegmentQubits
  <2> QED
    BY <1>3, <2>1, <2>2
<1>4. ASSUME NEW a \in Attempts, NEW h \in Hops
      PROVE  /\ c.req[<<p, a, h>>] \notin {"PENDING", "READY"}
             /\ res.req[<<p, a, h>>] \notin {"PENDING", "READY"} =>
                  /\ c.req[<<p, a, h>>] = res.req[<<p, a, h>>]
                  /\ c.ent[<<p, a, h>>] = res.ent[<<p, a, h>>]
  <2>1. <<p, a, h>> \in EntIds
    BY DEF EntIds
  <2> QED
    BY <1>1, <2>1
<1>5. ASSUME NEW q \in Paths, NEW a \in Attempts, NEW h \in Hops, q # p
      PROVE  /\ c.req[<<q, a, h>>] = res.req[<<q, a, h>>]
             /\ c.ent[<<q, a, h>>] = res.ent[<<q, a, h>>]
             /\ <<<<q, a, h>>, "l">> \in c.qubits <=> <<<<q, a, h>>, "l">> \in res.qubits
             /\ <<<<q, a, h>>, "r">> \in c.qubits <=> <<<<q, a, h>>, "r">> \in res.qubits
  <2>1. <<q, a, h>> \in EntIds
    BY DEF EntIds
  <2>2. <<q, a, h>> \notin attached
    BY <1>5
  <2>3. /\ <<<<q, a, h>>, "l">> \notin freed \cup held
        /\ <<<<q, a, h>>, "r">> \notin freed \cup held
    <3> HIDE DEF freed, held
    <3> QED
      BY <1>3, <1>5
  <2> HIDE DEF freed, held, attached
  <2> QED
    BY <1>1, <2>1, <2>2, <2>3
<1>6. c.qubits \subseteq res.qubits
  BY <1>1
<1> HIDE DEF c
<1> QED
  BY <1>1, <1>2, <1>4, <1>5, <1>6 DEF c

(***************************************************************************)
(* The variables a handler of p leaves to the action that calls it.        *)
(***************************************************************************)
CallerType ==
  /\ parts \subseteq {"linkLayer", "signaling"}
  /\ notices \subseteq Paths \X BOOLEAN
  /\ linkPending \subseteq EntIds
  /\ sends \subseteq MsgIds
  /\ deliveries \subseteq MsgIds

CallerKeeps(q) ==
  /\ \A ok \in BOOLEAN : <<q, ok>> \in notices' <=> <<q, ok>> \in notices
  /\ \A a \in Attempts, n \in Relays :
       /\ <<q, a, n>> \in sends' <=> <<q, a, n>> \in sends
       /\ <<q, a, n>> \in deliveries' <=> <<q, a, n>> \in deliveries
  /\ \A a \in Attempts, h \in Hops :
       <<q, a, h>> \in linkPending' => <<q, a, h>> \in linkPending

\* The caller of a handler of p keeps to p and has used up p's messages.
CallerOf(p) ==
  /\ CallerType'
  /\ linkPending' \subseteq linkPending
  /\ NoMessage(p)'
  /\ NoNotice(p)'
  /\ \A q \in Paths : q # p => CallerKeeps(q)

\* What holds when a handler of the pending path p is entered with res.
Entered(p, res) ==
  /\ pathState[p] = "PENDING"
  /\ route[p] \in Routes
  /\ notified[p] = <<>>
  /\ \A a \in Attempts : <<p, a>> \in timers => a = retryCount[p]
  /\ NoRebuild(p)
  /\ \A s \in res.signals : s.id[1] # p
  /\ OthersKept(p, res)
  /\ FutureFree(p, res)

\* Storing resources that differ only for p leaves every other path alone.
LEMMA StoreOthers ==
  ASSUME NEW p \in Paths, NEW res \in ResourceRecords, OthersKept(p, res), Store(res),
         NEW q \in Paths, q # p
  PROVE  SameSignals(q) /\ segs'[q] = segs[q]
         /\ (CallerKeeps(q) => SameLinks(q))
BY DEF OthersKept, Kept, KeptLink, Store, SameSignals, SameLinks, CallerKeeps

\* HandlePathFailure ends in Waiting for a retry or in FAILED, holding nothing.
\* Its caller may have used up the swap of p.
LEMMA FailureOfSwap ==
  ASSUME TypeOK, NEW p \in Paths, NEW res \in ResourceRecords,
         Entered(p, res), OwnSegments(p, res), NoSwap(p)', CallerOf(p),
         HandlePathFailure(p, res), swaps' \subseteq swaps,
         \A q \in Paths, a \in Attempts, n \in Relays : q # p =>
           (<<q, a, n>> \in swaps' <=> <<q, a, n>> \in swaps)
  PROVE  TypeOK' /\ Phase(p)' /\ \A q \in Paths : q # p => Same(q)
<1> DEFINE c == CleanupPathResources(p, res)
           f == ForgetRequests(p, c)
           rc == retryCount[p]
<1>0. rc \in Attempts /\ rc \in Nat /\ MaxRetries \in Nat
  BY ParamAssumption DEF TypeOK, Attempts
<1>1. /\ c \in ResourceRecords
      /\ c.segs = [res.segs EXCEPT ![p] = <<>>]
      /\ c.signals = {s \in res.signals : s.id[1] # p}
      /\ \A a \in Attempts, h \in Hops :
           /\ c.req[<<p, a, h>>] \notin {"PENDING", "READY"}
           /\ res.req[<<p, a, h>>] \notin {"PENDING", "READY"} =>
                /\ c.req[<<p, a, h>>] = res.req[<<p, a, h>>]
                /\ c.ent[<<p, a, h>>] = res.ent[<<p, a, h>>]
      /\ \A q \in Paths, a \in Attempts, h \in Hops : q # p =>
           /\ c.req[<<q, a, h>>] = res.req[<<q, a, h>>]
           /\ c.ent[<<q, a, h>>] = res.ent[<<q, a, h>>]
           /\ <<<<q, a, h>>, "l">> \in c.qubits <=> <<<<q, a, h>>, "l">> \in res.qubits
           /\ <<<<q, a, h>>, "r">> \in c.qubits <=> <<<<q, a, h>>, "r">> \in res.qubits
      /\ c.qubits \subseteq res.qubits
  BY CleanupFacts
<1> HIDE DEF c
<1>2. OthersKept(p, c)
  <2>1. ASSUME NEW q \in Paths, q # p, NEW a \in Attempts, NEW h \in Hops
        PROVE  KeptLink(q, c, a, h)
    <3>1. KeptLink(q, res, a, h)
      BY <2>1 DEF Entered, OthersKept, Kept
    <3> QED
      BY <1>1, <2>1, <3>1 DEF KeptLink
  <2>2. ASSUME NEW q \in Paths, q # p
        PROVE  /\ c.segs[q] = segs[q]
               /\ \A s \in c.signals : s.id[1] = q => s \in signals
               /\ \A s \in signals : s.id[1] = q => s \in c.signals
    BY <1>1, <2>2 DEF Entered, OthersKept, Kept, ResourceRecords
  <2> QED
    BY <2>1, <2>2 DEF OthersKept, Kept
<1>3. FutureFree(p, c)
  BY <1>1 DEF FutureFree, Entered
<1>4. /\ f \in ResourceRecords
      /\ f.segs = c.segs /\ f.signals = c.signals /\ f.ent = c.ent /\ f.qubits = c.qubits
      /\ f.req = [e \in EntIds |-> IF e[1] = p THEN "NONE" ELSE c.req[e]]
  <2>1. f = [c EXCEPT !.req = [e \in EntIds |-> IF e[1] = p THEN "NONE" ELSE c.req[e]]]
    BY DEF ForgetRequests
  <2>2. [e \in EntIds |-> IF e[1] = p THEN "NONE" ELSE c.req[e]] \in [EntIds -> ReqStates]
    BY <1>1 DEF ResourceRecords, ReqStates
  <2> QED
    BY <1>1, <2>1, <2>2 DEF ResourceRecords
<1>5. \A q \in Paths, a \in Attempts, h \in Hops :
        f.req[<<q, a, h>>] = IF q = p THEN "NONE" ELSE c.req[<<q, a, h>>]
  BY <1>4 DEF EntIds
<1> HIDE DEF f
<1>6. OthersKept(p, f)
  <2>1. ASSUME NEW q \in Paths, q # p, NEW a \in Attempts, NEW h \in Hops
        PROVE  KeptLink(q, f, a, h)
    <3>1. KeptLink(q, c, a, h)
      BY <1>2, <2>1 DEF OthersKept, Kept
    <3> QED
      BY <1>4, <1>5, <2>1, <3>1 DEF KeptLink
  <2> QED
    BY <1>2, <1>4, <2>1 DEF OthersKept, Kept
<1>7. timers' = timers \ {<<p, rc>>} /\ UNCHANGED route
  BY DEF HandlePathFailure, CancelTimer
<1>8. NoTimer(p)' /\ NoSwap(p)'
  BY <1>7 DEF NoTimer, Entered
<1>9. CASE /\ MayRetry(p)
           /\ retryCount' = [retryCount EXCEPT ![p] = rc + 1]
           /\ pathState' = [pathState EXCEPT ![p] = "PENDING"]
           /\ Store(f)
           /\ rebuilds' = rebuilds \cup {<<p, rc + 1>>}
           /\ UNCHANGED notified
  <2>1. rc + 1 \in Attempts
    BY <1>0, <1>9 DEF Attempts, MayRetry
  <2>2. TypeOK'
    BY <1>9, <2>1, <1>4, <1>7
    DEF TypeOK, CallerOf, CallerType, Store, ResourceRecords, SignalRecords, PathStates
  <2>3. /\ pathState'[p] = "PENDING" /\ retryCount'[p] = rc + 1
        /\ route'[p] \in Routes /\ notified'[p] = <<>> /\ segs'[p] = <<>>
    BY <1>9, <1>7, <1>1, <1>4 DEF TypeOK, Entered, Store, ResourceRecords
  <2>4. FutureUntouched(p)' /\ Untouched(p, retryCount[p])'
    <3>1. \A a \in Attempts, h \in Hops : a > rc =>
            /\ <<p, a, h>> \notin linkPending'
            /\ ent'[<<p, a, h>>] = "NONE"
            /\ <<<<p, a, h>>, "l">> \notin qubits'
            /\ <<<<p, a, h>>, "r">> \notin qubits'
      BY <1>9, <1>3, <1>4 DEF FutureFree, Store, CallerOf
    <3>2. \A a \in Attempts : a > rc + 1 => a > rc
      BY <1>0, IndexFacts
    <3>3. rc + 1 > rc
      BY <1>0
    <3> QED
      BY <2>1, <2>3, <3>1, <3>2, <3>3 DEF FutureUntouched, Untouched
  <2>5. NoSignal(p)' /\ NoRequest(p)'
    BY <1>9, <1>1, <1>4, <1>5 DEF NoSignal, NoRequest, Store
  <2>6. \A a \in Attempts : <<p, a>> \in rebuilds' <=> a = retryCount'[p]
    BY <1>9, <2>1, <2>3 DEF Entered, NoRebuild
  <2>7. Waiting(p)'
    BY <2>3, <2>4, <2>5, <2>6, <1>8 DEF Waiting, Pending, CallerOf
  <2>8. ASSUME NEW q \in Paths, q # p PROVE Same(q)
    <3>1. SameSignals(q) /\ segs'[q] = segs[q] /\ SameLinks(q)
      BY <1>9, <1>4, <1>6, <2>8, StoreOthers DEF CallerOf
    <3>2. SamePath(q)
      BY <1>7, <1>9, <2>8, <3>1 DEF SamePath, TypeOK
    <3>3. SameEvents(q)
      BY <1>7, <1>9, <2>8 DEF SameEvents, CallerOf, CallerKeeps
    <3> QED
      BY <3>1, <3>2, <3>3 DEF Same
  <2> QED
    BY <2>2, <2>7, <2>8 DEF Phase
<1>10. CASE /\ ~MayRetry(p)
            /\ pathState' = [pathState EXCEPT ![p] = "FAILED"]
            /\ Store(c)
            /\ Notify(p, FALSE)
            /\ UNCHANGED <<retryCount, rebuilds>>
  <2>1. notified' = [notified EXCEPT ![p] = Append(notified[p], FALSE)]
    BY <1>10 DEF Notify
  <2>2. notified' \in [Paths -> Seq(BOOLEAN)] /\ notified'[p] = <<FALSE>>
    <3>1. notified[p] = <<>> /\ notified \in [Paths -> Seq(BOOLEAN)]
      BY DEF TypeOK, Entered
    <3>2. Append(<<>>, FALSE) = <<FALSE>> /\ <<FALSE>> \in Seq(BOOLEAN)
      OBVIOUS
    <3> QED
      BY <2>1, <3>1, <3>2
  <2>3. TypeOK'
    BY <1>10, <2>2, <1>1, <1>7
    DEF TypeOK, CallerOf, CallerType, Store, ResourceRecords, SignalRecords, PathStates
  <2>4. pathState'[p] = "FAILED" /\ segs'[p] = <<>>
    BY <1>10, <1>1 DEF TypeOK, Store, ResourceRecords
  <2>5. NoSignal(p)' /\ NothingMapped(p)' /\ NoRebuild(p)'
    BY <1>10, <1>1 DEF NoSignal, NothingMapped, Mapped, Store, NoRebuild, Entered
  <2>6. Finished(p)'
    BY <2>2, <2>4, <2>5, <1>8 DEF Finished, CallerOf
  <2>7. ASSUME NEW q \in Paths, q # p PROVE Same(q)
    <3>1. SameSignals(q) /\ segs'[q] = segs[q] /\ SameLinks(q)
      BY <1>10, <1>1, <1>2, <2>7, StoreOthers DEF CallerOf
    <3>2. SamePath(q)
      BY <1>7, <1>10, <2>1, <2>7, <3>1 DEF SamePath, TypeOK
    <3>3. SameEvents(q)
      BY <1>7, <1>10, <2>7 DEF SameEvents, CallerOf, CallerKeeps
    <3> QED
      BY <3>1, <3>2, <3>3 DEF Same
  <2> QED
    BY <2>3, <2>6, <2>7 DEF Phase
<1> QED
  BY <1>9, <1>10 DEF HandlePathFailure, c, f

\* The same for the callers that leave the swaps alone.
LEMMA FailureStep ==
  ASSUME TypeOK, NEW p \in Paths, NEW res \in ResourceRecords,
         Entered(p, res), OwnSegments(p, res), NoSwap(p), CallerOf(p),
         HandlePathFailure(p, res), UNCHANGED swaps
  PROVE  TypeOK' /\ Phase(p)' /\ \A q \in Paths : q # p => Same(q)
<1>1. NoSwap(p)'
  BY DEF NoSwap
<1> QED
  BY <1>1, FailureOfSwap

\* The segments in res are a chain along the route, every end of it valid,
\* and no request of p is mapped any more.
ResChain(p, res) ==
  LET k == Len(res.segs[p])
  IN /\ k \in 1..Links(p)
     /\ \A i \in 1..k :
          /\ res.segs[p][i] = SegmentAt(p, k, i)
          /\ res.segs[p][i].leftQubit \in res.qubits
          /\ res.segs[p][i].rightQubit \in res.qubits
     /\ \A a \in Attempts, h \in Hops :
          res.req[<<p, a, h>>] \notin {"PENDING", "READY"}

\* A chain of segments of p is made of qubits of p only.
LEMMA ChainIsOwn ==
  ASSUME NEW p \in Paths, NEW res, ResChain(p, res)
  PROVE  OwnSegments(p, res)
<1> SUFFICES ASSUME NEW i \in 1..Len(res.segs[p])
             PROVE  /\ res.segs[p][i].leftQubit[1][1] = p
                    /\ res.segs[p][i].rightQubit[1][1] = p
  BY DEF OwnSegments
<1> DEFINE k == Len(res.segs[p])
<1>1. res.segs[p][i] = SegmentAt(p, k, i)
  BY DEF ResChain
<1> HIDE DEF k
<1>2. CASE i = 1
  BY <1>1, <1>2 DEF SegmentAt
<1>3. CASE i # 1
  BY <1>1, <1>3 DEF SegmentAt, HopSegment
<1> QED
  BY <1>2, <1>3

\* A chain stored as the path's segments is a chain of the next state.
LEMMA ChainStored ==
  ASSUME NEW p \in Paths, NEW res, ResChain(p, res), Store(res),
         UNCHANGED <<route, retryCount>>
  PROVE  /\ segs'[p] = res.segs[p]
         /\ IsChain(p)'
         /\ \A i \in 1..Len(segs'[p]) : LeftValid(p, i)' /\ RightValid(p, i)'
<1>1. segs' = res.segs /\ qubits' = res.qubits
  BY DEF Store
<1>2. Links(p)' = Links(p)
  BY DEF Links
<1>3. \A k, i : SegmentAt(p, k, i)' = SegmentAt(p, k, i)
  BY DEF SegmentAt, HopSegment, Links
<1>4. /\ Len(segs'[p]) \in 1..Links(p)'
      /\ \A i \in 1..Len(segs'[p]) : segs'[p][i] = SegmentAt(p, Len(segs'[p]), i)
  BY <1>1, <1>2 DEF ResChain
<1>5. IsChain(p)'
  BY <1>3, <1>4 DEF IsChain
<1>6. \A i \in 1..Len(segs'[p]) : LeftValid(p, i)' /\ RightValid(p, i)'
  BY <1>1 DEF ResChain, LeftValid, RightValid
<1> QED
  BY <1>1, <1>5, <1>6

\* FinalizePath ends in READY with the end-to-end pair, or fails the path.
LEMMA FinalizeStep ==
  ASSUME TypeOK, NEW p \in Paths, NEW res \in ResourceRecords,
         Entered(p, res), ResChain(p, res), Len(res.segs[p]) = 1,
         NoSwap(p), CallerOf(p), FinalizePath(p, res)
  PROVE  TypeOK' /\ Phase(p)' /\ \A q \in Paths : q # p => Same(q)
<1>1. CASE HandlePathFailure(p, res) /\ UNCHANGED swaps
  BY <1>1, ChainIsOwn, FailureStep
<1>2. CASE /\ pathState' = [pathState EXCEPT ![p] = "READY"]
           /\ Store(res)
           /\ Notify(p, TRUE)
           /\ CancelTimer(p)
           /\ UNCHANGED <<route, retryCount, rebuilds, swaps>>
  <2>1. notified' = [notified EXCEPT ![p] = Append(notified[p], TRUE)]
    BY <1>2 DEF Notify
  <2>2. notified' \in [Paths -> Seq(BOOLEAN)] /\ notified'[p] = <<TRUE>>
    <3>1. notified[p] = <<>> /\ notified \in [Paths -> Seq(BOOLEAN)]
      BY DEF TypeOK, Entered
    <3>2. Append(<<>>, TRUE) = <<TRUE>> /\ <<TRUE>> \in Seq(BOOLEAN)
      OBVIOUS
    <3> QED
      BY <2>1, <3>1, <3>2
  <2>3. timers' \subseteq timers /\ NoTimer(p)'
    BY <1>2 DEF CancelTimer, NoTimer, Entered
  <2>4. TypeOK'
    BY <1>2, <2>2, <2>3
    DEF TypeOK, CallerOf, CallerType, Store, ResourceRecords, SignalRecords, PathStates
  <2>5. /\ pathState'[p] = "READY" /\ route'[p] \in Routes
        /\ NoRebuild(p)' /\ NoSwap(p)' /\ NoSignal(p)'
    BY <1>2 DEF TypeOK, Entered, NoRebuild, NoSwap, NoSignal, Store
  <2>6. NothingMapped(p)'
    BY <1>2 DEF ResChain, NothingMapped, Mapped, Store
  <2>7. Len(segs'[p]) = 1 /\ IsChain(p)' /\ LeftValid(p, 1)' /\ RightValid(p, 1)'
    BY <1>2, ChainStored
  <2>8. Finished(p)'
    BY <2>2, <2>3, <2>5, <2>6, <2>7 DEF Finished, CallerOf
  <2>9. ASSUME NEW q \in Paths, q # p PROVE Same(q)
    <3>1. SameSignals(q) /\ segs'[q] = segs[q] /\ SameLinks(q)
      BY <1>2, <2>9, StoreOthers DEF CallerOf, Entered
    <3>2. SamePath(q)
      BY <1>2, <2>1, <2>9, <3>1 DEF SamePath, TypeOK
    <3>3. SameEvents(q)
      BY <1>2, <2>9 DEF SameEvents, CallerOf, CallerKeeps, CancelTimer
    <3> QED
      BY <3>1, <3>2, <3>3 DEF Same
  <2> QED
    BY <2>4, <2>8, <2>9 DEF Phase
<1> QED
  BY <1>1, <1>2 DEF FinalizePath

\* BeginNextSwap schedules the swap at the next relay, or finalizes.
LEMMA BeginStep ==
  ASSUME TypeOK, NEW p \in Paths, NEW res \in ResourceRecords,
         Entered(p, res), ResChain(p, res), NoSwap(p), CallerOf(p),
         BeginNextSwap(p, res)
  PROVE  TypeOK' /\ Phase(p)' /\ \A q \in Paths : q # p => Same(q)
<1> DEFINE k == Len(res.segs[p])
           n == Len(route[p]) - k + 1
<1>1. /\ Len(route[p]) \in Nat /\ Links(p) = Len(route[p]) - 1
      /\ k \in 1..Links(p) /\ k \in Nat /\ 2..Links(p) \subseteq Relays
  BY RouteFacts DEF Entered, ResChain, Links
<1> HIDE DEF k, n
<1>2. CASE k <= 1 /\ FinalizePath(p, res)
  <2>1. k = 1
    BY <1>1, <1>2
  <2> QED
    BY <1>2, <2>1, FinalizeStep DEF k
<1>3. CASE /\ k > 1
           /\ swaps' = swaps \cup {<<p, retryCount[p], n>>}
           /\ Store(res)
           /\ CancelTimer(p)
           /\ UNCHANGED <<pathVars, rebuilds>>
  <2>1. n \in Relays /\ retryCount[p] \in Attempts
    <3>1. n \in 2..Links(p)
      BY <1>1, <1>3 DEF n
    <3> QED
      BY <1>1, <3>1 DEF TypeOK
  <2>2. <<p, retryCount[p], n>> \in MsgIds
    BY <2>1 DEF MsgIds
  <2>3. timers' \subseteq timers /\ NoTimer(p)'
    BY <1>3 DEF CancelTimer, NoTimer, Entered
  <2>4. TypeOK'
    BY <1>3, <2>2, <2>3
    DEF TypeOK, CallerOf, CallerType, Store, ResourceRecords, SignalRecords, pathVars
  <2>5. Pending(p)'
    <3>1. \A a \in Attempts, h \in Hops : a > retryCount[p] =>
            /\ <<p, a, h>> \notin linkPending'
            /\ ent'[<<p, a, h>>] = "NONE"
            /\ <<<<p, a, h>>, "l">> \notin qubits'
            /\ <<<<p, a, h>>, "r">> \notin qubits'
      BY <1>3 DEF Entered, FutureFree, Store, CallerOf
    <3> QED
      BY <1>3, <3>1 DEF Pending, Entered, FutureUntouched, Untouched, CallerOf, pathVars
  <2>6. NoRebuild(p)' /\ NoSignal(p)' /\ NothingMapped(p)'
    BY <1>3 DEF Entered, NoRebuild, NoSignal, ResChain, NothingMapped, Mapped, Store
  <2>7. segs' = res.segs /\ qubits' = res.qubits /\ UNCHANGED <<route, retryCount>>
    BY <1>3 DEF Store, pathVars
  <2>8. IsChain(p)' /\ \A i \in 1..Len(segs'[p]) : LeftValid(p, i)' /\ RightValid(p, i)'
    BY <1>3, <2>7, ChainStored
  <2>9. Len(segs'[p]) >= 2
    BY <1>1, <1>3, <2>7 DEF k
  <2>10. \A a \in Attempts, m \in Relays :
           <<p, a, m>> \in swaps' <=> <<p, a, m>> = NextSwap(p)'
    BY <1>3, <2>7 DEF NoSwap, NextSwap, NextRelay, k, n
  <2>11. Swapping(p)'
    BY <2>3, <2>5, <2>6, <2>8, <2>9, <2>10 DEF Swapping, CallerOf
  <2>12. ASSUME NEW q \in Paths, q # p PROVE Same(q)
    <3>1. SameSignals(q) /\ segs'[q] = segs[q] /\ SameLinks(q)
      BY <1>3, <2>12, StoreOthers DEF CallerOf, Entered
    <3>2. SamePath(q)
      BY <1>3, <3>1 DEF SamePath, pathVars
    <3>3. SameEvents(q)
      BY <1>3, <2>12 DEF SameEvents, CallerOf, CallerKeeps, CancelTimer
    <3> QED
      BY <3>1, <3>2, <3>3 DEF Same
  <2> QED
    BY <2>4, <2>11, <2>12 DEF Phase
<1> QED
  BY <1>2, <1>3 DEF BeginNextSwap, k, n

(***************************************************************************)
(* One lemma per action. Each action belongs to one path.                  *)
(***************************************************************************)
\* p is in a phase again and nothing of another path changed.
StepOf(p) == TypeOK' /\ Phase(p)' /\ \A q \in Paths : q # p => Same(q)

LEMMA OnePathStep ==
  ASSUME IInv, NEW p \in Paths, StepOf(p)
  PROVE  IInv'
<1>1. ASSUME NEW q \in Paths PROVE Phase(q)'
  <2>1. CASE q = p
    BY <2>1 DEF StepOf
  <2>2. CASE q # p
    BY <2>2, Frame DEF IInv, StepOf
  <2> QED
    BY <2>1, <2>2
<1>2. Paths' = Paths
  BY DEF Paths
<1> QED
  BY <1>1, <1>2 DEF IInv, StepOf

\* StartPathBuilding of a path that holds nothing ends in Building, or in
\* FAILED when there is no link layer.
LEMMA StartStep ==
  ASSUME TypeOK, NEW p \in Paths, NEW r \in Routes,
         notified[p] = <<>>, NoNotice(p), NoTimer(p), NoSwap(p), NoMessage(p),
         NoSignal(p), NoRequest(p), segs[p] = <<>>,
         Untouched(p, retryCount[p]), FutureUntouched(p),
         route' = [route EXCEPT ![p] = r], NoRebuild(p)', rebuilds' \subseteq rebuilds,
         \A q \in Paths, a \in Attempts : q # p /\ <<q, a>> \in rebuilds => <<q, a>> \in rebuilds',
         StartPathBuilding(p, r),
         UNCHANGED <<parts, retryCount, segs, signals, qubits, notices, swaps,
                     messageVars>>
  PROVE  TypeOK' /\ Phase(p)' /\ \A q \in Paths : q # p => Same(q)
<1> DEFINE ids == HopIds(p, retryCount[p], r)
<1>1. /\ route' \in [Paths -> Routes \cup {<<n>> : n \in Nodes} \cup {<<>>}]
      /\ route'[p] = r
      /\ retryCount[p] \in Attempts
      /\ \A q \in Paths : q # p => route'[q] = route[q]
  BY DEF TypeOK
<1>2. 1..(Len(r) - 1) \subseteq Hops
  BY DEF Hops
<1>3. ids \subseteq EntIds
  BY <1>1, <1>2 DEF HopIds, EntIds
<1>4. \A q \in Paths, a \in Attempts, h \in Hops :
        <<q, a, h>> \in ids <=> q = p /\ a = retryCount[p] /\ h \in 1..(Len(r) - 1)
  BY DEF HopIds
<1>5. \A q \in Paths, a \in Attempts, h \in Hops : <<q, a, h>> \in EntIds
  BY DEF EntIds
<1> HIDE DEF ids
<1>6. /\ NoSwap(p)' /\ NoMessage(p)' /\ NoSignal(p)' /\ NoNotice(p)'
  BY DEF NoSwap, NoMessage, NoSignal, NoNotice, messageVars
<1>7. CASE /\ pathState' = [pathState EXCEPT ![p] = "PENDING"]
           /\ req' = [e \in EntIds |-> IF e \in ids THEN "PENDING" ELSE req[e]]
           /\ ent' = [e \in EntIds |-> IF e \in ids THEN "PENDING" ELSE ent[e]]
           /\ linkPending' = linkPending \cup ids
           /\ timers' = timers \cup {<<p, retryCount[p]>>}
           /\ UNCHANGED notified
  <2>1. req' \in [EntIds -> ReqStates] /\ ent' \in [EntIds -> EntStates]
    BY <1>7 DEF TypeOK, ReqStates, EntStates
  <2>2. timers' \subseteq Paths \X Attempts
    BY <1>1, <1>7 DEF TypeOK
  <2>3. rebuilds' \subseteq Paths \X Attempts
    BY DEF TypeOK
  <2>4. TypeOK'
    BY <1>1, <1>3, <1>7, <2>1, <2>2, <2>3 DEF TypeOK, PathStates, messageVars
  <2>5. FutureUntouched(p)'
    <3>1. ASSUME NEW a \in Attempts, NEW h \in Hops, a > retryCount[p]
          PROVE  /\ <<p, a, h>> \notin linkPending'
                 /\ ent'[<<p, a, h>>] = "NONE"
                 /\ <<<<p, a, h>>, "l">> \notin qubits'
                 /\ <<<<p, a, h>>, "r">> \notin qubits'
      <4>1. <<p, a, h>> \notin ids
        BY <1>1, <1>4, <3>1, IndexFacts
      <4>2. Untouched(p, a)
        BY <3>1 DEF FutureUntouched
      <4> QED
        BY <1>5, <1>7, <4>1, <4>2 DEF Untouched
    <3> QED
      BY <3>1 DEF FutureUntouched, Untouched
  <2>6. Pending(p)'
    BY <1>1, <1>6, <1>7, <2>5 DEF Pending, TypeOK
  <2>7. \A a \in Attempts : <<p, a>> \in timers' <=> a = retryCount'[p]
    BY <1>7 DEF NoTimer
  <2>8. \A h \in 1..Links(p)' :
          (LET e == <<p, retryCount[p], h>>
           IN \/ req[e] = "PENDING" /\ ent[e] = "PENDING"
              \/ req[e] = "READY" /\ ent[e] = "READY" /\ LinkPair(e) \subseteq qubits)'
    <3>1. ASSUME NEW h \in 1..(Len(r) - 1)
          PROVE  LET e == <<p, retryCount[p], h>>
                 IN req'[e] = "PENDING" /\ ent'[e] = "PENDING"
      BY <1>1, <1>2, <1>4, <1>5, <1>7
    <3>2. Links(p)' = Len(r) - 1 /\ retryCount'[p] = retryCount[p]
      BY <1>1 DEF Links
    <3> QED
      BY <3>1, <3>2
  <2>9. \A a \in Attempts, h \in Hops :
          a # retryCount'[p] \/ h > Links(p)' => req'[<<p, a, h>>] = "NONE"
    <3>1. ASSUME NEW a \in Attempts, NEW h \in Hops, a # retryCount[p] \/ h > Len(r) - 1
          PROVE  req'[<<p, a, h>>] = "NONE"
      <4>1. <<p, a, h>> \notin ids
        BY <1>4, <3>1
      <4> QED
        BY <1>5, <1>7, <4>1 DEF NoRequest
    <3>2. Links(p)' = Len(r) - 1 /\ retryCount'[p] = retryCount[p]
      BY <1>1 DEF Links
    <3> QED
      BY <3>1, <3>2
  <2>10. Building(p)'
    BY <1>6, <2>6, <2>7, <2>8, <2>9 DEF Building
  <2>11. ASSUME NEW q \in Paths, q # p PROVE Same(q)
    <3>1. \A a \in Attempts, h \in Hops : <<q, a, h>> \notin ids
      BY <1>4, <2>11
    <3>2. SameLinks(q)
      BY <1>5, <1>7, <3>1 DEF SameLinks
    <3>3. SamePath(q)
      BY <1>1, <1>7, <2>11 DEF SamePath, TypeOK
    <3>4. SameEvents(q) /\ SameSignals(q)
      BY <1>7, <2>11 DEF SameEvents, SameSignals, messageVars
    <3> QED
      BY <3>2, <3>3, <3>4 DEF Same
  <2> QED
    BY <2>4, <2>10, <2>11 DEF Phase
<1>8. CASE /\ pathState' = [pathState EXCEPT ![p] = "FAILED"]
           /\ Notify(p, FALSE)
           /\ UNCHANGED <<req, ent, linkPending, timers>>
  <2>1. notified' = [notified EXCEPT ![p] = <<FALSE>>]
    <3>1. Append(<<>>, FALSE) = <<FALSE>>
      OBVIOUS
    <3> QED
      BY <1>8, <3>1 DEF Notify
  <2>2. notified' \in [Paths -> Seq(BOOLEAN)] /\ notified'[p] = <<FALSE>>
    <3>1. <<FALSE>> \in Seq(BOOLEAN)
      OBVIOUS
    <3> QED
      BY <2>1, <3>1 DEF TypeOK
  <2>3. rebuilds' \subseteq Paths \X Attempts
    BY DEF TypeOK
  <2>4. TypeOK'
    BY <1>1, <1>8, <2>2, <2>3 DEF TypeOK, PathStates, messageVars
  <2>5. NoTimer(p)' /\ NothingMapped(p)' /\ pathState'[p] = "FAILED"
    BY <1>8 DEF NoTimer, NothingMapped, NoRequest, Mapped, TypeOK
  <2>6. Finished(p)'
    BY <1>6, <2>2, <2>5 DEF Finished
  <2>7. ASSUME NEW q \in Paths, q # p PROVE Same(q)
    <3>1. SameLinks(q)
      BY <1>8 DEF SameLinks
    <3>2. SamePath(q)
      BY <1>1, <1>8, <2>1, <2>7 DEF SamePath, TypeOK
    <3>3. SameEvents(q) /\ SameSignals(q)
      BY <1>8, <2>7 DEF SameEvents, SameSignals, messageVars
    <3> QED
      BY <3>1, <3>2, <3>3 DEF Same
  <2> QED
    BY <2>4, <2>6, <2>7 DEF Phase
<1> QED
  BY <1>7, <1>8 DEF StartPathBuilding, ids

\* SetupPath keeps the invariant.
LEMMA SetupPathStep ==
  ASSUME IInv, NEW p \in Paths, SetupPath(p)
  PROVE  StepOf(p)
<1>1. TypeOK /\ Fresh(p)
  BY DEF IInv, SetupPath, Phase, Building, Waiting, Swapping, Signalling, Pending,
     Finished, Released
<1>2. /\ pathState[p] = "NONE"
      /\ UNCHANGED <<parts, retryCount, segs, signals, qubits, rebuilds,
                     swaps, messageVars>>
  BY DEF SetupPath
<1>3. CASE \E r \in Routes :
             /\ route' = [route EXCEPT ![p] = r]
             /\ StartPathBuilding(p, r)
             /\ UNCHANGED notices
  <2>1. PICK r \in Routes : /\ route' = [route EXCEPT ![p] = r]
                            /\ StartPathBuilding(p, r)
                            /\ UNCHANGED notices
    BY <1>3
  <2>2. NoRebuild(p)' /\ Untouched(p, retryCount[p])
    BY <1>1, <1>2 DEF Fresh, NoRebuild
  <2>3. TypeOK' /\ Phase(p)' /\ \A q \in Paths : q # p => Same(q)
    BY <1>1, <1>2, <2>1, <2>2, StartStep DEF Fresh
  <2> QED
    BY <2>3 DEF StepOf
<1>4. CASE \E ok \in BOOLEAN :
             /\ \/ ok /\ \E n \in Nodes : route' = [route EXCEPT ![p] = <<n>>]
                \/ ~ok /\ UNCHANGED route
             /\ pathState' = [pathState EXCEPT ![p] = IF ok THEN "READY" ELSE "FAILED"]
             /\ notices' = notices \cup {<<p, ok>>}
             /\ UNCHANGED <<notified, req, ent, linkPending, timers>>
  <2>1. PICK ok \in BOOLEAN :
             /\ \/ ok /\ \E n \in Nodes : route' = [route EXCEPT ![p] = <<n>>]
                \/ ~ok /\ UNCHANGED route
             /\ pathState' = [pathState EXCEPT ![p] = IF ok THEN "READY" ELSE "FAILED"]
             /\ notices' = notices \cup {<<p, ok>>}
             /\ UNCHANGED <<notified, req, ent, linkPending, timers>>
    BY <1>4
  <2>r. /\ route' \in [Paths -> Routes \cup {<<n>> : n \in Nodes} \cup {<<>>}]
        /\ ok => Len(route'[p]) = 1
        /\ \A q \in Paths : q # p => route'[q] = route[q]
    <3>1. CASE ~ok /\ UNCHANGED route
      BY <1>1, <3>1 DEF TypeOK
    <3>2. CASE ok /\ \E n \in Nodes : route' = [route EXCEPT ![p] = <<n>>]
      <4>1. PICK n \in Nodes : route' = [route EXCEPT ![p] = <<n>>]
        BY <3>2
      <4>2. Len(<<n>>) = 1
        OBVIOUS
      <4> QED
        BY <1>1, <4>1, <4>2 DEF TypeOK
    <3> QED
      BY <2>1, <3>1, <3>2
  <2>2. TypeOK'
    <3>1. pathState' \in [Paths -> PathStates] /\ notices' \subseteq Paths \X BOOLEAN
      BY <1>1, <2>1 DEF TypeOK, PathStates
    <3> QED
      BY <1>1, <1>2, <2>1, <2>r, <3>1 DEF TypeOK, messageVars
  <2>3. /\ pathState'[p] = IF ok THEN "READY" ELSE "FAILED"
        /\ segs'[p] = <<>> /\ notified'[p] = <<>>
        /\ pathState'[p] = "READY" => Len(route'[p]) = 1
    BY <2>r, <1>1, <1>2, <2>1 DEF TypeOK, Fresh
  <2>4. \A b \in BOOLEAN : <<p, b>> \in notices' <=> b = (pathState'[p] = "READY")
    BY <1>1, <2>1, <2>3 DEF Fresh, NoNotice
  <2>5. /\ NoTimer(p)' /\ NoRebuild(p)' /\ NoSwap(p)' /\ NoMessage(p)' /\ NoSignal(p)'
        /\ NothingMapped(p)'
    BY <1>1, <1>2, <2>1
    DEF Fresh, NoTimer, NoRebuild, NoSwap, NoMessage, NoSignal, NothingMapped, NoRequest,
        Mapped, messageVars
  <2>6. Finished(p)'
    BY <2>3, <2>4, <2>5 DEF Finished
  <2>7. ASSUME NEW q \in Paths, q # p PROVE Same(q)
    BY <1>1, <1>2, <2>1, <2>r, <2>7
    DEF Same, SamePath, SameEvents, SameSignals, SameLinks, TypeOK, messageVars
  <2> QED
    BY <2>2, <2>6, <2>7 DEF Phase, StepOf
<1> QED
  BY <1>3, <1>4 DEF SetupPath

\* A scheduled StartPathBuilding keeps the invariant.
LEMMA RetryPathStep ==
  ASSUME IInv, NEW p \in Paths, NEW a \in Attempts, RetryPath(p, a)
  PROVE  StepOf(p)
<1>0. TypeOK /\ Phase(p) /\ <<p, a>> \in rebuilds /\ rebuilds' = rebuilds \ {<<p, a>>}
  BY DEF IInv, RetryPath
<1>1. Waiting(p) \/ Released(p)
  BY <1>0 DEF Phase, Fresh, Building, Swapping, Signalling, Finished, NoRebuild
<1>2. CASE Waiting(p)
  <2>1. /\ InPaths(p) /\ a = retryCount[p] /\ route[p] \in Routes
    BY <1>0, <1>2 DEF Waiting, Pending, InPaths
  <2>2. StartPathBuilding(p, route[p]) /\ UNCHANGED <<parts, route, retryCount, segs,
          signals, qubits, notices, swaps, messageVars>>
    BY <2>1 DEF RetryPath
  <2>3. NoRebuild(p)'
    BY <1>0, <1>2, <2>1 DEF Waiting, NoRebuild
  <2>4. route' = [route EXCEPT ![p] = route[p]]
    BY <1>0, <2>2 DEF TypeOK
  <2>5. TypeOK' /\ Phase(p)' /\ \A q \in Paths : q # p => Same(q)
    BY <1>0, <1>2, <2>1, <2>2, <2>3, <2>4, StartStep DEF Waiting, Pending
  <2> QED
    BY <2>5 DEF StepOf
<1>3. CASE Released(p)
  <2>1. ~InPaths(p)
    BY <1>3 DEF Released, InPaths
  <2>2. UNCHANGED <<parts, pathState, route, retryCount, notified, req, segs, signals,
          ent, qubits, timers, notices, swaps, linkPending, sends, deliveries>>
    BY <2>1 DEF RetryPath, messageVars
  <2>3. TypeOK'
    BY <1>0, <2>2 DEF TypeOK
  <2>4. Released(p)'
    BY <1>3, <2>2 DEF Released, NoTimer, NoSignal, NothingMapped, Mapped
  <2>5. ASSUME NEW q \in Paths, q # p PROVE Same(q)
    BY <1>0, <2>2, <2>5 DEF Same, SamePath, SameEvents, SameSignals, SameLinks
  <2> QED
    BY <2>3, <2>4, <2>5 DEF Phase, StepOf
<1> QED
  BY <1>1, <1>2, <1>3

\* A scheduled NotifyPathResult keeps the invariant.
LEMMA NotifyPathResultStep ==
  ASSUME IInv, NEW p \in Paths, NEW ok \in BOOLEAN, NotifyPathResult(p, ok)
  PROVE  StepOf(p)
<1>0. /\ TypeOK /\ Phase(p) /\ <<p, ok>> \in notices /\ notices' = notices \ {<<p, ok>>}
      /\ UNCHANGED <<parts, pathState, route, retryCount, req, segs, signals, ent, qubits,
           timers, rebuilds, swaps, linkPending, sends, deliveries>>
  BY DEF IInv, NotifyPathResult, resourceVars, messageVars
<1>1. Finished(p) \/ Released(p)
  BY <1>0 DEF Phase, Fresh, Building, Waiting, Swapping, Signalling, Pending, NoNotice
<1>2. CASE Finished(p)
  <2>1. notified[p] = <<>> /\ ok = (pathState[p] = "READY") /\ NoNotice(p)'
    BY <1>0, <1>2 DEF Finished, NoNotice
  <2>2. notified' = [notified EXCEPT ![p] = <<ok>>]
    <3>1. InPaths(p)
      BY <1>2 DEF Finished, InPaths
    <3>2. Append(<<>>, ok) = <<ok>>
      OBVIOUS
    <3> QED
      BY <2>1, <3>1, <3>2 DEF NotifyPathResult, Notify
  <2>3. notified' \in [Paths -> Seq(BOOLEAN)] /\ notified'[p] = <<ok>>
    <3>1. <<ok>> \in Seq(BOOLEAN)
      OBVIOUS
    <3> QED
      BY <1>0, <2>2, <3>1 DEF TypeOK
  <2>4. TypeOK'
    BY <1>0, <2>3 DEF TypeOK
  <2>5. /\ NoTimer(p)' /\ NoRebuild(p)' /\ NoSwap(p)' /\ NoMessage(p)' /\ NoSignal(p)'
        /\ NothingMapped(p)'
    BY <1>0, <1>2
    DEF Finished, NoTimer, NoRebuild, NoSwap, NoMessage, NoSignal, NothingMapped, Mapped
  <2>6. IsChain(p) => IsChain(p)'
    BY <1>0 DEF IsChain, Links, SegmentAt, HopSegment
  <2>7. Finished(p)'
    BY <1>0, <1>2, <2>1, <2>3, <2>5, <2>6 DEF Finished, LeftValid, RightValid
  <2>8. ASSUME NEW q \in Paths, q # p PROVE Same(q)
    BY <1>0, <2>2, <2>8 DEF Same, SamePath, SameEvents, SameSignals, SameLinks, TypeOK
  <2> QED
    BY <2>4, <2>7, <2>8 DEF Phase, StepOf
<1>3. CASE Released(p)
  <2>1. UNCHANGED notified
    BY <1>3 DEF Released, InPaths, NotifyPathResult
  <2>2. TypeOK'
    BY <1>0, <2>1 DEF TypeOK
  <2>3. Released(p)'
    BY <1>0, <1>3 DEF Released, NoTimer, NoSignal, NothingMapped, Mapped
  <2>4. ASSUME NEW q \in Paths, q # p PROVE Same(q)
    BY <1>0, <2>1, <2>4 DEF Same, SamePath, SameEvents, SameSignals, SameLinks
  <2> QED
    BY <2>2, <2>3, <2>4 DEF Phase, StepOf
<1> QED
  BY <1>1, <1>2, <1>3

\* The resources a handler starts from are well-formed, and untouched for every other path.
LEMMA ResourcesFacts ==
  ASSUME TypeOK
  PROVE  /\ Resources \in ResourceRecords
         /\ \A p \in Paths : OthersKept(p, Resources)
         /\ Resources.req = req /\ Resources.segs = segs /\ Resources.signals = signals
         /\ Resources.ent = ent /\ Resources.qubits = qubits
BY DEF TypeOK, Resources, ResourceRecords, SignalRecords, OthersKept, Kept, KeptLink

\* While links are being established nothing of a later attempt exists.
LEMMA BuildingFuture ==
  ASSUME TypeOK, NEW p \in Paths, Building(p)
  PROVE  FutureFree(p, Resources)
<1> SUFFICES ASSUME NEW a \in Attempts, NEW h \in Hops, a > retryCount[p]
             PROVE  /\ <<p, a, h>> \notin linkPending
                    /\ req[<<p, a, h>>] \notin {"PENDING", "READY"}
                    /\ ent[<<p, a, h>>] = "NONE"
                    /\ <<<<p, a, h>>, "l">> \notin qubits
                    /\ <<<<p, a, h>>, "r">> \notin qubits
  BY ResourcesFacts DEF FutureFree
<1>1. Untouched(p, a)
  BY DEF Building, Pending, FutureUntouched
<1>2. a # retryCount[p]
  BY IndexFacts DEF TypeOK
<1>3. req[<<p, a, h>>] = "NONE"
  BY <1>2 DEF Building
<1> QED
  BY <1>1, <1>3 DEF Untouched

\* HandlePathTimeout keeps the invariant.
LEMMA HandlePathTimeoutStep ==
  ASSUME IInv, NEW p \in Paths, NEW a \in Attempts, HandlePathTimeout(p, a)
  PROVE  StepOf(p)
<1>0. /\ TypeOK /\ Phase(p) /\ <<p, a>> \in timers
      /\ UNCHANGED <<parts, notices, swaps, linkPending, sends, deliveries>>
  BY DEF IInv, HandlePathTimeout, messageVars
<1>1. Building(p)
  BY <1>0 DEF Phase, Fresh, Waiting, Swapping, Signalling, Finished, Released, NoTimer
<1>2. a = retryCount[p] /\ pathState[p] = "PENDING"
  BY <1>0, <1>1 DEF Building, Pending
<1>3. HandlePathFailure(p, Resources)
  BY <1>2 DEF HandlePathTimeout, InPaths
<1>4. FutureFree(p, Resources)
  BY <1>0, <1>1, ResourcesFacts, BuildingFuture
<1>5. Entered(p, Resources) /\ OwnSegments(p, Resources) /\ NoSwap(p)
  BY <1>0, <1>1, <1>4, ResourcesFacts
  DEF Entered, OwnSegments, Building, Pending, NoSignal
<1>6. CallerOf(p)
  BY <1>0, <1>1
  DEF CallerOf, CallerType, CallerKeeps, TypeOK, Building, Pending, NoMessage, NoNotice
<1>7. TypeOK' /\ Phase(p)' /\ \A q \in Paths : q # p => Same(q)
  BY <1>0, <1>3, <1>5, <1>6, ResourcesFacts, FailureStep
<1> QED
  BY <1>7 DEF StepOf

\* ReleasePath keeps the invariant.
LEMMA ReleasePathStep ==
  ASSUME IInv, NEW p \in Paths, ReleasePath(p)
  PROVE  StepOf(p)
<1> DEFINE c == CleanupPathResources(p, Resources)
           f == ForgetRequests(p, c)
<1>0. /\ TypeOK /\ Phase(p) /\ InPaths(p)
      /\ pathState' = [pathState EXCEPT ![p] = "RELEASED"]
      /\ CancelTimer(p)
      /\ Store(f)
      /\ UNCHANGED <<parts, route, retryCount, notified, rebuilds, notices,
                     swaps, linkPending, sends, deliveries>>
  BY DEF IInv, ReleasePath, messageVars
<1>1. Building(p) \/ Waiting(p) \/ Swapping(p) \/ Signalling(p) \/ Finished(p)
  BY <1>0 DEF Phase, Fresh, Released, InPaths
<1>2. segs[p] = <<>> \/ (IsChain(p) /\ route[p] \in Routes)
  BY <1>1 DEF Building, Waiting, Swapping, Signalling, Finished, Pending
<1>3. OwnSegments(p, Resources)
  BY <1>0, <1>2, ResourcesFacts, SegmentQubitNames DEF OwnSegments
<1>4. LET c0 == c IN
      /\ c0 \in ResourceRecords
      /\ c0.segs = [segs EXCEPT ![p] = <<>>]
      /\ c0.signals = {s \in signals : s.id[1] # p}
      /\ \A q \in Paths, a \in Attempts, h \in Hops : q # p =>
           /\ c0.req[<<q, a, h>>] = req[<<q, a, h>>]
           /\ c0.ent[<<q, a, h>>] = ent[<<q, a, h>>]
           /\ <<<<q, a, h>>, "l">> \in c0.qubits <=> <<<<q, a, h>>, "l">> \in qubits
           /\ <<<<q, a, h>>, "r">> \in c0.qubits <=> <<<<q, a, h>>, "r">> \in qubits
  BY <1>0, <1>3, ResourcesFacts, CleanupFacts
<1> HIDE DEF c
<1>5. /\ f \in ResourceRecords
      /\ f.segs = c.segs /\ f.signals = c.signals /\ f.ent = c.ent /\ f.qubits = c.qubits
      /\ f.req = [e \in EntIds |-> IF e[1] = p THEN "NONE" ELSE c.req[e]]
  <2>1. f = [c EXCEPT !.req = [e \in EntIds |-> IF e[1] = p THEN "NONE" ELSE c.req[e]]]
    BY DEF ForgetRequests
  <2>2. [e \in EntIds |-> IF e[1] = p THEN "NONE" ELSE c.req[e]] \in [EntIds -> ReqStates]
    BY <1>4 DEF ResourceRecords, ReqStates
  <2> QED
    BY <1>4, <2>1, <2>2 DEF ResourceRecords
<1>6. \A q \in Paths, a \in Attempts, h \in Hops :
        f.req[<<q, a, h>>] = IF q = p THEN "NONE" ELSE c.req[<<q, a, h>>]
  BY <1>5 DEF EntIds
<1> HIDE DEF f
<1>7. TypeOK'
  BY <1>0, <1>5 DEF TypeOK, Store, ResourceRecords, SignalRecords, PathStates, CancelTimer
<1>8. pathState'[p] = "RELEASED" /\ segs'[p] = <<>>
  BY <1>0, <1>4, <1>5 DEF TypeOK, Store
<1>9. NoTimer(p)'
  BY <1>0, <1>1
  DEF CancelTimer, NoTimer, Building, Waiting, Swapping, Signalling, Finished
<1>10. NoSignal(p)' /\ NothingMapped(p)'
  BY <1>0, <1>4, <1>5, <1>6 DEF NoSignal, NothingMapped, Mapped, Store
<1>11. Released(p)'
  BY <1>8, <1>9, <1>10 DEF Released
<1>12. ASSUME NEW q \in Paths, q # p PROVE Same(q)
  <2>1. SamePath(q)
    BY <1>0, <1>4, <1>5, <1>12 DEF SamePath, TypeOK, Store
  <2>2. SameEvents(q)
    BY <1>0, <1>12 DEF SameEvents, CancelTimer
  <2>3. SameSignals(q)
    BY <1>0, <1>4, <1>5, <1>12 DEF SameSignals, Store
  <2>4. ASSUME NEW a \in Attempts, NEW h \in Hops
        PROVE  /\ req'[<<q, a, h>>] = req[<<q, a, h>>]
               /\ ent'[<<q, a, h>>] = ent[<<q, a, h>>]
               /\ <<<<q, a, h>>, "l">> \in qubits' <=> <<<<q, a, h>>, "l">> \in qubits
               /\ <<<<q, a, h>>, "r">> \in qubits' <=> <<<<q, a, h>>, "r">> \in qubits
    <3>1. /\ c.req[<<q, a, h>>] = req[<<q, a, h>>]
          /\ c.ent[<<q, a, h>>] = ent[<<q, a, h>>]
          /\ <<<<q, a, h>>, "l">> \in c.qubits <=> <<<<q, a, h>>, "l">> \in qubits
          /\ <<<<q, a, h>>, "r">> \in c.qubits <=> <<<<q, a, h>>, "r">> \in qubits
      BY <1>4, <1>12
    <3>2. f.req[<<q, a, h>>] = c.req[<<q, a, h>>]
      BY <1>6, <1>12
    <3> QED
      BY <1>0, <1>5, <3>1, <3>2 DEF Store
  <2>5. SameLinks(q)
    BY <1>0, <2>4 DEF SameLinks
  <2> QED
    BY <2>1, <2>2, <2>3, <2>5 DEF Same
<1> QED
  BY <1>7, <1>11, <1>12 DEF Phase, StepOf

(***************************************************************************)
(* CompleteRequest                                                         *)
(***************************************************************************)

\* A request is mapped only while its path is building, and then it is one
\* of the current attempt.
LEMMA MappedMeansBuilding ==
  ASSUME TypeOK, NEW p \in Paths, Phase(p), NEW a \in Attempts, NEW h \in Hops,
         Mapped(<<p, a, h>>)
  PROVE  Building(p) /\ a = retryCount[p] /\ h \in 1..Links(p)
<1>1. ~NothingMapped(p) /\ ~NoRequest(p)
  BY DEF NothingMapped, NoRequest, Mapped
<1>2. Building(p)
  BY <1>1 DEF Phase, Fresh, Waiting, Swapping, Signalling, Finished, Released
<1>3. a = retryCount[p] /\ ~(h > Links(p))
  BY <1>2 DEF Building, Mapped
<1>4. h \in Nat \ {0} /\ Links(p) \in Nat
  BY <1>2, IndexFacts, RouteFacts DEF Building, Pending
<1> QED
  BY <1>2, <1>3, <1>4

\* A request that completes after its path gave it up changes no phase.
LEMMA LateCompletion ==
  ASSUME TypeOK, TypeOK', NEW p \in Paths, NEW a \in Attempts, NEW h \in Hops, Phase(p),
         <<p, a, h>> \in linkPending, ~Mapped(<<p, a, h>>),
         linkPending' = linkPending \ {<<p, a, h>>},
         UNCHANGED <<pathVars, req, segs, signals, timers, rebuilds, notices, swaps, messageVars>>,
         \A b \in Attempts, g \in Hops : <<b, g>> # <<a, h>> =>
            /\ ent'[<<p, b, g>>] = ent[<<p, b, g>>]
            /\ <<<<p, b, g>>, "l">> \in qubits' <=> <<<<p, b, g>>, "l">> \in qubits
            /\ <<<<p, b, g>>, "r">> \in qubits' <=> <<<<p, b, g>>, "r">> \in qubits,
         qubits \subseteq qubits'
  PROVE  Phase(p)'
<1>1. ASSUME NEW b \in Attempts, Untouched(p, b) PROVE b # a
  BY <1>1 DEF Untouched
<1>2. \A b \in Attempts : Untouched(p, b) => Untouched(p, b)'
  <2>1. ASSUME NEW b \in Attempts, Untouched(p, b), NEW g \in Hops
        PROVE  /\ <<p, b, g>> \notin linkPending'
               /\ ent'[<<p, b, g>>] = "NONE"
               /\ <<<<p, b, g>>, "l">> \notin qubits'
               /\ <<<<p, b, g>>, "r">> \notin qubits'
    <3>1. <<b, g>> # <<a, h>>
      BY <1>1, <2>1
    <3> QED
      BY <2>1, <3>1 DEF Untouched
  <2> QED
    BY <2>1 DEF Untouched
<1>3. FutureUntouched(p) => FutureUntouched(p)'
  BY <1>2 DEF FutureUntouched, pathVars
<1>4. Pending(p) => Pending(p)'
  BY <1>3 DEF Pending, NoNotice, pathVars
<1>5. IsChain(p) => IsChain(p)'
  BY DEF IsChain, Links, SegmentAt, HopSegment, pathVars
<1>6. \A i : (LeftValid(p, i) => LeftValid(p, i)') /\ (RightValid(p, i) => RightValid(p, i)')
  BY DEF LeftValid, RightValid
<1>7. NextSwap(p)' = NextSwap(p)
  BY DEF NextSwap, NextRelay, pathVars
<1>8. /\ NoTimer(p) => NoTimer(p)'
      /\ NoRebuild(p) => NoRebuild(p)'
      /\ NoSwap(p) => NoSwap(p)'
      /\ NoMessage(p) => NoMessage(p)'
      /\ NoSignal(p) => NoSignal(p)'
      /\ NoNotice(p) => NoNotice(p)'
      /\ NoRequest(p) => NoRequest(p)'
      /\ NothingMapped(p) => NothingMapped(p)'
  BY DEF NoTimer, NoRebuild, NoSwap, NoMessage, NoSignal, NoNotice, NoRequest, NothingMapped,
     Mapped, messageVars
<1>9. retryCount[p] \in Attempts
  BY DEF TypeOK
<1>10. CASE Fresh(p)
  BY <1>2, <1>3, <1>8, <1>9, <1>10 DEF Fresh, Phase, pathVars
<1>11. CASE Building(p)
  <2>1. Links(p)' = Links(p)
    BY DEF Links, pathVars
  <2>2. ASSUME NEW g \in 1..Links(p)
        PROVE  (LET e == <<p, retryCount[p], g>>
                IN \/ req[e] = "PENDING" /\ ent[e] = "PENDING"
                   \/ req[e] = "READY" /\ ent[e] = "READY" /\ LinkPair(e) \subseteq qubits)'
    <3> DEFINE e == <<p, retryCount[p], g>>
    <3>1. g \in Hops
      BY <1>11, RouteFacts DEF Building, Pending
    <3>2. \/ req[e] = "PENDING" /\ ent[e] = "PENDING"
          \/ req[e] = "READY" /\ ent[e] = "READY" /\ LinkPair(e) \subseteq qubits
      BY <1>11 DEF Building
    <3>3. <<retryCount[p], g>> # <<a, h>>
      BY <3>2 DEF Mapped
    <3>4. ent'[e] = ent[e] /\ req'[e] = req[e] /\ retryCount'[p] = retryCount[p]
      BY <1>9, <3>1, <3>3 DEF pathVars
    <3> QED
      BY <3>2, <3>4
  <2>3. Building(p)'
    BY <1>4, <1>8, <1>11, <2>1, <2>2 DEF Building, pathVars
  <2> QED
    BY <2>3 DEF Phase
<1>12. CASE Waiting(p)
  <2>1. Untouched(p, retryCount[p])'
    BY <1>2, <1>9, <1>12 DEF Waiting, pathVars
  <2>2. Waiting(p)'
    BY <1>4, <1>8, <1>12, <2>1 DEF Waiting, pathVars
  <2> QED
    BY <2>2 DEF Phase
<1>13. CASE Swapping(p)
  <2>1. Swapping(p)'
    BY <1>4, <1>5, <1>6, <1>7, <1>8, <1>13 DEF Swapping
  <2> QED
    BY <2>1 DEF Phase
<1>14. CASE Signalling(p)
  <2>1. Signalling(p)'
    BY <1>4, <1>5, <1>6, <1>7, <1>8, <1>14 DEF Signalling, messageVars
  <2> QED
    BY <2>1 DEF Phase
<1>15. CASE Finished(p)
  <2>1. Finished(p)'
    BY <1>5, <1>6, <1>8, <1>15 DEF Finished, pathVars
  <2> QED
    BY <2>1 DEF Phase
<1>16. CASE Released(p)
  BY <1>8, <1>16 DEF Released, Phase, pathVars
<1> QED
  BY <1>10, <1>11, <1>12, <1>13, <1>14, <1>15, <1>16 DEF Phase
\* A result of one mapped link request lets a handler of its path be entered.
LEMMA LinkResult ==
  ASSUME TypeOK, NEW p \in Paths, Building(p), NEW h \in 1..Links(p),
         NEW res \in ResourceRecords, res.segs = segs, res.signals = signals,
         \A q \in Paths, b \in Attempts, g \in Hops :
            <<q, b, g>> # <<p, retryCount[p], h>> => KeptLink(q, res, b, g)
  PROVE  Entered(p, res) /\ OwnSegments(p, res)
<1>1. OwnSegments(p, res)
  BY DEF OwnSegments, Building
<1>2. OthersKept(p, res)
  <2>1. ASSUME NEW q \in Paths, q # p, NEW b \in Attempts, NEW g \in Hops
        PROVE  KeptLink(q, res, b, g)
    BY <2>1
  <2> QED
    BY <2>1 DEF OthersKept, Kept
<1>3. FutureFree(p, res)
  <2>1. ASSUME NEW b \in Attempts, NEW g \in Hops, b > retryCount[p]
        PROVE  /\ <<p, b, g>> \notin linkPending
               /\ res.req[<<p, b, g>>] \notin {"PENDING", "READY"}
               /\ res.ent[<<p, b, g>>] = "NONE"
               /\ <<<<p, b, g>>, "l">> \notin res.qubits
               /\ <<<<p, b, g>>, "r">> \notin res.qubits
    <3>1. b # retryCount[p]
      BY <2>1, IndexFacts DEF TypeOK
    <3>2. KeptLink(p, res, b, g)
      BY <3>1
    <3>3. FutureFree(p, Resources)
      BY BuildingFuture
    <3> QED
      BY <2>1, <3>2, <3>3, ResourcesFacts DEF FutureFree, KeptLink
  <2> QED
    BY <2>1 DEF FutureFree
<1>4. /\ pathState[p] = "PENDING" /\ route[p] \in Routes /\ notified[p] = <<>>
      /\ \A a \in Attempts : <<p, a>> \in timers => a = retryCount[p]
      /\ NoRebuild(p)
      /\ \A s \in res.signals : s.id[1] # p
  BY DEF Building, Pending, NoSignal
<1> QED
  BY <1>1, <1>2, <1>3, <1>4 DEF Entered

\* When the last hop becomes ready its path has a full chain of segments.
LEMMA PerformBegins ==
  ASSUME TypeOK, NEW p \in Paths, Building(p), NEW h \in 1..Links(p),
         NEW res \in ResourceRecords, res.segs = segs, res.signals = signals,
         \A q \in Paths, b \in Attempts, g \in Hops :
            <<q, b, g>> # <<p, retryCount[p], h>> => KeptLink(q, res, b, g),
         LinkPair(<<p, retryCount[p], h>>) \subseteq res.qubits,
         res.ent[<<p, retryCount[p], h>>] = "READY",
         \A e \in HopIds(p, retryCount[p], route[p]) : res.req[e] = "READY",
         PerformEntanglementSwapping(p, res)
  PROVE  \E r \in ResourceRecords :
           /\ BeginNextSwap(p, r) /\ Entered(p, r) /\ ResChain(p, r)
           /\ r.ent = res.ent /\ r.qubits = res.qubits /\ r.signals = signals
           /\ Len(r.segs[p]) = Links(p)
           /\ \A g \in 1..Links(p) : r.segs[p][g] = HopSegment(p, g)
<1> DEFINE rc == retryCount[p]
           ids == HopIds(p, rc, route[p])
           chain == [g \in 1..(Len(route[p]) - 1) |-> HopSegment(p, g)]
           r2 == [res EXCEPT
                   !.segs = [@ EXCEPT ![p] = chain],
                   !.req = [e \in EntIds |-> IF e \in ids THEN "DETACHED" ELSE res.req[e]]]
<1>1. /\ route[p] \in Routes /\ rc \in Attempts /\ NoSwap(p)
      /\ Links(p) \in Nat /\ Links(p) >= 1 /\ 1..Links(p) \subseteq Hops
      /\ Links(p) = Len(route[p]) - 1 /\ Len(route[p]) \in Nat
      /\ \A i \in 1..Len(route[p]) : route[p][i] \in Nodes
  BY RouteFacts DEF Building, Pending, TypeOK, Links
<1>2. \A q \in Paths, b \in Attempts, g \in Hops :
        /\ <<q, b, g>> \in EntIds
        /\ <<q, b, g>> \in ids <=> q = p /\ b = rc /\ g \in 1..Links(p)
  BY <1>1 DEF HopIds, EntIds
<1>3. ASSUME NEW g \in 1..Links(p) PROVE HopSegment(p, g) \in Segments
  <2>1. route[p][g] \in Nodes /\ route[p][g + 1] \in Nodes /\ <<p, rc, g>> \in EntIds
    <3>1. g \in 1..Len(route[p]) /\ g + 1 \in 1..Len(route[p]) /\ g \in Hops
      <4> SUFFICES ASSUME NEW l \in Nat, l = Len(route[p]), g \in 1..(l - 1)
                   PROVE  g \in 1..l /\ g + 1 \in 1..l
        BY <1>1
      <4> QED
        OBVIOUS
    <3>2. <<p, rc, g>> \in EntIds
      BY <1>1, <1>2, <3>1
    <3> QED
      BY <1>1, <3>1, <3>2
  <2> QED
    BY <2>1 DEF HopSegment, Segments, Qubits
<1>4. /\ chain \in Seq(Segments) /\ Len(chain) = Links(p)
      /\ \A g \in 1..Links(p) : chain[g] = HopSegment(p, g)
  BY <1>1, <1>3
<1> HIDE DEF chain, ids
<1>5. /\ r2 \in ResourceRecords
      /\ r2.segs = [segs EXCEPT ![p] = chain]
      /\ r2.req = [e \in EntIds |-> IF e \in ids THEN "DETACHED" ELSE res.req[e]]
      /\ r2.signals = signals /\ r2.ent = res.ent /\ r2.qubits = res.qubits
  <2>1. [segs EXCEPT ![p] = chain] \in [Paths -> Seq(Segments)]
    BY <1>4 DEF TypeOK
  <2>2. [e \in EntIds |-> IF e \in ids THEN "DETACHED" ELSE res.req[e]] \in [EntIds -> ReqStates]
    BY DEF ResourceRecords, ReqStates
  <2> QED
    BY <2>1, <2>2 DEF ResourceRecords
<1>6. BeginNextSwap(p, r2)
  <2>1. ASSUME NEW e \in ids PROVE res.ent[e] = "READY"
    <3>1. PICK g \in 1..Links(p) : e = <<p, rc, g>>
      BY <1>1, <2>1 DEF ids, HopIds
    <3>2. CASE g # h
      <4>1. KeptLink(p, res, rc, g)
        BY <1>1, <3>2
      <4>2. req[e] = "READY"
        BY <2>1, <3>1, <4>1 DEF KeptLink, ids
      <4>3. ent[e] = "READY"
        BY <3>1, <4>2 DEF Building
      <4> QED
        BY <3>1, <4>1, <4>3 DEF KeptLink
    <3> QED
      BY <3>1, <3>2
  <2> DEFINE invalid == {e \in ids : res.ent[e] # "READY"}
             detached == {e \in ids : \A d \in invalid : e[3] < d[3]}
  <2>2. invalid = {} /\ detached = ids
    BY <2>1
  <2>3. BeginNextSwap(p,
          [res EXCEPT
             !.segs = [@ EXCEPT ![p] = chain],
             !.req = [e \in EntIds |-> IF e \in detached THEN "DETACHED" ELSE res.req[e]]])
    BY <2>2 DEF PerformEntanglementSwapping, chain, ids
  <2> HIDE DEF detached
  <2> QED
    BY <2>2, <2>3
<1> HIDE DEF r2
<1>7. \A q \in Paths, b \in Attempts, g \in Hops :
        r2.req[<<q, b, g>>] = IF q = p /\ b = rc /\ g \in 1..Links(p)
                              THEN "DETACHED" ELSE res.req[<<q, b, g>>]
  BY <1>2, <1>5
<1>8. r2.segs[p] = chain /\ \A q \in Paths : q # p => r2.segs[q] = segs[q]
  BY <1>5 DEF TypeOK
<1>9. Entered(p, res)
  BY LinkResult
<1>10. Entered(p, r2)
  <2>1. ASSUME NEW q \in Paths, q # p, NEW b \in Attempts, NEW g \in Hops
        PROVE  KeptLink(q, r2, b, g)
    <3>1. KeptLink(q, res, b, g)
      BY <2>1
    <3> QED
      BY <1>5, <1>7, <2>1, <3>1 DEF KeptLink
  <2>2. OthersKept(p, r2)
    BY <1>5, <1>8, <2>1 DEF OthersKept, Kept
  <2>3. FutureFree(p, r2)
    <3>1. \A b \in Attempts : b > rc => b # rc
      BY <1>1, IndexFacts
    <3> QED
      BY <1>5, <1>7, <1>9, <3>1 DEF Entered, FutureFree
  <2> QED
    BY <1>5, <1>9, <2>2, <2>3 DEF Entered
<1>11. ResChain(p, r2)
  <2>1. ASSUME NEW g \in 1..Links(p)
        PROVE  /\ chain[g] = SegmentAt(p, Links(p), g)
               /\ chain[g].leftQubit \in r2.qubits
               /\ chain[g].rightQubit \in r2.qubits
    <3>1. LinkPair(<<p, rc, g>>) \subseteq res.qubits
      <4>1. CASE g = h
        BY <4>1
      <4>2. CASE g # h
        <5>1. KeptLink(p, res, rc, g) /\ <<p, rc, g>> \in ids
          BY <1>1, <1>2, <4>2
        <5>2. req[<<p, rc, g>>] = "READY"
          BY <5>1 DEF KeptLink, ids
        <5>3. LinkPair(<<p, rc, g>>) \subseteq qubits
          BY <5>2 DEF Building
        <5> QED
          BY <5>1, <5>3 DEF KeptLink, LinkPair
      <4> QED
        BY <4>1, <4>2
    <3>2. HopSegment(p, g).leftQubit = <<<<p, rc, g>>, "l">>
          /\ HopSegment(p, g).rightQubit = <<<<p, rc, g>>, "r">>
      BY DEF HopSegment
    <3>3. chain[g] = SegmentAt(p, Links(p), g)
      <4>1. CASE g = 1
        <5>1. Links(p) - Links(p) + 2 = g + 1 /\ Links(p) - Links(p) + 1 = g
          BY <1>1, <4>1
        <5> QED
          BY <1>4, <4>1, <5>1 DEF SegmentAt, HopSegment
      <4>2. CASE g # 1
        <5>1. Links(p) - Links(p) + g = g
          BY <1>1
        <5> QED
          BY <1>4, <4>2, <5>1 DEF SegmentAt
      <4> QED
        BY <4>1, <4>2
    <3> QED
      BY <1>4, <1>5, <3>1, <3>2, <3>3 DEF LinkPair
  <2>2. ASSUME NEW b \in Attempts, NEW g \in Hops
        PROVE  r2.req[<<p, b, g>>] \notin {"PENDING", "READY"}
    <3>1. CASE b = rc /\ g \in 1..Links(p)
      BY <1>7, <3>1
    <3>2. CASE ~(b = rc /\ g \in 1..Links(p))
      <4>1. b # rc \/ g > Links(p)
        BY <1>1, <3>2, IndexFacts
      <4>2. req[<<p, b, g>>] = "NONE"
        BY <4>1 DEF Building
      <4>3. KeptLink(p, res, b, g)
        BY <3>2
      <4> QED
        BY <1>7, <3>2, <4>2, <4>3 DEF KeptLink
    <3> QED
      BY <3>1, <3>2
  <2>3. Links(p) \in 1..Links(p)
    BY <1>1
  <2> QED
    BY <1>4, <1>8, <2>1, <2>2, <2>3 DEF ResChain
<1> QED
  BY <1>4, <1>5, <1>6, <1>8, <1>10, <1>11

\* From there swapping begins.
LEMMA PerformStep ==
  ASSUME TypeOK, NEW p \in Paths, Building(p), NEW h \in 1..Links(p),
         NEW res \in ResourceRecords, res.segs = segs, res.signals = signals,
         \A q \in Paths, b \in Attempts, g \in Hops :
            <<q, b, g>> # <<p, retryCount[p], h>> => KeptLink(q, res, b, g),
         LinkPair(<<p, retryCount[p], h>>) \subseteq res.qubits,
         res.ent[<<p, retryCount[p], h>>] = "READY",
         \A e \in HopIds(p, retryCount[p], route[p]) : res.req[e] = "READY",
         CallerOf(p), PerformEntanglementSwapping(p, res)
  PROVE  TypeOK' /\ Phase(p)' /\ \A q \in Paths : q # p => Same(q)
<1>1. PICK r \in ResourceRecords : BeginNextSwap(p, r) /\ Entered(p, r) /\ ResChain(p, r)
  BY PerformBegins
<1>2. NoSwap(p)
  BY DEF Building
<1> QED
  BY <1>1, <1>2, BeginStep

\* CompleteRequest moves only the path of its request: nowhere when the id is
\* no longer mapped, and otherwise to the next hop, to swapping, or to failure.
LEMMA CompleteRequestStep ==
  ASSUME IInv, NEW p \in Paths, NEW a \in Attempts, NEW h \in Hops,
         CompleteRequest(<<p, a, h>>)
  PROVE  StepOf(p)
<1> DEFINE e == <<p, a, h>>
           failed == [Resources EXCEPT !.ent[e] = "FAILED"]
           left == [Resources EXCEPT !.ent[e] = "FAILED", !.qubits = @ \cup LinkPair(e)]
           ready == [Resources EXCEPT !.ent[e] = "READY", !.qubits = @ \cup LinkPair(e)]
           granted == [ready EXCEPT !.req[e] = "READY"]
<1>0. /\ TypeOK /\ Phase(p) /\ e \in EntIds /\ e \in linkPending
      /\ linkPending' = linkPending \ {e}
      /\ UNCHANGED <<parts, notices, sends, deliveries>>
  BY DEF IInv, CompleteRequest, messageVars, EntIds
<1>1. \A q \in Paths, b \in Attempts, g \in Hops : <<q, b, g>> \in EntIds
  BY DEF EntIds
<1>2. LinkPair(e) \subseteq Qubits
  BY <1>0 DEF LinkPair, Qubits
<1>3. /\ failed \in ResourceRecords
      /\ failed.req = req /\ failed.segs = segs /\ failed.signals = signals
      /\ failed.ent = [ent EXCEPT ![e] = "FAILED"] /\ failed.qubits = qubits
  BY <1>0 DEF Resources, ResourceRecords, SignalRecords, TypeOK, EntStates
<1>l. /\ left \in ResourceRecords
      /\ left.req = req /\ left.segs = segs /\ left.signals = signals
      /\ left.ent = [ent EXCEPT ![e] = "FAILED"] /\ left.qubits = qubits \cup LinkPair(e)
  BY <1>0, <1>2 DEF Resources, ResourceRecords, SignalRecords, TypeOK, EntStates
<1>4. /\ ready \in ResourceRecords
      /\ ready.req = req /\ ready.segs = segs /\ ready.signals = signals
      /\ ready.ent = [ent EXCEPT ![e] = "READY"] /\ ready.qubits = qubits \cup LinkPair(e)
  BY <1>0, <1>2 DEF Resources, ResourceRecords, SignalRecords, TypeOK, EntStates
<1>5. /\ granted \in ResourceRecords
      /\ granted.req = [req EXCEPT ![e] = "READY"]
      /\ granted.segs = segs /\ granted.signals = signals
      /\ granted.ent = [ent EXCEPT ![e] = "READY"] /\ granted.qubits = qubits \cup LinkPair(e)
  BY <1>0, <1>2 DEF Resources, ResourceRecords, SignalRecords, TypeOK, EntStates, ReqStates
<1>6. \/ Mapped(e) /\ HandlePathFailure(p, failed) /\ UNCHANGED swaps
      \/ Mapped(e) /\ HandlePathFailure(p, left) /\ UNCHANGED swaps
      \/ Mapped(e) /\ CheckPathEntanglements(p, granted)
      \/ /\ ~Mapped(e)
         /\ Store(failed) \/ Store(left) \/ Store(ready)
         /\ UNCHANGED <<pathVars, timers, rebuilds, swaps>>
  BY DEF CompleteRequest, LinkFails, TransferFails, LinkSucceeds
<1>7. \A q \in Paths, b \in Attempts, g \in Hops : <<q, b, g>> # e =>
        /\ <<<<q, b, g>>, "l">> \notin LinkPair(e)
        /\ <<<<q, b, g>>, "r">> \notin LinkPair(e)
  BY DEF LinkPair
<1> HIDE DEF failed, left, ready, granted
<1>8. \A q \in Paths, b \in Attempts, g \in Hops : <<q, b, g>> # e =>
        /\ KeptLink(q, failed, b, g)
        /\ KeptLink(q, left, b, g)
        /\ KeptLink(q, ready, b, g)
        /\ KeptLink(q, granted, b, g)
  <2>1. ASSUME NEW q \in Paths, NEW b \in Attempts, NEW g \in Hops, <<q, b, g>> # e
        PROVE  /\ KeptLink(q, failed, b, g)
               /\ KeptLink(q, left, b, g)
               /\ KeptLink(q, ready, b, g)
               /\ KeptLink(q, granted, b, g)
    <3>1. /\ failed.req[<<q, b, g>>] = req[<<q, b, g>>]
          /\ left.req[<<q, b, g>>] = req[<<q, b, g>>]
          /\ ready.req[<<q, b, g>>] = req[<<q, b, g>>]
          /\ granted.req[<<q, b, g>>] = req[<<q, b, g>>]
      BY <1>0, <1>1, <1>3, <1>l, <1>4, <1>5, <2>1 DEF TypeOK
    <3>2. /\ failed.ent[<<q, b, g>>] = ent[<<q, b, g>>]
          /\ left.ent[<<q, b, g>>] = ent[<<q, b, g>>]
          /\ ready.ent[<<q, b, g>>] = ent[<<q, b, g>>]
          /\ granted.ent[<<q, b, g>>] = ent[<<q, b, g>>]
      BY <1>0, <1>1, <1>3, <1>l, <1>4, <1>5, <2>1 DEF TypeOK
    <3> QED
      BY <1>3, <1>l, <1>4, <1>5, <1>7, <2>1, <3>1, <3>2 DEF KeptLink
  <2> QED
    BY <2>1
<1>9. CASE Mapped(e)
  <2>1. Building(p) /\ a = retryCount[p] /\ h \in 1..Links(p)
    BY <1>0, <1>9, MappedMeansBuilding
  <2>2. CallerOf(p)
    BY <1>0, <2>1
    DEF CallerOf, CallerType, CallerKeeps, TypeOK, Building, Pending, NoMessage, NoNotice
  <2>3. ASSUME NEW res \in {failed, left}, HandlePathFailure(p, res) /\ UNCHANGED swaps
        PROVE  StepOf(p)
    <3>1. /\ res \in ResourceRecords /\ res.segs = segs /\ res.signals = signals
          /\ \A q \in Paths, b \in Attempts, g \in Hops :
               <<q, b, g>> # <<p, retryCount[p], h>> => KeptLink(q, res, b, g)
      BY <1>3, <1>l, <1>8, <2>1, <2>3
    <3>2. Entered(p, res) /\ OwnSegments(p, res) /\ NoSwap(p)
      BY <1>0, <2>1, <3>1, LinkResult DEF Building
    <3>3. TypeOK' /\ Phase(p)' /\ \A q \in Paths : q # p => Same(q)
      BY <1>0, <2>2, <2>3, <3>1, <3>2, FailureStep
    <3> QED
      BY <3>3 DEF StepOf
  <2>4. CASE CheckPathEntanglements(p, granted)
    <3>1. CASE /\ \A d \in HopIds(p, retryCount[p], route[p]) : granted.req[d] = "READY"
               /\ PerformEntanglementSwapping(p, granted)
      <4>1. /\ LinkPair(<<p, retryCount[p], h>>) \subseteq granted.qubits
            /\ granted.ent[<<p, retryCount[p], h>>] = "READY"
        BY <1>0, <1>5, <2>1 DEF TypeOK
      <4>2. \A q \in Paths, b \in Attempts, g \in Hops :
              <<q, b, g>> # <<p, retryCount[p], h>> => KeptLink(q, granted, b, g)
        BY <1>8, <2>1
      <4>3. TypeOK' /\ Phase(p)' /\ \A q \in Paths : q # p => Same(q)
        BY <1>0, <1>5, <2>1, <2>2, <3>1, <4>1, <4>2, PerformStep
      <4> QED
        BY <4>3 DEF StepOf
    <3>2. CASE Store(granted) /\ UNCHANGED <<pathVars, timers, rebuilds, swaps>>
      <4>1. TypeOK'
        BY <1>0, <1>5, <3>2
        DEF TypeOK, Store, ResourceRecords, SignalRecords, pathVars
      <4>2. /\ segs' = segs /\ signals' = signals
            /\ UNCHANGED <<pathState, route, retryCount, notified, timers, rebuilds, swaps>>
        BY <1>5, <3>2 DEF Store, pathVars
      <4>3. ASSUME NEW q \in Paths, NEW b \in Attempts, NEW g \in Hops, <<q, b, g>> # e
            PROVE  /\ req'[<<q, b, g>>] = req[<<q, b, g>>]
                   /\ ent'[<<q, b, g>>] = ent[<<q, b, g>>]
                   /\ <<<<q, b, g>>, "l">> \in qubits' <=> <<<<q, b, g>>, "l">> \in qubits
                   /\ <<<<q, b, g>>, "r">> \in qubits' <=> <<<<q, b, g>>, "r">> \in qubits
        <5>1. KeptLink(q, granted, b, g)
          BY <1>8, <4>3
        <5> QED
          BY <3>2, <5>1 DEF Store, KeptLink
      <4>4. ASSUME NEW q \in Paths, q # p PROVE Same(q)
        <5>1. SameLinks(q)
          <6>1. \A b \in Attempts, g \in Hops : <<q, b, g>> # e
            BY <4>4
          <6> QED
            BY <1>0, <4>3, <6>1 DEF SameLinks
        <5>2. SamePath(q) /\ SameEvents(q) /\ SameSignals(q)
          BY <1>0, <4>2 DEF SamePath, SameEvents, SameSignals
        <5> QED
          BY <5>1, <5>2 DEF Same
      <4>5. /\ req'[e] = "READY" /\ ent'[e] = "READY" /\ LinkPair(e) \subseteq qubits'
            /\ qubits \subseteq qubits'
        BY <1>0, <1>5, <3>2 DEF Store, TypeOK
      <4>6. ASSUME NEW g \in 1..Links(p)
            PROVE  LET d == <<p, retryCount'[p], g>>
                   IN \/ req'[d] = "PENDING" /\ ent'[d] = "PENDING"
                      \/ req'[d] = "READY" /\ ent'[d] = "READY" /\ LinkPair(d) \subseteq qubits'
        <5> DEFINE d == <<p, retryCount[p], g>>
        <5>1. g \in Hops /\ retryCount[p] \in Attempts
          BY <1>0, <2>1, RouteFacts DEF Building, Pending, TypeOK
        <5>2. CASE g = h
          BY <2>1, <4>2, <4>5, <5>2
        <5>3. CASE g # h
          <6>1. \/ req[d] = "PENDING" /\ ent[d] = "PENDING"
                \/ req[d] = "READY" /\ ent[d] = "READY" /\ LinkPair(d) \subseteq qubits
            BY <2>1 DEF Building
          <6>2. d # e
            BY <5>3
          <6>3. req'[d] = req[d] /\ ent'[d] = ent[d]
            BY <4>3, <5>1, <6>2
          <6> QED
            BY <4>2, <4>5, <6>1, <6>3
        <5> QED
          BY <5>2, <5>3
      <4>7. ASSUME NEW b \in Attempts, NEW g \in Hops, b # retryCount'[p] \/ g > Links(p)
            PROVE  req'[<<p, b, g>>] = "NONE"
        <5>1. req[<<p, b, g>>] = "NONE"
          BY <2>1, <4>2, <4>7 DEF Building
        <5>2. <<p, b, g>> # e
          BY <1>9, <5>1 DEF Mapped
        <5> QED
          BY <4>3, <5>1, <5>2
      <4>8. Links(p)' = Links(p)
        BY <4>2 DEF Links
      <4>9. FutureUntouched(p)'
        <5>1. ASSUME NEW b \in Attempts, NEW g \in Hops, b > retryCount[p]
              PROVE  /\ <<p, b, g>> \notin linkPending'
                     /\ ent'[<<p, b, g>>] = "NONE"
                     /\ <<<<p, b, g>>, "l">> \notin qubits'
                     /\ <<<<p, b, g>>, "r">> \notin qubits'
          <6>1. <<p, b, g>> # e
            BY <1>0, <2>1, <5>1, IndexFacts DEF TypeOK
          <6>2. Untouched(p, b)
            BY <2>1, <5>1 DEF Building, Pending, FutureUntouched
          <6> QED
            BY <1>0, <4>3, <6>1, <6>2 DEF Untouched
        <5> QED
          BY <4>2, <5>1 DEF FutureUntouched, Untouched
      <4>10. Pending(p)'
        BY <1>0, <2>1, <4>2, <4>9 DEF Building, Pending, NoNotice
      <4>11. NoRebuild(p)' /\ NoSwap(p)' /\ NoMessage(p)' /\ NoSignal(p)'
        BY <1>0, <2>1, <4>2 DEF Building, NoRebuild, NoSwap, NoMessage, NoSignal
      <4>12. Building(p)'
        BY <2>1, <4>2, <4>6, <4>7, <4>8, <4>10, <4>11 DEF Building
      <4> QED
        BY <4>1, <4>4, <4>12 DEF Phase, StepOf
    <3> QED
      BY <2>4, <3>1, <3>2 DEF CheckPathEntanglements
  <2> QED
    BY <1>6, <1>9, <2>3, <2>4
<1>10. CASE ~Mapped(e)
  <2>1. PICK res \in {failed, left, ready} :
          Store(res) /\ UNCHANGED <<pathVars, timers, rebuilds, swaps>>
    BY <1>6, <1>10
  <2>2. /\ res \in ResourceRecords /\ res.req = req /\ res.segs = segs /\ res.signals = signals
        /\ qubits \subseteq res.qubits
    BY <1>3, <1>l, <1>4, <2>1
  <2>3. TypeOK'
    BY <1>0, <2>1, <2>2 DEF TypeOK, Store, ResourceRecords, SignalRecords, pathVars
  <2>4. /\ UNCHANGED <<pathVars, req, segs, signals, timers, rebuilds, swaps>>
        /\ qubits \subseteq qubits'
    BY <2>1, <2>2 DEF Store
  <2>5. ASSUME NEW q \in Paths, NEW b \in Attempts, NEW g \in Hops, <<q, b, g>> # e
        PROVE  /\ ent'[<<q, b, g>>] = ent[<<q, b, g>>]
               /\ <<<<q, b, g>>, "l">> \in qubits' <=> <<<<q, b, g>>, "l">> \in qubits
               /\ <<<<q, b, g>>, "r">> \in qubits' <=> <<<<q, b, g>>, "r">> \in qubits
    <3>1. KeptLink(q, res, b, g)
      BY <1>8, <2>1, <2>5
    <3> QED
      BY <2>1, <3>1 DEF Store, KeptLink
  <2>6. ASSUME NEW b \in Attempts, NEW g \in Hops, <<b, g>> # <<a, h>>
        PROVE  /\ ent'[<<p, b, g>>] = ent[<<p, b, g>>]
               /\ <<<<p, b, g>>, "l">> \in qubits' <=> <<<<p, b, g>>, "l">> \in qubits
               /\ <<<<p, b, g>>, "r">> \in qubits' <=> <<<<p, b, g>>, "r">> \in qubits
    <3>1. <<p, b, g>> # e
      BY <2>6
    <3> QED
      BY <2>5, <3>1
  <2>7. Phase(p)'
    BY <1>0, <1>10, <2>3, <2>4, <2>6, LateCompletion DEF messageVars
  <2>8. ASSUME NEW q \in Paths, q # p PROVE Same(q)
    <3>1. \A b \in Attempts, g \in Hops : <<q, b, g>> # e
      BY <2>8
    <3>2. SameLinks(q)
      BY <1>0, <2>4, <2>5, <3>1 DEF SameLinks
    <3>3. SamePath(q) /\ SameEvents(q) /\ SameSignals(q)
      BY <1>0, <2>4 DEF SamePath, SameEvents, SameSignals, pathVars
    <3> QED
      BY <3>2, <3>3 DEF Same
  <2> QED
    BY <2>3, <2>7, <2>8 DEF StepOf
<1> QED
  BY <1>9, <1>10
(***************************************************************************)
(* Swapping and signalling                                                 *)
(***************************************************************************)

\* The nodes and qubits at the ends of every segment of a chain.
LEMMA ChainShape ==
  ASSUME TypeOK, NEW p \in Paths, route[p] \in Routes, IsChain(p)
  PROVE  LET k == Len(segs[p])
             m == Links(p) - k
         IN /\ k \in 1..Links(p) /\ k \in Nat /\ Links(p) \in Nat /\ m \in Nat
            /\ Len(route[p]) = Links(p) + 1
            /\ segs[p][1].leftNode = route[p][1]
            /\ segs[p][1].leftQubit = <<<<p, retryCount[p], 1>>, "l">>
            /\ \A i \in 1..k :
                 /\ segs[p][i] \in Segments
                 /\ segs[p][i].rightNode = route[p][m + i + 1]
                 /\ segs[p][i].rightQubit = <<<<p, retryCount[p], m + i>>, "r">>
            /\ \A i \in 2..k :
                 /\ segs[p][i].leftNode = route[p][m + i]
                 /\ segs[p][i].leftQubit = <<<<p, retryCount[p], m + i>>, "l">>
<1> DEFINE k == Len(segs[p])
           m == Links(p) - k
<1>1. /\ Links(p) \in Nat /\ Len(route[p]) \in Nat
      /\ k \in 1..Links(p)
      /\ \A i \in 1..k : segs[p][i] = SegmentAt(p, k, i)
  BY RouteFacts DEF IsChain
<1>2. k \in Nat /\ m \in Nat /\ Len(route[p]) = Links(p) + 1
  BY <1>1 DEF Links
<1>3. \A i \in 1..k : segs[p][i] \in Segments
  BY DEF TypeOK
<1> HIDE DEF k, m
<1>4. /\ segs[p][1].leftNode = route[p][1]
      /\ segs[p][1].leftQubit = <<<<p, retryCount[p], 1>>, "l">>
      /\ segs[p][1].rightNode = route[p][m + 2]
      /\ segs[p][1].rightQubit = <<<<p, retryCount[p], m + 1>>, "r">>
  <2>1. segs[p][1] = SegmentAt(p, k, 1)
    BY <1>1, <1>2
  <2>2. Links(p) - k + 2 = m + 2 /\ Links(p) - k + 1 = m + 1
    BY DEF m
  <2> QED
    BY <2>1, <2>2 DEF SegmentAt
<1>5. ASSUME NEW i \in 2..k
      PROVE  /\ segs[p][i].leftNode = route[p][m + i]
             /\ segs[p][i].leftQubit = <<<<p, retryCount[p], m + i>>, "l">>
             /\ segs[p][i].rightNode = route[p][m + i + 1]
             /\ segs[p][i].rightQubit = <<<<p, retryCount[p], m + i>>, "r">>
  <2>1. i \in 1..k /\ i # 1
    BY <1>2
  <2>2. segs[p][i] = SegmentAt(p, k, i)
    BY <1>1, <2>1
  <2>3. SegmentAt(p, k, i) = HopSegment(p, Links(p) - k + i)
    BY <2>1 DEF SegmentAt
  <2>4. segs[p][i] = HopSegment(p, m + i)
    BY <2>2, <2>3 DEF m
  <2> QED
    BY <2>4 DEF HopSegment
<1>6. ASSUME NEW i \in 1..k
      PROVE  /\ segs[p][i].rightNode = route[p][m + i + 1]
             /\ segs[p][i].rightQubit = <<<<p, retryCount[p], m + i>>, "r">>
  <2>1. CASE i = 1
    BY <1>2, <1>4, <2>1
  <2>2. CASE i # 1
    <3>1. i \in 2..k
      BY <1>2, <2>2
    <3> QED
      BY <1>5, <3>1
  <2> QED
    BY <2>1, <2>2
<1>7. /\ k \in 1..Links(p) /\ k \in Nat /\ Links(p) \in Nat /\ m \in Nat
      /\ Len(route[p]) = Links(p) + 1
  BY <1>1, <1>2
<1> QED
  BY <1>3, <1>4, <1>5, <1>6, <1>7 DEF k, m

\* The swap that is due at the next relay finds two segments that meet there.
LEMMA NextSwapPossible ==
  ASSUME TypeOK, NEW p \in Paths, Swapping(p)
  PROVE  NextRelay(p) \in Relays /\ SwapPossible(p, NextRelay(p))
<1> DEFINE k == Len(segs[p])
           m == Links(p) - k
<1>1. route[p] \in Routes /\ IsChain(p) /\ k >= 2
  BY DEF Swapping, Pending
<1>2. /\ k \in 1..Links(p) /\ k \in Nat /\ Links(p) \in Nat /\ m \in Nat
      /\ Len(route[p]) = Links(p) + 1
      /\ segs[p][1].rightNode = route[p][m + 2]
      /\ segs[p][2].leftNode = route[p][m + 2]
  <2>1. /\ k \in 1..Links(p) /\ k \in Nat /\ Links(p) \in Nat /\ m \in Nat
        /\ Len(route[p]) = Links(p) + 1
        /\ \A i \in 1..k : segs[p][i].rightNode = route[p][m + i + 1]
        /\ \A i \in 2..k : segs[p][i].leftNode = route[p][m + i]
    BY <1>1, ChainShape
  <2> HIDE DEF m, k
  <2>2. 1 \in 1..k /\ 2 \in 2..k /\ m + 1 + 1 = m + 2
    BY <1>1, <2>1
  <2> QED
    BY <2>1, <2>2
<1>0. k = Len(segs[p]) /\ m = Links(p) - k
  OBVIOUS
<1> HIDE DEF m, k
<1>3. NextRelay(p) = m + 2 /\ m + 2 \in 2..Links(p) /\ m + 2 \in 1..Len(route[p])
  <2>1. /\ k \in 2..Links(p) /\ k \in Nat /\ Links(p) \in Nat
        /\ m = Links(p) - k /\ Len(route[p]) = Links(p) + 1
    BY <1>0, <1>1, <1>2
  <2>2. NextRelay(p) = (Links(p) + 1) - k + 1
    BY <1>0, <2>1 DEF NextRelay
  <2> QED
    BY <2>1, <2>2
<1> QED
  BY <1>0, <1>1, <1>2, <1>3, RouteFacts DEF SwapPossible

\* Only a swapping path has a swap scheduled; a later one finds no path.
LEMMA SwapMeansSwapping ==
  ASSUME TypeOK, NEW p \in Paths, Phase(p), NEW a \in Attempts, NEW n \in Relays,
         <<p, a, n>> \in swaps
  PROVE  Released(p) \/ (Swapping(p) /\ <<p, a, n>> = NextSwap(p))
<1>1. ~NoSwap(p)
  BY DEF NoSwap
<1>2. Released(p) \/ Swapping(p)
  BY <1>1 DEF Phase, Fresh, Building, Waiting, Signalling, Finished
<1> QED
  BY <1>2 DEF Swapping

\* Without a signaling channel ExecuteSwapAtNode fails the attempt.
LEMMA SwapFails ==
  ASSUME TypeOK, NEW p \in Paths, NEW a \in Attempts, NEW n \in Relays,
         Swapping(p), <<p, a, n>> = NextSwap(p), ~HasSignaling,
         ExecuteSwapAtNode(p, a, n)
  PROVE  TypeOK' /\ Phase(p)' /\ \A q \in Paths : q # p => Same(q)
<1>1. /\ HandlePathFailure(p, Resources)
      /\ swaps' = swaps \ {<<p, a, n>>}
      /\ UNCHANGED <<parts, notices, linkPending, sends, deliveries>>
  BY DEF ExecuteSwapAtNode, Swapping, Pending, InPaths
<1>2. NoSwap(p)'
  BY <1>1 DEF NoSwap, Swapping
<1>3. Entered(p, Resources)
  <2>1. FutureFree(p, Resources)
    BY ResourcesFacts
    DEF FutureFree, Swapping, Pending, FutureUntouched, Untouched, NothingMapped, Mapped
  <2> QED
    BY <2>1, ResourcesFacts DEF Entered, Swapping, Pending, NoTimer, NoSignal
<1>4. OwnSegments(p, Resources)
  BY ResourcesFacts, SegmentQubitNames DEF OwnSegments, Swapping, Pending
<1>5. CallerOf(p)
  BY <1>1 DEF CallerOf, CallerType, CallerKeeps, TypeOK, Swapping, Pending, NoMessage, NoNotice
<1>6. \A q \in Paths, b \in Attempts, r \in Relays : q # p =>
        (<<q, b, r>> \in swaps' <=> <<q, b, r>> \in swaps)
  BY <1>1
<1>7. swaps' \subseteq swaps
  BY <1>1
<1> QED
  BY <1>1, <1>2, <1>3, <1>4, <1>5, <1>6, <1>7, ResourcesFacts, FailureOfSwap

\* ExecuteSwapAtNode takes the path from Swapping to Signalling: the two
\* measured qubits go, all the others of the chain stay.
LEMMA SwapSucceeds ==
  ASSUME IInv, NEW p \in Paths, NEW a \in Attempts, NEW n \in Relays,
         ExecuteSwapAtNode(p, a, n), HasSignaling \/ Released(p)
  PROVE  StepOf(p)
<1> DEFINE x == <<p, a, n>>
<1>a. TypeOK /\ Phase(p) /\ x \in swaps /\ x \in MsgIds
  BY DEF IInv, ExecuteSwapAtNode, MsgIds
<1>1. Released(p) \/ (Swapping(p) /\ x = NextSwap(p))
  BY <1>a, SwapMeansSwapping
<1>b. ASSUME Swapping(p)
      PROVE  /\ x = NextSwap(p) /\ a = retryCount[p] /\ n = NextRelay(p)
             /\ InPaths(p) /\ HasSignaling /\ SwapPossible(p, n)
  BY <1>a, <1>b, NextSwapPossible DEF Swapping, Pending, NextSwap, InPaths, Released
<1>0. /\ TypeOK /\ Phase(p) /\ x \in swaps /\ x \in MsgIds /\ swaps' = swaps \ {x}
      /\ UNCHANGED <<parts, notices, linkPending, deliveries, pathState, route, retryCount,
                     notified, req, segs, ent, timers, rebuilds>>
  BY <1>a, <1>1, <1>b DEF ExecuteSwapAtNode, pathVars, resourceVars, Released, InPaths
<1>2. CASE Swapping(p)
  <2> DEFINE k == Len(segs[p])
             m == Links(p) - k
             rc == retryCount[p]
             b1 == segs[p][1].rightQubit
             b2 == segs[p][2].leftQubit
             sig == [id |-> x, left |-> segs[p][1], right |-> segs[p][2]]
  <2>1. /\ x = NextSwap(p) /\ a = rc /\ n = NextRelay(p)
        /\ InPaths(p) /\ HasSignaling /\ SwapPossible(p, n)
    BY <1>2, <1>b
  <2>2. /\ qubits' = qubits \ {b1, b2}
        /\ sends' = sends \cup {x}
        /\ signals' = signals \cup {sig}
    BY <2>1 DEF ExecuteSwapAtNode
  <2>3. route[p] \in Routes /\ IsChain(p) /\ k >= 2
    BY <1>2 DEF Swapping, Pending
  <2>4. /\ k \in 1..Links(p) /\ k \in Nat /\ Links(p) \in Nat /\ m \in Nat
        /\ segs[p][1].leftQubit = <<<<p, rc, 1>>, "l">>
        /\ \A i \in 1..k :
             /\ segs[p][i] \in Segments
             /\ segs[p][i].rightQubit = <<<<p, rc, m + i>>, "r">>
        /\ \A i \in 2..k : segs[p][i].leftQubit = <<<<p, rc, m + i>>, "l">>
    BY <1>0, <2>3, ChainShape
  <2>5. sig \in SignalRecords
    BY <1>0, <2>3, <2>4 DEF SignalRecords
  <2>6. TypeOK'
    BY <1>0, <2>2, <2>5 DEF TypeOK, SignalRecords
  <2>7. b1 = <<<<p, rc, m + 1>>, "r">> /\ b2 = <<<<p, rc, m + 2>>, "l">>
    <3>1. 1 \in 1..k /\ 2 \in 2..k
      <4>1. k \in Nat /\ k >= 2
        BY <2>3, <2>4
      <4> HIDE DEF k
      <4> QED
        BY <4>1
    <3> HIDE DEF k, m, rc
    <3> QED
      BY <2>4, <3>1
  <2>8. \A i \in 1..k : LeftValid(p, i) /\ RightValid(p, i)
    BY <1>2 DEF Swapping
  <2>9. LeftValid(p, 1)' /\ RightValid(p, 2)'
    <3>1. segs[p][1].leftQubit \notin {b1, b2}
      BY <2>4, <2>7
    <3>2. segs[p][2].rightQubit = <<<<p, rc, m + 2>>, "r">>
      BY <2>3, <2>4
    <3>3. segs[p][2].rightQubit \notin {b1, b2}
      BY <2>4, <2>7, <3>2
    <3>4. LeftValid(p, 1) /\ RightValid(p, 2)
      <4>1. 1 \in 1..k /\ 2 \in 1..k
        BY <2>3, <2>4
      <4> QED
        BY <2>8, <4>1
    <3> QED
      BY <1>0, <2>2, <3>1, <3>3, <3>4 DEF LeftValid, RightValid
  <2>10. ASSUME NEW i \in 3..k PROVE LeftValid(p, i)' /\ RightValid(p, i)'
    <3>1. /\ i \in 1..k /\ i \in 2..k /\ m + i # m + 1 /\ m + i # m + 2
      <4>1. k \in Nat /\ m \in Nat
        BY <2>4
      <4> HIDE DEF k, m
      <4> QED
        BY <4>1
    <3>2. segs[p][i].leftQubit = <<<<p, rc, m + i>>, "l">>
          /\ segs[p][i].rightQubit = <<<<p, rc, m + i>>, "r">>
      BY <2>4, <3>1
    <3>3. {segs[p][i].leftQubit, segs[p][i].rightQubit} \cap {b1, b2} = {}
      BY <2>7, <3>1, <3>2
    <3>4. LeftValid(p, i) /\ RightValid(p, i)
      BY <2>8, <3>1
    <3> QED
      BY <1>0, <2>2, <3>3, <3>4 DEF LeftValid, RightValid
  <2>11. IsChain(p)' /\ NextSwap(p)' = NextSwap(p)
    BY <1>0, <2>3 DEF IsChain, Links, SegmentAt, HopSegment, NextSwap, NextRelay
  <2>12. /\ sig \in signals'
         /\ \A s \in signals' : s.id[1] = p => s = sig
    BY <1>2, <2>2 DEF Swapping, NoSignal
  <2>13. ASSUME NEW b \in Attempts, NEW r \in Relays
         PROVE  /\ <<p, b, r>> \in sends' \cup deliveries' <=> <<p, b, r>> = x
                /\ ~(<<p, b, r>> \in sends' /\ <<p, b, r>> \in deliveries')
    BY <1>0, <1>2, <2>2 DEF Swapping, NoMessage
  <2>14. FutureUntouched(p)'
    BY <1>0, <1>2, <2>2 DEF Swapping, Pending, FutureUntouched, Untouched
  <2>15. Pending(p)' /\ NoTimer(p)' /\ NoRebuild(p)' /\ NothingMapped(p)'
    BY <1>0, <1>2, <2>14
    DEF Swapping, Pending, NoNotice, NoTimer, NoRebuild, NothingMapped, Mapped
  <2>16. NoSwap(p)'
    <3>1. \A b \in Attempts, r \in Relays : <<p, b, r>> \in swaps => <<p, b, r>> = x
      BY <1>2, <2>1 DEF Swapping
    <3> QED
      BY <1>0, <3>1 DEF NoSwap
  <2>17. Signalling(p)'
    BY <1>0, <2>1, <2>3, <2>9, <2>10, <2>11, <2>12, <2>13, <2>15, <2>16 DEF Signalling
  <2>18. ASSUME NEW q \in Paths, q # p PROVE Same(q)
    <3>1. SameLinks(q)
      BY <1>0, <2>2, <2>7, <2>18 DEF SameLinks
    <3>2. SamePath(q) /\ SameEvents(q) /\ SameSignals(q)
      BY <1>0, <2>2, <2>18 DEF SamePath, SameEvents, SameSignals
    <3> QED
      BY <3>1, <3>2 DEF Same
  <2> QED
    BY <2>6, <2>17, <2>18 DEF Phase, StepOf
<1>3. CASE Released(p)
  <2>1. UNCHANGED <<signals, qubits, sends>>
    BY <1>3 DEF Released, InPaths, ExecuteSwapAtNode, resourceVars
  <2>2. TypeOK'
    BY <1>0, <2>1 DEF TypeOK
  <2>3. Released(p)'
    BY <1>0, <1>3, <2>1 DEF Released, NoTimer, NoSignal, NothingMapped, Mapped
  <2>4. ASSUME NEW q \in Paths, q # p PROVE Same(q)
    BY <1>0, <2>1, <2>4 DEF Same, SamePath, SameEvents, SameSignals, SameLinks
  <2> QED
    BY <2>2, <2>3, <2>4 DEF Phase, StepOf
<1> QED
  BY <1>1, <1>2, <1>3

\* The two cases of ExecuteSwapAtNode together.
LEMMA ExecuteSwapAtNodeStep ==
  ASSUME IInv, NEW p \in Paths, NEW a \in Attempts, NEW n \in Relays,
         ExecuteSwapAtNode(p, a, n)
  PROVE  StepOf(p)
<1>1. TypeOK /\ Phase(p) /\ <<p, a, n>> \in swaps
  BY DEF IInv, ExecuteSwapAtNode
<1>2. Released(p) \/ (Swapping(p) /\ <<p, a, n>> = NextSwap(p))
  BY <1>1, SwapMeansSwapping
<1>3. CASE HasSignaling \/ Released(p)
  BY <1>3, SwapSucceeds
<1>4. CASE ~HasSignaling /\ Swapping(p) /\ <<p, a, n>> = NextSwap(p)
  <2>1. TypeOK' /\ Phase(p)' /\ \A q \in Paths : q # p => Same(q)
    BY <1>1, <1>4, SwapFails
  <2> QED
    BY <2>1 DEF StepOf
<1> QED
  BY <1>2, <1>3, <1>4

\* Replacing the first two elements of a sequence by one.
LEMMA MergedSequence ==
  ASSUME NEW S, NEW s \in Seq(S), Len(s) >= 2, NEW x \in S,
         NEW t, t = <<x>> \o SubSeq(s, 3, Len(s))
  PROVE  /\ t \in Seq(S) /\ Len(t) = Len(s) - 1 /\ t[1] = x
         /\ \A i \in 2..(Len(s) - 1) : t[i] = s[i + 1]
<1> DEFINE r == SubSeq(s, 3, Len(s))
<1>0. t = <<x>> \o r
  OBVIOUS
<1>1. Len(s) \in Nat
  OBVIOUS
<1>2. r \in Seq(S) /\ Len(r) = Len(s) - 2 /\ \A i \in 1..(Len(s) - 2) : r[i] = s[i + 2]
  <2>1. 3 \in Int /\ Len(s) \in Int /\ \A i \in 3..Len(s) : s[i] \in S
    BY <1>1
  <2>2. /\ r \in Seq(S)
        /\ Len(r) = IF 3 <= Len(s) THEN Len(s) - 3 + 1 ELSE 0
        /\ \A i \in 1..(Len(s) - 3 + 1) : r[i] = s[3 + i - 1]
    BY <2>1, SubSeqProperties
  <2> HIDE DEF r
  <2>3. Len(r) = Len(s) - 2
    <3> DEFINE n == Len(s)
    <3>1. n \in Nat /\ n >= 2 /\ Len(r) = IF 3 <= n THEN n - 3 + 1 ELSE 0
      BY <1>1, <2>2
    <3> HIDE DEF n
    <3>2. Len(r) = n - 2
      <4>1. CASE 3 <= n
        BY <3>1, <4>1
      <4>2. CASE ~(3 <= n)
        BY <3>1, <4>2
      <4> QED
        BY <4>1, <4>2
    <3> QED
      BY <3>2 DEF n
  <2>4. ASSUME NEW i \in 1..(Len(s) - 2) PROVE r[i] = s[i + 2]
    <3>1. i \in 1..(Len(s) - 3 + 1) /\ 3 + i - 1 = i + 2
      BY <1>1
    <3>2. r[i] = s[3 + i - 1]
      BY <2>2, <3>1
    <3> QED
      BY <3>1, <3>2
  <2> QED
    BY <2>2, <2>3, <2>4
<1>3. <<x>> \in Seq(S) /\ Len(<<x>>) = 1
  OBVIOUS
<1> HIDE DEF r
<1>4. t \in Seq(S) /\ Len(t) = 1 + Len(r) /\ t[1] = x
  BY <1>0, <1>2, <1>3
<1>5. ASSUME NEW i \in 2..(Len(s) - 1) PROVE t[i] = s[i + 1]
  <2>1. i - 1 \in 1..(Len(s) - 2) /\ i > 1 /\ i <= 1 + Len(r) /\ i - 1 + 2 = i + 1
    BY <1>1, <1>2
  <2>2. t[i] = r[i - 1]
    BY <1>0, <1>2, <1>3, <2>1
  <2> QED
    BY <1>2, <2>1, <2>2
<1>6. 1 + Len(r) = Len(s) - 1
  BY <1>1, <1>2
<1> QED
  BY <1>4, <1>5, <1>6 DEF r

\* Only a signalling path is waiting for a message; later ones find no path.
LEMMA MessageMeansSignalling ==
  ASSUME TypeOK, NEW p \in Paths, Phase(p), NEW a \in Attempts, NEW n \in Relays,
         <<p, a, n>> \in sends \cup deliveries
  PROVE  Released(p) \/ (Signalling(p) /\ <<p, a, n>> = NextSwap(p))
<1>1. ~NoMessage(p)
  BY DEF NoMessage
<1>2. Released(p) \/ Signalling(p)
  BY <1>1 DEF Phase, Fresh, Building, Waiting, Swapping, Finished
<1> QED
  BY <1>2 DEF Signalling

\* Taking the pending signal of a signalling path lets a handler be entered.
LEMMA SignalTaken ==
  ASSUME TypeOK, NEW p \in Paths, Signalling(p), NEW s \in signals, s.id[1] = p,
         NEW res \in ResourceRecords, res.signals = signals \ {s},
         res.req = req, res.ent = ent, res.qubits = qubits,
         \A q \in Paths : q # p => res.segs[q] = segs[q]
  PROVE  Entered(p, res)
<1>1. OthersKept(p, res)
  BY DEF OthersKept, Kept, KeptLink
<1>2. FutureFree(p, res)
  BY DEF FutureFree, Signalling, Pending, FutureUntouched, Untouched, NothingMapped, Mapped
<1>3. \A t \in res.signals : t.id[1] # p
  BY DEF Signalling
<1> QED
  BY <1>1, <1>2, <1>3 DEF Entered, Signalling, Pending, NoTimer

\* A released path stays released whatever happens to its messages.
LEMMA MessageOfReleased ==
  ASSUME TypeOK, NEW p \in Paths, Released(p), sends' \subseteq MsgIds, deliveries' \subseteq MsgIds,
         UNCHANGED <<parts, pathVars, resourceVars, timers, rebuilds, notices, swaps,
                     linkPending>>,
         \A q \in Paths, a \in Attempts, n \in Relays : q # p =>
           /\ <<q, a, n>> \in sends' <=> <<q, a, n>> \in sends
           /\ <<q, a, n>> \in deliveries' <=> <<q, a, n>> \in deliveries
  PROVE  TypeOK' /\ Phase(p)' /\ \A q \in Paths : q # p => Same(q)
<1>1. TypeOK'
  BY DEF TypeOK, pathVars, resourceVars
<1>2. Released(p)'
  BY DEF Released, NoTimer, NoSignal, NothingMapped, Mapped, pathVars, resourceVars
<1>3. ASSUME NEW q \in Paths, q # p PROVE Same(q)
  BY <1>3 DEF Same, SamePath, SameEvents, SameSignals, SameLinks, pathVars, resourceVars
<1> QED
  BY <1>1, <1>2, <1>3 DEF Phase

\* DoSendMessage hands the message on, or fails the path that waits for it.
LEMMA DoSendMessageStep ==
  ASSUME IInv, NEW p \in Paths, NEW a \in Attempts, NEW n \in Relays,
         DoSendMessage(<<p, a, n>>)
  PROVE  StepOf(p)
<1> DEFINE m == <<p, a, n>>
<1>0. /\ TypeOK /\ Phase(p) /\ m \in sends /\ m \in MsgIds /\ sends' = sends \ {m}
      /\ UNCHANGED <<parts, notices, linkPending>>
  BY DEF IInv, DoSendMessage, MsgIds
<1>1. \/ /\ deliveries' = deliveries \cup {m}
         /\ UNCHANGED <<pathVars, resourceVars, timers, rebuilds, swaps>>
      \/ /\ SignalLost(m)
         /\ UNCHANGED deliveries
  BY DEF DoSendMessage
<1>2. CASE Released(p)
  <2>1. ~SignalKnown(m)
    BY <1>2 DEF Released, NoSignal, SignalKnown
  <2>2. /\ UNCHANGED <<pathVars, resourceVars, timers, rebuilds, swaps>>
        /\ deliveries' \in {deliveries, deliveries \cup {m}}
    BY <1>1, <2>1 DEF SignalLost, SignalKnown
  <2>3. sends' \subseteq MsgIds /\ deliveries' \subseteq MsgIds
    BY <1>0, <2>2 DEF TypeOK
  <2>4. TypeOK' /\ Phase(p)' /\ \A q \in Paths : q # p => Same(q)
    BY <1>0, <1>2, <2>2, <2>3, MessageOfReleased
  <2> QED
    BY <2>4 DEF StepOf
<1>3. CASE Signalling(p) /\ m = NextSwap(p)
  <2>1. CASE /\ deliveries' = deliveries \cup {m}
             /\ UNCHANGED <<pathVars, resourceVars, timers, rebuilds, swaps>>
    <3>1. TypeOK'
      BY <1>0, <2>1 DEF TypeOK, pathVars, resourceVars
    <3>2. /\ IsChain(p)' /\ NextSwap(p)' = NextSwap(p)
      BY <1>3, <2>1
      DEF Signalling, IsChain, Links, SegmentAt, HopSegment, NextSwap, NextRelay, pathVars,
          resourceVars
    <3>3. \A b \in Attempts, r \in Relays :
            /\ <<p, b, r>> \in sends' \cup deliveries' <=> <<p, b, r>> = NextSwap(p)
            /\ ~(<<p, b, r>> \in sends' /\ <<p, b, r>> \in deliveries')
      BY <1>0, <1>3, <2>1 DEF Signalling
    <3>4. /\ Pending(p)' /\ NoTimer(p)' /\ NoRebuild(p)' /\ NoSwap(p)' /\ NothingMapped(p)'
      BY <1>0, <1>3, <2>1
      DEF Signalling, Pending, NoNotice, FutureUntouched, Untouched, NoTimer, NoRebuild, NoSwap,
          NothingMapped, Mapped, pathVars, resourceVars
    <3>5. Signalling(p)'
      BY <1>3, <2>1, <3>2, <3>3, <3>4
      DEF Signalling, LeftValid, RightValid, pathVars, resourceVars
    <3>6. ASSUME NEW q \in Paths, q # p PROVE Same(q)
      BY <1>0, <2>1, <3>6
      DEF Same, SamePath, SameEvents, SameSignals, SameLinks, pathVars, resourceVars
    <3> QED
      BY <3>1, <3>5, <3>6 DEF Phase, StepOf
  <2>2. CASE SignalLost(m) /\ UNCHANGED deliveries
    <3>1. SignalKnown(m)
      BY <1>3 DEF Signalling, SignalKnown
    <3>2. UNCHANGED swaps /\ \E s \in signals : s.id = m /\
            HandlePathFailure(p, [Resources EXCEPT !.signals = @ \ {s}])
      BY <2>2, <3>1 DEF SignalLost
    <3>9. PICK s \in signals : s.id = m /\
            HandlePathFailure(p, [Resources EXCEPT !.signals = @ \ {s}])
      BY <3>2
    <3> DEFINE res == [Resources EXCEPT !.signals = @ \ {s}]
    <3>3. /\ res \in ResourceRecords /\ res.signals = signals \ {s}
          /\ res.req = req /\ res.ent = ent /\ res.qubits = qubits /\ res.segs = segs
      BY <1>0 DEF Resources, ResourceRecords, SignalRecords, TypeOK
    <3> HIDE DEF res
    <3>4. Entered(p, res)
      BY <1>0, <1>3, <3>9, <3>3, SignalTaken
    <3>5. OwnSegments(p, res) /\ NoSwap(p)
      BY <1>0, <1>3, <3>3, SegmentQubitNames DEF OwnSegments, Signalling, Pending
    <3>6. NoMessage(p)'
      BY <1>0, <1>3, <2>2 DEF NoMessage, Signalling
    <3>7. CallerOf(p)
      BY <1>0, <1>3, <2>2, <3>6
      DEF CallerOf, CallerType, CallerKeeps, TypeOK, Signalling, Pending, NoNotice
    <3>8. TypeOK' /\ Phase(p)' /\ \A q \in Paths : q # p => Same(q)
      BY <1>0, <3>2, <3>9, <3>3, <3>4, <3>5, <3>7, FailureStep DEF res
    <3> QED
      BY <3>8 DEF StepOf
  <2> QED
    BY <1>1, <2>1, <2>2
<1> QED
  BY <1>0, <1>2, <1>3, MessageMeansSignalling

\* DeliverMessage merges the two measured segments of the path that waits for the
\* message, and the next swap is looked for with one segment less.
LEMMA DeliveredBegins ==
  ASSUME TypeOK, NEW p \in Paths, NEW a \in Attempts, NEW n \in Relays,
         Signalling(p), <<p, a, n>> = NextSwap(p), SignalDelivered(<<p, a, n>>)
  PROVE  \E s \in signals, res \in ResourceRecords :
           /\ s.id[1] = p /\ s.left = segs[p][1] /\ s.right = segs[p][2]
           /\ BeginNextSwap(p, res) /\ Entered(p, res) /\ ResChain(p, res)
           /\ res.signals = signals \ {s}
           /\ res.req = req /\ res.ent = ent /\ res.qubits = qubits
           /\ Len(res.segs[p]) = Len(segs[p]) - 1 /\ res.segs[p][1] = Merge(s)
           /\ \A i \in 2..(Len(segs[p]) - 1) : res.segs[p][i] = segs[p][i + 1]
<1> DEFINE m == <<p, a, n>>
<1>1. SignalKnown(m)
  BY DEF Signalling, SignalKnown
<1>0. Len(segs[p]) >= 2 /\ segs[p] # <<>> /\ Len(segs[p]) # 1
  <2>1. Len(segs[p]) \in Nat /\ Len(segs[p]) >= 2
    BY DEF Signalling, TypeOK
  <2>2. Len(segs[p]) # 1
    <3> SUFFICES ASSUME Len(segs[p]) = 1 PROVE FALSE
      OBVIOUS
    <3>1. ~(1 >= 2)
      OBVIOUS
    <3> QED
      BY <2>1, <3>1
  <2>3. segs[p] # <<>>
    <3> SUFFICES ASSUME segs[p] = <<>> PROVE FALSE
      OBVIOUS
    <3>1. Len(segs[p]) = 0
      OBVIOUS
    <3> QED
      BY <2>1, <3>1
  <2> QED
    BY <2>1, <2>2, <2>3
<1>2. PICK s \in signals :
        /\ s.id = m
        /\ BeginNextSwap(p,
             [[Resources EXCEPT !.signals = @ \ {s}] EXCEPT
                 !.segs[p] = <<Merge(s)>> \o SubSeq(segs[p], 3, Len(segs[p]))])
  <2>1. m[1] = p /\ SignalDelivered(m)
    OBVIOUS
  <2>2. \E s \in signals :
          LET res == [Resources EXCEPT !.signals = @ \ {s}]
              rest == SubSeq(segs[p], 3, Len(segs[p]))
          IN /\ s.id = m
             /\ \/ /\ Len(segs[p]) >= 2
                   /\ BeginNextSwap(p, [res EXCEPT !.segs[p] = <<Merge(s)>> \o rest])
                \/ /\ Len(segs[p]) = 1
                   /\ HandlePathFailure(p, res)
                   /\ UNCHANGED swaps
                \/ /\ segs[p] = <<>>
                   /\ Store(res)
                   /\ UNCHANGED <<pathVars, timers, rebuilds, swaps>>
    <3> HIDE DEF m
    <3> QED
      BY <1>1, <2>1, Zenon DEF SignalDelivered
  <2> QED
    BY <1>0, <2>2, Zenon
<1> DEFINE k == Len(segs[p])
           d == Links(p) - k
           t == <<Merge(s)>> \o SubSeq(segs[p], 3, k)
           res == [[Resources EXCEPT !.signals = @ \ {s}] EXCEPT !.segs[p] = t]
<1>11. BeginNextSwap(p, res)
  BY <1>2
<1>3. s.left = segs[p][1] /\ s.right = segs[p][2] /\ s.id[1] = p
  BY <1>2 DEF Signalling
<1>4. route[p] \in Routes /\ IsChain(p) /\ k >= 2
  BY DEF Signalling, Pending
<1>5. /\ k \in 1..Links(p) /\ k \in Nat /\ Links(p) \in Nat /\ d \in Nat
      /\ segs[p][1].leftNode = route[p][1]
      /\ segs[p][1].leftQubit = <<<<p, retryCount[p], 1>>, "l">>
      /\ \A i \in 1..k :
           /\ segs[p][i] \in Segments
           /\ segs[p][i].rightNode = route[p][d + i + 1]
           /\ segs[p][i].rightQubit = <<<<p, retryCount[p], d + i>>, "r">>
      /\ segs[p] \in Seq(Segments)
  BY <1>4, ChainShape DEF TypeOK
<1>6. 1 \in 1..k /\ 2 \in 1..k
  BY <1>4, <1>5
<1>7. segs[p][1] \in Segments /\ segs[p][2] \in Segments
  BY <1>5, <1>6
<1>8. Merge(s) \in Segments
  BY <1>3, <1>7 DEF Merge, Segments
<1>9. /\ t \in Seq(Segments) /\ Len(t) = k - 1 /\ t[1] = Merge(s)
      /\ \A i \in 2..(k - 1) : t[i] = segs[p][i + 1]
  <2>1. segs[p] \in Seq(Segments) /\ Len(segs[p]) >= 2
    BY <1>4, <1>5
  <2> HIDE DEF t
  <2>2. t = <<Merge(s)>> \o SubSeq(segs[p], 3, Len(segs[p]))
    BY DEF t
  <2> QED
    BY <2>1, <2>2, <1>8, MergedSequence
<1> HIDE DEF t
<1>10. /\ res \in ResourceRecords /\ res.signals = signals \ {s}
       /\ res.req = req /\ res.ent = ent /\ res.qubits = qubits
       /\ res.segs = [segs EXCEPT ![p] = t]
  BY <1>9 DEF Resources, ResourceRecords, SignalRecords, TypeOK
<1> HIDE DEF res
<1>12. res.segs[p] = t /\ \A q \in Paths : q # p => res.segs[q] = segs[q]
  BY <1>10 DEF TypeOK
<1>13. Entered(p, res)
  <2>1. TypeOK /\ Signalling(p) /\ s.id[1] = p /\ res \in ResourceRecords
    BY <1>3, <1>10
  <2>2. /\ res.signals = signals \ {s}
        /\ res.req = req /\ res.ent = ent /\ res.qubits = qubits
        /\ \A q \in Paths : q # p => res.segs[q] = segs[q]
    BY <1>10, <1>12
  <2> QED
    BY <2>1, <2>2, SignalTaken
<1>14. k - 1 \in 1..Links(p)
  BY <1>4, <1>5
<1>15. t[1] = SegmentAt(p, k - 1, 1) /\ t[1].leftQubit \in qubits /\ t[1].rightQubit \in qubits
  <2>1. d + 2 + 1 = Links(p) - (k - 1) + 2 /\ d + 2 = Links(p) - (k - 1) + 1
    BY <1>5
  <2>2. /\ segs[p][2].rightNode = route[p][d + 2 + 1]
        /\ segs[p][2].rightQubit = <<<<p, retryCount[p], d + 2>>, "r">>
    BY <1>5, <1>6
  <2>3. t[1] = [leftNode |-> segs[p][1].leftNode, rightNode |-> segs[p][2].rightNode,
                leftQubit |-> segs[p][1].leftQubit, rightQubit |-> segs[p][2].rightQubit]
    BY <1>3, <1>9 DEF Merge
  <2>4. segs[p][1].leftQubit \in qubits /\ segs[p][2].rightQubit \in qubits
    BY DEF Signalling, LeftValid, RightValid
  <2>5. t[1] = [leftNode |-> route[p][1], rightNode |-> route[p][Links(p) - (k - 1) + 2],
                leftQubit |-> <<<<p, retryCount[p], 1>>, "l">>,
                rightQubit |-> <<<<p, retryCount[p], Links(p) - (k - 1) + 1>>, "r">>]
    BY <1>5, <2>1, <2>2, <2>3
  <2> QED
    BY <2>3, <2>4, <2>5 DEF SegmentAt
<1>16. ASSUME NEW i \in 2..(k - 1)
       PROVE  /\ t[i] = SegmentAt(p, k - 1, i)
              /\ t[i].leftQubit \in qubits /\ t[i].rightQubit \in qubits
  <2>0. k \in Nat /\ Links(p) \in Nat
    BY <1>5
  <2>1. /\ i + 1 \in 1..k /\ i + 1 \in 3..k /\ i # 1 /\ i + 1 # 1
        /\ Links(p) - k + (i + 1) = Links(p) - (k - 1) + i
    <3> HIDE DEF k
    <3> QED
      BY <2>0
  <2>2. segs[p][i + 1] = SegmentAt(p, k, i + 1)
    BY <1>4, <2>1 DEF IsChain
  <2>3. SegmentAt(p, k, i + 1) = SegmentAt(p, k - 1, i)
    <3>1. SegmentAt(p, k, i + 1) = HopSegment(p, Links(p) - k + (i + 1))
      BY <2>1 DEF SegmentAt
    <3>2. SegmentAt(p, k - 1, i) = HopSegment(p, Links(p) - (k - 1) + i)
      BY <2>1 DEF SegmentAt
    <3> QED
      BY <2>1, <3>1, <3>2
  <2>4. segs[p][i + 1].leftQubit \in qubits /\ segs[p][i + 1].rightQubit \in qubits
    BY <2>1 DEF Signalling, LeftValid, RightValid
  <2> QED
    BY <1>9, <2>2, <2>3, <2>4
<1>17. ResChain(p, res)
  <2>1. \A i \in 1..(k - 1) : i = 1 \/ i \in 2..(k - 1)
    BY <1>5
  <2>2. \A b \in Attempts, g \in Hops : req[<<p, b, g>>] \notin {"PENDING", "READY"}
    BY DEF Signalling, NothingMapped, Mapped
  <2>3. \A i \in 1..(k - 1) : /\ t[i] = SegmentAt(p, k - 1, i)
                              /\ t[i].leftQubit \in qubits /\ t[i].rightQubit \in qubits
    BY <1>15, <1>16, <2>1
  <2> HIDE DEF k
  <2> QED
    BY <1>9, <1>10, <1>12, <1>14, <2>2, <2>3 DEF ResChain
<1> QED
  BY <1>3, <1>9, <1>10, <1>11, <1>12, <1>13, <1>17

\* So swapping goes on with one segment less.
LEMMA DeliverMessageStep ==
  ASSUME IInv, NEW p \in Paths, NEW a \in Attempts, NEW n \in Relays,
         DeliverMessage(<<p, a, n>>)
  PROVE  StepOf(p)
<1> DEFINE m == <<p, a, n>>
<1>0. /\ TypeOK /\ Phase(p) /\ m \in deliveries /\ m \in MsgIds
      /\ deliveries' = deliveries \ {m}
      /\ SignalDelivered(m)
      /\ UNCHANGED <<parts, notices, linkPending, sends>>
  BY DEF IInv, DeliverMessage, MsgIds
<1>1. CASE Released(p)
  <2>1. ~SignalKnown(m)
    BY <1>1 DEF Released, NoSignal, SignalKnown
  <2>2. UNCHANGED <<pathVars, resourceVars, timers, rebuilds, swaps>>
    BY <1>0, <2>1 DEF SignalDelivered, SignalKnown
  <2>3. sends' \subseteq MsgIds /\ deliveries' \subseteq MsgIds
    BY <1>0 DEF TypeOK
  <2>4. TypeOK' /\ Phase(p)' /\ \A q \in Paths : q # p => Same(q)
    BY <1>0, <1>1, <2>2, <2>3, MessageOfReleased
  <2> QED
    BY <2>4 DEF StepOf
<1>2. CASE Signalling(p) /\ m = NextSwap(p)
  <2>1. PICK res \in ResourceRecords :
          BeginNextSwap(p, res) /\ Entered(p, res) /\ ResChain(p, res)
    BY <1>0, <1>2, DeliveredBegins
  <2>2. NoSwap(p)
    BY <1>2 DEF Signalling
  <2>3. NoMessage(p)'
    BY <1>0, <1>2 DEF NoMessage, Signalling
  <2>4. CallerOf(p)
    BY <1>0, <1>2, <2>3
    DEF CallerOf, CallerType, CallerKeeps, TypeOK, Signalling, Pending, NoNotice
  <2>5. TypeOK' /\ Phase(p)' /\ \A q \in Paths : q # p => Same(q)
    BY <1>0, <2>1, <2>2, <2>4, BeginStep
  <2> QED
    BY <2>5 DEF StepOf
<1> QED
  BY <1>0, <1>1, <1>2, MessageMeansSignalling

(***************************************************************************)
(* The inductive invariant                                                 *)
(***************************************************************************)

\* Before any call every path is fresh.
THEOREM InitIInv == Init => IInv
<1> SUFFICES ASSUME Init PROVE IInv
  OBVIOUS
<1>1. TypeOK
  <2>1. <<>> \in Seq(Segments) /\ <<>> \in Seq(BOOLEAN)
    OBVIOUS
  <2>2. 0 \in Attempts
    BY ParamAssumption DEF Attempts
  <2> QED
    BY <2>1, <2>2 DEF Init, TypeOK, PathStates, ReqStates, EntStates
<1>2. ASSUME NEW p \in Paths PROVE Fresh(p)
  <2>1. \A a \in Attempts, h \in Hops : <<p, a, h>> \in EntIds
    BY DEF EntIds
  <2>2. \A a \in Attempts : Untouched(p, a)
    BY <2>1 DEF Init, Untouched
  <2>3. 0 \in Attempts
    BY ParamAssumption DEF Attempts
  <2>4. FutureUntouched(p) /\ Untouched(p, 0)
    BY <2>2, <2>3 DEF FutureUntouched
  <2> QED
    BY <2>1, <2>4
    DEF Init, Fresh, NoNotice, NoTimer, NoRebuild, NoSwap, NoMessage, NoSignal, NoRequest
<1> QED
  BY <1>1, <1>2 DEF IInv, Phase

\* Every call and every scheduled event keeps every path in some phase.
THEOREM NextIInv == IInv /\ [Next]_vars => IInv'
<1> SUFFICES ASSUME IInv, [Next]_vars PROVE IInv'
  OBVIOUS
<1>1. ASSUME NEW p \in Paths, SetupPath(p) PROVE IInv'
  BY <1>1, SetupPathStep, OnePathStep
<1>2. ASSUME NEW p \in Paths, ReleasePath(p) PROVE IInv'
  BY <1>2, ReleasePathStep, OnePathStep
<1>3. ASSUME NEW p \in Paths, NEW ok \in BOOLEAN, NotifyPathResult(p, ok) PROVE IInv'
  BY <1>3, NotifyPathResultStep, OnePathStep
<1>4. ASSUME NEW p \in Paths, NEW a \in Attempts, RetryPath(p, a) PROVE IInv'
  BY <1>4, RetryPathStep, OnePathStep
<1>5. ASSUME NEW p \in Paths, NEW a \in Attempts, HandlePathTimeout(p, a) PROVE IInv'
  BY <1>5, HandlePathTimeoutStep, OnePathStep
<1>6. ASSUME NEW e \in EntIds, CompleteRequest(e) PROVE IInv'
  <2>1. PICK p \in Paths, a \in Attempts, h \in Hops : e = <<p, a, h>>
    BY DEF EntIds
  <2> QED
    BY <1>6, <2>1, CompleteRequestStep, OnePathStep
<1>7. ASSUME NEW m \in MsgIds,
             DoSendMessage(m) \/ DeliverMessage(m) \/ ExecuteSwapAtNode(m[1], m[2], m[3])
      PROVE  IInv'
  <2>1. PICK p \in Paths, a \in Attempts, n \in Relays : m = <<p, a, n>>
    BY DEF MsgIds
  <2>2. m[1] = p /\ m[2] = a /\ m[3] = n
    BY <2>1
  <2> QED
    BY <1>7, <2>1, <2>2, DoSendMessageStep, DeliverMessageStep, ExecuteSwapAtNodeStep, OnePathStep
<1>8. CASE UNCHANGED vars
  <2>1. TypeOK'
    BY <1>8 DEF IInv, TypeOK, vars, pathVars, resourceVars, messageVars
  <2>2. \A q \in Paths : Same(q)
    BY <1>8
    DEF Same, SamePath, SameEvents, SameSignals, SameLinks, vars, pathVars, resourceVars,
        messageVars
  <2>3. \A q \in Paths : Phase(q)'
    BY <2>1, <2>2, Frame DEF IInv
  <2>4. Paths' = Paths
    BY DEF Paths
  <2> QED
    BY <2>1, <2>3, <2>4 DEF IInv
<1> QED
  BY <1>1, <1>2, <1>3, <1>4, <1>5, <1>6, <1>7, <1>8 DEF Next, Application, Scheduler

\* In every reachable state every path is in one of the seven phases.
THEOREM PhaseInvariant == Spec => []IInv
BY InitIInv, NextIInv, PTL DEF Spec

\* Every variable stays in its range.
THEOREM TypeCorrect == Spec => []TypeOK
<1>1. IInv => TypeOK
  BY DEF IInv
<1> QED
  BY <1>1, PhaseInvariant, PTL

(***************************************************************************)
(* What the phases imply                                                   *)
(***************************************************************************)

\* A pending path is driven by exactly one event: it is neither stuck nor
\* advanced by a timeout and a swap, or a retry and a signal, at once.
THEOREM OneDriver == Spec => []PendingPathHasOneDriver
<1>1. IInv => PendingPathHasOneDriver
  <2> SUFFICES ASSUME IInv, NEW p \in Paths, pathState[p] = "PENDING"
               PROVE  \/ TimerDrives(p) /\ ~RetryDrives(p) /\ ~SwapDrives(p) /\ ~SignalDrives(p)
                      \/ ~TimerDrives(p) /\ RetryDrives(p) /\ ~SwapDrives(p) /\ ~SignalDrives(p)
                      \/ ~TimerDrives(p) /\ ~RetryDrives(p) /\ SwapDrives(p) /\ ~SignalDrives(p)
                      \/ ~TimerDrives(p) /\ ~RetryDrives(p) /\ ~SwapDrives(p) /\ SignalDrives(p)
    BY DEF PendingPathHasOneDriver
  <2>1. TypeOK /\ retryCount[p] \in Attempts
    BY DEF IInv, TypeOK
  <2>2. Building(p) \/ Waiting(p) \/ Swapping(p) \/ Signalling(p)
    BY DEF IInv, Phase, Fresh, Finished, Released
  <2>3. /\ NoTimer(p) => ~TimerDrives(p)
        /\ NoRebuild(p) => ~RetryDrives(p)
        /\ NoSwap(p) => ~SwapDrives(p)
        /\ NoSignal(p) => ~SignalDrives(p)
    BY <2>1
    DEF NoTimer, NoRebuild, NoSwap, NoSignal, TimerDrives, RetryDrives, SwapDrives, SignalDrives
  <2>4. CASE Building(p)
    BY <2>1, <2>3, <2>4 DEF Building, TimerDrives
  <2>5. CASE Waiting(p)
    BY <2>1, <2>3, <2>5 DEF Waiting, RetryDrives
  <2>6. CASE Swapping(p)
    <3>1. SwapDrives(p)
      BY <2>1, <2>6, NextSwapPossible DEF Swapping, SwapDrives, NextSwap
    <3> QED
      BY <2>3, <2>6, <3>1 DEF Swapping
  <2>7. CASE Signalling(p)
    <3> DEFINE s == [id |-> NextSwap(p), left |-> segs[p][1], right |-> segs[p][2]]
    <3>1. s \in signals /\ s.id = NextSwap(p) /\ s.id \in MsgIds
      BY <2>1, <2>7 DEF Signalling, TypeOK
    <3>2. NextSwap(p)[1] = p /\ NextSwap(p)[2] = retryCount[p] /\ NextRelay(p) \in Relays
      BY <3>1 DEF NextSwap, MsgIds
    <3>3. NextSwap(p) \in sends \cup deliveries
      BY <2>1, <2>7, <3>2 DEF Signalling, NextSwap
    <3>4. SignalDrives(p)
      BY <3>1, <3>2, <3>3 DEF SignalDrives
    <3> QED
      BY <2>3, <2>7, <3>4 DEF Signalling
  <2> QED
    BY <2>2, <2>4, <2>5, <2>6, <2>7
<1> QED
  BY <1>1, PhaseInvariant, PTL

\* No timeout and no scheduled retry outlives its attempt.
THEOREM NoStaleEvents == Spec => []NoStaleTimerOrRetry
<1>1. IInv => NoStaleTimerOrRetry
  <2> SUFFICES ASSUME IInv, NEW p \in Paths, NEW a \in Attempts
               PROVE  /\ <<p, a>> \in timers => pathState[p] = "PENDING" /\ a = retryCount[p]
                      /\ <<p, a>> \in rebuilds /\ InPaths(p) =>
                           pathState[p] = "PENDING" /\ a = retryCount[p]
    BY DEF NoStaleTimerOrRetry
  <2>1. <<p, a>> \in timers => Building(p)
    BY DEF IInv, Phase, Fresh, Waiting, Swapping, Signalling, Finished, Released, NoTimer
  <2>2. <<p, a>> \in rebuilds /\ InPaths(p) => Waiting(p)
    BY DEF IInv, Phase, Fresh, Building, Swapping, Signalling, Finished, Released, NoRebuild,
       InPaths
  <2> QED
    BY <2>1, <2>2 DEF Building, Waiting, Pending
<1> QED
  BY <1>1, PhaseInvariant, PTL

\* The segments of a path are a chain from its source to its destination.
THEOREM SegmentsSpan == Spec => []SegmentsSpanRoute
<1>1. IInv => SegmentsSpanRoute
  <2> SUFFICES ASSUME IInv, NEW p \in Paths, segs[p] # <<>>
               PROVE  /\ segs[p][1].leftNode = route[p][1]
                      /\ segs[p][Len(segs[p])].rightNode = route[p][Len(route[p])]
                      /\ \A i \in 1..(Len(segs[p]) - 1) :
                           segs[p][i].rightNode = segs[p][i + 1].leftNode
    BY DEF SegmentsSpanRoute
  <2>1. TypeOK /\ route[p] \in Routes /\ IsChain(p)
    BY DEF IInv, Phase, Fresh, Building, Waiting, Swapping, Signalling, Finished, Released, Pending
  <2> DEFINE k == Len(segs[p])
             m == Links(p) - k
  <2>2. /\ k \in 1..Links(p) /\ k \in Nat /\ Links(p) \in Nat /\ m \in Nat
        /\ Len(route[p]) = Links(p) + 1
        /\ segs[p][1].leftNode = route[p][1]
        /\ \A i \in 1..k : segs[p][i].rightNode = route[p][m + i + 1]
        /\ \A i \in 2..k : segs[p][i].leftNode = route[p][m + i]
    BY <2>1, ChainShape
  <2>3. segs[p][k].rightNode = route[p][Len(route[p])]
    <3>1. k \in 1..k /\ m + k + 1 = Len(route[p])
      BY <2>2
    <3> QED
      BY <2>2, <3>1
  <2>4. ASSUME NEW i \in 1..(k - 1) PROVE segs[p][i].rightNode = segs[p][i + 1].leftNode
    <3>1. i \in 1..k /\ i + 1 \in 2..k /\ m + i + 1 = m + (i + 1)
      <4>1. k \in Nat /\ m \in Nat
        BY <2>2
      <4> HIDE DEF k, m
      <4> QED
        BY <4>1
    <3> QED
      BY <2>2, <3>1
  <2> QED
    BY <2>2, <2>3, <2>4
<1> QED
  BY <1>1, PhaseInvariant, PTL
\* A valid end of a chain's segment is held by the node that the segment names.
LEMMA ChainEndsHeld ==
  ASSUME TypeOK, NEW p \in Paths, route[p] \in Routes, IsChain(p), NEW i \in 1..Len(segs[p])
  PROVE  /\ Holder(segs[p][i].leftQubit) = segs[p][i].leftNode
         /\ Holder(segs[p][i].rightQubit) = segs[p][i].rightNode
<1> DEFINE k == Len(segs[p])
           m == Links(p) - k
<1>1. /\ k \in Nat /\ m \in Nat
      /\ segs[p][1].leftNode = route[p][1]
      /\ segs[p][1].leftQubit = <<<<p, retryCount[p], 1>>, "l">>
      /\ segs[p][i].rightNode = route[p][m + i + 1]
      /\ segs[p][i].rightQubit = <<<<p, retryCount[p], m + i>>, "r">>
      /\ \A j \in 2..k :
           /\ segs[p][j].leftNode = route[p][m + j]
           /\ segs[p][j].leftQubit = <<<<p, retryCount[p], m + j>>, "l">>
  BY ChainShape
<1>2. i = 1 \/ i \in 2..k
  BY <1>1
<1>3. Holder(segs[p][i].rightQubit) = segs[p][i].rightNode
  BY <1>1 DEF Holder
<1>4. Holder(segs[p][i].leftQubit) = segs[p][i].leftNode
  <2>1. CASE i = 1
    <3>1. /\ segs[p][i].leftNode = route[p][1]
          /\ segs[p][i].leftQubit = <<<<p, retryCount[p], 1>>, "l">>
      BY <1>1, <2>1
    <3> QED
      BY <3>1 DEF Holder
  <2>2. CASE i \in 2..k
    <3>1. /\ segs[p][i].leftNode = route[p][m + i]
          /\ segs[p][i].leftQubit = <<<<p, retryCount[p], m + i>>, "l">>
      BY <1>1, <2>2
    <3> QED
      BY <3>1 DEF Holder
  <2> QED
    BY <1>2, <2>1, <2>2
<1> QED
  BY <1>3, <1>4

\* A swap that is due finds two adjacent segments whose qubits the relay holds.
THEOREM SwapOperands == Spec => []SwapOperandsHeld
<1>1. IInv => SwapOperandsHeld
  <2> SUFFICES ASSUME IInv, NEW p \in Paths, NEW n \in Relays, InPaths(p),
                      <<p, retryCount[p], n>> \in swaps
               PROVE  SwapPossible(p, n) /\ EndsHeld(segs[p][1]) /\ EndsHeld(segs[p][2])
    BY DEF SwapOperandsHeld
  <2>1. TypeOK /\ retryCount[p] \in Attempts
    BY DEF IInv, TypeOK
  <2>2. Swapping(p)
    BY <2>1
    DEF IInv, Phase, Fresh, Building, Waiting, Signalling, Finished, Released, NoSwap, InPaths
  <2>3. n = NextRelay(p) /\ SwapPossible(p, n)
    BY <2>1, <2>2, NextSwapPossible DEF Swapping, NextSwap
  <2>4. 1 \in 1..Len(segs[p]) /\ 2 \in 1..Len(segs[p])
    <3>1. Len(segs[p]) \in Nat /\ Len(segs[p]) >= 2
      BY <2>1, <2>2 DEF Swapping, TypeOK
    <3> QED
      BY <3>1
  <2>5. ASSUME NEW i \in 1..Len(segs[p]) PROVE EndsHeld(segs[p][i])
    <3>1. LeftValid(p, i) /\ RightValid(p, i) /\ route[p] \in Routes /\ IsChain(p)
      BY <2>2 DEF Swapping, Pending
    <3> QED
      BY <2>1, <3>1, ChainEndsHeld DEF EndsHeld, LeftValid, RightValid
  <2> QED
    BY <2>3, <2>4, <2>5
<1> QED
  BY <1>1, PhaseInvariant, PTL

\* A pending signal always matches the first two segments of its path, and
\* the qubit it corrects is valid and held by the node that corrects it.
THEOREM SignalsMatch == Spec => []SignalMatchesSegments
<1>1. IInv => SignalMatchesSegments
  <2> SUFFICES ASSUME IInv, NEW s \in signals
               PROVE  LET p == s.id[1]
                      IN /\ pathState[p] = "PENDING"
                         /\ s.id[2] = retryCount[p]
                         /\ Len(segs[p]) >= 2
                         /\ s.left = segs[p][1]
                         /\ s.right = segs[p][2]
                         /\ s.right.rightQubit \in qubits
                         /\ Holder(s.right.rightQubit) = s.right.rightNode
    BY DEF SignalMatchesSegments
  <2> DEFINE p == s.id[1]
  <2>1. TypeOK /\ p \in Paths
    BY DEF IInv, TypeOK, MsgIds
  <2> HIDE DEF p
  <2>2. Signalling(p)
    BY <2>1 DEF IInv, Phase, Fresh, Building, Waiting, Swapping, Finished, Released, NoSignal, p
  <2>3. s = [id |-> NextSwap(p), left |-> segs[p][1], right |-> segs[p][2]]
    BY <2>2 DEF Signalling, p
  <2>4. /\ pathState[p] = "PENDING" /\ route[p] \in Routes /\ IsChain(p)
        /\ Len(segs[p]) >= 2 /\ RightValid(p, 2)
    BY <2>2 DEF Signalling, Pending
  <2>5. 2 \in 1..Len(segs[p])
    <3>1. Len(segs[p]) \in Nat
      BY <2>1 DEF TypeOK
    <3> QED
      BY <2>4, <3>1
  <2>6. Holder(segs[p][2].rightQubit) = segs[p][2].rightNode
    BY <2>1, <2>4, <2>5, ChainEndsHeld
  <2>7. s.id[2] = retryCount[p] /\ s.left = segs[p][1] /\ s.right = segs[p][2]
    BY <2>3 DEF NextSwap
  <2> QED
    BY <2>4, <2>6, <2>7 DEF RightValid, p
<1> QED
  BY <1>1, PhaseInvariant, PTL

\* What a READY path gives the application is one valid end-to-end pair that
\* nothing still scheduled can touch.
THEOREM ReadyPair == Spec => []ReadyPathHoldsPair
<1>1. IInv => ReadyPathHoldsPair
  <2> SUFFICES ASSUME IInv, NEW p \in Paths, pathState[p] = "READY", Len(route[p]) > 1
               PROVE  /\ Len(segs[p]) = 1
                      /\ EndsHeld(segs[p][1])
                      /\ segs[p][1].leftNode = route[p][1]
                      /\ segs[p][1].rightNode = route[p][Len(route[p])]
                      /\ ~TimerDrives(p) /\ ~RetryDrives(p) /\ ~SwapDrives(p) /\ ~SignalDrives(p)
    BY DEF ReadyPathHoldsPair
  <2>1. TypeOK /\ retryCount[p] \in Attempts
    BY DEF IInv, TypeOK
  <2>2. Finished(p)
    BY DEF IInv, Phase, Fresh, Building, Waiting, Swapping, Signalling, Released, Pending
  <2>r. Len(route[p]) # 1
    <3> SUFFICES ASSUME Len(route[p]) = 1 PROVE FALSE
      OBVIOUS
    <3>1. ~(1 > 1)
      OBVIOUS
    <3> QED
      BY <3>1
  <2>3. route[p] \in Routes /\ IsChain(p) /\ Len(segs[p]) = 1 /\ LeftValid(p, 1) /\ RightValid(p, 1)
    BY <2>2, <2>r DEF Finished
  <2>4. EndsHeld(segs[p][1])
    BY <2>1, <2>3, ChainEndsHeld DEF EndsHeld, LeftValid, RightValid
  <2>5. segs[p][1].leftNode = route[p][1] /\ segs[p][1].rightNode = route[p][Len(route[p])]
    <3> DEFINE m == Links(p) - Len(segs[p])
    <3>1. /\ Links(p) \in Nat /\ Len(route[p]) = Links(p) + 1
          /\ segs[p][1].leftNode = route[p][1]
          /\ \A i \in 1..Len(segs[p]) : segs[p][i].rightNode = route[p][m + i + 1]
      BY <2>1, <2>3, ChainShape
    <3>2. 1 \in 1..Len(segs[p]) /\ m + 1 + 1 = Len(route[p])
      BY <2>3, <3>1
    <3> QED
      BY <3>1, <3>2
  <2>6. ~TimerDrives(p) /\ ~RetryDrives(p) /\ ~SwapDrives(p) /\ ~SignalDrives(p)
    BY <2>1, <2>2
    DEF Finished, NoTimer, NoRebuild, NoSwap, NoSignal, TimerDrives, RetryDrives, SwapDrives,
        SignalDrives
  <2> QED
    BY <2>3, <2>4, <2>5, <2>6
<1> QED
  BY <1>1, PhaseInvariant, PTL

\* While a retry is scheduled its path holds nothing of the new attempt.
THEOREM RetryClean == Spec => []RetryStartsClean
<1>1. IInv => RetryStartsClean
  <2> SUFFICES ASSUME IInv, NEW p \in Paths, RetryDrives(p), InPaths(p)
               PROVE  /\ segs[p] = <<>>
                      /\ \A e \in EntIds : e[1] = p => req[e] = "NONE"
                      /\ \A s \in signals : s.id[1] # p
                      /\ \A q \in qubits : q[1][1] = p => q[1][2] # retryCount[p]
    BY DEF RetryStartsClean
  <2>1. TypeOK /\ retryCount[p] \in Attempts
    BY DEF IInv, TypeOK
  <2>2. Waiting(p)
    BY <2>1
    DEF IInv, Phase, Fresh, Building, Swapping, Signalling, Finished, Released, NoRebuild,
        InPaths, RetryDrives
  <2>3. \A e \in EntIds : e[1] = p => req[e] = "NONE"
    BY <2>2 DEF Waiting, NoRequest, EntIds
  <2>4. ASSUME NEW q \in qubits, q[1][1] = p PROVE q[1][2] # retryCount[p]
    <3>1. PICK e \in EntIds, x \in {"l", "r"} : q = <<e, x>>
      BY <2>1 DEF TypeOK, Qubits
    <3>2. PICK b \in Attempts, h \in Hops : e = <<p, b, h>>
      BY <2>4, <3>1 DEF EntIds
    <3> QED
      BY <2>2, <3>1, <3>2 DEF Waiting, Untouched
  <2> QED
    BY <2>2, <2>3, <2>4 DEF Waiting, NoSignal
<1> QED
  BY <1>1, PhaseInvariant, PTL
(***************************************************************************)
(* Why a path failed                                                       *)
(***************************************************************************)
HasReason(p) == route[p] = <<>> \/ ~HasLinkLayer \/ retryCount[p] = MaxRetries

FailedHasReason == \A p \in Paths : pathState[p] = "FAILED" => HasReason(p)

\* A step that leaves the path and its settings alone leaves the reason.
LEMMA ReasonKept ==
  ASSUME FailedHasReason, UNCHANGED <<parts, pathState, route, retryCount>>
  PROVE  FailedHasReason'
BY DEF FailedHasReason, HasReason, HasLinkLayer

\* A failure is retried, or no retry is left.
LEMMA FailureHasReason ==
  ASSUME TypeOK, FailedHasReason, NEW p \in Paths, NEW res, HandlePathFailure(p, res),
         parts' = parts
  PROVE  FailedHasReason'
<1>1. route' = route /\ retryCount[p] \in 0..MaxRetries
  BY DEF HandlePathFailure, TypeOK, Attempts
<1>2. CASE /\ retryCount' = [retryCount EXCEPT ![p] = @ + 1]
           /\ pathState' = [pathState EXCEPT ![p] = "PENDING"]
  BY <1>1, <1>2 DEF TypeOK, FailedHasReason, HasReason, HasLinkLayer
<1>3. CASE /\ ~MayRetry(p) /\ retryCount' = retryCount
           /\ pathState' = [pathState EXCEPT ![p] = "FAILED"]
  <2>1. retryCount[p] = MaxRetries
    BY <1>1, <1>3, ParamAssumption DEF MayRetry
  <2> QED
    BY <1>1, <1>3, <2>1 DEF TypeOK, FailedHasReason, HasReason, HasLinkLayer
<1> QED
  BY <1>2, <1>3 DEF HandlePathFailure

\* The same for a path whose next swap is looked for.
LEMMA BeginHasReason ==
  ASSUME TypeOK, FailedHasReason, NEW p \in Paths, NEW res, BeginNextSwap(p, res),
         parts' = parts
  PROVE  FailedHasReason'
<1>1. CASE HandlePathFailure(p, res)
  BY <1>1, FailureHasReason
<1>2. CASE pathState' = [pathState EXCEPT ![p] = "READY"] /\ UNCHANGED <<route, retryCount>>
  BY <1>2 DEF TypeOK, FailedHasReason, HasReason, HasLinkLayer
<1>3. CASE UNCHANGED pathVars
  BY <1>3, ReasonKept DEF pathVars
<1> QED
  BY <1>1, <1>2, <1>3 DEF BeginNextSwap, FinalizePath

\* StartPathBuilding fails a path only without a link layer.
LEMMA StartHasReason ==
  ASSUME TypeOK, FailedHasReason, NEW p \in Paths, NEW r, StartPathBuilding(p, r),
         retryCount' = retryCount, parts' = parts,
         \A q \in Paths \ {p} : route'[q] = route[q]
  PROVE  FailedHasReason'
<1>1. CASE pathState' = [pathState EXCEPT ![p] = "PENDING"]
  BY <1>1 DEF TypeOK, FailedHasReason, HasReason, HasLinkLayer
<1>2. CASE ~HasLinkLayer /\ pathState' = [pathState EXCEPT ![p] = "FAILED"]
  BY <1>2 DEF TypeOK, FailedHasReason, HasReason, HasLinkLayer
<1> QED
  BY <1>1, <1>2 DEF StartPathBuilding

\* Every step keeps it.
LEMMA StepHasReason ==
  ASSUME IInv, FailedHasReason, [Next]_vars
  PROVE  FailedHasReason'
<1>0. TypeOK /\ \A p \in Paths : Phase(p)
  BY DEF IInv
<1>k. CASE UNCHANGED <<parts, pathVars>>
  BY <1>k, ReasonKept DEF pathVars
<1>1. ASSUME NEW p \in Paths, SetupPath(p) PROVE FailedHasReason'
  <2>1. retryCount' = retryCount /\ parts' = parts
    BY <1>1 DEF SetupPath
  <2>2. ASSUME NEW n \in Nodes, route' = [route EXCEPT ![p] = <<n>>],
               pathState' = [pathState EXCEPT ![p] = "READY"]
        PROVE  FailedHasReason'
    BY <1>0, <2>1, <2>2 DEF TypeOK, FailedHasReason, HasReason, HasLinkLayer
  <2>3. CASE pathState' = [pathState EXCEPT ![p] = "FAILED"] /\ UNCHANGED route
    <3>1. route[p] = <<>>
      BY <1>0, <1>1 DEF SetupPath, Phase, Fresh, Building, Waiting, Swapping, Signalling, Pending,
                        Finished, Released
    <3> QED
      BY <1>0, <2>1, <2>3, <3>1 DEF TypeOK, FailedHasReason, HasReason, HasLinkLayer
  <2>4. ASSUME NEW r \in Routes, route' = [route EXCEPT ![p] = r], StartPathBuilding(p, r)
        PROVE  FailedHasReason'
    <3>1. \A q \in Paths \ {p} : route'[q] = route[q]
      BY <1>0, <2>4 DEF TypeOK
    <3> QED
      BY <1>0, <2>1, <2>4, <3>1, StartHasReason
  <2> QED
    BY <1>1, <2>2, <2>3, <2>4 DEF SetupPath
<1>2. ASSUME NEW p \in Paths, ReleasePath(p) PROVE FailedHasReason'
  BY <1>0, <1>2 DEF ReleasePath, TypeOK, FailedHasReason, HasReason, HasLinkLayer
<1>3. ASSUME NEW p \in Paths, NEW ok \in BOOLEAN, NotifyPathResult(p, ok) PROVE FailedHasReason'
  BY <1>3, ReasonKept DEF NotifyPathResult
<1>4. ASSUME NEW p \in Paths, NEW a \in Attempts, RetryPath(p, a) PROVE FailedHasReason'
  <2>1. UNCHANGED <<parts, route, retryCount>>
    BY <1>4 DEF RetryPath
  <2>2. CASE StartPathBuilding(p, route[p])
    BY <1>0, <2>1, <2>2, StartHasReason
  <2>3. CASE pathState' = pathState
    BY <2>1, <2>3, ReasonKept
  <2> QED
    BY <1>4, <2>2, <2>3 DEF RetryPath
<1>5. ASSUME NEW p \in Paths, NEW a \in Attempts, HandlePathTimeout(p, a) PROVE FailedHasReason'
  <2>1. parts' = parts
    BY <1>5 DEF HandlePathTimeout
  <2> QED
    BY <1>0, <1>5, <1>k, <2>1, FailureHasReason DEF HandlePathTimeout
<1>6. ASSUME NEW e \in EntIds, CompleteRequest(e) PROVE FailedHasReason'
  <2>1. PICK p \in Paths, a \in Attempts, h \in Hops : e = <<p, a, h>>
    BY DEF EntIds
  <2>2. parts' = parts /\ e[1] = p
    BY <1>6, <2>1 DEF CompleteRequest
  <2>3. \/ UNCHANGED pathVars
        \/ \E res : HandlePathFailure(p, res) \/ CheckPathEntanglements(p, res)
    BY <1>6, <2>2 DEF CompleteRequest, LinkFails, TransferFails, LinkSucceeds
  <2>4. \/ UNCHANGED pathVars
        \/ \E res : HandlePathFailure(p, res) \/ BeginNextSwap(p, res)
    BY <2>3 DEF CheckPathEntanglements, PerformEntanglementSwapping
  <2> QED
    BY <1>0, <1>k, <2>2, <2>4, FailureHasReason, BeginHasReason
<1>7. ASSUME NEW m \in MsgIds,
             DoSendMessage(m) \/ DeliverMessage(m) \/ ExecuteSwapAtNode(m[1], m[2], m[3])
      PROVE  FailedHasReason'
  <2>1. m[1] \in Paths
    BY DEF MsgIds
  <2>2. parts' = parts
    BY <1>7 DEF DoSendMessage, DeliverMessage, ExecuteSwapAtNode
  <2>3. \/ UNCHANGED pathVars
        \/ \E res : HandlePathFailure(m[1], res) \/ BeginNextSwap(m[1], res)
    <3>1. CASE ExecuteSwapAtNode(m[1], m[2], m[3])
      BY <3>1 DEF ExecuteSwapAtNode
    <3>2. CASE DoSendMessage(m)
      BY <3>2 DEF DoSendMessage, SignalLost
    <3>3. CASE DeliverMessage(m)
      BY <3>3 DEF DeliverMessage, SignalDelivered
    <3> QED
      BY <1>7, <3>1, <3>2, <3>3
  <2> QED
    BY <1>0, <1>k, <2>1, <2>2, <2>3, FailureHasReason, BeginHasReason
<1>8. CASE UNCHANGED vars
  BY <1>8, <1>k DEF vars
<1> QED
  BY <1>1, <1>2, <1>3, <1>4, <1>5, <1>6, <1>7, <1>8 DEF Next, Application, Scheduler

\* A path fails for good only for want of a route, a link layer or a retry; it holds
\* no segment and no request then, and its application was told FALSE once or is
\* about to be (HandlePathFailure, StartPathBuilding, SetupPath, NotifyPathResult).
THEOREM FailedForAReason == Spec => []FailedOnlyAfterAllRetries
<1>1. Init => FailedHasReason
  BY DEF Init, FailedHasReason
<1>2. IInv /\ FailedHasReason /\ [Next]_vars => FailedHasReason'
  BY StepHasReason
<1>3. IInv /\ FailedHasReason => FailedOnlyAfterAllRetries
  <2> SUFFICES ASSUME IInv, FailedHasReason, NEW p \in Paths, pathState[p] = "FAILED"
               PROVE  /\ HasReason(p) /\ segs[p] = <<>>
                      /\ \A e \in EntIds : e[1] = p => ~Mapped(e)
                      /\ \/ notified[p] = <<FALSE>> /\ <<p, FALSE>> \notin notices
                         \/ notified[p] = <<>> /\ <<p, FALSE>> \in notices
                      /\ <<p, TRUE>> \notin notices
    BY DEF FailedOnlyAfterAllRetries, HasReason
  <2>1. Finished(p)
    BY DEF IInv, Phase, Fresh, Building, Waiting, Swapping, Signalling, Pending, Released
  <2>2. segs[p] = <<>> /\ NothingMapped(p)
    BY <2>1 DEF Finished
  <2>3. \A e \in EntIds : e[1] = p => ~Mapped(e)
    BY <2>2 DEF NothingMapped, EntIds
  <2>4. \/ notified[p] = <<FALSE>> /\ NoNotice(p)
        \/ /\ notified[p] = <<>>
           /\ \A b \in BOOLEAN : <<p, b>> \in notices <=> b = FALSE
    BY <2>1 DEF Finished
  <2>5. /\ \/ notified[p] = <<FALSE>> /\ <<p, FALSE>> \notin notices
           \/ notified[p] = <<>> /\ <<p, FALSE>> \in notices
        /\ <<p, TRUE>> \notin notices
    BY <2>4 DEF NoNotice
  <2> QED
    BY <2>2, <2>3, <2>5 DEF FailedHasReason
<1> QED
  BY <1>1, <1>2, <1>3, PhaseInvariant, PTL DEF Spec

(***************************************************************************)
(* Refinement of PathService                                               *)
(***************************************************************************)
ServiceStep == [Service!Next]_(Service!vars)

\* Deciding a pending path that was not answered is the promised decision.
LEMMA DecideMaps ==
  ASSUME TypeOK, NEW p \in Paths, pathState[p] = "PENDING", notified[p] = <<>>,
         NEW ok \in BOOLEAN, Notify(p, ok),
         pathState' = [pathState EXCEPT ![p] = IF ok THEN "READY" ELSE "FAILED"]
  PROVE  ServiceStep
<1>1. Append(<<>>, ok) = <<ok>>
  OBVIOUS
<1>2. notified' = [notified EXCEPT ![p] = <<ok>>]
  BY <1>1 DEF Notify
<1>3. Service!Decide(p)
  BY <1>2 DEF Service!Decide
<1> QED
  BY <1>3 DEF ServiceStep, Service!Next

\* A failure either goes unnoticed, because it is retried, or is the decision.
LEMMA FailureMaps ==
  ASSUME TypeOK, NEW p \in Paths, pathState[p] = "PENDING", notified[p] = <<>>,
         NEW res, HandlePathFailure(p, res)
  PROVE  ServiceStep
<1>1. CASE pathState' = [pathState EXCEPT ![p] = "PENDING"] /\ UNCHANGED notified
  <2>1. pathState' = pathState
    BY <1>1 DEF TypeOK
  <2> QED
    BY <1>1, <2>1 DEF ServiceStep, Service!vars
<1>2. CASE pathState' = [pathState EXCEPT ![p] = "FAILED"] /\ Notify(p, FALSE)
  BY <1>2, DecideMaps
<1> QED
  BY <1>1, <1>2 DEF HandlePathFailure

\* So does BeginNextSwap, whether it schedules a swap or finalizes the path.
LEMMA BeginMaps ==
  ASSUME TypeOK, NEW p \in Paths, pathState[p] = "PENDING", notified[p] = <<>>,
         NEW res, BeginNextSwap(p, res)
  PROVE  ServiceStep
<1>1. CASE HandlePathFailure(p, res)
  BY <1>1, FailureMaps
<1>2. CASE pathState' = [pathState EXCEPT ![p] = "READY"] /\ Notify(p, TRUE)
  BY <1>2, DecideMaps
<1>3. CASE UNCHANGED pathVars
  BY <1>3 DEF ServiceStep, Service!vars, pathVars
<1> QED
  BY <1>1, <1>2, <1>3 DEF BeginNextSwap, FinalizePath

\* A path that some event can decide is pending and was not answered yet.
LEMMA PhaseMeansPending ==
  ASSUME NEW p \in Paths, Building(p) \/ Waiting(p) \/ Swapping(p) \/ Signalling(p)
  PROVE  pathState[p] = "PENDING" /\ notified[p] = <<>>
BY DEF Building, Waiting, Swapping, Signalling, Pending

\* Every step of the layer is a step the application was promised, or none.
LEMMA StepMaps == IInv /\ [Next]_vars => ServiceStep
<1> SUFFICES ASSUME IInv, [Next]_vars PROVE ServiceStep
  OBVIOUS
<1>0. TypeOK /\ \A p \in Paths : Phase(p)
  BY DEF IInv
<1>s. UNCHANGED pathVars => ServiceStep
  BY DEF ServiceStep, Service!vars, pathVars
<1>1. ASSUME NEW p \in Paths, SetupPath(p) PROVE ServiceStep
  <2>1. pathState[p] = "NONE" /\ notified[p] = <<>>
    BY <1>0, <1>1
    DEF SetupPath, Phase, Fresh, Building, Waiting, Swapping, Signalling, Pending, Finished,
        Released
  <2>2. CASE /\ \E s \in {"PENDING", "READY", "FAILED"} :
                  pathState' = [pathState EXCEPT ![p] = s]
             /\ UNCHANGED notified
    BY <2>1, <2>2 DEF ServiceStep, Service!Next, Service!Setup
  <2>3. CASE pathState' = [pathState EXCEPT ![p] = "FAILED"] /\ Notify(p, FALSE)
    <3>1. Append(<<>>, FALSE) = <<FALSE>>
      OBVIOUS
    <3>2. Service!Refuse(p)
      BY <2>1, <2>3, <3>1 DEF Service!Refuse, Notify
    <3> QED
      BY <3>2 DEF ServiceStep, Service!Next
  <2> QED
    BY <1>1, <2>2, <2>3 DEF SetupPath, StartPathBuilding
<1>2. ASSUME NEW p \in Paths, ReleasePath(p) PROVE ServiceStep
  BY <1>2 DEF ReleasePath, InPaths, ServiceStep, Service!Next, Service!Release
<1>3. ASSUME NEW p \in Paths, NEW ok \in BOOLEAN, NotifyPathResult(p, ok) PROVE ServiceStep
  <2>1. CASE InPaths(p)
    <3>1. Finished(p)
      BY <1>0, <1>3, <2>1
      DEF NotifyPathResult, Phase, Fresh, Building, Waiting, Swapping, Signalling, Pending,
          Released, NoNotice, InPaths
    <3>2. notified[p] = <<>> /\ ok = (pathState[p] = "READY")
      BY <1>3, <3>1 DEF Finished, NoNotice, NotifyPathResult
    <3>3. Append(<<>>, ok) = <<ok>>
      OBVIOUS
    <3>4. notified' = [notified EXCEPT ![p] = <<ok>>] /\ UNCHANGED pathState
      BY <1>3, <2>1, <3>2, <3>3 DEF NotifyPathResult, Notify
    <3>5. Service!Notify(p)
      BY <3>1, <3>2, <3>4 DEF Service!Notify, Service!Decided, Finished
    <3> QED
      BY <3>5 DEF ServiceStep, Service!Next
  <2>2. CASE ~InPaths(p)
    BY <1>3, <2>2 DEF NotifyPathResult, ServiceStep, Service!vars
  <2> QED
    BY <2>1, <2>2
<1>4. ASSUME NEW p \in Paths, NEW a \in Attempts, RetryPath(p, a) PROVE ServiceStep
  <2>1. CASE InPaths(p)
    <3>1. Waiting(p)
      BY <1>0, <1>4, <2>1
      DEF RetryPath, Phase, Fresh, Building, Swapping, Signalling, Finished, Released,
          NoRebuild, InPaths
    <3>2. pathState[p] = "PENDING" /\ notified[p] = <<>>
      BY <3>1, PhaseMeansPending
    <3>3. CASE pathState' = [pathState EXCEPT ![p] = "PENDING"] /\ UNCHANGED notified
      <4>1. pathState' = pathState
        BY <1>0, <3>2, <3>3 DEF TypeOK
      <4> QED
        BY <3>3, <4>1 DEF ServiceStep, Service!vars
    <3>4. CASE pathState' = [pathState EXCEPT ![p] = "FAILED"] /\ Notify(p, FALSE)
      BY <1>0, <3>2, <3>4, DecideMaps
    <3> QED
      BY <1>4, <2>1, <3>3, <3>4 DEF RetryPath, StartPathBuilding
  <2>2. CASE ~InPaths(p)
    BY <1>4, <2>2 DEF RetryPath, ServiceStep, Service!vars
  <2> QED
    BY <2>1, <2>2
<1>5. ASSUME NEW p \in Paths, NEW a \in Attempts, HandlePathTimeout(p, a) PROVE ServiceStep
  <2>1. Building(p)
    BY <1>0, <1>5
    DEF HandlePathTimeout, Phase, Fresh, Waiting, Swapping, Signalling, Finished, Released,
        NoTimer
  <2> QED
    BY <1>0, <1>5, <1>s, <2>1, PhaseMeansPending, FailureMaps DEF HandlePathTimeout
<1>6. ASSUME NEW e \in EntIds, CompleteRequest(e) PROVE ServiceStep
  <2>1. PICK p \in Paths, a \in Attempts, h \in Hops : e = <<p, a, h>>
    BY DEF EntIds
  <2>2. CASE Mapped(e)
    <3>1. pathState[p] = "PENDING" /\ notified[p] = <<>>
      BY <1>0, <2>1, <2>2, MappedMeansBuilding, PhaseMeansPending
    <3>2. PICK res : \/ HandlePathFailure(p, res)
                     \/ CheckPathEntanglements(p, res)
      BY <1>6, <2>1, <2>2 DEF CompleteRequest, LinkFails, TransferFails, LinkSucceeds
    <3>3. CASE HandlePathFailure(p, res)
      BY <1>0, <3>1, <3>3, FailureMaps
    <3>4. CASE CheckPathEntanglements(p, res)
      <4>1. UNCHANGED pathVars \/ PerformEntanglementSwapping(p, res)
        BY <3>4 DEF CheckPathEntanglements
      <4> QED
        BY <1>0, <1>s, <3>1, <4>1, BeginMaps, FailureMaps DEF PerformEntanglementSwapping
    <3> QED
      BY <3>2, <3>3, <3>4
  <2>3. CASE ~Mapped(e)
    BY <1>6, <1>s, <2>3 DEF CompleteRequest, LinkFails, TransferFails, LinkSucceeds
  <2> QED
    BY <2>2, <2>3
<1>7. ASSUME NEW m \in MsgIds,
             DoSendMessage(m) \/ DeliverMessage(m) \/ ExecuteSwapAtNode(m[1], m[2], m[3])
      PROVE  ServiceStep
  <2>1. PICK p \in Paths, a \in Attempts, n \in Relays : m = <<p, a, n>>
    BY DEF MsgIds
  <2>2. CASE ExecuteSwapAtNode(m[1], m[2], m[3])
    <3>1. Released(p) \/ (Swapping(p) /\ m = NextSwap(p))
      BY <1>0, <2>1, <2>2, SwapMeansSwapping DEF ExecuteSwapAtNode
    <3>2. ~InPaths(p) \/ SwapPossible(p, n)
      BY <1>0, <2>1, <3>1, NextSwapPossible DEF Released, InPaths, NextSwap
    <3>3. CASE InPaths(p) /\ ~HasSignaling
      <4>1. HandlePathFailure(p, Resources)
        BY <2>1, <2>2, <3>3 DEF ExecuteSwapAtNode
      <4> QED
        BY <1>0, <3>1, <3>3, <4>1, PhaseMeansPending, FailureMaps DEF Released, InPaths
    <3>4. CASE ~InPaths(p) \/ HasSignaling
      BY <1>s, <2>1, <2>2, <3>2, <3>4 DEF ExecuteSwapAtNode
    <3> QED
      BY <3>3, <3>4
  <2>3. CASE DoSendMessage(m) \/ DeliverMessage(m)
    <3>1. Released(p) \/ Signalling(p)
      BY <1>0, <2>1, <2>3, MessageMeansSignalling DEF DoSendMessage, DeliverMessage
    <3>2. CASE UNCHANGED pathVars
      BY <1>s, <3>2
    <3>3. CASE \E s \in signals : \E res :
                 s.id = m /\ (HandlePathFailure(p, res) \/ BeginNextSwap(p, res))
      <4>0. PICK s \in signals : \E res :
              s.id = m /\ (HandlePathFailure(p, res) \/ BeginNextSwap(p, res))
        BY <3>3
      <4>1. PICK res : s.id = m /\ (HandlePathFailure(p, res) \/ BeginNextSwap(p, res))
        BY <4>0
      <4>2. s.id[1] = p
        BY <2>1, <4>1
      <4>3. Signalling(p)
        BY <3>1, <4>2 DEF Released, NoSignal
      <4> QED
        BY <1>0, <4>1, <4>3, PhaseMeansPending, FailureMaps, BeginMaps
    <3>4. CASE DoSendMessage(m)
      <4>1. m[1] = p
        BY <2>1
      <4>2. \/ UNCHANGED pathVars
            \/ \E s \in signals : s.id = m /\
                 HandlePathFailure(p, [Resources EXCEPT !.signals = @ \ {s}])
        BY <3>4, <4>1 DEF DoSendMessage, SignalLost
      <4> QED
        BY <3>2, <3>3, <4>2
    <3>5. CASE DeliverMessage(m)
      <4>1. m[1] = p
        BY <2>1
      <4>2. \/ UNCHANGED pathVars
            \/ \E s \in signals : \E res :
                 s.id = m /\ (HandlePathFailure(p, res) \/ BeginNextSwap(p, res))
        BY <3>5, <4>1 DEF DeliverMessage, SignalDelivered
      <4> QED
        BY <3>2, <3>3, <4>2
    <3> QED
      BY <2>3, <3>4, <3>5
  <2> QED
    BY <1>7, <2>2, <2>3
<1>8. CASE UNCHANGED vars
  BY <1>8, <1>s DEF vars
<1> QED
  BY <1>1, <1>2, <1>3, <1>4, <1>5, <1>6, <1>7, <1>8 DEF Next, Application, Scheduler

\* The layer implements the service it promises: a path is decided once, its
\* application told once, and never after a release.
THEOREM Refinement == Spec => ImplementsPathService
<1>1. Init => Service!Init
  BY DEF Init, Service!Init
<1> QED
  BY <1>1, StepMaps, PhaseInvariant, PTL DEF Spec, Service!Spec, ServiceStep, ImplementsPathService

(***************************************************************************)
(* Qubits are lost only where a request is completed: OnlyCompletionsOrphan.*)
(* A step concerns one path (StepOf); for that path the lemmas follow what *)
(* its handlers do with the qubits, for every other path nothing changes.  *)
(***************************************************************************)

Halves == {"l", "r"}

\* The step completes the request, which was consumed, or whose second half has
\* nowhere to go.
LostNow(p, a, h) ==
  /\ <<p, a, h>> \in linkPending
  /\ <<p, a, h>> \notin linkPending'
  /\ ent[<<p, a, h>>] = "CONSUMED" \/ FarNode(<<p, a, h>>) \notin Owners

\* A qubit of p that nothing accounts for after a step was so before, or is lost
\* now.
NoLoss(p) ==
  \A a \in Attempts, h \in Hops, x \in Halves :
    /\ <<<<p, a, h>>, x>> \in qubits'
    /\ ~Accounted(<<<<p, a, h>>, x>>)'
    => \/ /\ <<<<p, a, h>>, x>> \in qubits
          /\ ~Accounted(<<<<p, a, h>>, x>>)
       \/ LostNow(p, a, h)

QubitsKept(p) == QubitsOf(p)' /\ NoLoss(p)

\* The qubit is an end of a segment of the path.
InSegments(p, q) == \E i \in DOMAIN segs[p] : q \in SegmentQubits(segs[p][i])

LEMMA AccountedMeans ==
  ASSUME NEW p, NEW a, NEW h, NEW x
  PROVE  LET q == <<<<p, a, h>>, x>>
         IN /\ Accounted(q) <=> Mapped(<<p, a, h>>) \/ InSegments(p, q)
            /\ Accounted(q)' <=> Mapped(<<p, a, h>>)' \/ InSegments(p, q)'
BY DEF Accounted, InSegments

\* The measured qubits of a pending signal are ends of the first two segments
\* of its path.
LEMMA MeasuredNames ==
  ASSUME TypeOK, NEW p \in Paths, Phase(p), NEW s \in signals, s.id[1] = p
  PROVE  /\ Signalling(p) /\ segs[p] # <<>>
         /\ s.left = segs[p][1] /\ s.right = segs[p][2]
         /\ 1..Links(p) \subseteq Hops
         /\ \E h \in 1..Links(p) : s.left.rightQubit = <<<<p, retryCount[p], h>>, "r">>
         /\ \E h \in 1..Links(p) : s.right.leftQubit = <<<<p, retryCount[p], h>>, "l">>
<1>1. Signalling(p)
  BY DEF Phase, Fresh, Building, Waiting, Swapping, Finished, Released, NoSignal
<1>2. /\ s.left = segs[p][1] /\ s.right = segs[p][2]
      /\ route[p] \in Routes /\ IsChain(p) /\ Len(segs[p]) >= 2
  BY <1>1 DEF Signalling, Pending
<1> DEFINE k == Len(segs[p])
           m == Links(p) - k
<1>3. /\ k \in 1..Links(p) /\ k \in Nat /\ Links(p) \in Nat /\ m \in Nat
      /\ \A i \in 1..k : segs[p][i].rightQubit = <<<<p, retryCount[p], m + i>>, "r">>
      /\ \A i \in 2..k : segs[p][i].leftQubit = <<<<p, retryCount[p], m + i>>, "l">>
  BY <1>2, ChainShape
<1>4. k >= 2
  BY <1>2
<1>5. 1 \in 1..k /\ 2 \in 2..k /\ m + 1 \in 1..Links(p) /\ m + 2 \in 1..Links(p)
  <2> SUFFICES ASSUME NEW n \in Nat, n = k, NEW l \in Nat, l = Links(p), n \in 1..l, n >= 2
               PROVE  /\ 1 \in 1..n /\ 2 \in 2..n
                      /\ l - n + 1 \in 1..l /\ l - n + 2 \in 1..l
    BY <1>3, <1>4
  <2> QED
    OBVIOUS
<1>6. segs[p] # <<>>
  <2> SUFFICES ASSUME segs[p] = <<>> PROVE FALSE
    OBVIOUS
  <2>1. k = 0
    OBVIOUS
  <2> QED
    BY <1>4, <2>1
<1>7. 1..Links(p) \subseteq Hops
  BY <1>2, RouteFacts
<1> HIDE DEF k, m
<1> QED
  BY <1>1, <1>2, <1>3, <1>5, <1>6, <1>7

\* A step that leaves the requests, segments, signals and qubits of p alone.
LEMMA HoldingsKept ==
  ASSUME TypeOK, NEW p \in Paths, Phase(p), QubitsOf(p),
         SameLinks(p), SameSignals(p), segs'[p] = segs[p],
         segs[p] # <<>> => route'[p] = route[p] /\ retryCount'[p] = retryCount[p]
  PROVE  QubitsKept(p)
<1>1. LateOrAsked(p)' /\ NoEarlyQubits(p)'
  <2>1. LateOrAsked(p)'
    <3> SUFFICES ASSUME NEW a \in Attempts, NEW h \in Hops, <<p, a, h>> \in linkPending'
                 PROVE  \/ req'[<<p, a, h>>] = "PENDING" /\ ent'[<<p, a, h>>] = "PENDING"
                        \/ ~Mapped(<<p, a, h>>)' /\ ent'[<<p, a, h>>] = "CONSUMED"
      BY DEF LateOrAsked
    <3>1. /\ req'[<<p, a, h>>] = req[<<p, a, h>>] /\ ent'[<<p, a, h>>] = ent[<<p, a, h>>]
          /\ <<p, a, h>> \in linkPending
      BY DEF SameLinks
    <3>2. \/ req[<<p, a, h>>] = "PENDING" /\ ent[<<p, a, h>>] = "PENDING"
          \/ ~Mapped(<<p, a, h>>) /\ ent[<<p, a, h>>] = "CONSUMED"
      BY <3>1 DEF QubitsOf, LateOrAsked
    <3> QED
      BY <3>1, <3>2 DEF Mapped
  <2>2. NoEarlyQubits(p)'
    <3> SUFFICES ASSUME NEW a \in Attempts, NEW h \in Hops, ent'[<<p, a, h>>] = "PENDING"
                 PROVE  /\ <<<<p, a, h>>, "l">> \notin qubits'
                        /\ <<<<p, a, h>>, "r">> \notin qubits'
      BY DEF NoEarlyQubits
    <3>1. /\ ent[<<p, a, h>>] = "PENDING"
          /\ <<<<p, a, h>>, "l">> \in qubits' <=> <<<<p, a, h>>, "l">> \in qubits
          /\ <<<<p, a, h>>, "r">> \in qubits' <=> <<<<p, a, h>>, "r">> \in qubits
      BY DEF SameLinks
    <3> QED
      BY <3>1 DEF QubitsOf, NoEarlyQubits
  <2> QED
    BY <2>1, <2>2
<1>2. SegmentsReady(p)'
  <2> SUFFICES ASSUME segs[p] # <<>>, NEW h \in 1..Links(p)
               PROVE  ent'[<<p, retryCount[p], h>>] = "READY"
    BY DEF SegmentsReady, Links
  <2>1. route[p] \in Routes
    BY DEF Phase, Fresh, Building, Waiting, Swapping, Signalling, Pending, Finished, Released
  <2>2. h \in Hops /\ retryCount[p] \in Attempts
    BY <2>1, RouteFacts DEF TypeOK
  <2> QED
    BY <2>2 DEF SameLinks, QubitsOf, SegmentsReady
<1>3. MeasuredGone(p)'
  <2> SUFFICES ASSUME NEW s \in signals', s.id[1] = p
               PROVE  s.left.rightQubit \notin qubits' /\ s.right.leftQubit \notin qubits'
    BY DEF MeasuredGone
  <2>1. s \in signals
    BY DEF SameSignals
  <2>2. s.left.rightQubit \notin qubits /\ s.right.leftQubit \notin qubits
    BY <2>1 DEF QubitsOf, MeasuredGone
  <2>3. retryCount[p] \in Attempts
    BY DEF TypeOK
  <2>4. PICK g \in Hops : s.left.rightQubit = <<<<p, retryCount[p], g>>, "r">>
    BY <2>1, MeasuredNames
  <2>5. PICK h \in Hops : s.right.leftQubit = <<<<p, retryCount[p], h>>, "l">>
    BY <2>1, MeasuredNames
  <2> QED
    BY <2>2, <2>3, <2>4, <2>5 DEF SameLinks
<1>4. NoLoss(p)
  <2> SUFFICES ASSUME NEW a \in Attempts, NEW h \in Hops, NEW x \in Halves,
                      <<<<p, a, h>>, x>> \in qubits',
                      ~Accounted(<<<<p, a, h>>, x>>)'
               PROVE  <<<<p, a, h>>, x>> \in qubits /\ ~Accounted(<<<<p, a, h>>, x>>)
    BY DEF NoLoss
  <2>1. <<<<p, a, h>>, x>> \in qubits
    BY DEF SameLinks, Halves
  <2>2. Mapped(<<p, a, h>>)' = Mapped(<<p, a, h>>)
    BY DEF SameLinks, Mapped
  <2>3. InSegments(p, <<<<p, a, h>>, x>>)' = InSegments(p, <<<<p, a, h>>, x>>)
    BY DEF InSegments
  <2> QED
    BY <2>1, <2>2, <2>3, AccountedMeans
<1> QED
  BY <1>1, <1>2, <1>3, <1>4 DEF QubitsKept, QubitsOf

(***************************************************************************)
(* Failing and releasing                                                   *)
(***************************************************************************)
\* What the handlers know of p when they clean up with res: every qubit that is
\* accounted for is one that cleaning up frees, unless it is lost now, and a request
\* that is still to be completed is consumed by then, or was before.
Releasable(p, res) ==
  \A a \in Attempts, h \in Hops :
    /\ \A x \in Halves : <<<<p, a, h>>, x>> \in res.qubits =>
         \/ <<<<p, a, h>>, x>> \in qubits /\ ~Accounted(<<<<p, a, h>>, x>>)
         \/ LostNow(p, a, h) /\ res.ent[<<p, a, h>>] = "FAILED"
         \/ res.req[<<p, a, h>>] \in {"PENDING", "READY"} /\ res.ent[<<p, a, h>>] = "READY"
         \/ \E i \in 1..Len(res.segs[p]) : <<<<p, a, h>>, x>> \in SegmentQubits(res.segs[p][i])
    /\ <<p, a, h>> \in linkPending' =>
         \/ res.req[<<p, a, h>>] \in {"PENDING", "READY"}
         \/ res.ent[<<p, a, h>>] = "CONSUMED"
    /\ res.ent[<<p, a, h>>] = "PENDING" => ent[<<p, a, h>>] = "PENDING"

\* What CleanupPathResources leaves of one link request.
LEMMA CleanupOfLink ==
  ASSUME NEW p \in Paths, NEW res \in ResourceRecords,
         NEW a \in Attempts, NEW h \in Hops
  PROVE  LET c == CleanupPathResources(p, res)
             e == <<p, a, h>>
         IN /\ c.ent[e] = IF res.req[e] \in {"PENDING", "READY"} THEN "CONSUMED" ELSE res.ent[e]
            /\ \A x \in Halves : <<e, x>> \in c.qubits =>
                 /\ <<e, x>> \in res.qubits
                 /\ ~(res.req[e] \in {"PENDING", "READY"} /\ res.ent[e] = "READY")
                 /\ \A i \in 1..Len(res.segs[p]) : <<e, x>> \notin SegmentQubits(res.segs[p][i])
<1> DEFINE e == <<p, a, h>>
           attached == {d \in EntIds : d[1] = p /\ res.req[d] \in {"PENDING", "READY"}}
           freed == UNION {LinkPair(d) : d \in {b \in attached : res.ent[b] = "READY"}}
           c == CleanupPathResources(p, res)
<1>1. e \in EntIds /\ e[1] = p
  BY DEF EntIds
<1>2. c.ent = [d \in EntIds |-> IF d \in attached THEN "CONSUMED" ELSE res.ent[d]]
  BY DEF CleanupPathResources
<1>3. c.qubits = res.qubits \ (freed \cup HeldQubits(p, res))
  BY DEF CleanupPathResources
<1>4. c.ent[e] = IF res.req[e] \in {"PENDING", "READY"} THEN "CONSUMED" ELSE res.ent[e]
  BY <1>1, <1>2
<1>5. ASSUME NEW x \in Halves, <<e, x>> \in c.qubits
      PROVE  /\ <<e, x>> \in res.qubits
             /\ ~(res.req[e] \in {"PENDING", "READY"} /\ res.ent[e] = "READY")
             /\ \A i \in 1..Len(res.segs[p]) : <<e, x>> \notin SegmentQubits(res.segs[p][i])
  <2>1. <<e, x>> \in res.qubits /\ <<e, x>> \notin freed /\ <<e, x>> \notin HeldQubits(p, res)
    BY <1>3, <1>5
  <2>2. <<e, x>> \in LinkPair(e)
    BY DEF LinkPair, Halves
  <2>3. ~(res.req[e] \in {"PENDING", "READY"} /\ res.ent[e] = "READY")
    BY <1>1, <2>1, <2>2
  <2>4. DOMAIN res.segs[p] = 1..Len(res.segs[p])
    BY DEF ResourceRecords
  <2>5. \A i \in 1..Len(res.segs[p]) : <<e, x>> \notin SegmentQubits(res.segs[p][i])
    BY <2>1, <2>4 DEF HeldQubits
  <2> QED
    BY <2>1, <2>3, <2>5
<1> QED
  BY <1>4, <1>5

\* Storing what CleanupPathResources leaves.
LEMMA CleanupKeepsQubits ==
  ASSUME TypeOK, NEW p \in Paths, QubitsOf(p), NEW res \in ResourceRecords,
         OwnSegments(p, res), Releasable(p, res),
         \/ Store(CleanupPathResources(p, res))
         \/ Store(ForgetRequests(p, CleanupPathResources(p, res)))
  PROVE  QubitsKept(p)
<1> DEFINE c == CleanupPathResources(p, res)
           f == ForgetRequests(p, c)
<1>1. /\ c \in ResourceRecords
      /\ c.segs = [res.segs EXCEPT ![p] = <<>>]
      /\ c.signals = {s \in res.signals : s.id[1] # p}
      /\ \A a \in Attempts, h \in Hops : c.req[<<p, a, h>>] \notin {"PENDING", "READY"}
  BY CleanupFacts
<1>2. ASSUME NEW a \in Attempts, NEW h \in Hops
      PROVE  LET e == <<p, a, h>>
             IN /\ c.ent[e] = IF res.req[e] \in {"PENDING", "READY"} THEN "CONSUMED" ELSE res.ent[e]
                /\ \A x \in Halves : <<e, x>> \in c.qubits =>
                     /\ <<e, x>> \in res.qubits
                     /\ ~(res.req[e] \in {"PENDING", "READY"} /\ res.ent[e] = "READY")
                     /\ \A i \in 1..Len(res.segs[p]) :
                          <<e, x>> \notin SegmentQubits(res.segs[p][i])
  BY CleanupOfLink
<1> HIDE DEF c
<1>3. /\ f.segs = c.segs /\ f.signals = c.signals /\ f.ent = c.ent /\ f.qubits = c.qubits
      /\ f.req = [e \in EntIds |-> IF e[1] = p THEN "NONE" ELSE c.req[e]]
  BY <1>1 DEF ForgetRequests, ResourceRecords
<1>4. \A a \in Attempts, h \in Hops : f.req[<<p, a, h>>] = "NONE"
  BY <1>3 DEF EntIds
<1> HIDE DEF f
<1>5. /\ segs'[p] = <<>> /\ NoSignal(p)' /\ NothingMapped(p)'
      /\ ent' = c.ent /\ qubits' = c.qubits
  <2>1. Store(c) \/ Store(f)
    BY DEF c, f
  <2>2. segs' = c.segs /\ signals' = c.signals /\ ent' = c.ent /\ qubits' = c.qubits
    BY <1>3, <2>1 DEF Store
  <2>3. NothingMapped(p)'
    BY <1>1, <1>4, <2>1 DEF Store, NothingMapped, Mapped
  <2>4. segs'[p] = <<>>
    BY <1>1, <2>2 DEF ResourceRecords
  <2> QED
    BY <1>1, <2>2, <2>3, <2>4 DEF NoSignal
<1>6. ASSUME NEW a \in Attempts, NEW h \in Hops, NEW x \in Halves,
             <<<<p, a, h>>, x>> \in qubits'
      PROVE  \/ <<<<p, a, h>>, x>> \in qubits /\ ~Accounted(<<<<p, a, h>>, x>>)
             \/ LostNow(p, a, h) /\ res.ent[<<p, a, h>>] = "FAILED"
  BY <1>2, <1>5, <1>6 DEF Releasable
<1>7. LateOrAsked(p)'
  BY <1>2, <1>5 DEF LateOrAsked, NothingMapped, Releasable
<1>8. NoEarlyQubits(p)'
  <2> SUFFICES ASSUME NEW a \in Attempts, NEW h \in Hops, ent'[<<p, a, h>>] = "PENDING",
                      NEW x \in Halves
               PROVE  <<<<p, a, h>>, x>> \notin qubits'
    BY DEF NoEarlyQubits, Halves
  <2>1. ent[<<p, a, h>>] = "PENDING" /\ res.ent[<<p, a, h>>] = "PENDING"
    BY <1>2, <1>5 DEF Releasable
  <2>2. <<<<p, a, h>>, x>> \notin qubits
    BY <2>1 DEF QubitsOf, NoEarlyQubits, Halves
  <2> QED
    BY <1>6, <2>1, <2>2
<1>9. SegmentsReady(p)' /\ MeasuredGone(p)'
  BY <1>5 DEF SegmentsReady, MeasuredGone, NoSignal
<1>10. NoLoss(p)
  BY <1>6 DEF NoLoss
<1> QED
  BY <1>7, <1>8, <1>9, <1>10 DEF QubitsKept, QubitsOf

LEMMA FailureKeepsQubits ==
  ASSUME TypeOK, NEW p \in Paths, QubitsOf(p), NEW res \in ResourceRecords,
         OwnSegments(p, res), Releasable(p, res), HandlePathFailure(p, res)
  PROVE  QubitsKept(p)
BY CleanupKeepsQubits DEF HandlePathFailure

\* A path can be cleaned up at any time: its mapped requests hold a pair when they
\* are ready and no qubit before.
LEMMA HeldIsReleasable ==
  ASSUME TypeOK, NEW p \in Paths, Phase(p), QubitsOf(p), NEW res \in ResourceRecords,
         res.req = req, res.ent = ent, res.qubits = qubits, res.segs = segs,
         linkPending' \subseteq linkPending
  PROVE  OwnSegments(p, res) /\ Releasable(p, res)
<1>1. segs[p] = <<>> \/ (IsChain(p) /\ route[p] \in Routes)
  BY DEF Phase, Fresh, Building, Waiting, Swapping, Signalling, Finished, Released, Pending
<1>2. OwnSegments(p, res)
  BY <1>1, SegmentQubitNames DEF OwnSegments
<1>3. DOMAIN segs[p] = 1..Len(segs[p])
  BY DEF TypeOK
<1>4. ASSUME NEW a \in Attempts, NEW h \in Hops, NEW x \in Halves,
             <<<<p, a, h>>, x>> \in qubits, Mapped(<<p, a, h>>)
      PROVE  ent[<<p, a, h>>] = "READY"
  <2>1. Building(p) /\ a = retryCount[p] /\ h \in 1..Links(p)
    BY <1>4, MappedMeansBuilding
  <2>2. ent[<<p, a, h>>] \in {"PENDING", "READY"}
    BY <2>1 DEF Building
  <2> QED
    BY <1>4, <2>2 DEF QubitsOf, NoEarlyQubits, Halves
<1>5. ASSUME NEW a \in Attempts, NEW h \in Hops, NEW x \in Halves,
             <<<<p, a, h>>, x>> \in qubits
      PROVE  \/ ~Accounted(<<<<p, a, h>>, x>>)
             \/ req[<<p, a, h>>] \in {"PENDING", "READY"} /\ ent[<<p, a, h>>] = "READY"
             \/ \E i \in 1..Len(segs[p]) : <<<<p, a, h>>, x>> \in SegmentQubits(segs[p][i])
  BY <1>3, <1>4, <1>5, AccountedMeans DEF Mapped, InSegments
<1>6. ASSUME NEW a \in Attempts, NEW h \in Hops, <<p, a, h>> \in linkPending
      PROVE  req[<<p, a, h>>] \in {"PENDING", "READY"} \/ ent[<<p, a, h>>] = "CONSUMED"
  BY <1>6 DEF QubitsOf, LateOrAsked
<1> QED
  BY <1>2, <1>5, <1>6 DEF Releasable

(***************************************************************************)
(* Swapping                                                                *)
(***************************************************************************)
\* BeginNextSwap either stores the chain it was given or cleans it up.
LEMMA BeginKeepsQubits ==
  ASSUME TypeOK, NEW p \in Paths, QubitsOf(p), NEW res \in ResourceRecords,
         ResChain(p, res), Releasable(p, res), BeginNextSwap(p, res),
         \A s \in res.signals : s.id[1] # p,
         \A a \in Attempts, h \in Hops, x \in Halves :
           res.ent[<<p, a, h>>] = "PENDING" => <<<<p, a, h>>, x>> \notin res.qubits,
         \A h \in 1..Links(p) : res.ent[<<p, retryCount[p], h>>] = "READY"
  PROVE  QubitsKept(p)
<1>1. CASE HandlePathFailure(p, res)
  BY <1>1, ChainIsOwn, FailureKeepsQubits
<1>2. CASE Store(res) /\ UNCHANGED <<route, retryCount>>
  <2>1. /\ req' = res.req /\ segs' = res.segs /\ signals' = res.signals
        /\ ent' = res.ent /\ qubits' = res.qubits
    BY <1>2 DEF Store
  <2>2. \A a \in Attempts, h \in Hops : ~Mapped(<<p, a, h>>)'
    BY <2>1 DEF ResChain, Mapped
  <2>3. LateOrAsked(p)'
    BY <2>1, <2>2 DEF LateOrAsked, Releasable, ResChain
  <2>4. NoEarlyQubits(p)'
    BY <2>1 DEF NoEarlyQubits, Halves
  <2>5. SegmentsReady(p)'
    BY <1>2, <2>1 DEF SegmentsReady, Links
  <2>6. MeasuredGone(p)'
    BY <2>1 DEF MeasuredGone
  <2>7. DOMAIN res.segs[p] = 1..Len(res.segs[p])
    BY DEF ResourceRecords
  <2>8. NoLoss(p)
    <3> SUFFICES ASSUME NEW a \in Attempts, NEW h \in Hops, NEW x \in Halves,
                        <<<<p, a, h>>, x>> \in qubits',
                        ~Accounted(<<<<p, a, h>>, x>>)'
                 PROVE  \/ <<<<p, a, h>>, x>> \in qubits /\ ~Accounted(<<<<p, a, h>>, x>>)
                        \/ LostNow(p, a, h)
      BY DEF NoLoss
    <3>1. ~InSegments(p, <<<<p, a, h>>, x>>)'
      BY AccountedMeans
    <3>2. \A i \in 1..Len(res.segs[p]) : <<<<p, a, h>>, x>> \notin SegmentQubits(res.segs[p][i])
      BY <2>1, <2>7, <3>1 DEF InSegments
    <3> QED
      BY <2>1, <3>2 DEF Releasable, ResChain
  <2> QED
    BY <2>3, <2>4, <2>5, <2>6, <2>8 DEF QubitsKept, QubitsOf
<1> QED
  BY <1>1, <1>2 DEF BeginNextSwap, FinalizePath, pathVars

\* ExecuteSwapAtNode frees two qubits and remembers them in a signal.
LEMMA SwapKeepsQubits ==
  ASSUME IInv, NEW p \in Paths, QubitsOf(p), NEW a \in Attempts, NEW n \in Relays,
         ExecuteSwapAtNode(p, a, n)
  PROVE  QubitsKept(p)
<1>1. TypeOK /\ Phase(p) /\ UNCHANGED linkPending
  BY DEF IInv, ExecuteSwapAtNode
<1>2. CASE HandlePathFailure(p, Resources)
  <2>1. OwnSegments(p, Resources) /\ Releasable(p, Resources)
    BY <1>1, ResourcesFacts, HeldIsReleasable
  <2> QED
    BY <1>1, <1>2, <2>1, ResourcesFacts, FailureKeepsQubits
<1>3. CASE UNCHANGED <<pathVars, resourceVars>>
  <2>1. SameLinks(p) /\ SameSignals(p)
    BY <1>1, <1>3 DEF SameLinks, SameSignals, resourceVars
  <2> QED
    BY <1>1, <1>3, <2>1, HoldingsKept DEF pathVars, resourceVars
<1>4. CASE /\ qubits' = qubits \ {segs[p][1].rightQubit, segs[p][2].leftQubit}
           /\ signals' = signals \cup
                {[id |-> <<p, a, n>>, left |-> segs[p][1], right |-> segs[p][2]]}
           /\ UNCHANGED <<pathVars, req, segs, ent>>
  <2>1. LateOrAsked(p)'
    BY <1>1, <1>4 DEF QubitsOf, LateOrAsked, Mapped
  <2>2. NoEarlyQubits(p)'
    BY <1>4 DEF QubitsOf, NoEarlyQubits
  <2>3. SegmentsReady(p)'
    BY <1>4 DEF QubitsOf, SegmentsReady, Links, pathVars
  <2>4. MeasuredGone(p)'
    BY <1>4 DEF QubitsOf, MeasuredGone
  <2>5. NoLoss(p)
    <3> SUFFICES ASSUME NEW b \in Attempts, NEW h \in Hops, NEW x \in Halves,
                        <<<<p, b, h>>, x>> \in qubits',
                        ~Accounted(<<<<p, b, h>>, x>>)'
                 PROVE  <<<<p, b, h>>, x>> \in qubits /\ ~Accounted(<<<<p, b, h>>, x>>)
      BY DEF NoLoss
    <3>1. Mapped(<<p, b, h>>)' = Mapped(<<p, b, h>>)
      BY <1>4 DEF Mapped
    <3>2. InSegments(p, <<<<p, b, h>>, x>>)' = InSegments(p, <<<<p, b, h>>, x>>)
      BY <1>4 DEF InSegments
    <3> QED
      BY <1>4, <3>1, <3>2, AccountedMeans
  <2> QED
    BY <2>1, <2>2, <2>3, <2>4, <2>5 DEF QubitsKept, QubitsOf
<1> QED
  BY <1>2, <1>3, <1>4 DEF ExecuteSwapAtNode

\* A lost outcome fails the path; until then nothing changes.
LEMMA SendKeepsQubits ==
  ASSUME IInv, NEW p \in Paths, QubitsOf(p), NEW a \in Attempts, NEW n \in Relays,
         DoSendMessage(<<p, a, n>>)
  PROVE  QubitsKept(p)
<1>1. TypeOK /\ Phase(p) /\ UNCHANGED linkPending
  BY DEF IInv, DoSendMessage
<1>2. ASSUME NEW s \in signals, HandlePathFailure(p, [Resources EXCEPT !.signals = @ \ {s}])
      PROVE  QubitsKept(p)
  <2> DEFINE res == [Resources EXCEPT !.signals = @ \ {s}]
  <2>1. /\ res \in ResourceRecords /\ res.req = req /\ res.ent = ent
        /\ res.qubits = qubits /\ res.segs = segs
    BY <1>1 DEF Resources, ResourceRecords, SignalRecords, TypeOK
  <2>2. HandlePathFailure(p, res)
    BY <1>2
  <2> HIDE DEF res
  <2>3. OwnSegments(p, res) /\ Releasable(p, res)
    BY <1>1, <2>1, HeldIsReleasable
  <2> QED
    BY <1>1, <2>1, <2>2, <2>3, FailureKeepsQubits
<1>3. CASE UNCHANGED <<pathVars, resourceVars>>
  <2>1. SameLinks(p) /\ SameSignals(p)
    BY <1>1, <1>3 DEF SameLinks, SameSignals, resourceVars
  <2> QED
    BY <1>1, <1>3, <2>1, HoldingsKept DEF pathVars, resourceVars
<1>4. <<p, a, n>>[1] = p
  OBVIOUS
<1> QED
  BY <1>2, <1>3, <1>4 DEF DoSendMessage, SignalLost

\* Merging loses no qubit: of the four ends of the first two segments the merged
\* one has two, and the other two were measured.
LEMMA DeliveryKeepsQubits ==
  ASSUME IInv, NEW p \in Paths, QubitsOf(p), NEW a \in Attempts, NEW n \in Relays,
         DeliverMessage(<<p, a, n>>)
  PROVE  QubitsKept(p)
<1>1. /\ TypeOK /\ Phase(p) /\ UNCHANGED linkPending
      /\ <<p, a, n>> \in deliveries /\ SignalDelivered(<<p, a, n>>)
  BY DEF IInv, DeliverMessage
<1>2. CASE Released(p)
  <2>1. ~SignalKnown(<<p, a, n>>)
    BY <1>2 DEF Released, NoSignal, SignalKnown
  <2>2. UNCHANGED <<pathVars, resourceVars>>
    BY <1>1, <2>1 DEF SignalDelivered, SignalKnown
  <2>3. SameLinks(p) /\ SameSignals(p)
    BY <1>1, <2>2 DEF SameLinks, SameSignals, resourceVars
  <2> QED
    BY <1>1, <2>2, <2>3, HoldingsKept DEF pathVars, resourceVars
<1>3. CASE Signalling(p) /\ <<p, a, n>> = NextSwap(p)
  <2>1. PICK s \in signals, res \in ResourceRecords :
          /\ s.id[1] = p /\ s.left = segs[p][1] /\ s.right = segs[p][2]
          /\ BeginNextSwap(p, res) /\ Entered(p, res) /\ ResChain(p, res)
          /\ res.req = req /\ res.ent = ent /\ res.qubits = qubits
          /\ Len(res.segs[p]) = Len(segs[p]) - 1 /\ res.segs[p][1] = Merge(s)
          /\ \A i \in 2..(Len(segs[p]) - 1) : res.segs[p][i] = segs[p][i + 1]
    BY <1>1, <1>3, DeliveredBegins
  <2>2. /\ Len(segs[p]) \in Nat /\ Len(segs[p]) >= 2 /\ segs[p] # <<>>
        /\ DOMAIN segs[p] = 1..Len(segs[p])
    BY <1>1, <1>3, <2>1, MeasuredNames DEF TypeOK, Signalling
  <2>3. s.left.rightQubit \notin qubits /\ s.right.leftQubit \notin qubits
    BY <2>1 DEF QubitsOf, MeasuredGone
  <2>4. ASSUME NEW q \in qubits, InSegments(p, q)
        PROVE  \E i \in 1..Len(res.segs[p]) : q \in SegmentQubits(res.segs[p][i])
    <3>1. PICK i \in 1..Len(segs[p]) : q \in SegmentQubits(segs[p][i])
      BY <2>2, <2>4 DEF InSegments
    <3>2. CASE i \in {1, 2}
      <4>1. q \in {s.left.leftQubit, s.right.rightQubit}
        BY <2>1, <2>3, <3>1, <3>2 DEF SegmentQubits
      <4>2. q \in SegmentQubits(res.segs[p][1])
        BY <2>1, <4>1 DEF SegmentQubits, Merge
      <4>3. 1 \in 1..Len(res.segs[p])
        BY <2>1, <2>2
      <4> QED
        BY <4>2, <4>3
    <3>3. CASE i \notin {1, 2}
      <4> DEFINE j == i - 1
      <4>1. j \in 2..(Len(segs[p]) - 1) /\ j \in 1..(Len(segs[p]) - 1) /\ i = j + 1
        BY <2>2, <3>3
      <4> HIDE DEF j
      <4>2. res.segs[p][j] = segs[p][i] /\ j \in 1..Len(res.segs[p])
        BY <2>1, <4>1
      <4> QED
        BY <3>1, <4>2
    <3> QED
      BY <3>2, <3>3
  <2>5. ASSUME NEW b \in Attempts, NEW h \in Hops PROVE ~Mapped(<<p, b, h>>)
    BY <1>3 DEF Signalling, NothingMapped
  <2>6. Releasable(p, res)
    <3>1. ASSUME NEW b \in Attempts, NEW h \in Hops, NEW x \in Halves,
                 <<<<p, b, h>>, x>> \in qubits
          PROVE  \/ ~Accounted(<<<<p, b, h>>, x>>)
                 \/ \E i \in 1..Len(res.segs[p]) :
                      <<<<p, b, h>>, x>> \in SegmentQubits(res.segs[p][i])
      BY <2>4, <2>5, <3>1, AccountedMeans
    <3>2. ASSUME NEW b \in Attempts, NEW h \in Hops, <<p, b, h>> \in linkPending
          PROVE  ent[<<p, b, h>>] = "CONSUMED"
      BY <2>5, <3>2 DEF QubitsOf, LateOrAsked, Mapped
    <3> QED
      BY <1>1, <2>1, <3>1, <3>2 DEF Releasable
  <2>7. \A b \in Attempts, h \in Hops, x \in Halves :
          ent[<<p, b, h>>] = "PENDING" => <<<<p, b, h>>, x>> \notin qubits
    BY DEF QubitsOf, NoEarlyQubits, Halves
  <2>8. \A h \in 1..Links(p) : ent[<<p, retryCount[p], h>>] = "READY"
    BY <2>2 DEF QubitsOf, SegmentsReady
  <2>9. \A t \in res.signals : t.id[1] # p
    BY <2>1 DEF Entered
  <2> QED
    BY <1>1, <2>1, <2>6, <2>7, <2>8, <2>9, BeginKeepsQubits
<1> QED
  BY <1>1, <1>2, <1>3, MessageMeansSignalling

(***************************************************************************)
(* Completing a link request                                               *)
(***************************************************************************)
\* The resources that the handlers called by CompleteRequest start from: the
\* request has FAILED, has failed with both its halves LEFT behind, or is READY.
CompletionResources(e, res, result) ==
  /\ res \in ResourceRecords
  /\ res.segs = segs /\ res.signals = signals
  /\ res.ent = [ent EXCEPT ![e] = IF result = "READY" THEN "READY" ELSE "FAILED"]
  /\ res.qubits = IF result = "FAILED" THEN qubits ELSE qubits \cup LinkPair(e)
  /\ result = "LEFT" => FarNode(e) \notin Owners
  /\ res.req = IF result = "READY" /\ Mapped(e) THEN [req EXCEPT ![e] = "READY"] ELSE req

LEMMA CompletionCases ==
  ASSUME TypeOK, NEW e \in EntIds, CompleteRequest(e)
  PROVE  /\ e \in linkPending /\ linkPending' = linkPending \ {e}
         /\ \/ \E res, result : /\ Mapped(e) /\ CompletionResources(e, res, result)
                                /\ result \in {"FAILED", "LEFT"}
                                /\ HandlePathFailure(e[1], res)
            \/ \E res : /\ Mapped(e) /\ CompletionResources(e, res, "READY")
                        /\ CheckPathEntanglements(e[1], res)
            \/ \E res, result : /\ ~Mapped(e) /\ CompletionResources(e, res, result)
                                /\ result \in {"READY", "FAILED", "LEFT"}
                                /\ Store(res) /\ UNCHANGED pathVars
<1> DEFINE failed == [Resources EXCEPT !.ent[e] = "FAILED"]
           left == [Resources EXCEPT !.ent[e] = "FAILED", !.qubits = @ \cup LinkPair(e)]
           ready == [Resources EXCEPT !.ent[e] = "READY", !.qubits = @ \cup LinkPair(e)]
           granted == [ready EXCEPT !.req[e] = "READY"]
<1>1. LinkPair(e) \subseteq Qubits
  BY DEF LinkPair, Qubits
<1>2. CompletionResources(e, failed, "FAILED")
  BY DEF CompletionResources, Resources, ResourceRecords, SignalRecords, TypeOK, EntStates
<1>l. FarNode(e) \notin Owners => CompletionResources(e, left, "LEFT")
  BY <1>1 DEF CompletionResources, Resources, ResourceRecords, SignalRecords, TypeOK, EntStates
<1>3. ~Mapped(e) => CompletionResources(e, ready, "READY")
  BY <1>1 DEF CompletionResources, Resources, ResourceRecords, SignalRecords, TypeOK, EntStates
<1>4. Mapped(e) => CompletionResources(e, granted, "READY")
  BY <1>1
  DEF CompletionResources, Resources, ResourceRecords, SignalRecords, TypeOK, EntStates, ReqStates
<1>5. \/ Mapped(e) /\ HandlePathFailure(e[1], failed)
      \/ Mapped(e) /\ HandlePathFailure(e[1], left) /\ FarNode(e) \notin Owners
      \/ Mapped(e) /\ CheckPathEntanglements(e[1], granted)
      \/ ~Mapped(e) /\ (Store(failed) \/ Store(ready)) /\ UNCHANGED pathVars
      \/ ~Mapped(e) /\ Store(left) /\ FarNode(e) \notin Owners /\ UNCHANGED pathVars
  BY DEF CompleteRequest, LinkFails, TransferFails, LinkSucceeds
<1>6. e \in linkPending /\ linkPending' = linkPending \ {e}
  BY DEF CompleteRequest
<1> HIDE DEF failed, left, ready, granted
<1> QED
  BY <1>2, <1>l, <1>3, <1>4, <1>5, <1>6

\* The qubits of the completed pair and of the other pairs.
LEMMA CompletionOfLink ==
  ASSUME TypeOK, NEW p \in Paths, NEW a \in Attempts, NEW h \in Hops, NEW res, NEW result,
         CompletionResources(<<p, a, h>>, res, result),
         NEW b \in Attempts, NEW g \in Hops
  PROVE  LET e == <<p, a, h>>
             d == <<p, b, g>>
         IN /\ d # e => res.ent[d] = ent[d] /\ res.req[d] = req[d]
            /\ res.ent[e] = IF result = "READY" THEN "READY" ELSE "FAILED"
            /\ res.req[e] = IF result = "READY" /\ Mapped(e) THEN "READY" ELSE req[e]
            /\ \A x \in Halves : <<d, x>> \in res.qubits <=>
                 <<d, x>> \in qubits \/ (d = e /\ result # "FAILED")
<1>1. <<p, a, h>> \in EntIds /\ <<p, b, g>> \in EntIds
  BY DEF EntIds
<1>2. \A x \in Halves : <<<<p, b, g>>, x>> \in LinkPair(<<p, a, h>>) <=> <<p, b, g>> = <<p, a, h>>
  BY DEF LinkPair, Halves
<1> QED
  BY <1>1, <1>2 DEF CompletionResources, TypeOK

\* A failed request is cleaned up with its path.
LEMMA FailedCompletion ==
  ASSUME IInv, NEW p \in Paths, QubitsOf(p), NEW a \in Attempts, NEW h \in Hops,
         <<p, a, h>> \in linkPending, linkPending' = linkPending \ {<<p, a, h>>},
         Mapped(<<p, a, h>>), NEW res, NEW result \in {"FAILED", "LEFT"},
         CompletionResources(<<p, a, h>>, res, result), HandlePathFailure(p, res)
  PROVE  QubitsKept(p)
<1> DEFINE e == <<p, a, h>>
<1>1. /\ TypeOK /\ Phase(p) /\ res \in ResourceRecords /\ res.segs = segs
  BY DEF IInv, CompletionResources
<1>2. Building(p) /\ segs[p] = <<>> /\ ent[e] = "PENDING"
  BY <1>1, MappedMeansBuilding DEF Building, QubitsOf, LateOrAsked
<1>3. OwnSegments(p, res)
  BY <1>1, <1>2 DEF OwnSegments
<1>4. ASSUME NEW b \in Attempts, NEW g \in Hops
      PROVE  LET d == <<p, b, g>>
             IN /\ res.req[d] = req[d]
                /\ d # e => res.ent[d] = ent[d]
                /\ d = e => res.ent[d] = "FAILED"
                /\ res.ent[d] = "PENDING" => ent[d] = "PENDING"
                /\ \A x \in Halves : <<d, x>> \in res.qubits =>
                     <<d, x>> \in qubits \/ (d = e /\ LostNow(p, b, g))
  <2>1. result = "LEFT" => LostNow(p, a, h)
    BY DEF CompletionResources, LostNow
  <2> QED
    BY <1>1, <2>1, CompletionOfLink
<1>5. ASSUME NEW b \in Attempts, NEW g \in Hops, NEW x \in Halves,
             <<<<p, b, g>>, x>> \in qubits, Accounted(<<<<p, b, g>>, x>>)
      PROVE  req[<<p, b, g>>] \in {"PENDING", "READY"} /\ res.ent[<<p, b, g>>] = "READY"
  <2>1. Mapped(<<p, b, g>>)
    BY <1>2, <1>5, AccountedMeans DEF InSegments
  <2>2. b = retryCount[p] /\ g \in 1..Links(p)
    BY <1>1, <2>1, MappedMeansBuilding
  <2>3. ent[<<p, b, g>>] # "PENDING"
    BY <1>5 DEF QubitsOf, NoEarlyQubits, Halves
  <2>4. ent[<<p, b, g>>] = "READY"
    BY <1>2, <2>2, <2>3 DEF Building
  <2>5. <<p, b, g>> # e
    BY <1>2, <2>3
  <2> QED
    BY <1>4, <2>1, <2>4, <2>5 DEF Mapped
<1>6. ASSUME NEW b \in Attempts, NEW g \in Hops, <<p, b, g>> \in linkPending'
      PROVE  req[<<p, b, g>>] \in {"PENDING", "READY"} \/ res.ent[<<p, b, g>>] = "CONSUMED"
  <2>1. <<p, b, g>> \in linkPending /\ <<p, b, g>> # e
    BY <1>6
  <2> QED
    BY <1>4, <2>1 DEF QubitsOf, LateOrAsked
<1>7. Releasable(p, res)
  BY <1>4, <1>5, <1>6 DEF Releasable
<1> QED
  BY <1>1, <1>3, <1>7, FailureKeepsQubits

\* The completion of a request that nobody asks for any more.
LEMMA UnmappedCompletion ==
  ASSUME IInv, NEW p \in Paths, QubitsOf(p), NEW a \in Attempts, NEW h \in Hops,
         <<p, a, h>> \in linkPending, linkPending' = linkPending \ {<<p, a, h>>},
         ~Mapped(<<p, a, h>>), NEW result \in {"READY", "FAILED", "LEFT"}, NEW res,
         CompletionResources(<<p, a, h>>, res, result), Store(res), UNCHANGED pathVars
  PROVE  QubitsKept(p)
<1> DEFINE e == <<p, a, h>>
<1>1. TypeOK /\ Phase(p) /\ ent[e] = "CONSUMED"
  BY DEF IInv, QubitsOf, LateOrAsked, Mapped
<1>2. UNCHANGED <<route, retryCount, segs, signals, req>>
  BY DEF CompletionResources, Store, pathVars
<1>3. ASSUME NEW b \in Attempts, NEW g \in Hops
      PROVE  LET d == <<p, b, g>>
             IN /\ d # e => ent'[d] = ent[d]
                /\ d = e => ent'[d] # "PENDING"
                /\ d # e => \A x \in Halves : <<d, x>> \in qubits' <=> <<d, x>> \in qubits
  BY <1>1, CompletionOfLink DEF Store
<1>4. LateOrAsked(p)'
  BY <1>2, <1>3 DEF LateOrAsked, QubitsOf, Mapped
<1>5. NoEarlyQubits(p)'
  BY <1>3 DEF NoEarlyQubits, QubitsOf, Halves
<1>6. ASSUME segs[p] # <<>>, NEW g \in 1..Links(p)
      PROVE  /\ ent[<<p, retryCount[p], g>>] = "READY" /\ <<p, retryCount[p], g>> # e
             /\ retryCount[p] \in Attempts /\ g \in Hops
  <2>1. route[p] \in Routes
    BY <1>1, <1>6
    DEF Phase, Fresh, Building, Waiting, Swapping, Signalling, Pending, Finished, Released
  <2>2. g \in Hops /\ retryCount[p] \in Attempts
    BY <1>1, <2>1, RouteFacts DEF TypeOK
  <2>3. ent[<<p, retryCount[p], g>>] = "READY"
    BY <1>6 DEF QubitsOf, SegmentsReady
  <2> QED
    BY <1>1, <2>2, <2>3
<1>7. SegmentsReady(p)'
  BY <1>2, <1>3, <1>6 DEF SegmentsReady, Links
<1>8. MeasuredGone(p)'
  <2> SUFFICES ASSUME NEW s \in signals, s.id[1] = p
               PROVE  s.left.rightQubit \notin qubits' /\ s.right.leftQubit \notin qubits'
    BY <1>2 DEF MeasuredGone
  <2>1. s.left.rightQubit \notin qubits /\ s.right.leftQubit \notin qubits
    BY DEF QubitsOf, MeasuredGone
  <2>2. segs[p] # <<>>
    BY <1>1, MeasuredNames
  <2>3. PICK g \in 1..Links(p) : s.left.rightQubit = <<<<p, retryCount[p], g>>, "r">>
    BY <1>1, MeasuredNames
  <2>4. PICK k \in 1..Links(p) : s.right.leftQubit = <<<<p, retryCount[p], k>>, "l">>
    BY <1>1, MeasuredNames
  <2>5. s.left.rightQubit \notin qubits'
    BY <1>3, <1>6, <2>1, <2>2, <2>3 DEF Halves
  <2>6. s.right.leftQubit \notin qubits'
    BY <1>3, <1>6, <2>1, <2>2, <2>4 DEF Halves
  <2> QED
    BY <2>5, <2>6
<1>9. NoLoss(p)
  <2> SUFFICES ASSUME NEW b \in Attempts, NEW g \in Hops, NEW x \in Halves,
                      <<<<p, b, g>>, x>> \in qubits',
                      ~Accounted(<<<<p, b, g>>, x>>)', <<p, b, g>> # e
               PROVE  <<<<p, b, g>>, x>> \in qubits /\ ~Accounted(<<<<p, b, g>>, x>>)
    BY <1>1 DEF NoLoss, LostNow
  <2>1. Mapped(<<p, b, g>>)' = Mapped(<<p, b, g>>)
    BY <1>2 DEF Mapped
  <2>2. InSegments(p, <<<<p, b, g>>, x>>)' = InSegments(p, <<<<p, b, g>>, x>>)
    BY <1>2 DEF InSegments
  <2> QED
    BY <1>3, <2>1, <2>2, AccountedMeans
<1> QED
  BY <1>4, <1>5, <1>7, <1>8, <1>9 DEF QubitsKept, QubitsOf

\* The completion of a request that its path waits for: the pair is the request's,
\* or a segment's once all hops are there.
LEMMA ReadyCompletion ==
  ASSUME IInv, NEW p \in Paths, QubitsOf(p), NEW a \in Attempts, NEW h \in Hops,
         <<p, a, h>> \in linkPending, linkPending' = linkPending \ {<<p, a, h>>},
         Mapped(<<p, a, h>>), NEW res, CompletionResources(<<p, a, h>>, res, "READY"),
         CheckPathEntanglements(p, res)
  PROVE  QubitsKept(p)
<1> DEFINE e == <<p, a, h>>
<1>1. /\ TypeOK /\ Phase(p) /\ res \in ResourceRecords /\ res.segs = segs
      /\ res.signals = signals
  BY DEF IInv, CompletionResources
<1>2. /\ Building(p) /\ segs[p] = <<>> /\ NoSignal(p) /\ ent[e] = "PENDING"
      /\ a = retryCount[p] /\ h \in 1..Links(p)
  BY <1>1, MappedMeansBuilding DEF Building, QubitsOf, LateOrAsked
<1>3. ASSUME NEW b \in Attempts, NEW g \in Hops
      PROVE  LET d == <<p, b, g>>
             IN /\ d # e => res.ent[d] = ent[d] /\ res.req[d] = req[d]
                /\ d = e => res.ent[d] = "READY" /\ res.req[d] = "READY"
                /\ \A x \in Halves : <<d, x>> \in res.qubits <=> <<d, x>> \in qubits \/ d = e
  BY <1>1, CompletionOfLink
<1>4. \A b \in Attempts, g \in Hops, x \in Halves :
        res.ent[<<p, b, g>>] = "PENDING" => <<<<p, b, g>>, x>> \notin res.qubits
  BY <1>3 DEF QubitsOf, NoEarlyQubits, Halves
<1>5. ASSUME NEW b \in Attempts, NEW g \in Hops, <<p, b, g>> \in linkPending'
      PROVE  /\ <<p, b, g>> # e /\ res.ent[<<p, b, g>>] = ent[<<p, b, g>>]
             /\ res.req[<<p, b, g>>] = req[<<p, b, g>>]
             /\ \/ req[<<p, b, g>>] = "PENDING" /\ ent[<<p, b, g>>] = "PENDING"
                \/ ~Mapped(<<p, b, g>>) /\ ent[<<p, b, g>>] = "CONSUMED"
  <2>1. <<p, b, g>> \in linkPending /\ <<p, b, g>> # e
    BY <1>5
  <2> QED
    BY <1>3, <2>1 DEF QubitsOf, LateOrAsked
<1>6. CASE Store(res) /\ UNCHANGED pathVars
  <2>1. /\ segs'[p] = <<>> /\ signals' = signals /\ req' = res.req /\ ent' = res.ent
        /\ qubits' = res.qubits
    BY <1>1, <1>2, <1>6 DEF Store
  <2>2. LateOrAsked(p)'
    BY <1>5, <2>1 DEF LateOrAsked, Mapped
  <2>3. NoEarlyQubits(p)'
    BY <1>4, <2>1 DEF NoEarlyQubits, Halves
  <2>4. SegmentsReady(p)' /\ MeasuredGone(p)'
    BY <1>2, <2>1 DEF SegmentsReady, MeasuredGone, NoSignal
  <2>5. NoLoss(p)
    <3> SUFFICES ASSUME NEW b \in Attempts, NEW g \in Hops, NEW x \in Halves,
                        <<<<p, b, g>>, x>> \in qubits',
                        ~Accounted(<<<<p, b, g>>, x>>)'
                 PROVE  <<<<p, b, g>>, x>> \in qubits /\ ~Accounted(<<<<p, b, g>>, x>>)
      BY DEF NoLoss
    <3>1. ~Mapped(<<p, b, g>>)'
      BY AccountedMeans
    <3>2. <<p, b, g>> # e /\ ~Mapped(<<p, b, g>>)
      BY <1>3, <2>1, <3>1 DEF Mapped
    <3>3. <<<<p, b, g>>, x>> \in qubits
      BY <1>3, <2>1, <3>2
    <3> QED
      BY <1>2, <3>2, <3>3, AccountedMeans DEF InSegments
  <2> QED
    BY <2>2, <2>3, <2>4, <2>5 DEF QubitsKept, QubitsOf
<1>7. CASE /\ \A d \in HopIds(p, retryCount[p], route[p]) : res.req[d] = "READY"
           /\ PerformEntanglementSwapping(p, res)
  <2> DEFINE hop(g) == <<p, retryCount[p], g>>
  <2>1. /\ Links(p) \in Nat /\ 1..Links(p) \subseteq Hops /\ retryCount[p] \in Attempts
        /\ \A g \in 1..Links(p) : hop(g) \in HopIds(p, retryCount[p], route[p])
    BY <1>1, <1>2, RouteFacts DEF Building, Pending, TypeOK, HopIds, Links
  <2>2. \A q \in Paths, b \in Attempts, g \in Hops : <<q, b, g>> # e => KeptLink(q, res, b, g)
    <3> SUFFICES ASSUME NEW q \in Paths, NEW b \in Attempts, NEW g \in Hops, <<q, b, g>> # e
                 PROVE  KeptLink(q, res, b, g)
      OBVIOUS
    <3>1. <<q, b, g>> \in EntIds /\ e \in EntIds
      BY DEF EntIds
    <3>2. \A x \in Halves : <<<<q, b, g>>, x>> \notin LinkPair(e)
      BY DEF LinkPair
    <3> QED
      BY <1>1, <3>1, <3>2 DEF KeptLink, CompletionResources, TypeOK, Halves
  <2>3. /\ LinkPair(hop(h)) \subseteq res.qubits /\ res.ent[hop(h)] = "READY"
    BY <1>2, <1>3 DEF CompletionResources
  <2>4. PICK r \in ResourceRecords :
          /\ BeginNextSwap(p, r) /\ Entered(p, r) /\ ResChain(p, r)
          /\ r.ent = res.ent /\ r.qubits = res.qubits
          /\ Len(r.segs[p]) = Links(p)
          /\ \A g \in 1..Links(p) : r.segs[p][g] = HopSegment(p, g)
    BY <1>1, <1>2, <1>7, <2>2, <2>3, PerformBegins
  <2>5. ASSUME NEW g \in 1..Links(p)
        PROVE  res.ent[hop(g)] = "READY" /\ (hop(g) # e => req[hop(g)] = "READY")
    <3>1. res.req[hop(g)] = "READY"
      BY <1>7, <2>1
    <3>2. CASE hop(g) # e
      <4>1. req[hop(g)] = "READY"
        BY <1>3, <2>1, <3>1, <3>2
      <4> QED
        BY <1>2, <1>3, <2>1, <3>2, <4>1 DEF Building
    <3> QED
      BY <2>1, <1>3, <3>2
  <2>6. Releasable(p, r)
    <3>1. ASSUME NEW b \in Attempts, NEW g \in Hops, NEW x \in Halves,
                 <<<<p, b, g>>, x>> \in r.qubits
          PROVE  \/ <<<<p, b, g>>, x>> \in qubits /\ ~Accounted(<<<<p, b, g>>, x>>)
                 \/ \E i \in 1..Len(r.segs[p]) : <<<<p, b, g>>, x>> \in SegmentQubits(r.segs[p][i])
      <4>1. CASE b = retryCount[p] /\ g \in 1..Links(p)
        <5>1. <<<<p, b, g>>, x>> \in SegmentQubits(r.segs[p][g])
          <6>1. /\ HopSegment(p, g).leftQubit = <<<<p, b, g>>, "l">>
                /\ HopSegment(p, g).rightQubit = <<<<p, b, g>>, "r">>
            BY <4>1 DEF HopSegment
          <6>2. r.segs[p][g] = HopSegment(p, g)
            BY <2>4, <4>1
          <6> QED
            BY <6>1, <6>2 DEF SegmentQubits, Halves
        <5> QED
          BY <2>4, <4>1, <5>1
      <4>2. CASE ~(b = retryCount[p] /\ g \in 1..Links(p))
        <5>1. ~Mapped(<<p, b, g>>)
          BY <1>1, <4>2, MappedMeansBuilding
        <5>2. <<p, b, g>> # e
          BY <5>1
        <5>3. <<<<p, b, g>>, x>> \in qubits
          BY <1>3, <2>4, <3>1, <5>2
        <5>4. ~InSegments(p, <<<<p, b, g>>, x>>)
          BY <1>2 DEF InSegments
        <5> QED
          BY <5>1, <5>3, <5>4, AccountedMeans
      <4> QED
        BY <4>1, <4>2
    <3>2. ASSUME NEW b \in Attempts, NEW g \in Hops, <<p, b, g>> \in linkPending'
          PROVE  r.ent[<<p, b, g>>] = "CONSUMED"
      <4>1. CASE ~Mapped(<<p, b, g>>)
        BY <1>5, <2>4, <3>2, <4>1 DEF Mapped
      <4>2. CASE Mapped(<<p, b, g>>)
        <5>1. b = retryCount[p] /\ g \in 1..Links(p)
          BY <1>1, <4>2, MappedMeansBuilding
        <5>2. req[<<p, b, g>>] = "READY"
          BY <1>5, <2>5, <3>2, <5>1
        <5> QED
          BY <1>5, <3>2, <4>2, <5>2
      <4> QED
        BY <4>1, <4>2
    <3>3. \A b \in Attempts, g \in Hops :
            r.ent[<<p, b, g>>] = "PENDING" => ent[<<p, b, g>>] = "PENDING"
      BY <1>3, <2>4
    <3> QED
      BY <3>1, <3>2, <3>3 DEF Releasable
  <2>7. \A t \in r.signals : t.id[1] # p
    BY <2>4 DEF Entered
  <2> QED
    BY <1>1, <1>4, <2>4, <2>5, <2>6, <2>7, BeginKeepsQubits
<1> QED
  BY <1>6, <1>7 DEF CheckPathEntanglements

LEMMA CompletionKeepsQubits ==
  ASSUME IInv, NEW p \in Paths, QubitsOf(p), NEW a \in Attempts, NEW h \in Hops,
         CompleteRequest(<<p, a, h>>)
  PROVE  QubitsKept(p)
<1>1. <<p, a, h>> \in EntIds /\ <<p, a, h>>[1] = p /\ TypeOK
  BY DEF EntIds, IInv
<1> QED
  BY <1>1, CompletionCases, FailedCompletion, ReadyCompletion, UnmappedCompletion

(***************************************************************************)
(* Setting up                                                              *)
(***************************************************************************)
\* StartPathBuilding of a path that holds nothing asks for pairs that do not exist.
LEMMA StartKeepsQubits ==
  ASSUME TypeOK, NEW p \in Paths, Phase(p), QubitsOf(p), NEW r \in Routes,
         StartPathBuilding(p, r), NoRequest(p), NoSignal(p), segs[p] = <<>>,
         Untouched(p, retryCount[p]), UNCHANGED <<segs, signals, qubits>>
  PROVE  QubitsKept(p)
<1> DEFINE ids == HopIds(p, retryCount[p], r)
<1>1. CASE /\ req' = [e \in EntIds |-> IF e \in ids THEN "PENDING" ELSE req[e]]
           /\ ent' = [e \in EntIds |-> IF e \in ids THEN "PENDING" ELSE ent[e]]
           /\ linkPending' = linkPending \cup ids
  <2>1. ASSUME NEW a \in Attempts, NEW h \in Hops
        PROVE  LET e == <<p, a, h>>
               IN /\ e \in ids => /\ req'[e] = "PENDING" /\ ent'[e] = "PENDING"
                                  /\ a = retryCount[p]
                  /\ e \notin ids => req'[e] = req[e] /\ ent'[e] = ent[e]
                  /\ req[e] = "NONE"
    <3>1. <<p, a, h>> \in EntIds
      BY DEF EntIds
    <3>2. <<p, a, h>> \in ids => a = retryCount[p]
      BY DEF HopIds
    <3> HIDE DEF ids
    <3> QED
      BY <1>1, <3>1, <3>2 DEF NoRequest
  <2> HIDE DEF ids
  <2>2. LateOrAsked(p)'
    <3> SUFFICES ASSUME NEW a \in Attempts, NEW h \in Hops, <<p, a, h>> \in linkPending'
                 PROVE  \/ req'[<<p, a, h>>] = "PENDING" /\ ent'[<<p, a, h>>] = "PENDING"
                        \/ ~Mapped(<<p, a, h>>)' /\ ent'[<<p, a, h>>] = "CONSUMED"
      BY DEF LateOrAsked
    <3>1. CASE <<p, a, h>> \in ids
      BY <2>1, <3>1
    <3>2. CASE <<p, a, h>> \notin ids
      <4>1. <<p, a, h>> \in linkPending
        BY <1>1, <3>2
      <4>2. \/ req[<<p, a, h>>] = "PENDING" /\ ent[<<p, a, h>>] = "PENDING"
            \/ ~Mapped(<<p, a, h>>) /\ ent[<<p, a, h>>] = "CONSUMED"
        BY <4>1 DEF QubitsOf, LateOrAsked
      <4>3. req'[<<p, a, h>>] = req[<<p, a, h>>] /\ ent'[<<p, a, h>>] = ent[<<p, a, h>>]
        BY <2>1, <3>2
      <4> QED
        BY <4>2, <4>3 DEF Mapped
    <3> QED
      BY <3>1, <3>2
  <2>3. NoEarlyQubits(p)'
    BY <2>1 DEF QubitsOf, NoEarlyQubits, Untouched
  <2>4. SegmentsReady(p)' /\ MeasuredGone(p)'
    BY DEF SegmentsReady, MeasuredGone, NoSignal
  <2>5. NoLoss(p)
    BY <2>1, AccountedMeans DEF NoLoss, InSegments, Mapped
  <2> QED
    BY <2>2, <2>3, <2>4, <2>5 DEF QubitsKept, QubitsOf
<1>2. CASE UNCHANGED <<req, ent, linkPending>>
  <2>1. SameLinks(p) /\ SameSignals(p)
    BY <1>2 DEF SameLinks, SameSignals
  <2> QED
    BY <2>1, HoldingsKept
<1> QED
  BY <1>1, <1>2 DEF StartPathBuilding

LEMMA SetupKeepsQubits ==
  ASSUME IInv, NEW p \in Paths, QubitsOf(p), SetupPath(p)
  PROVE  QubitsKept(p)
<1>1. TypeOK /\ Phase(p) /\ Fresh(p) /\ UNCHANGED <<segs, signals, qubits>>
  BY DEF IInv, SetupPath, Phase, Building, Waiting, Swapping, Signalling, Pending, Finished,
         Released
<1>2. CASE UNCHANGED <<req, ent, linkPending>>
  <2>1. SameLinks(p) /\ SameSignals(p) /\ segs[p] = <<>>
    BY <1>1, <1>2 DEF SameLinks, SameSignals, Fresh
  <2> QED
    BY <1>1, <2>1, HoldingsKept
<1>3. ASSUME NEW r \in Routes, StartPathBuilding(p, r) PROVE QubitsKept(p)
  BY <1>1, <1>3, StartKeepsQubits DEF Fresh
<1> QED
  BY <1>2, <1>3 DEF SetupPath

LEMMA RetryKeepsQubits ==
  ASSUME IInv, NEW p \in Paths, QubitsOf(p), NEW a \in Attempts, RetryPath(p, a)
  PROVE  QubitsKept(p)
<1>1. /\ TypeOK /\ Phase(p) /\ <<p, a>> \in rebuilds
      /\ UNCHANGED <<route, retryCount, segs, signals, qubits>>
  BY DEF IInv, RetryPath
<1>2. CASE UNCHANGED <<req, ent, linkPending>>
  <2>1. SameLinks(p) /\ SameSignals(p)
    BY <1>1, <1>2 DEF SameLinks, SameSignals
  <2> QED
    BY <1>1, <2>1, HoldingsKept
<1>3. CASE InPaths(p) /\ StartPathBuilding(p, route[p])
  <2>1. Waiting(p)
    BY <1>1, <1>3
    DEF Phase, Fresh, Building, Swapping, Signalling, Finished, Released, NoRebuild, InPaths
  <2> QED
    BY <1>1, <1>3, <2>1, StartKeepsQubits DEF Waiting, Pending
<1> QED
  BY <1>2, <1>3 DEF RetryPath

(***************************************************************************)
(* The invariant and the property                                          *)
(***************************************************************************)
\* A step of one path leaves the qubits of the others.
LEMMA OthersKeepQubits ==
  ASSUME IInv, QubitInv, NEW p \in Paths, StepOf(p), QubitsOf(p) => QubitsKept(p)
  PROVE  \A q \in Paths : QubitsKept(q)
<1> SUFFICES ASSUME NEW q \in Paths PROVE QubitsKept(q)
  OBVIOUS
<1>1. TypeOK /\ Phase(q) /\ QubitsOf(q)
  BY DEF IInv, QubitInv
<1>2. CASE q = p
  BY <1>1, <1>2
<1>3. CASE q # p
  <2>1. Same(q)
    BY <1>3 DEF StepOf
  <2> QED
    BY <1>1, <2>1, HoldingsKept DEF Same, SamePath
<1> QED
  BY <1>2, <1>3

LEMMA NextKeepsQubits ==
  ASSUME IInv, QubitInv, [Next]_vars
  PROVE  \A q \in Paths : QubitsKept(q)
<1>0. TypeOK /\ \A p \in Paths : Phase(p) /\ QubitsOf(p)
  BY DEF IInv, QubitInv
<1>u. ASSUME NEW p \in Paths,
             UNCHANGED <<route, retryCount, segs, signals, req, ent, linkPending, qubits>>
      PROVE  QubitsKept(p)
  <2>1. SameLinks(p) /\ SameSignals(p)
    BY <1>u DEF SameLinks, SameSignals
  <2> QED
    BY <1>0, <1>u, <2>1, HoldingsKept
<1>c. ASSUME NEW p \in Paths, NEW res \in ResourceRecords, res = Resources,
             linkPending' = linkPending
      PROVE  OwnSegments(p, res) /\ Releasable(p, res)
  BY <1>0, <1>c, ResourcesFacts, HeldIsReleasable
<1>1. ASSUME NEW p \in Paths, SetupPath(p) PROVE \A q \in Paths : QubitsKept(q)
  BY <1>1, SetupKeepsQubits, SetupPathStep, OthersKeepQubits
<1>2. ASSUME NEW p \in Paths, ReleasePath(p) PROVE \A q \in Paths : QubitsKept(q)
  <2>1. /\ Store(ForgetRequests(p, CleanupPathResources(p, Resources)))
        /\ linkPending' = linkPending
    BY <1>2 DEF ReleasePath
  <2>2. QubitsKept(p)
    BY <1>0, <1>c, <2>1, ResourcesFacts, CleanupKeepsQubits
  <2> QED
    BY <1>2, <2>2, ReleasePathStep, OthersKeepQubits
<1>3. ASSUME NEW p \in Paths, NEW ok \in BOOLEAN, NotifyPathResult(p, ok)
      PROVE  \A q \in Paths : QubitsKept(q)
  BY <1>3, <1>u DEF NotifyPathResult, resourceVars
<1>4. ASSUME NEW p \in Paths, NEW a \in Attempts, RetryPath(p, a)
      PROVE  \A q \in Paths : QubitsKept(q)
  BY <1>4, RetryKeepsQubits, RetryPathStep, OthersKeepQubits
<1>5. ASSUME NEW p \in Paths, NEW a \in Attempts, HandlePathTimeout(p, a)
      PROVE  \A q \in Paths : QubitsKept(q)
  <2>1. CASE UNCHANGED <<pathVars, resourceVars, linkPending>>
    BY <1>u, <2>1 DEF pathVars, resourceVars
  <2>2. CASE HandlePathFailure(p, Resources) /\ linkPending' = linkPending
    <3>1. QubitsKept(p)
      BY <1>0, <1>c, <2>2, ResourcesFacts, FailureKeepsQubits
    <3> QED
      BY <1>5, <3>1, HandlePathTimeoutStep, OthersKeepQubits
  <2> QED
    BY <1>5, <2>1, <2>2 DEF HandlePathTimeout
<1>6. ASSUME NEW e \in EntIds, CompleteRequest(e) PROVE \A q \in Paths : QubitsKept(q)
  <2>1. PICK p \in Paths, a \in Attempts, h \in Hops : e = <<p, a, h>>
    BY DEF EntIds
  <2> QED
    BY <1>6, <2>1, CompletionKeepsQubits, CompleteRequestStep, OthersKeepQubits
<1>7. ASSUME NEW m \in MsgIds,
             DoSendMessage(m) \/ DeliverMessage(m) \/ ExecuteSwapAtNode(m[1], m[2], m[3])
      PROVE  \A q \in Paths : QubitsKept(q)
  <2>1. PICK p \in Paths, a \in Attempts, n \in Relays : m = <<p, a, n>>
    BY DEF MsgIds
  <2>2. m[1] = p /\ m[2] = a /\ m[3] = n
    BY <2>1
  <2>3. CASE DoSendMessage(<<p, a, n>>)
    BY <2>3, SendKeepsQubits, DoSendMessageStep, OthersKeepQubits
  <2>4. CASE DeliverMessage(<<p, a, n>>)
    BY <2>4, DeliveryKeepsQubits, DeliverMessageStep, OthersKeepQubits
  <2>5. CASE ExecuteSwapAtNode(p, a, n)
    BY <2>5, SwapKeepsQubits, ExecuteSwapAtNodeStep, OthersKeepQubits
  <2> QED
    BY <1>7, <2>1, <2>2, <2>3, <2>4, <2>5
<1>8. CASE UNCHANGED vars
  BY <1>8, <1>u DEF vars, pathVars, resourceVars
<1> QED
  BY <1>1, <1>2, <1>3, <1>4, <1>5, <1>6, <1>7, <1>8 DEF Next, Application, Scheduler

\* The requests, segments and signals of every path account for its qubits as
\* QubitInv says, in every reachable state.
THEOREM QubitInvariant == Spec => [](IInv /\ QubitInv)
<1>1. Init => QubitInv
  <2> SUFFICES ASSUME Init, NEW p \in Paths PROVE QubitsOf(p)
    BY DEF QubitInv
  <2>1. \A a \in Attempts, h \in Hops : ent[<<p, a, h>>] = "NONE"
    BY DEF Init, EntIds
  <2> QED
    BY <2>1
    DEF Init, QubitsOf, LateOrAsked, NoEarlyQubits, SegmentsReady, MeasuredGone
<1>2. IInv /\ QubitInv /\ [Next]_vars => QubitInv'
  <2> SUFFICES ASSUME IInv, QubitInv, [Next]_vars PROVE QubitInv'
    OBVIOUS
  <2>1. \A q \in Paths : QubitsOf(q)'
    BY NextKeepsQubits DEF QubitsKept
  <2> QED
    BY <2>1 DEF QubitInv, Paths
<1> QED
  BY <1>1, <1>2, InitIInv, NextIInv, PTL DEF Spec

\* Qubits get lost only by a CompleteRequest event: its link request was consumed
\* before, or its far node is none of the physical entity's. Failing, timing out,
\* swapping, merging, retrying and releasing never lose one (CleanupPathResources,
\* HandleSwapSignal, HandleLinkLayerEntanglement).
THEOREM OrphansExplained == Spec => OnlyCompletionsOrphan
<1> DEFINE Explained ==
             \A q \in Orphans' \ Orphans :
               /\ q[1] \in linkPending \ linkPending'
               /\ ent[q[1]] = "CONSUMED" \/ FarNode(q[1]) \notin Owners
<1>1. ASSUME IInv, QubitInv, [Next]_vars PROVE Explained
  <2> SUFFICES ASSUME NEW q \in Orphans' \ Orphans
               PROVE  /\ q[1] \in linkPending \ linkPending'
                      /\ ent[q[1]] = "CONSUMED" \/ FarNode(q[1]) \notin Owners
    OBVIOUS
  <2>1. TypeOK'
    BY <1>1, NextIInv DEF IInv
  <2>2. q \in qubits' /\ ~Accounted(q)' /\ ~(q \in qubits /\ ~Accounted(q))
    BY DEF Orphans
  <2>3. PICK p \in Paths, a \in Attempts, h \in Hops, x \in Halves : q = <<<<p, a, h>>, x>>
    BY <2>1, <2>2 DEF TypeOK, Qubits, EntIds, Halves
  <2>4. NoLoss(p)
    BY <1>1, NextKeepsQubits DEF QubitsKept
  <2> QED
    BY <2>2, <2>3, <2>4 DEF NoLoss, LostNow
<1>2. IInv /\ QubitInv /\ [Next]_vars => [Explained]_vars
  BY <1>1
<1> QED
  BY <1>2, QubitInvariant, PTL DEF Spec, OnlyCompletionsOrphan
=============================================================================
