--------------------------- MODULE Programs_proofs ---------------------------
(***************************************************************************)
(* Proofs about what the programs plan with and run: a delay model has one *)
(* update to come, one end of a burst, and the time in bursts that its     *)
(* statistics tell; the swaps of a round are independent and together      *)
(* complete; no correction of a chain is missing; a distillation           *)
(* concludes, however many of its rounds overlap; and the swaps of a route *)
(* leave its ends in the Bell state, after the waits that are predicted.   *)
(***************************************************************************)
EXTENDS DelayModel, SwapSchedule, ChainApps, DistillApps, RouteSimulation, SequenceTheorems,
        FiniteSetTheorems, WellFoundedInduction, TLAPS

(***************************************************************************)
(*                                                                         *)
(*                               DELAY MODEL                               *)
(*                                                                         *)
(***************************************************************************)

(***************************************************************************)
(* The operators                                                           *)
(***************************************************************************)
\* The history stays within its limit (RecordDelay).
LEMMA RecordedSamples ==
  ASSUME NEW samples \in Seq(Records),
         NEW at \in Nat, NEW delay \in Int, NEW isBurst \in BOOLEAN
  PROVE  LET kept == RecordDelay(samples, at, delay, isBurst)
         IN kept \in Seq(Records) /\ Len(kept) <= MaxHistorySize
<1> DEFINE all == Append(samples, Sample(at, delay, isBurst))
           first == AtLeast(1, Len(all) - MaxHistorySize + 1)
<1>1. Sample(at, delay, isBurst) \in Records
  BY DEF Sample, Records
<1>2. all \in Seq(Records) /\ Len(all) \in Nat
  BY <1>1
<1>3. MaxHistorySize \in Nat
  BY DelayAssumption
<1>4. RecordDelay(samples, at, delay, isBurst) = SubSeq(all, first, Len(all))
  BY DEF RecordDelay
<1> HIDE DEF all
<1>5. first \in 1 .. Len(all) + 1 /\ Len(all) - first + 1 <= MaxHistorySize
  BY <1>2, <1>3 DEF AtLeast
<1> HIDE DEF first
<1>6. /\ SubSeq(all, first, Len(all)) \in Seq(Records)
      /\ Len(SubSeq(all, first, Len(all))) = Len(all) - first + 1
  <2>1. Len(all) \in first - 1 .. Len(all)
    BY <1>2, <1>5
  <2>2. /\ SubSeq(all, first, Len(all)) \in Seq(Records)
        /\ Len(SubSeq(all, first, Len(all)))
             = IF first <= Len(all) THEN Len(all) - first + 1 ELSE 0
    BY <1>2, <1>5, <2>1, SubSeqProperties
  <2> QED  BY <1>2, <1>5, <2>2
<1> QED  BY <1>4, <1>5, <1>6

\* Delays are numbers (DoUpdateDelay).
LEMMA DelaysAreNumbers ==
  ASSUME TypeOK, NEW v \in Variations
  PROVE  /\ baseDelay \in Int
         /\ NormalDelay(v) \in Int
         /\ BurstDelay \in Int
         /\ ContinuedDelay(v) \in Int
<1>1. /\ baseDelay \in Nat /\ maxDeviation \in Nat /\ BurstMultiplier \in Nat
      /\ v \in Int
  BY DelayAssumption DEF TypeOK, Variations
<1>2. maxDeviation * BurstMultiplier \in Nat /\ v * maxDeviation \in Int
  BY <1>1
<1>3. BurstDelay \in Int
  BY <1>1, <1>2 DEF BurstDelay
<1>4. NormalDelay(v) \in Int
  <2>1. (3 * v * maxDeviation) \in Int
    BY <1>1
  <2>2. (3 * v * maxDeviation) \div 10 \in Int
    BY <2>1
  <2> QED  BY <1>1, <2>2 DEF NormalDelay, AtLeast
<1>5. ContinuedDelay(v) \in Int
  <2>1. 3 * maxDeviation * BurstMultiplier \in Int /\ BurstDelay * (10 + v) \in Int
    BY <1>1, <1>3
  <2>2. /\ (3 * maxDeviation * BurstMultiplier) \div 2 \in Int
        /\ (BurstDelay * (10 + v)) \div 10 \in Int
    BY <2>1
  <2> QED  BY <1>1, <2>2 DEF ContinuedDelay, AtLeast, AtMost
<1> QED  BY <1>1, <1>3, <1>4, <1>5

\* A burst has a length.
LEMMA BurstsHaveLength ==
  ASSUME NEW drawn \in BurstDurations
  PROVE  /\ BurstLength(drawn) \in Nat
         /\ EndsAfter(drawn) = BurstLength(drawn)
         /\ totalBurstDuration \in Nat
              => AddBurst(drawn) = totalBurstDuration + BurstLength(drawn)
BY DelayAssumption DEF BurstLength, AtLeast, AtMost, EndsAfter, AddBurst

(***************************************************************************)
(* The invariant                                                           *)
(***************************************************************************)
LEMMA InitIInv ==
  ASSUME Init
  PROVE  IInv
<1>1. TypeOK
  <2>1. <<>> \in Seq(Records) /\ Len(<<>>) = 0
    OBVIOUS
  <2>2. history \in Seq(Records) /\ Len(history) <= MaxHistorySize
    BY <2>1, DelayAssumption DEF Init
  <2>3. currentDelay \in Int
    BY DelayAssumption DEF Init
  <2> QED  BY <2>2, <2>3 DEF Init, TypeOK
<1> QED  BY <1>1 DEF Init, IInv, UpdatesChained, UpdatesToCome, BurstsEnd, BurstEnds,
                     NothingOverdue, BurstTimeAccounted

\* The first update (Initialize).
LEMMA InitializeIInv ==
  ASSUME IInv, NEW interval \in UpdateIntervals, Initialize(interval)
  PROVE  IInv'
<1> DEFINE next == EventAt(now + interval, uid, "UpdateDelay")
<1>1. /\ ~disposed /\ ~initialized /\ initialized' = TRUE
      /\ updateInterval' = interval /\ currentDelay' = baseDelay
      /\ history' = RecordDelay(history, now, baseDelay, FALSE)
      /\ agenda' = agenda \cup {next} /\ uid' = uid + 1
      /\ UNCHANGED <<subclass, baseDelay, maxDeviation, now, inBurst, burstEndTime,
                     totalBurstDuration, disposed, spentInBursts>>
  BY DEF Initialize, burstVars
<1>2. TypeOK /\ interval \in Nat \ {0}
  BY DelayAssumption DEF IInv
<1>3. next \in [at : Nat, uid : Nat, kind : {"UpdateDelay", "EndBurst"}]
  BY <1>2 DEF TypeOK, EventAt
<1>4. next.kind = "UpdateDelay" /\ next.at >= now
  BY <1>2 DEF EventAt, TypeOK
<1> HIDE DEF next
<1>5. TypeOK'
  <2>1. baseDelay \in Int
    BY <1>2, DelayAssumption DEF TypeOK
  <2>2. history' \in Seq(Records) /\ Len(history') <= MaxHistorySize
    BY <1>1, <1>2, <2>1, RecordedSamples DEF TypeOK
  <2>3. agenda' \subseteq [at : Nat, uid : Nat, kind : {"UpdateDelay", "EndBurst"}]
    BY <1>1, <1>2, <1>3 DEF TypeOK
  <2>4. initialized' \in BOOLEAN /\ inBurst' \in BOOLEAN /\ disposed' \in BOOLEAN
    BY <1>1, <1>2 DEF TypeOK
  <2>5. uid' \in Nat
    BY <1>1, <1>2 DEF TypeOK
  <2> QED  BY <1>1, <1>2, <2>1, <2>2, <2>3, <2>4, <2>5 DEF TypeOK
<1>6. UpdatesChained'
  BY <1>1, <1>4 DEF IInv, UpdatesChained, UpdatesToCome
<1>7. BurstEnds(agenda') = BurstEnds(agenda)
  BY <1>1, <1>4 DEF BurstEnds
<1>8. BurstsEnd'
  BY <1>1, <1>7 DEF IInv, BurstsEnd, BurstEnds
<1>9. NothingOverdue'
  BY <1>1, <1>4 DEF IInv, NothingOverdue
<1> QED  BY <1>1, <1>5, <1>6, <1>8, <1>9 DEF IInv, BurstTimeAccounted

\* The setters and ClearHistory leave the events and the bursts alone.
LEMMA SettingIInv ==
  ASSUME IInv, TypeOK',
         UNCHANGED <<subclass, now, agenda, initialized, burstVars, disposed, spentInBursts>>
  PROVE  IInv'
BY DEF IInv, burstVars, UpdatesChained, UpdatesToCome, BurstsEnd, BurstEnds, NothingOverdue,
       BurstTimeAccounted

\* Both events are cancelled (DoDispose).
LEMMA DisposeIInv ==
  ASSUME IInv, DoDispose
  PROVE  IInv'
<1>1. TypeOK'
  <2>1. <<>> \in Seq(Records) /\ Len(<<>>) = 0
    OBVIOUS
  <2> QED  BY <2>1, DelayAssumption DEF DoDispose, IInv, TypeOK, settingVars, burstVars
<1> QED  BY <1>1 DEF DoDispose, settingVars, burstVars, IInv, UpdatesChained, UpdatesToCome,
                     BurstsEnd, BurstEnds, NothingOverdue, BurstTimeAccounted

\* Time passes up to the next event at most.
LEMMA OtherEventIInv ==
  ASSUME IInv, OtherEvent
  PROVE  IInv'
<1>1. TypeOK'
  BY DEF OtherEvent, settingVars, burstVars, IInv, TypeOK
<1>2. UpdatesChained' /\ BurstsEnd'
  BY DEF OtherEvent, burstVars, IInv, UpdatesChained, UpdatesToCome, BurstsEnd, BurstEnds
<1>3. NothingOverdue'
  BY DEF OtherEvent, IInv, TypeOK, NothingOverdue
<1>4. BurstTimeAccounted'
  BY DEF OtherEvent, burstVars, IInv, TypeOK, BurstTimeAccounted
<1> QED  BY <1>1, <1>2, <1>3, <1>4 DEF OtherEvent, settingVars, burstVars, IInv
\* The event that runs is not overdue and not later than the end of the burst, and
\* a model that was disposed of has none (IsNext).
LEMMA NextEvent ==
  ASSUME IInv, NEW e \in agenda, IsNext(e, agenda)
  PROVE  /\ e \in [at : Nat, uid : Nat, kind : {"UpdateDelay", "EndBurst"}]
         /\ e.at >= now
         /\ \A f \in agenda : e.at <= f.at
         /\ ~disposed
         /\ inBurst => e.at <= burstEndTime
<1>1. e \in [at : Nat, uid : Nat, kind : {"UpdateDelay", "EndBurst"}]
  BY DEF IInv, TypeOK
<1>2. \A f \in agenda : f.at \in Nat /\ e.at <= f.at
  <2>1. \A f \in agenda : f.at \in Nat /\ e.at \in Nat
    BY <1>1 DEF IInv, TypeOK
  <2> QED  BY <2>1 DEF IsNext, Precedes
<1>3. e.kind = "UpdateDelay" \/ e.kind = "EndBurst"
  BY <1>1
<1>4. ~disposed
  BY <1>3 DEF IInv, UpdatesChained, UpdatesToCome, BurstsEnd, BurstEnds
<1>5. inBurst => e.at <= burstEndTime
  BY <1>2, <1>4 DEF IInv, BurstsEnd
<1>6. e.at >= now
  BY DEF IInv, NothingOverdue
<1> QED  BY <1>1, <1>2, <1>4, <1>5, <1>6

\* The end of a burst (EndBurst).
LEMMA EndBurstIInv ==
  ASSUME IInv, NEW e \in agenda, IsNext(e, agenda), e.kind = "EndBurst",
         now' = e.at,
         spentInBursts' = IF inBurst THEN spentInBursts + (e.at - now) ELSE spentInBursts,
         EndBurst(e),
         UNCHANGED <<settingVars, initialized, disposed>>
  PROVE  IInv'
<1>1. PICK v \in Variations :
        currentDelay' = NormalDelay(v) /\ history' = EndBurstSamples(e.at, v)
  BY DEF EndBurst
<1>2. /\ inBurst' = FALSE
      /\ agenda' = (agenda \ {e}) \ BurstEnds(agenda)
      /\ UNCHANGED <<uid, burstEndTime, totalBurstDuration, subclass, baseDelay, maxDeviation,
                     updateInterval, initialized, disposed>>
  BY DEF EndBurst, settingVars
<1>3. TypeOK
  BY DEF IInv
<1>4. /\ e.at \in Nat /\ e.at >= now /\ ~disposed
      /\ \A f \in agenda : e.at <= f.at
  BY NextEvent
<1>5. e \in BurstEnds(agenda)
  BY DEF BurstEnds
<1>6. inBurst /\ e.at = burstEndTime
  BY <1>4, <1>5 DEF IInv, BurstsEnd
<1>7. agenda' = UpdatesToCome
  BY <1>2, <1>3, <1>5 DEF BurstEnds, UpdatesToCome, TypeOK
<1>8. TypeOK'
  <2>1. currentDelay' \in Int
    BY <1>1, <1>3, DelaysAreNumbers
  <2>2. history' \in Seq(Records) /\ Len(history') <= MaxHistorySize
    BY <1>1, <1>3, <1>4, DelaysAreNumbers, RecordedSamples DEF EndBurstSamples, TypeOK
  <2>3. now' \in Nat /\ spentInBursts' \in Nat
    BY <1>3, <1>4 DEF TypeOK
  <2>4. agenda' \subseteq [at : Nat, uid : Nat, kind : {"UpdateDelay", "EndBurst"}]
    BY <1>2, <1>3 DEF TypeOK
  <2>5. initialized' \in BOOLEAN /\ inBurst' \in BOOLEAN /\ disposed' \in BOOLEAN
    BY <1>2, <1>3 DEF TypeOK
  <2> QED  BY <1>2, <1>3, <2>1, <2>2, <2>3, <2>4, <2>5 DEF TypeOK
<1>9. UpdatesChained'
  BY <1>2, <1>7 DEF IInv, UpdatesChained, UpdatesToCome
<1>10. BurstsEnd'
  BY <1>2, <1>7 DEF BurstsEnd, BurstEnds, UpdatesToCome
<1>11. NothingOverdue'
  BY <1>2, <1>4 DEF NothingOverdue
<1>12. BurstTimeAccounted'
  BY <1>2, <1>3, <1>4, <1>6 DEF IInv, TypeOK, BurstTimeAccounted
<1> QED  BY <1>2, <1>8, <1>9, <1>10, <1>11, <1>12 DEF IInv

\* An update (UpdateDelay, with DoUpdateDelay and StartBurst).
LEMMA UpdateDelayIInv ==
  ASSUME IInv, NEW e \in agenda, IsNext(e, agenda), e.kind = "UpdateDelay",
         now' = e.at,
         spentInBursts' = IF inBurst THEN spentInBursts + (e.at - now) ELSE spentInBursts,
         UpdateDelay(e),
         UNCHANGED <<settingVars, initialized, disposed>>
  PROVE  IInv'
<1> DEFINE over == inBurst /\ e.at >= burstEndTime
           next == EventAt(e.at + updateInterval, UidsOfUpdate.update, "UpdateDelay")
           rest == IF over THEN (agenda \ {e}) \ BurstEnds(agenda) ELSE agenda \ {e}
           end(drawn) == EventAt(e.at + EndsAfter(drawn), UidsOfUpdate.end, "EndBurst")
           Events == [at : Nat, uid : Nat, kind : {"UpdateDelay", "EndBurst"}]
<1>1. TypeOK /\ (subclass = "static" => ~inBurst)
  BY DEF IInv
<1>2. /\ e.at \in Nat /\ e.at >= now /\ ~disposed
      /\ \A f \in agenda : f.at >= e.at
      /\ inBurst => e.at <= burstEndTime
  BY NextEvent, <1>1 DEF TypeOK
<1>3. /\ uid' = uid + 2
      /\ UNCHANGED <<subclass, baseDelay, maxDeviation, updateInterval, initialized, disposed>>
  BY DEF UpdateDelay, settingVars
<1>4. initialized /\ UpdatesToCome = {e}
  <2>1. e \in UpdatesToCome
    BY DEF UpdatesToCome
  <2> QED  BY <2>1 DEF IInv, UpdatesChained
<1>5. \A drawn \in BurstDurations : EndsAfter(drawn) \in Nat
  BY BurstsHaveLength
<1>6. /\ updateInterval \in Nat /\ uid \in Nat
      /\ UidsOfUpdate.update \in Nat /\ UidsOfUpdate.end \in Nat
  BY <1>1, DelayAssumption DEF TypeOK, UidsOfUpdate
<1>7. /\ next \in Events /\ next.kind = "UpdateDelay" /\ next.at >= e.at
      /\ \A drawn \in BurstDurations :
           /\ end(drawn) \in Events
           /\ end(drawn).kind = "EndBurst"
           /\ end(drawn).at = e.at + EndsAfter(drawn)
  BY <1>2, <1>5, <1>6 DEF EventAt
<1>8. /\ rest \subseteq agenda
      /\ \A f \in rest : f.kind # "UpdateDelay"
      /\ BurstEnds(rest) = IF over THEN {} ELSE BurstEnds(agenda)
  BY <1>1, <1>4 DEF BurstEnds, UpdatesToCome
<1>9. /\ \A samples \in Seq(Records), delay \in Int, isBurst \in BOOLEAN :
           /\ RecordDelay(samples, e.at, delay, isBurst) \in Seq(Records)
           /\ Len(RecordDelay(samples, e.at, delay, isBurst)) <= MaxHistorySize
      /\ \A v \in Variations : EndBurstSamples(e.at, v) \in Seq(Records)
      /\ history \in Seq(Records)
  BY <1>1, <1>2, RecordedSamples, DelaysAreNumbers DEF EndBurstSamples, TypeOK
<1>10. now' \in Nat /\ spentInBursts' \in Nat
  BY <1>1, <1>2 DEF TypeOK
<1> DEFINE Sampled == /\ currentDelay' \in Int
                      /\ history' \in Seq(Records)
                      /\ Len(history') <= MaxHistorySize
           NoNewBurst == /\ Sampled
                         /\ agenda' = rest \cup {next}
                         /\ inBurst' <=> inBurst /\ ~over
                         /\ inBurst' \in BOOLEAN
                         /\ UNCHANGED <<burstEndTime, totalBurstDuration>>
           NewBurst == /\ Sampled
                       /\ subclass = "burst"
                       /\ ~inBurst \/ over
                       /\ \E drawn \in BurstDurations :
                            /\ burstEndTime' = e.at + BurstLength(drawn)
                            /\ totalBurstDuration' = AddBurst(drawn)
                            /\ agenda' = rest \cup {next, end(drawn)}
                       /\ inBurst' = TRUE
<1>11. NoNewBurst \/ NewBurst
  <2> PICK w \in Variations :
        LET samples == IF over THEN EndBurstSamples(e.at, w) ELSE history
        IN \/ /\ subclass = "static"
              /\ currentDelay' = baseDelay
              /\ history' = RecordDelay(history, e.at, baseDelay, FALSE)
              /\ agenda' = rest \cup {next}
              /\ UNCHANGED burstVars
           \/ /\ subclass = "burst" /\ inBurst /\ ~over
              /\ currentDelay' = ContinuedDelay(w)
              /\ history' = RecordDelay(history, e.at, ContinuedDelay(w), TRUE)
              /\ agenda' = rest \cup {next}
              /\ UNCHANGED burstVars
           \/ /\ subclass = "burst" /\ (~inBurst \/ over)
              /\ \E v \in Variations :
                   /\ currentDelay' = NormalDelay(v)
                   /\ history' = RecordDelay(samples, e.at, NormalDelay(v), FALSE)
              /\ inBurst' = FALSE
              /\ agenda' = rest \cup {next}
              /\ UNCHANGED <<burstEndTime, totalBurstDuration>>
           \/ /\ subclass = "burst" /\ (~inBurst \/ over)
              /\ \E drawn \in BurstDurations :
                   /\ burstEndTime' = e.at + BurstLength(drawn)
                   /\ totalBurstDuration' = AddBurst(drawn)
                   /\ agenda' = rest \cup {next, end(drawn)}
              /\ inBurst' = TRUE
              /\ currentDelay' = BurstDelay
              /\ history' = RecordDelay(samples, e.at, BurstDelay, TRUE)
    BY DEF UpdateDelay
  <2> DEFINE samples == IF over THEN EndBurstSamples(e.at, w) ELSE history
  <2>1. samples \in Seq(Records)
    BY <1>9
  <2>2. /\ baseDelay \in Int /\ BurstDelay \in Int /\ ContinuedDelay(w) \in Int
        /\ \A v \in Variations : NormalDelay(v) \in Int
    BY <1>1, DelaysAreNumbers
  <2> HIDE DEF samples, rest, next, end, over
  <2>3. CASE /\ subclass = "static"
             /\ currentDelay' = baseDelay
             /\ history' = RecordDelay(history, e.at, baseDelay, FALSE)
             /\ agenda' = rest \cup {next}
             /\ UNCHANGED burstVars
    <3>1. Sampled
      BY <1>9, <2>2, <2>3
    <3>2. (inBurst' <=> inBurst /\ ~over) /\ inBurst' \in BOOLEAN
      BY <1>1, <2>3 DEF burstVars, TypeOK
    <3> QED  BY <2>3, <3>1, <3>2 DEF burstVars
  <2>4. CASE /\ inBurst /\ ~over
             /\ currentDelay' = ContinuedDelay(w)
             /\ history' = RecordDelay(history, e.at, ContinuedDelay(w), TRUE)
             /\ agenda' = rest \cup {next}
             /\ UNCHANGED burstVars
    <3>1. Sampled
      BY <1>9, <2>2, <2>4
    <3>2. (inBurst' <=> inBurst /\ ~over) /\ inBurst' \in BOOLEAN
      BY <1>1, <2>4 DEF burstVars, TypeOK
    <3> QED  BY <2>4, <3>1, <3>2 DEF burstVars
  <2>5. CASE /\ ~inBurst \/ over
             /\ \E v \in Variations :
                  /\ currentDelay' = NormalDelay(v)
                  /\ history' = RecordDelay(samples, e.at, NormalDelay(v), FALSE)
             /\ inBurst' = FALSE
             /\ agenda' = rest \cup {next}
             /\ UNCHANGED <<burstEndTime, totalBurstDuration>>
    <3>1. Sampled
      BY <1>9, <2>1, <2>2, <2>5
    <3>2. (inBurst' <=> inBurst /\ ~over) /\ inBurst' \in BOOLEAN
      BY <2>5
    <3> QED  BY <2>5, <3>1, <3>2
  <2>6. CASE /\ subclass = "burst"
             /\ ~inBurst \/ over
             /\ \E drawn \in BurstDurations :
                  /\ burstEndTime' = e.at + BurstLength(drawn)
                  /\ totalBurstDuration' = AddBurst(drawn)
                  /\ agenda' = rest \cup {next, end(drawn)}
             /\ inBurst' = TRUE
             /\ currentDelay' = BurstDelay
             /\ history' = RecordDelay(samples, e.at, BurstDelay, TRUE)
    <3>1. Sampled
      BY <1>9, <2>1, <2>2, <2>6
    <3> QED  BY <2>6, <3>1
  <2> QED  BY <2>3, <2>4, <2>5, <2>6 DEF samples, rest, next, end, over
<1> HIDE DEF rest, next, end
<1>12. CASE NoNewBurst
  <2>1. TypeOK'
    <3>1. agenda' \subseteq Events
      BY <1>1, <1>7, <1>8, <1>12 DEF TypeOK
    <3>2. initialized' \in BOOLEAN /\ inBurst' \in BOOLEAN /\ disposed' \in BOOLEAN
      BY <1>1, <1>3, <1>12 DEF TypeOK
    <3>3. burstEndTime' \in Nat /\ totalBurstDuration' \in Nat
      BY <1>1, <1>12 DEF TypeOK
    <3>4. uid' \in Nat
      BY <1>3, <1>6
    <3> QED  BY <1>1, <1>3, <1>10, <1>12, <3>1, <3>2, <3>3, <3>4 DEF TypeOK
  <2>2. UpdatesChained'
    BY <1>2, <1>3, <1>4, <1>7, <1>8, <1>12 DEF UpdatesChained, UpdatesToCome
  <2>3. BurstEnds(agenda') = BurstEnds(rest)
    BY <1>7, <1>12 DEF BurstEnds
  <2>4. BurstsEnd'
    <3>1. CASE inBurst'
      <4>1. inBurst /\ ~over /\ burstEndTime' = burstEndTime /\ ~disposed'
        BY <1>2, <1>3, <1>12, <3>1
      <4>2. PICK f \in agenda : BurstEnds(agenda) = {f} /\ f.at = burstEndTime
        BY <1>2, <4>1 DEF IInv, BurstsEnd
      <4>3. BurstEnds(agenda') = {f}
        BY <1>8, <2>3, <4>1, <4>2
      <4>4. f \in agenda'
        BY <4>3 DEF BurstEnds
      <4> QED  BY <3>1, <4>1, <4>2, <4>3, <4>4 DEF BurstsEnd, BurstEnds
    <3>2. CASE ~inBurst'
      <4>1. over \/ ~inBurst
        BY <1>12, <3>2
      <4>2. BurstEnds(agenda') = {}
        BY <1>8, <2>3, <4>1 DEF IInv, BurstsEnd
      <4> QED  BY <3>2, <4>2 DEF BurstsEnd, BurstEnds
    <3> QED  BY <3>1, <3>2
  <2>5. NothingOverdue'
    BY <1>2, <1>7, <1>8, <1>12 DEF NothingOverdue
  <2>6. BurstTimeAccounted'
    <3>1. totalBurstDuration = spentInBursts + IF inBurst THEN burstEndTime - now ELSE 0
      BY <1>2 DEF IInv, BurstTimeAccounted
    <3>2. CASE inBurst /\ over
      BY <1>1, <1>2, <1>12, <3>1, <3>2 DEF BurstTimeAccounted, TypeOK
    <3>3. CASE inBurst /\ ~over
      <4>1. inBurst'
        BY <1>12, <3>3
      <4>2. /\ totalBurstDuration = spentInBursts + (burstEndTime - now)
            /\ spentInBursts' = spentInBursts + (e.at - now)
        BY <3>1, <3>3
      <4>3. totalBurstDuration = spentInBursts' + (burstEndTime - e.at)
        <5>1. /\ burstEndTime \in Nat /\ now \in Nat /\ spentInBursts \in Nat
              /\ e.at \in Nat
          BY <1>1, <1>2 DEF TypeOK
        <5> HIDE DEF over
        <5> QED  BY <4>2, <5>1
      <4>4. burstEndTime' = burstEndTime /\ totalBurstDuration' = totalBurstDuration
        BY <1>12
      <4>5. totalBurstDuration' = spentInBursts' + (burstEndTime' - now')
        BY <4>3, <4>4
      <4> QED  BY <4>1, <4>5 DEF BurstTimeAccounted
    <3>4. CASE ~inBurst
      BY <1>1, <1>2, <1>12, <3>1, <3>4 DEF BurstTimeAccounted, TypeOK
    <3> QED  BY <3>2, <3>3, <3>4
  <2>7. (subclass = "static" => ~inBurst)'
    BY <1>1, <1>3, <1>12
  <2> QED  BY <2>1, <2>2, <2>4, <2>5, <2>6, <2>7 DEF IInv
<1>13. CASE NewBurst
  <2>1. PICK drawn \in BurstDurations :
          /\ burstEndTime' = e.at + BurstLength(drawn)
          /\ totalBurstDuration' = AddBurst(drawn)
          /\ agenda' = rest \cup {next, end(drawn)}
    BY <1>13
  <2> DEFINE last == end(drawn)
             length == BurstLength(drawn)
  <2>2. /\ length \in Nat /\ last \in Events /\ last.kind = "EndBurst"
        /\ last.at = e.at + length
        /\ totalBurstDuration' = totalBurstDuration + length
        /\ burstEndTime' = e.at + length
        /\ agenda' = rest \cup {next, last}
    BY <1>1, <1>7, <2>1, BurstsHaveLength DEF TypeOK
  <2> HIDE DEF last, length
  <2>3. inBurst' = TRUE /\ (~inBurst \/ over)
    BY <1>13
  <2>4. TypeOK'
    <3>1. agenda' \subseteq Events
      BY <1>1, <1>7, <1>8, <2>2 DEF TypeOK
    <3>2. initialized' \in BOOLEAN /\ inBurst' \in BOOLEAN /\ disposed' \in BOOLEAN
      BY <1>1, <1>3, <2>3 DEF TypeOK
    <3>3. burstEndTime' \in Nat /\ totalBurstDuration' \in Nat
      BY <1>1, <1>2, <2>2 DEF TypeOK
    <3>4. uid' \in Nat
      BY <1>3, <1>6
    <3> QED  BY <1>1, <1>3, <1>10, <1>13, <3>1, <3>2, <3>3, <3>4 DEF TypeOK
  <2>5. UpdatesChained'
    BY <1>2, <1>3, <1>4, <1>7, <1>8, <2>2 DEF UpdatesChained, UpdatesToCome
  <2>6. BurstEnds(rest) = {}
    BY <1>8, <2>3 DEF IInv, BurstsEnd
  <2>7. BurstEnds(agenda') = {last} /\ last \in agenda'
    BY <1>7, <2>2, <2>6 DEF BurstEnds
  <2>8. BurstsEnd'
    BY <2>2, <2>3, <2>7, <1>2, <1>3 DEF BurstsEnd, BurstEnds
  <2>9. NothingOverdue'
    <3>1. last.at >= e.at
      BY <1>2, <2>2
    <3> QED  BY <1>2, <1>7, <1>8, <2>2, <3>1 DEF NothingOverdue
  <2>10. BurstTimeAccounted'
    <3>1. totalBurstDuration = spentInBursts + IF inBurst THEN burstEndTime - now ELSE 0
      BY <1>2 DEF IInv, BurstTimeAccounted
    <3>2. totalBurstDuration = spentInBursts'
      <4>1. CASE inBurst
        BY <1>1, <1>2, <2>3, <3>1, <4>1 DEF TypeOK
      <4>2. CASE ~inBurst
        BY <1>1, <3>1, <4>2 DEF TypeOK
      <4> QED  BY <4>1, <4>2
    <3>3. burstEndTime' - now' = length
      BY <1>2, <2>2
    <3> QED  BY <1>1, <2>2, <2>3, <3>2, <3>3 DEF BurstTimeAccounted
  <2>11. (subclass = "static" => ~inBurst)'
    BY <1>1, <1>3, <1>13
  <2> QED  BY <2>4, <2>5, <2>8, <2>9, <2>10, <2>11 DEF IInv
<1> QED  BY <1>11, <1>12, <1>13

LEMMA NextIInv ==
  ASSUME IInv, [Next]_vars
  PROVE  IInv'
<1>1. CASE RunEvent
  <2>1. PICK e \in agenda :
          /\ IsNext(e, agenda)
          /\ now' = e.at
          /\ spentInBursts' = IF inBurst THEN spentInBursts + (e.at - now) ELSE spentInBursts
          /\ \/ e.kind = "UpdateDelay" /\ UpdateDelay(e)
             \/ e.kind = "EndBurst" /\ EndBurst(e)
          /\ UNCHANGED <<settingVars, initialized, disposed>>
    BY <1>1 DEF RunEvent
  <2>2. CASE e.kind = "UpdateDelay" /\ UpdateDelay(e)
    BY <2>1, <2>2, UpdateDelayIInv
  <2>3. CASE e.kind = "EndBurst" /\ EndBurst(e)
    BY <2>1, <2>3, EndBurstIInv
  <2> QED  BY <2>1, <2>2, <2>3
<1>2. CASE OtherEvent
  BY <1>2, OtherEventIInv
<1>3. ASSUME NEW i \in UpdateIntervals, Initialize(i)
      PROVE  IInv'
  BY <1>3, InitializeIInv
<1>4. ASSUME NEW i \in UpdateIntervals, SetUpdateInterval(i)
      PROVE  IInv'
  <2>1. TypeOK'
    BY <1>4 DEF SetUpdateInterval, burstVars, IInv, TypeOK
  <2> QED  BY <1>4, <2>1, SettingIInv DEF SetUpdateInterval
<1>5. ASSUME NEW d \in BaseDelays, SetBaseDelay(d)
      PROVE  IInv'
  <2>1. TypeOK'
    BY <1>5, DelayAssumption DEF SetBaseDelay, burstVars, IInv, TypeOK
  <2> QED  BY <1>5, <2>1, SettingIInv DEF SetBaseDelay
<1>6. ASSUME NEW d \in BaseDelays, SetFixedDelay(d)
      PROVE  IInv'
  <2>1. TypeOK'
    BY <1>6, DelayAssumption DEF SetFixedDelay, burstVars, IInv, TypeOK
  <2> QED  BY <1>6, <2>1, SettingIInv DEF SetFixedDelay
<1>7. ASSUME NEW d \in MaxDeviations, SetMaxDeviation(d)
      PROVE  IInv'
  <2>1. TypeOK'
    BY <1>7 DEF SetMaxDeviation, burstVars, IInv, TypeOK
  <2> QED  BY <1>7, <2>1, SettingIInv DEF SetMaxDeviation
<1>8. CASE ClearHistory
  <2>1. <<>> \in Seq(Records) /\ Len(<<>>) = 0 /\ MaxHistorySize \in Nat
    BY DelayAssumption
  <2>2. TypeOK'
    BY <1>8, <2>1 DEF ClearHistory, settingVars, burstVars, IInv, TypeOK
  <2> QED  BY <1>8, <2>2, SettingIInv DEF ClearHistory, settingVars
<1>9. CASE DoDispose
  BY <1>9, DisposeIInv
<1>10. CASE UNCHANGED vars
  BY <1>10 DEF vars, settingVars, burstVars, IInv, TypeOK, UpdatesChained, UpdatesToCome,
               BurstsEnd, BurstEnds, NothingOverdue, BurstTimeAccounted
<1> QED  BY <1>1, <1>2, <1>3, <1>4, <1>5, <1>6, <1>7, <1>8, <1>9, <1>10 DEF Next

\* Every reachable state keeps the invariant.
THEOREM Invariance == Spec => []IInv
<1>1. Init => IInv
  BY InitIInv
<1>2. IInv /\ [Next]_vars => IInv'
  BY NextIInv
<1> QED  BY <1>1, <1>2, PTL DEF Spec

\* Every variable of a delay model has values of its kind, and the history stays within its
\* limit (QuantumDelayModel, RecordDelay).
THEOREM TypeCorrect == Spec => []TypeOK
<1>1. IInv => TypeOK
  BY DEF IInv
<1> QED  BY <1>1, Invariance, PTL

\* At any time one update and one end of a burst at most are to come, each when it must be
\* (Initialize, UpdateDelay, StartBurst, EndBurst, DoUpdateDelay).
THEOREM OneEvent == Spec => []OneEventOfAKind
<1>1. IInv => OneEventOfAKind
  <2> SUFFICES ASSUME IInv  PROVE OneEventOfAKind
    OBVIOUS
  <2>1. Cardinality({}) = 0 /\ \A x : Cardinality({x}) = 1
    BY FS_EmptySet, FS_Singleton
  <2>2. Cardinality(UpdatesToCome) = IF initialized /\ ~disposed THEN 1 ELSE 0
    BY <2>1 DEF IInv, UpdatesChained
  <2>3. ASSUME ~disposed
        PROVE  /\ inBurst <=> BurstEnds(agenda) # {}
               /\ \A e \in BurstEnds(agenda) : e.at = burstEndTime /\ e.at >= now
               /\ Cardinality(BurstEnds(agenda)) <= 1
    <3>1. \A e \in BurstEnds(agenda) : e.at >= now
      BY DEF IInv, NothingOverdue, BurstEnds
    <3>2. CASE inBurst
      <4>1. PICK e \in agenda : BurstEnds(agenda) = {e} /\ e.at = burstEndTime
        BY <2>3, <3>2 DEF IInv, BurstsEnd
      <4>2. Cardinality(BurstEnds(agenda)) = 1
        BY <2>1, <4>1
      <4> QED  BY <3>1, <3>2, <4>1, <4>2
    <3>3. CASE ~inBurst
      <4>1. BurstEnds(agenda) = {}
        BY <3>3 DEF IInv, BurstsEnd
      <4> QED  BY <2>1, <3>3, <4>1
    <3> QED  BY <3>2, <3>3
  <2> QED  BY <2>2, <2>3 DEF OneEventOfAKind, UpdatesToCome
<1> QED  BY <1>1, Invariance, PTL

\* The burst statistics are the time that passed in bursts (StartBurst, EndBurst,
\* GetBurstStatistics).
THEOREM BurstTimeIsReal == Spec => []BurstTimeAccounted
<1>1. IInv => BurstTimeAccounted
  BY DEF IInv
<1> QED  BY <1>1, Invariance, PTL

(***************************************************************************)
(*                                                                         *)
(*                              SWAP SCHEDULE                              *)
(*                                                                         *)
(***************************************************************************)

(***************************************************************************)
(* Induction                                                               *)
(***************************************************************************)
\* The theorems of the library on induction take an operator. With sets in its
\* place they follow from WFMin: the least number that is not in S.
LEMMA NatSetInduction ==
  ASSUME NEW S \in SUBSET Nat, 0 \in S, \A n \in S : n + 1 \in S
  PROVE  S = Nat
<1> SUFFICES ASSUME Nat \ S # {}
             PROVE  FALSE
  OBVIOUS
<1>1. IsWellFoundedOn(OpToRel(<, Nat), Nat)
  BY Zenon, NatLessThanWellFounded
<1>2. PICK n \in Nat \ S : \A m \in Nat \ S : <<m, n>> \notin OpToRel(<, Nat)
  BY Zenon, <1>1, WFMin
<1>3. n # 0 /\ n - 1 \in Nat /\ n - 1 < n
  OBVIOUS
<1> DEFINE m == n - 1
<1> HIDE DEF m
<1>4. <<m, n>> \in OpToRel(<, Nat)
  <2>1. <<m, n>>[1] < <<m, n>>[2]
    BY <1>3 DEF m
  <2>2. <<m, n>> \in {ss \in Nat \X Nat : ss[1] < ss[2]}
    BY <1>3, <2>1 DEF m
  <2> QED  BY Zenon, <2>2 DEF OpToRel
<1>5. m \in S
  <2>1. m \in Nat
    BY <1>3 DEF m
  <2> QED  BY Zenon, <1>2, <1>4, <2>1
<1> QED  BY <1>3, <1>5 DEF m

\* Next to a member of a set of numbers that is not its last, or first, lies a closest one.
LEMMA ClosestMembers ==
  ASSUME NEW H \in SUBSET Int, NEW i \in H, NEW j \in H, i < j
  PROVE  /\ \E k \in H : i < k /\ \A c \in H : ~(i < c /\ c < k)
         /\ \E k \in H : k < j /\ \A c \in H : ~(k < c /\ c < j)
<1>1. \E k \in H : i < k /\ \A c \in H : ~(i < c /\ c < k)
  <2> DEFINE S == {d \in Nat : \A k \in H : k - i <= d => ~(i < k)}
  <2>1. CASE \A d \in S : d + 1 \in S
    <3>1. 0 \in S /\ S \in SUBSET Nat
      OBVIOUS
    <3> HIDE DEF S
    <3>2. S = Nat
      BY <2>1, <3>1, NatSetInduction
    <3>3. j - i \in S
      BY <3>2
    <3> QED  BY <3>3 DEF S
  <2>2. CASE \E d \in S : d + 1 \notin S
    <3>1. PICK d \in S : d + 1 \notin S
      BY <2>2
    <3>2. PICK k \in H : k - i <= d + 1 /\ i < k
      BY <3>1
    <3>3. \A c \in H : ~(i < c /\ c < k)
      BY <3>1, <3>2
    <3> QED  BY <3>2, <3>3
  <2> QED  BY <2>1, <2>2
<1>2. \E k \in H : k < j /\ \A c \in H : ~(k < c /\ c < j)
  <2> DEFINE S == {d \in Nat : \A k \in H : j - k <= d => ~(k < j)}
  <2>1. CASE \A d \in S : d + 1 \in S
    <3>1. 0 \in S /\ S \in SUBSET Nat
      OBVIOUS
    <3> HIDE DEF S
    <3>2. S = Nat
      BY <2>1, <3>1, NatSetInduction
    <3>3. j - i \in S
      BY <3>2
    <3> QED  BY <3>3 DEF S
  <2>2. CASE \E d \in S : d + 1 \notin S
    <3>1. PICK d \in S : d + 1 \notin S
      BY <2>2
    <3>2. PICK k \in H : j - k <= d + 1 /\ k < j
      BY <3>1
    <3>3. \A c \in H : ~(k < c /\ c < j)
      BY <3>1, <3>2
    <3> QED  BY <3>2, <3>3
  <2> QED  BY <2>1, <2>2
<1> QED  BY <1>1, <1>2

(***************************************************************************)
(* Powers of two                                                           *)
(***************************************************************************)
Doubles(g, n) == g = [i \in 0 .. n |-> IF i = 0 THEN 1 ELSE 2 * g[i - 1]]

\* There are the first powers of two, and only one function gives them.
LEMMA DoublesExist ==
  ASSUME NEW n \in Nat
  PROVE  \E g : Doubles(g, n)
<1> DEFINE S == {m \in Nat : \E g : Doubles(g, m)}
<1>1. 0 \in S
  <2> DEFINE g == [i \in 0 .. 0 |-> 1]
  <2>1. Doubles(g, 0)
    BY DEF Doubles
  <2> QED  BY <2>1
<1>2. ASSUME NEW m \in S
      PROVE  m + 1 \in S
  <2>1. PICK g : Doubles(g, m)
    OBVIOUS
  <2> DEFINE h == [i \in 0 .. m + 1 |-> IF i = m + 1 THEN 2 * g[m] ELSE g[i]]
  <2>2. m \in Nat
    OBVIOUS
  <2>3. ASSUME NEW i \in 0 .. m + 1
        PROVE  h[i] = IF i = 0 THEN 1 ELSE 2 * h[i - 1]
    <3>1. CASE i = m + 1
      BY <2>2, <3>1
    <3>2. CASE i \in 0 .. m
      <4>1. g[i] = IF i = 0 THEN 1 ELSE 2 * g[i - 1]
        BY <2>1, <3>2 DEF Doubles
      <4>2. h[i] = g[i] /\ (i # 0 => h[i - 1] = g[i - 1])
        BY <2>2, <3>2
      <4> QED  BY <4>1, <4>2
    <3> QED  BY <2>2, <3>1, <3>2
  <2>4. Doubles(h, m + 1)
    BY <2>3 DEF Doubles
  <2> HIDE DEF h
  <2> QED  BY <2>2, <2>4
<1> HIDE DEF S
<1>3. S \in SUBSET Nat
  BY DEF S
<1>4. n \in S
  BY <1>1, <1>2, <1>3, NatSetInduction
<1> QED  BY <1>4 DEF S

LEMMA DoublesAgree ==
  ASSUME NEW n \in Nat, NEW m \in 0 .. n, NEW g, NEW h, Doubles(g, n), Doubles(h, m)
  PROVE  g[m] = h[m]
<1> DEFINE S == {i \in Nat : i <= m => g[i] = h[i]}
<1>1. 0 \in S
  BY DEF Doubles
<1>2. ASSUME NEW i \in S
      PROVE  i + 1 \in S
  <2> SUFFICES ASSUME i + 1 <= m
               PROVE  g[i + 1] = h[i + 1]
    OBVIOUS
  <2>1. i + 1 \in 0 .. n /\ i + 1 \in 0 .. m /\ i + 1 # 0 /\ (i + 1) - 1 = i
    OBVIOUS
  <2>2. g[i + 1] = 2 * g[i]
    BY <2>1 DEF Doubles
  <2>3. h[i + 1] = 2 * h[i]
    BY <2>1 DEF Doubles
  <2> QED  BY <2>1, <2>2, <2>3
<1> HIDE DEF S
<1>3. S \in SUBSET Nat
  BY DEF S
<1>4. m \in S
  BY <1>1, <1>2, <1>3, NatSetInduction
<1> QED  BY <1>4 DEF S

LEMMA PowerOfTwoDefined ==
  PowerOfTwo = [n \in Nat |-> IF n = 0 THEN 1 ELSE 2 * PowerOfTwo[n - 1]]
<1> DEFINE upTo(n) == CHOOSE g : Doubles(g, n)
           f == [n \in Nat |-> upTo(n)[n]]
<1>1. \A n \in Nat : Doubles(upTo(n), n)
  BY DoublesExist
<1> HIDE DEF upTo
<1>2. ASSUME NEW n \in Nat
      PROVE  f[n] = IF n = 0 THEN 1 ELSE 2 * f[n - 1]
  <2>1. f[n] = upTo(n)[n]
    OBVIOUS
  <2>2. CASE n = 0
    BY <1>1, <2>1, <2>2 DEF Doubles
  <2>3. CASE n # 0
    <3>1. n - 1 \in Nat /\ n - 1 \in 0 .. n /\ n \in 0 .. n
      BY <2>3
    <3>2. upTo(n)[n] = 2 * upTo(n)[n - 1]
      BY <1>1, <2>3, <3>1 DEF Doubles
    <3>3. upTo(n)[n - 1] = upTo(n - 1)[n - 1]
      BY <1>1, <3>1, DoublesAgree
    <3>4. f[n - 1] = upTo(n - 1)[n - 1]
      BY <3>1
    <3> HIDE DEF f
    <3> QED  BY <2>1, <2>3, <3>2, <3>3, <3>4
  <2> QED  BY <2>2, <2>3
<1>3. f = [n \in Nat |-> f[n]]
  OBVIOUS
<1> HIDE DEF f
<1>4. f = [n \in Nat |-> IF n = 0 THEN 1 ELSE 2 * f[n - 1]]
  BY Zenon, <1>2, <1>3
<1> QED  BY <1>4 DEF PowerOfTwo

\* The powers of two double, and grow beyond any number.
LEMMA PowersOfTwo ==
  /\ PowerOfTwo[0] = 1
  /\ \A n \in Nat : /\ PowerOfTwo[n] \in Nat
                    /\ PowerOfTwo[n] > n
                    /\ PowerOfTwo[n + 1] = 2 * PowerOfTwo[n]
<1>1. PowerOfTwo[0] = 1
  BY PowerOfTwoDefined
<1>2. ASSUME NEW n \in Nat
      PROVE  PowerOfTwo[n + 1] = 2 * PowerOfTwo[n]
  <2>1. n + 1 \in Nat /\ n + 1 # 0 /\ (n + 1) - 1 = n
    OBVIOUS
  <2> QED  BY <2>1, PowerOfTwoDefined
<1> DEFINE S == {n \in Nat : PowerOfTwo[n] \in Nat /\ PowerOfTwo[n] > n}
<1>3. 0 \in S
  BY <1>1
<1>4. ASSUME NEW n \in S
      PROVE  n + 1 \in S
  BY <1>2
<1> HIDE DEF S
<1>5. S \in SUBSET Nat
  BY DEF S
<1>6. S = Nat
  BY <1>3, <1>4, <1>5, NatSetInduction
<1> QED  BY <1>1, <1>2, <1>6 DEF S

\* A power of two divides the greater ones.
LEMMA PowersDivide ==
  ASSUME NEW m \in Nat, NEW n \in Nat, m <= n
  PROVE  \E k \in Nat : PowerOfTwo[n] = k * PowerOfTwo[m]
<1> DEFINE S == {d \in Nat : \E k \in Nat : PowerOfTwo[m + d] = k * PowerOfTwo[m]}
<1>1. 0 \in S
  <2>1. PowerOfTwo[m + 0] = 1 * PowerOfTwo[m]
    BY PowersOfTwo
  <2> QED  BY <2>1
<1>2. ASSUME NEW d \in S
      PROVE  d + 1 \in S
  <2>1. PICK k \in Nat : PowerOfTwo[m + d] = k * PowerOfTwo[m]
    OBVIOUS
  <2>2. m + d \in Nat /\ m + (d + 1) = (m + d) + 1
    OBVIOUS
  <2>3. PowerOfTwo[m + (d + 1)] = 2 * (k * PowerOfTwo[m])
    BY <2>1, <2>2, PowersOfTwo
  <2>4. PowerOfTwo[m + (d + 1)] = (2 * k) * PowerOfTwo[m]
    BY <2>3, PowersOfTwo
  <2> QED  BY <2>4
<1> HIDE DEF S
<1>3. S \in SUBSET Nat
  BY DEF S
<1>4. n - m \in S
  BY <1>1, <1>2, <1>3, NatSetInduction
<1>5. m + (n - m) = n
  OBVIOUS
<1> QED  BY <1>4, <1>5 DEF S

(***************************************************************************)
(* The schedule                                                            *)
(***************************************************************************)
\* The relays of a round are the odd multiples of half its step.
LEMMA OddMultiples ==
  ASSUME NEW r \in Nat \ {0}, NEW hops \in Nat, NEW i
  PROVE  i \in NodesOfRound(r, hops) <=>
           /\ i \in 1 .. hops - 1
           /\ \E k \in Nat : i = (2 * k + 1) * PowerOfTwo[r - 1]
<1> DEFINE p == PowerOfTwo[r - 1]
<1>1. r - 1 \in Nat /\ (r - 1) + 1 = r
  OBVIOUS
<1>2. p \in Nat /\ p >= 1 /\ PowerOfTwo[r] = 2 * p
  BY <1>1, PowersOfTwo
<1>3. NodesOfRound(r, hops) = {j \in p .. (hops - 1) : (j - p) % (2 * p) = 0}
  BY <1>2 DEF NodesOfRound
<1> HIDE DEF p
<1>4. ASSUME i \in NodesOfRound(r, hops)
      PROVE  i \in 1 .. hops - 1 /\ \E k \in Nat : i = (2 * k + 1) * p
  <2>1. i \in Nat /\ p <= i /\ i <= hops - 1 /\ (i - p) % (2 * p) = 0
    BY <1>2, <1>3, <1>4
  <2> DEFINE k == (i - p) \div (2 * p)
  <2>2. k \in Nat /\ i - p = (2 * p) * k
    BY <1>2, <2>1
  <2> HIDE DEF k
  <2>3. i = (2 * k + 1) * p
    BY <1>2, <2>1, <2>2
  <2> QED  BY <1>2, <2>1, <2>2, <2>3
<1>5. ASSUME i \in 1 .. hops - 1, NEW k \in Nat, i = (2 * k + 1) * p
      PROVE  i \in NodesOfRound(r, hops)
  <2>1. i - p = k * (2 * p)
    BY <1>2, <1>5
  <2>2. k * p \in Nat
    BY <1>2
  <2>3. i \in Nat /\ i >= p /\ i - p \in Nat
    BY <1>2, <1>5, <2>1, <2>2
  <2>4. (i - p) % (2 * p) = 0
    BY <1>2, <2>1, <2>3
  <2> QED  BY <1>2, <1>3, <1>5, <2>3, <2>4
<1> QED  BY <1>4, <1>5 DEF p

\* A relay swaps in one round: a power of two divides an odd multiple of a smaller one never.
LEMMA OneRoundOnly ==
  ASSUME NEW q \in Nat \ {0}, NEW n \in Nat, q <= n, NEW h \in Nat, NEW k \in Nat
  PROVE  (2 * h + 1) * PowerOfTwo[q - 1] # k * PowerOfTwo[n]
<1> SUFFICES ASSUME (2 * h + 1) * PowerOfTwo[q - 1] = k * PowerOfTwo[n]
             PROVE  FALSE
  OBVIOUS
<1> DEFINE p == PowerOfTwo[q - 1]
<1>1. q - 1 \in Nat /\ (q - 1) + 1 = q
  OBVIOUS
<1>2. p \in Nat /\ p >= 1 /\ PowerOfTwo[q] = 2 * p
  BY <1>1, PowersOfTwo
<1>3. PICK c \in Nat : PowerOfTwo[n] = c * PowerOfTwo[q]
  BY PowersDivide
<1>4. (2 * h + 1) * p = k * (c * (2 * p))
  BY <1>2, <1>3
<1> HIDE DEF p
<1> DEFINE d == k * c
<1>5. d \in Nat /\ k * (c * (2 * p)) = (2 * d) * p
  BY <1>2
<1> HIDE DEF d
<1>6. (2 * h + 1) * p = (2 * d) * p
  BY <1>4, <1>5
<1>7. 2 * h + 1 = 2 * d
  <2>1. (2 * h + 1 - 2 * d) * p = 0
    BY <1>2, <1>5, <1>6
  <2> DEFINE e == 2 * h + 1 - 2 * d
  <2>2. e \in Int /\ e * p = 0
    BY <1>5, <2>1
  <2> HIDE DEF e
  <2>3. e = 0
    BY <1>2, <2>2
  <2> QED  BY <1>5, <2>3 DEF e
<1> QED  BY <1>5, <1>7

\* Every number below a power of two is an odd multiple of a smaller one.
LEMMA EveryNumberIsOddMultiple ==
  ASSUME NEW n \in Nat
  PROVE  \A i \in 1 .. PowerOfTwo[n] - 1 :
           \E r \in 1 .. n, k \in Nat : i = (2 * k + 1) * PowerOfTwo[r - 1]
<1> DEFINE P(m) == \A i \in 1 .. PowerOfTwo[m] - 1 :
                     \E r \in 1 .. m, k \in Nat : i = (2 * k + 1) * PowerOfTwo[r - 1]
           S == {m \in Nat : P(m)}
<1>1. 0 \in S
  BY PowersOfTwo
<1>2. ASSUME NEW m \in S
      PROVE  m + 1 \in S
  <2> SUFFICES ASSUME NEW i \in 1 .. PowerOfTwo[m + 1] - 1
               PROVE  \E r \in 1 .. m + 1, k \in Nat : i = (2 * k + 1) * PowerOfTwo[r - 1]
    OBVIOUS
  <2>1. m \in Nat /\ P(m)
    OBVIOUS
  <2>2. PowerOfTwo[m + 1] = 2 * PowerOfTwo[m] /\ PowerOfTwo[m] \in Nat
    BY <2>1, PowersOfTwo
  <2> HIDE DEF P, S
  <2> DEFINE j == i \div 2
  <2>3. i \in Nat /\ i >= 1 /\ i <= 2 * PowerOfTwo[m] - 1
    BY <2>2
  <2>4. j \in Nat /\ (i = 2 * j \/ i = 2 * j + 1)
    BY <2>3
  <2> HIDE DEF j
  <2>5. CASE i = 2 * j + 1
    <3>1. 1 \in 1 .. m + 1 /\ 1 - 1 = 0
      BY <2>1
    <3>2. i = (2 * j + 1) * PowerOfTwo[1 - 1]
      BY <2>4, <2>5, <3>1, PowersOfTwo
    <3> QED  BY <2>4, <3>1, <3>2
  <2>6. CASE i = 2 * j
    <3>1. j \in 1 .. PowerOfTwo[m] - 1
      BY <2>2, <2>3, <2>4, <2>6
    <3>2. PICK r \in 1 .. m, k \in Nat : j = (2 * k + 1) * PowerOfTwo[r - 1]
      BY <2>1, <3>1 DEF P
    <3>3. r + 1 \in 1 .. m + 1 /\ r \in Nat /\ r - 1 \in Nat /\ (r - 1) + 1 = r /\ (r + 1) - 1 = r
      BY <2>1
    <3>4. PowerOfTwo[(r + 1) - 1] = 2 * PowerOfTwo[r - 1] /\ PowerOfTwo[r - 1] \in Nat
      BY <3>3, PowersOfTwo
    <3>5. i = (2 * k + 1) * PowerOfTwo[(r + 1) - 1]
      BY <2>6, <3>2, <3>4
    <3> QED  BY <3>3, <3>5
  <2> QED  BY <2>4, <2>5, <2>6
<1> HIDE DEF S
<1>3. S \in SUBSET Nat
  BY DEF S
<1>4. n \in S
  BY <1>1, <1>2, <1>3, NatSetInduction
<1> QED  BY <1>4 DEF S

\* The rounds are enough for the length of the path.
LEMMA EnoughRounds ==
  ASSUME NEW hops \in Nat, hops >= 1
  PROVE  /\ GetNumSwapRounds(hops) \in Nat
         /\ hops <= PowerOfTwo[GetNumSwapRounds(hops)]
<1>1. CASE hops <= 1
  BY <1>1, PowersOfTwo DEF GetNumSwapRounds
<1>2. CASE hops > 1
  <2> DEFINE Enough(r) == PowerOfTwo[r - 1] < hops /\ hops <= PowerOfTwo[r]
             S == {n \in Nat : PowerOfTwo[n] < hops}
  <2>1. \E r \in 1 .. hops : Enough(r)
    <3> SUFFICES ASSUME \A r \in 1 .. hops : ~Enough(r)
                 PROVE  FALSE
      OBVIOUS
    <3> DEFINE T == {n \in Nat : n <= hops => PowerOfTwo[n] < hops}
    <3>1. 0 \in T
      BY <1>2, PowersOfTwo
    <3>2. ASSUME NEW n \in T
          PROVE  n + 1 \in T
      <4> SUFFICES ASSUME n + 1 <= hops
                   PROVE  PowerOfTwo[n + 1] < hops
        OBVIOUS
      <4>1. n + 1 \in 1 .. hops /\ (n + 1) - 1 = n /\ PowerOfTwo[n] < hops
        OBVIOUS
      <4>2. PowerOfTwo[n + 1] \in Nat
        BY <4>1, PowersOfTwo
      <4> QED  BY <4>1, <4>2
    <3> HIDE DEF T
    <3>3. T \in SUBSET Nat
      BY DEF T
    <3>4. hops \in T
      BY <3>1, <3>2, <3>3, NatSetInduction
    <3>5. PowerOfTwo[hops] < hops
      BY <3>4 DEF T
    <3> QED  BY <3>5, PowersOfTwo
  <2>2. GetNumSwapRounds(hops) = CHOOSE r \in 1 .. hops : Enough(r)
    BY <1>2 DEF GetNumSwapRounds
  <2> QED  BY <2>1, <2>2
<1> QED  BY <1>1, <1>2

\* The entries of a schedule.
LEMMA Entries ==
  ASSUME NEW hops \in Nat, hops >= 1, NEW e
  PROVE  e \in GenerateLogarithmicSwapSchedule(hops) <=>
           /\ e = [round |-> e.round, nodeIndex |-> e.nodeIndex, scheduledTime |-> e.round - 1]
           /\ e.round \in 1 .. GetNumSwapRounds(hops)
           /\ e.nodeIndex \in NodesOfRound(e.round, hops)
<1> DEFINE R == GetNumSwapRounds(hops)
           Entry(r, i) == [round |-> r, nodeIndex |-> i, scheduledTime |-> RoundStart(r)]
<1>1. R \in Nat
  BY EnoughRounds
<1>2. ASSUME NEW r \in 1 .. R
      PROVE  RoundStart(r) = r - 1
  BY <1>1 DEF RoundStart, Base
<1>3. CASE hops < 2
  <2>1. R = 0
    BY <1>3 DEF GetNumSwapRounds
  <2> QED  BY <1>3, <2>1 DEF GenerateLogarithmicSwapSchedule
<1>4. CASE ~(hops < 2)
  <2>1. GenerateLogarithmicSwapSchedule(hops)
          = UNION {{Entry(r, i) : i \in NodesOfRound(r, hops)} : r \in 1 .. R}
    BY <1>4 DEF GenerateLogarithmicSwapSchedule
  <2> HIDE DEF R
  <2>2. e \in GenerateLogarithmicSwapSchedule(hops) <=>
          \E r \in 1 .. R : \E i \in NodesOfRound(r, hops) : e = Entry(r, i)
    BY <2>1
  <2>3. \A r \in 1 .. R : \A i : Entry(r, i) = [round |-> r, nodeIndex |-> i, scheduledTime |-> r - 1]
    BY <1>2
  <2> HIDE DEF Entry
  <2>4. e \in GenerateLogarithmicSwapSchedule(hops) <=>
          \E r \in 1 .. R : \E i \in NodesOfRound(r, hops) :
            e = [round |-> r, nodeIndex |-> i, scheduledTime |-> r - 1]
    BY Zenon, <2>2, <2>3
  <2>5. ASSUME e \in GenerateLogarithmicSwapSchedule(hops)
        PROVE  /\ e = [round |-> e.round, nodeIndex |-> e.nodeIndex, scheduledTime |-> e.round - 1]
               /\ e.round \in 1 .. R
               /\ e.nodeIndex \in NodesOfRound(e.round, hops)
    <3>1. PICK r \in 1 .. R : \E i \in NodesOfRound(r, hops) :
            e = [round |-> r, nodeIndex |-> i, scheduledTime |-> r - 1]
      BY <2>4, <2>5
    <3>2. PICK i \in NodesOfRound(r, hops) :
            e = [round |-> r, nodeIndex |-> i, scheduledTime |-> r - 1]
      BY <3>1
    <3>3. e.round = r /\ e.nodeIndex = i
      BY <3>2
    <3> QED  BY <3>2, <3>3
  <2> QED  BY <2>4, <2>5 DEF R
<1> QED  BY <1>3, <1>4

\* An entry is one relay's in one round, and a relay has one entry.
LEMMA OneEntryEach ==
  ASSUME NEW hops \in Nat, hops >= 1,
         NEW d \in GenerateLogarithmicSwapSchedule(hops),
         NEW e \in GenerateLogarithmicSwapSchedule(hops)
  PROVE  /\ e.round \in Nat \ {0} /\ e.scheduledTime = e.round - 1
         /\ e.nodeIndex \in 1 .. hops - 1
         /\ \E k \in Nat : e.nodeIndex = (2 * k + 1) * PowerOfTwo[e.round - 1]
         /\ d.nodeIndex = e.nodeIndex => d = e
<1>1. ASSUME NEW f \in GenerateLogarithmicSwapSchedule(hops)
      PROVE  /\ f = [round |-> f.round, nodeIndex |-> f.nodeIndex, scheduledTime |-> f.round - 1]
             /\ f.round \in Nat \ {0} /\ f.scheduledTime = f.round - 1
             /\ f.nodeIndex \in 1 .. hops - 1
             /\ \E k \in Nat : f.nodeIndex = (2 * k + 1) * PowerOfTwo[f.round - 1]
  <2>1. /\ f = [round |-> f.round, nodeIndex |-> f.nodeIndex, scheduledTime |-> f.round - 1]
        /\ f.round \in 1 .. GetNumSwapRounds(hops)
        /\ f.nodeIndex \in NodesOfRound(f.round, hops)
    BY Entries
  <2>2. f.round \in Nat \ {0}
    BY <2>1, EnoughRounds
  <2>3. f.scheduledTime = f.round - 1
    BY <2>1
  <2> QED  BY <2>1, <2>2, <2>3, OddMultiples
<1>2. ASSUME NEW f \in GenerateLogarithmicSwapSchedule(hops),
             NEW g \in GenerateLogarithmicSwapSchedule(hops),
             f.nodeIndex = g.nodeIndex
      PROVE  ~(f.round < g.round)
  <2> SUFFICES ASSUME f.round < g.round
               PROVE  FALSE
    OBVIOUS
  <2>1. PICK h \in Nat : f.nodeIndex = (2 * h + 1) * PowerOfTwo[f.round - 1]
    BY <1>1
  <2>2. PICK k \in Nat : g.nodeIndex = (2 * k + 1) * PowerOfTwo[g.round - 1]
    BY <1>1
  <2>3. /\ f.round \in Nat \ {0} /\ g.round \in Nat \ {0}
        /\ g.round - 1 \in Nat /\ f.round <= g.round - 1 /\ 2 * k + 1 \in Nat
    BY <1>1
  <2>4. (2 * h + 1) * PowerOfTwo[f.round - 1] # (2 * k + 1) * PowerOfTwo[g.round - 1]
    BY <2>3, OneRoundOnly
  <2> QED  BY <1>2, <2>1, <2>2, <2>4
<1>3. d.nodeIndex = e.nodeIndex => d = e
  <2> SUFFICES ASSUME d.nodeIndex = e.nodeIndex
               PROVE  d = e
    OBVIOUS
  <2>1. ~(d.round < e.round) /\ ~(e.round < d.round)
    BY <1>2
  <2>2. d.round = e.round
    BY <1>1, <2>1
  <2>3. d = [round |-> d.round, nodeIndex |-> d.nodeIndex, scheduledTime |-> d.round - 1]
    BY <1>1
  <2>4. e = [round |-> e.round, nodeIndex |-> e.nodeIndex, scheduledTime |-> e.round - 1]
    BY <1>1
  <2> QED  BY <2>2, <2>3, <2>4
<1> QED  BY <1>1, <1>3

\* Every relay has one.
LEMMA EveryRelaySwaps ==
  ASSUME NEW hops \in Nat, hops >= 1, NEW i \in 1 .. hops - 1
  PROVE  \E e \in GenerateLogarithmicSwapSchedule(hops) : e.nodeIndex = i
<1> DEFINE R == GetNumSwapRounds(hops)
<1>1. R \in Nat /\ hops <= PowerOfTwo[R] /\ PowerOfTwo[R] \in Nat
  BY EnoughRounds, PowersOfTwo
<1> HIDE DEF R
<1>2. i \in 1 .. PowerOfTwo[R] - 1
  BY <1>1
<1>3. PICK r \in 1 .. R, k \in Nat : i = (2 * k + 1) * PowerOfTwo[r - 1]
  BY <1>1, <1>2, EveryNumberIsOddMultiple
<1>4. r \in Nat \ {0}
  BY <1>1
<1>5. i \in NodesOfRound(r, hops)
  BY <1>3, <1>4, OddMultiples
<1> DEFINE e == [round |-> r, nodeIndex |-> i, scheduledTime |-> r - 1]
<1>6. e = [round |-> e.round, nodeIndex |-> e.nodeIndex, scheduledTime |-> e.round - 1]
      /\ e.round = r /\ e.nodeIndex = i
  OBVIOUS
<1> HIDE DEF e
<1>7. e \in GenerateLogarithmicSwapSchedule(hops)
  BY <1>5, <1>6, Entries DEF R
<1> QED  BY <1>6, <1>7

(***************************************************************************)
(* The inductive invariant                                                 *)
(***************************************************************************)
LEMMA SwapInitIInv == SwapInit => SwapIInv
<1> SUFFICES ASSUME SwapInit
             PROVE  SwapIInv
  OBVIOUS
<1>1. /\ numHops \in 1 .. MaxHops /\ numHops \in Nat /\ numHops >= 1 /\ swapTime = 0
      /\ schedule = GenerateLogarithmicSwapSchedule(numHops)
      /\ segments = {<<i, i + 1>> : i \in 0 .. (numHops - 1)}
  BY MaxHopsAssumption DEF SwapInit
<1>2. SwapTypeOK
  BY <1>1, EnoughRounds DEF SwapTypeOK
<1>3. Executed = {}
  BY <1>1 DEF Executed
<1>4. InRounds
  <2>1. \A e \in schedule : e.scheduledTime >= 0
    <3> SUFFICES ASSUME NEW e \in schedule
                 PROVE  e.scheduledTime >= 0
      OBVIOUS
    <3>1. e.round \in Nat \ {0} /\ e.scheduledTime = e.round - 1
      BY <1>1, OneEntryEach
    <3> QED  BY <3>1
  <2> QED  BY <1>1, <1>3, <2>1 DEF InRounds
<1>5. Holders = 0 .. numHops
  BY <1>3 DEF Holders
<1>6. SegmentsJoinHolders
  <2> DEFINE joined == {s \in (0 .. numHops) \X (0 .. numHops) :
                          s[1] < s[2] /\ \A i \in 0 .. numHops : ~(s[1] < i /\ i < s[2])}
  <2>1. ASSUME NEW i \in 0 .. (numHops - 1)
        PROVE  <<i, i + 1>> \in joined
    BY <1>1
  <2>2. ASSUME NEW s \in joined
        PROVE  s \in segments
    <3>1. PICK a \in 0 .. numHops, b \in 0 .. numHops :
            s = <<a, b>> /\ a < b /\ \A i \in 0 .. numHops : ~(a < i /\ i < b)
      OBVIOUS
    <3>2. b = a + 1
      <4>1. a + 1 \in 0 .. numHops
        BY <1>1, <3>1
      <4> QED  BY <1>1, <3>1, <4>1
    <3>3. a \in 0 .. (numHops - 1)
      BY <1>1, <3>1
    <3> QED  BY <1>1, <3>1, <3>2, <3>3
  <2>3. segments = joined
    BY <1>1, <2>1, <2>2
  <2> QED  BY <1>5, <2>3 DEF SegmentsJoinHolders
<1> QED  BY <1>2, <1>4, <1>6 DEF SwapIInv

LEMMA SwapStepIInv ==
  ASSUME SwapIInv, NEW e \in schedule, Swap(e)
  PROVE  SwapIInv'
<1>1. /\ numHops \in 1 .. MaxHops /\ numHops \in Nat /\ numHops >= 1
      /\ schedule \subseteq GenerateLogarithmicSwapSchedule(numHops)
      /\ numHops' = numHops /\ swapTime' = swapTime /\ schedule' = schedule \ {e}
      /\ e.scheduledTime = swapTime
  BY MaxHopsAssumption DEF SwapIInv, SwapTypeOK, Swap
<1>2. SwapTypeOK'
  BY <1>1 DEF SwapIInv, SwapTypeOK
<1>3. Executed' = Executed \cup {e}
  BY <1>1 DEF Executed
<1>4. swapTime \in Int
  BY <1>1, EnoughRounds DEF SwapIInv, SwapTypeOK
<1>5. InRounds'
  BY <1>1, <1>3, <1>4 DEF SwapIInv, InRounds
<1> DEFINE i == e.nodeIndex
<1>6. Holders' = Holders \ {i}
  BY <1>1, <1>3 DEF Holders
<1>7. PICK l \in LeftOf(i), r \in RightOf(i) :
        segments' = (segments \ {l, r}) \cup {<<l[1], r[2]>>}
  BY DEF Swap
<1>8. Holders \subseteq Int
  BY <1>1 DEF Holders
<1>9. /\ l \in segments /\ r \in segments /\ l[2] = i /\ r[1] = i
  BY <1>7 DEF LeftOf, RightOf
<1> HIDE DEF i
<1> DEFINE Next2(a, b) == a < b /\ \A c \in Holders : ~(a < c /\ c < b)
<1>10. \A s : s \in segments <=> s \in Holders \X Holders /\ Next2(s[1], s[2])
  BY DEF SwapIInv, SegmentsJoinHolders
<1>11. PICK a \in Holders, b \in Holders :
         /\ l = <<a, i>> /\ r = <<i, b>> /\ i \in Holders
         /\ Next2(a, i) /\ Next2(i, b)
  <2>1. l \in Holders \X Holders /\ Next2(l[1], l[2])
    BY <1>9, <1>10
  <2>2. r \in Holders \X Holders /\ Next2(r[1], r[2])
    BY <1>9, <1>10
  <2> HIDE DEF Next2
  <2>3. l = <<l[1], l[2]>> /\ r = <<r[1], r[2]>>
        /\ l[1] \in Holders /\ l[2] \in Holders /\ r[2] \in Holders
    BY <2>1, <2>2
  <2> QED  BY <1>9, <2>1, <2>2, <2>3
<1>12. SegmentsJoinHolders'
  <2> DEFINE left == Holders \ {i}
             Joins(s) == /\ s \in left \X left
                         /\ s[1] < s[2] /\ \A c \in left : ~(s[1] < c /\ c < s[2])
  <2>1. a \in left /\ b \in left /\ a < i /\ i < b
    BY <1>8, <1>11
  <2>2. ASSUME NEW s \in segments'
        PROVE  Joins(s)
    <3>1. CASE s = <<a, b>>
      BY <1>8, <1>11, <2>1, <3>1
    <3>2. CASE s \in segments /\ s # l /\ s # r
      <4>1. s \in Holders \X Holders /\ Next2(s[1], s[2])
        BY <1>10, <3>2
      <4>2. PICK x \in Holders, y \in Holders : s = <<x, y>>
        BY <4>1
      <4>3. Next2(x, y)
        BY <4>1, <4>2
      <4>4. x # i
        <5> SUFFICES ASSUME x = i
                     PROVE  FALSE
          OBVIOUS
        <5>1. ~(y < b) /\ ~(b < y)
          BY <1>8, <1>11, <4>3
        <5>2. y = b
          BY <1>8, <5>1
        <5> QED  BY <1>11, <3>2, <4>2, <5>2
      <4>5. y # i
        <5> SUFFICES ASSUME y = i
                     PROVE  FALSE
          OBVIOUS
        <5>1. ~(x < a) /\ ~(a < x)
          BY <1>8, <1>11, <4>3
        <5>2. x = a
          BY <1>8, <5>1
        <5> QED  BY <1>11, <3>2, <4>2, <5>2
      <4> QED  BY <4>2, <4>3, <4>4, <4>5
    <3>3. s = <<a, b>> \/ (s \in segments /\ s # l /\ s # r)
      BY <1>7, <1>11
    <3> QED  BY <3>1, <3>2, <3>3
  <2>3. ASSUME NEW s, Joins(s)
        PROVE  s \in segments'
    <3>1. PICK x \in left, y \in left :
            s = <<x, y>> /\ x < y /\ \A c \in left : ~(x < c /\ c < y)
      BY <2>3
    <3>2. CASE x < i /\ i < y
      <4>1. a \in Int /\ b \in Int /\ i \in Int /\ x \in Int /\ y \in Int
        BY <1>8, <1>11, <2>1, <3>1
      <4>2. ~(x < a /\ a < y) /\ ~(x < b /\ b < y)
        BY <2>1, <3>1
      <4>3. ~(a < x /\ x < i) /\ ~(i < y /\ y < b)
        BY <1>11, <3>1
      <4>4. x = a /\ y = b
        BY <2>1, <3>2, <4>1, <4>2, <4>3
      <4> QED  BY <1>7, <1>11, <3>1, <4>4
    <3>3. CASE ~(x < i /\ i < y)
      <4>1. Next2(x, y)
        BY <3>1, <3>3
      <4>2. s \in segments
        BY <1>10, <3>1, <4>1
      <4>3. s # l /\ s # r
        BY <1>11, <3>1
      <4> QED  BY <1>7, <4>2, <4>3
    <3> QED  BY <3>2, <3>3
  <2>4. segments' = {s \in left \X left :
                       s[1] < s[2] /\ \A c \in left : ~(s[1] < c /\ c < s[2])}
    BY <2>2, <2>3
  <2> QED  BY <1>6, <2>4 DEF SegmentsJoinHolders
<1> QED  BY <1>2, <1>5, <1>12 DEF SwapIInv

LEMMA NextRoundIInv ==
  ASSUME SwapIInv, NextRound
  PROVE  SwapIInv'
<1>1. /\ numHops \in 1 .. MaxHops /\ numHops \in Nat /\ numHops >= 1
      /\ schedule \subseteq GenerateLogarithmicSwapSchedule(numHops)
      /\ swapTime \in 0 .. GetNumSwapRounds(numHops)
      /\ numHops' = numHops /\ swapTime' = swapTime + 1 /\ schedule' = schedule
      /\ segments' = segments
      /\ \A e \in schedule : e.scheduledTime > swapTime
      /\ schedule # {}
  BY MaxHopsAssumption DEF SwapIInv, SwapTypeOK, NextRound, Base
<1>2. GetNumSwapRounds(numHops) \in Nat
  BY <1>1, EnoughRounds
<1>3. ASSUME NEW e \in GenerateLogarithmicSwapSchedule(numHops)
      PROVE  e.scheduledTime \in Nat /\ e.scheduledTime < GetNumSwapRounds(numHops)
  <2>1. /\ e = [round |-> e.round, nodeIndex |-> e.nodeIndex, scheduledTime |-> e.round - 1]
        /\ e.round \in 1 .. GetNumSwapRounds(numHops)
    BY <1>1, Entries
  <2>2. e.scheduledTime = e.round - 1
    BY <2>1
  <2> QED  BY <1>2, <2>1, <2>2
<1>4. SwapTypeOK'
  <2>1. PICK e \in schedule : TRUE
    BY <1>1
  <2>2. e.scheduledTime > swapTime /\ e.scheduledTime < GetNumSwapRounds(numHops)
        /\ e.scheduledTime \in Nat
    BY <1>1, <1>3
  <2>3. swapTime + 1 \in 0 .. GetNumSwapRounds(numHops)
    BY <1>1, <1>2, <2>2
  <2> QED  BY <1>1, <2>3 DEF SwapTypeOK
<1>5. InRounds'
  <2>1. \A e \in schedule : e.scheduledTime >= swapTime + 1
    BY <1>1, <1>2, <1>3
  <2>2. \A e \in Executed : e.scheduledTime <= swapTime + 1
    <3> SUFFICES ASSUME NEW e \in Executed
                 PROVE  e.scheduledTime <= swapTime + 1
      OBVIOUS
    <3>1. e.scheduledTime <= swapTime /\ e.scheduledTime \in Nat
      BY <1>3 DEF SwapIInv, InRounds, Executed
    <3> QED  BY <1>1, <1>2, <3>1
  <2>3. Executed' = Executed
    BY <1>1 DEF Executed
  <2> QED  BY <1>1, <2>1, <2>2, <2>3 DEF InRounds
<1>6. SegmentsJoinHolders'
  BY <1>1 DEF SwapIInv, SegmentsJoinHolders, Holders, Executed
<1> QED  BY <1>4, <1>5, <1>6 DEF SwapIInv

\* Every reachable state keeps the invariant.
THEOREM SwapInvariance == SwapSpec => []SwapIInv
<1>1. SwapInit => SwapIInv
  BY SwapInitIInv
<1>2. SwapIInv /\ [SwapNext]_swapVars => SwapIInv'
  <2> SUFFICES ASSUME SwapIInv, [SwapNext]_swapVars
               PROVE  SwapIInv'
    OBVIOUS
  <2>1. CASE NextRound
    BY <2>1, NextRoundIInv
  <2>2. ASSUME NEW e \in schedule, Swap(e)
        PROVE  SwapIInv'
    BY <2>2, SwapStepIInv
  <2>3. CASE UNCHANGED swapVars
    BY <2>3 DEF swapVars, SwapIInv, SwapTypeOK, InRounds, SegmentsJoinHolders, Holders, Executed
  <2> QED  BY <2>1, <2>2, <2>3 DEF SwapNext
<1> QED  BY <1>1, <1>2, PTL DEF SwapSpec

\* Between two relays of a round lies a node that is not touched before a later one.
LEMMA HolderBetween ==
  ASSUME SwapIInv, NEW a \in Due, NEW b \in Due, a.nodeIndex < b.nodeIndex
  PROVE  \E m \in Holders : a.nodeIndex < m /\ m < b.nodeIndex
<1>1. /\ numHops \in Nat /\ numHops >= 1 /\ swapTime \in Int
      /\ schedule \subseteq GenerateLogarithmicSwapSchedule(numHops)
  BY MaxHopsAssumption, EnoughRounds DEF SwapIInv, SwapTypeOK
<1>2. /\ a \in GenerateLogarithmicSwapSchedule(numHops) /\ a.scheduledTime = swapTime
      /\ b \in GenerateLogarithmicSwapSchedule(numHops) /\ b.scheduledTime = swapTime
  BY <1>1 DEF Due
<1> DEFINE r == a.round
           p == PowerOfTwo[r - 1]
<1>3. /\ r \in Nat \ {0} /\ a.scheduledTime = r - 1
      /\ a.nodeIndex \in 1 .. numHops - 1
      /\ \E k \in Nat : a.nodeIndex = (2 * k + 1) * p
  BY <1>1, <1>2, OneEntryEach
<1>4. /\ b.round \in Nat \ {0} /\ b.scheduledTime = b.round - 1
      /\ b.nodeIndex \in 1 .. numHops - 1
      /\ \E k \in Nat : b.nodeIndex = (2 * k + 1) * PowerOfTwo[b.round - 1]
  BY <1>1, <1>2, OneEntryEach
<1>5. b.round = r /\ swapTime = r - 1
  BY <1>2, <1>3, <1>4
<1>6. PICK h \in Nat : a.nodeIndex = (2 * h + 1) * p
  BY <1>3
<1>7. PICK k \in Nat : b.nodeIndex = (2 * k + 1) * p
  BY <1>4, <1>5
<1>8. r - 1 \in Nat /\ (r - 1) + 1 = r
  BY <1>3
<1>9. p \in Nat /\ p >= 1 /\ PowerOfTwo[r] = 2 * p
  BY <1>8, PowersOfTwo
<1> HIDE DEF p, r
<1> DEFINE m == a.nodeIndex + p
<1>10. m = (h + 1) * (2 * p)
  BY <1>6, <1>9
<1>11. h < k
  <2> SUFFICES ASSUME k <= h
               PROVE  FALSE
    OBVIOUS
  <2>1. h - k \in Nat
    OBVIOUS
  <2>2. (2 * h + 1) * p = (2 * k + 1) * p + 2 * ((h - k) * p)
    BY <1>9
  <2>3. (h - k) * p \in Nat
    BY <1>9, <2>1
  <2>4. b.nodeIndex <= a.nodeIndex
    BY <1>3, <1>4, <1>6, <1>7, <2>2, <2>3
  <2> QED  BY <1>3, <1>4, <2>4
<1>12. a.nodeIndex < m /\ m < b.nodeIndex /\ m \in Nat
  <2>1. k - h - 1 \in Nat
    BY <1>11
  <2>2. (2 * k + 1) * p = (2 * h + 1) * p + 2 * p + 2 * ((k - h - 1) * p)
    BY <1>9
  <2>3. (k - h - 1) * p \in Nat
    BY <1>9, <2>1
  <2> QED  BY <1>3, <1>4, <1>6, <1>7, <1>9, <2>2, <2>3
<1> HIDE DEF m
<1>13. ASSUME NEW e \in Executed
       PROVE  e.nodeIndex # m
  <2>1. e \in GenerateLogarithmicSwapSchedule(numHops) /\ e.scheduledTime <= swapTime
    BY <1>13 DEF SwapIInv, InRounds, Executed
  <2>2. /\ e.round \in Nat \ {0} /\ e.scheduledTime = e.round - 1
        /\ \E j \in Nat : e.nodeIndex = (2 * j + 1) * PowerOfTwo[e.round - 1]
    BY <1>1, <2>1, OneEntryEach
  <2>3. PICK j \in Nat : e.nodeIndex = (2 * j + 1) * PowerOfTwo[e.round - 1]
    BY <2>2
  <2>4. e.round <= r /\ r \in Nat /\ h + 1 \in Nat
    BY <1>3, <1>5, <2>1, <2>2
  <2>5. (2 * j + 1) * PowerOfTwo[e.round - 1] # (h + 1) * PowerOfTwo[r]
    BY <2>2, <2>4, OneRoundOnly
  <2> QED  BY <1>9, <1>10, <2>3, <2>5
<1>14. m \in 0 .. numHops
  BY <1>1, <1>4, <1>12
<1>15. m \in Holders
  BY <1>13, <1>14 DEF Holders
<1> QED  BY <1>12, <1>15

\* Swaps that are due at the same time touch different pairs, whatever the length of the
\* path (GenerateLogarithmicSwapSchedule).
THEOREM IndependentSwaps == SwapSpec => []SwapsAreIndependent
<1>1. SwapIInv => SwapsAreIndependent
  <2> SUFFICES ASSUME SwapIInv
               PROVE  SwapsAreIndependent
    OBVIOUS
  <2>1. /\ numHops \in Nat /\ numHops >= 1
        /\ schedule \subseteq GenerateLogarithmicSwapSchedule(numHops)
    BY MaxHopsAssumption DEF SwapIInv, SwapTypeOK
  <2>2. Due \subseteq GenerateLogarithmicSwapSchedule(numHops)
    BY <2>1 DEF Due
  <2>3. ASSUME NEW s \in segments
        PROVE  s[1] < s[2] /\ \A m \in Holders : ~(s[1] < m /\ m < s[2])
    BY <2>3 DEF SwapIInv, SegmentsJoinHolders
  <2>4. ASSUME NEW a \in Due, NEW b \in Due, a.nodeIndex < b.nodeIndex, NEW s
        PROVE  ~(s \in Touched(a.nodeIndex) /\ s \in Touched(b.nodeIndex))
    <3> SUFFICES ASSUME s \in Touched(a.nodeIndex), s \in Touched(b.nodeIndex)
                 PROVE  FALSE
      OBVIOUS
    <3>1. a.nodeIndex \in Nat /\ b.nodeIndex \in Nat
      BY <2>1, <2>2, OneEntryEach
    <3>2. /\ s \in segments
          /\ s[1] = a.nodeIndex \/ s[2] = a.nodeIndex
          /\ s[1] = b.nodeIndex \/ s[2] = b.nodeIndex
      BY DEF Touched, LeftOf, RightOf
    <3>3. s[1] = a.nodeIndex /\ s[2] = b.nodeIndex
      BY <2>3, <2>4, <3>1, <3>2
    <3> QED  BY <2>3, <2>4, <3>2, <3>3, HolderBetween
  <2>5. ASSUME NEW a \in Due, NEW b \in Due, a # b
        PROVE  a.nodeIndex < b.nodeIndex \/ b.nodeIndex < a.nodeIndex
    <3>1. a.nodeIndex \in Nat /\ b.nodeIndex \in Nat /\ a.nodeIndex # b.nodeIndex
      BY <2>1, <2>2, <2>5, OneEntryEach
    <3> QED  BY <3>1
  <2> QED  BY <2>4, <2>5 DEF SwapsAreIndependent
<1> QED  BY <1>1, SwapInvariance, PTL

\* A swap that is due finds its two segments, and when none is left, one pair remains, be the
\* length of the path a power of two or not (GenerateLogarithmicSwapSchedule,
\* GetNumSwapRounds).
THEOREM CompleteSwaps == SwapSpec => []SwapsAreComplete
<1>1. SwapIInv => SwapsAreComplete
  <2> SUFFICES ASSUME SwapIInv
               PROVE  SwapsAreComplete
    OBVIOUS
  <2>1. /\ numHops \in Nat /\ numHops >= 1
        /\ schedule \subseteq GenerateLogarithmicSwapSchedule(numHops)
    BY MaxHopsAssumption DEF SwapIInv, SwapTypeOK
  <2>2. Holders \subseteq 0 .. numHops
    BY DEF Holders
  <2>3. 0 \in Holders /\ numHops \in Holders
    <3>1. \A e \in Executed : e.nodeIndex \in 1 .. numHops - 1
      BY <2>1, OneEntryEach DEF Executed
    <3> QED  BY <2>1, <3>1 DEF Holders
  <2>4. ASSUME NEW i \in Holders, NEW j \in Holders, i < j
        PROVE  /\ \E k \in Holders : <<i, k>> \in segments
               /\ \E k \in Holders : <<k, j>> \in segments
    <3>1. \A a, b \in Holders :
            <<a, b>> \in segments <=> a < b /\ \A c \in Holders : ~(a < c /\ c < b)
      BY DEF SwapIInv, SegmentsJoinHolders
    <3>2. Holders \subseteq Int
      BY <2>2
    <3>3. /\ \E k \in Holders : i < k /\ \A c \in Holders : ~(i < c /\ c < k)
          /\ \E k \in Holders : k < j /\ \A c \in Holders : ~(k < c /\ c < j)
      BY <2>4, <3>2, ClosestMembers
    <3> QED  BY <3>1, <3>3
  <2>5. ASSUME NEW e \in Due
        PROVE  LeftOf(e.nodeIndex) # {} /\ RightOf(e.nodeIndex) # {}
    <3>1. e \in GenerateLogarithmicSwapSchedule(numHops) /\ e \in schedule
      BY <2>1 DEF Due
    <3>2. e.nodeIndex \in 1 .. numHops - 1
      BY <2>1, <3>1, OneEntryEach
    <3>3. \A d \in Executed : d.nodeIndex # e.nodeIndex
      BY <2>1, <3>1, OneEntryEach DEF Executed
    <3>4. e.nodeIndex \in Holders /\ 0 < e.nodeIndex /\ e.nodeIndex < numHops
      BY <2>1, <3>2, <3>3 DEF Holders
    <3>5. (\E k \in Holders : <<k, e.nodeIndex>> \in segments)
          /\ \E k \in Holders : <<e.nodeIndex, k>> \in segments
      BY <2>3, <2>4, <3>4
    <3> QED  BY <3>5 DEF LeftOf, RightOf
  <2>6. ASSUME schedule = {}
        PROVE  segments = {<<0, numHops>>}
    <3>1. Executed = GenerateLogarithmicSwapSchedule(numHops)
      BY <2>6 DEF Executed
    <3>2. Holders = {0, numHops}
      <4>1. \A i \in 1 .. numHops - 1 : i \notin Holders
        BY <2>1, <3>1, EveryRelaySwaps DEF Holders
      <4>2. ASSUME NEW i \in 0 .. numHops
            PROVE  i = 0 \/ i = numHops \/ i \in 1 .. numHops - 1
        BY <2>1
      <4> HIDE DEF Holders
      <4> QED  BY <2>2, <2>3, <4>1, <4>2
    <3>3. segments = {s \in {0, numHops} \X {0, numHops} :
                        s[1] < s[2] /\ \A i \in {0, numHops} : ~(s[1] < i /\ i < s[2])}
      BY <3>2 DEF SwapIInv, SegmentsJoinHolders
    <3>4. ASSUME NEW s \in {0, numHops} \X {0, numHops}
          PROVE  (s[1] < s[2] /\ \A i \in {0, numHops} : ~(s[1] < i /\ i < s[2]))
                   <=> s = <<0, numHops>>
      <4>1. PICK x \in {0, numHops}, y \in {0, numHops} : s = <<x, y>>
        OBVIOUS
      <4>2. x < y <=> x = 0 /\ y = numHops
        BY <2>1, <4>1
      <4>3. ~(x < 0 /\ 0 < y) /\ ~(x < numHops /\ numHops < y)
        BY <2>1, <4>1
      <4> QED  BY <4>1, <4>2, <4>3
    <3>5. <<0, numHops>> \in {0, numHops} \X {0, numHops}
      OBVIOUS
    <3> QED  BY <3>3, <3>4, <3>5
  <2> QED  BY <2>5, <2>6 DEF SwapsAreComplete
<1> QED  BY <1>1, SwapInvariance, PTL

(***************************************************************************)
(*                                                                         *)
(*                             CHAINS OF OWNERS                            *)
(*                                                                         *)
(***************************************************************************)

(***************************************************************************)
(* Pauli frames                                                            *)
(***************************************************************************)
LEMMA FrameFields ==
  /\ Identity \in Frames /\ ~Identity.x /\ ~Identity.z
  /\ \A f \in Frames : f.x \in BOOLEAN /\ f.z \in BOOLEAN
  /\ \A f, g \in Frames : (f.x <=> g.x) /\ (f.z <=> g.z) => f = g
<1>1. Identity \in Frames /\ ~Identity.x /\ ~Identity.z
  BY DEF Identity, Frames
<1>2. \A f \in Frames : f.x \in BOOLEAN /\ f.z \in BOOLEAN
  BY DEF Frames
<1>3. ASSUME NEW f \in Frames, NEW g \in Frames, f.x <=> g.x, f.z <=> g.z
      PROVE  f = g
  <2>1. f.x = g.x /\ f.z = g.z
    BY <1>2, <1>3
  <2> QED  BY <2>1 DEF Frames
<1> QED  BY <1>1, <1>2, <1>3

LEMMA XorFields ==
  ASSUME NEW f \in Frames, NEW g \in Frames
  PROVE  /\ f (+) g \in Frames
         /\ (f (+) g).x <=> ~(f.x <=> g.x)
         /\ (f (+) g).z <=> ~(f.z <=> g.z)
<1>1. f.x \in BOOLEAN /\ f.z \in BOOLEAN /\ g.x \in BOOLEAN /\ g.z \in BOOLEAN
  BY FrameFields
<1>2. f (+) g = [x |-> f.x # g.x, z |-> f.z # g.z]
  BY DEF (+)
<1>3. f (+) g \in Frames
  BY <1>2 DEF Frames
<1>4. (f (+) g).x = (f.x # g.x) /\ (f (+) g).z = (f.z # g.z)
  BY <1>2
<1>5. (f.x # g.x) <=> ~(f.x <=> g.x)
  BY <1>1
<1>6. (f.z # g.z) <=> ~(f.z <=> g.z)
  BY <1>1
<1> QED  BY <1>3, <1>4, <1>5, <1>6

LEMMA XorLaws ==
  ASSUME NEW f \in Frames, NEW g \in Frames, NEW h \in Frames
  PROVE  /\ f (+) Identity = f /\ Identity (+) f = f
         /\ f (+) f = Identity
         /\ f (+) g = g (+) f
         /\ f (+) (g (+) h) = (f (+) g) (+) h
<1>1. Identity \in Frames /\ ~Identity.x /\ ~Identity.z
  BY FrameFields
<1>2. /\ f (+) Identity \in Frames /\ f (+) f \in Frames /\ Identity (+) f \in Frames
      /\ f (+) g \in Frames /\ g (+) f \in Frames /\ g (+) h \in Frames
  BY <1>1, XorFields
<1>3. f (+) (g (+) h) \in Frames /\ (f (+) g) (+) h \in Frames
  BY <1>2, XorFields
<1>4. f (+) Identity = f
  BY <1>1, <1>2, XorFields, FrameFields
<1>5. Identity (+) f = f
  BY <1>1, <1>2, XorFields, FrameFields
<1>6. f (+) f = Identity
  BY <1>1, <1>2, XorFields, FrameFields
<1>7. f (+) g = g (+) f
  BY <1>2, XorFields, FrameFields
<1>8. f (+) (g (+) h) = (f (+) g) (+) h
  <2>1. /\ (f (+) (g (+) h)).x <=> ~(f.x <=> ~(g.x <=> h.x))
        /\ (f (+) (g (+) h)).z <=> ~(f.z <=> ~(g.z <=> h.z))
    BY <1>2, XorFields
  <2>2. /\ ((f (+) g) (+) h).x <=> ~(~(f.x <=> g.x) <=> h.x)
        /\ ((f (+) g) (+) h).z <=> ~(~(f.z <=> g.z) <=> h.z)
    BY <1>2, XorFields
  <2>3. /\ (f (+) (g (+) h)).x <=> ((f (+) g) (+) h).x
        /\ (f (+) (g (+) h)).z <=> ((f (+) g) (+) h).z
    BY <2>1, <2>2
  <2> QED  BY <1>3, <2>3, FrameFields
<1> QED  BY <1>4, <1>5, <1>6, <1>7, <1>8

(***************************************************************************)
(* What outcomes under way call for                                        *)
(***************************************************************************)
OwedBy(P) == [x |-> Odd({p \in P : p.outcome.x}), z |-> Odd({p \in P : p.outcome.z})]

\* One element more makes an odd set even and an even one odd.
LEMMA OneMoreIsOdd ==
  ASSUME NEW S, IsFiniteSet(S), NEW p, p \notin S
  PROVE  Odd(S \cup {p}) <=> ~Odd(S)
<1>1. Cardinality(S) \in Nat /\ Cardinality(S \cup {p}) = Cardinality(S) + 1
  BY FS_CardinalityType, FS_AddElement
<1> DEFINE n == Cardinality(S)
<1> HIDE DEF n
<1>2. n \in Nat => ((n + 1) % 2 = 1 <=> ~(n % 2 = 1))
  OBVIOUS
<1> QED  BY <1>1, <1>2 DEF Odd, n

\* A packet more is an outcome more.
LEMMA OwedWith ==
  ASSUME NEW P, IsFiniteSet(P), NEW p, p \notin P, p.outcome \in Frames,
         \A q \in P : q.outcome \in Frames
  PROVE  /\ OwedBy(P) \in Frames /\ OwedBy({}) = Identity
         /\ OwedBy(P \cup {p}) = OwedBy(P) (+) p.outcome
<1>1. \A Q : OwedBy(Q) \in Frames
  <2> SUFFICES ASSUME NEW Q
               PROVE  OwedBy(Q) \in Frames
    OBVIOUS
  <2>1. \A S : Odd(S) \in BOOLEAN
    BY DEF Odd
  <2> QED  BY <2>1 DEF OwedBy, Frames
<1>2. \A Q : (OwedBy(Q).x <=> Odd({q \in Q : q.outcome.x}))
             /\ (OwedBy(Q).z <=> Odd({q \in Q : q.outcome.z}))
  BY DEF OwedBy
<1>3. ~Odd({})
  BY FS_EmptySet DEF Odd
<1>4. OwedBy({}) = Identity
  <2>1. {q \in {} : q.outcome.x} = {} /\ {q \in {} : q.outcome.z} = {}
    OBVIOUS
  <2>2. ~OwedBy({}).x /\ ~OwedBy({}).z
    BY <1>2, <1>3, <2>1
  <2> QED  BY <1>1, <2>2, FrameFields
<1>5. ASSUME NEW S, NEW T, NEW b \in BOOLEAN, IsFiniteSet(S), p \notin S,
             T = IF b THEN S \cup {p} ELSE S
      PROVE  Odd(T) <=> ~(Odd(S) <=> b)
  <2>1. CASE b
    <3>1. T = S \cup {p}
      BY <1>5, <2>1
    <3> QED  BY <1>5, <2>1, <3>1, OneMoreIsOdd
  <2>2. CASE ~b
    <3>1. T = S
      BY <1>5, <2>2
    <3> QED  BY <2>2, <3>1
  <2> QED  BY <2>1, <2>2
<1> DEFINE sx == {q \in P : q.outcome.x}
           sz == {q \in P : q.outcome.z}
           tx == {q \in P \cup {p} : q.outcome.x}
           tz == {q \in P \cup {p} : q.outcome.z}
<1>6. IsFiniteSet(sx) /\ IsFiniteSet(sz) /\ p \notin sx /\ p \notin sz
  BY FS_Subset
<1>7. p.outcome.x \in BOOLEAN /\ p.outcome.z \in BOOLEAN
  BY FrameFields
<1>8. tx = IF p.outcome.x THEN sx \cup {p} ELSE sx
  OBVIOUS
<1>9. tz = IF p.outcome.z THEN sz \cup {p} ELSE sz
  OBVIOUS
<1> HIDE DEF sx, sz, tx, tz
<1>10. Odd(tx) <=> ~(Odd(sx) <=> p.outcome.x)
  BY <1>5, <1>6, <1>7, <1>8
<1>11. Odd(tz) <=> ~(Odd(sz) <=> p.outcome.z)
  BY <1>5, <1>6, <1>7, <1>9
<1>12. /\ OwedBy(P).x <=> Odd(sx)
       /\ OwedBy(P).z <=> Odd(sz)
       /\ OwedBy(P \cup {p}).x <=> Odd(tx)
       /\ OwedBy(P \cup {p}).z <=> Odd(tz)
  BY <1>2 DEF sx, sz, tx, tz
<1> DEFINE sum == OwedBy(P) (+) p.outcome
<1>13. sum \in Frames /\ (sum.x <=> ~(OwedBy(P).x <=> p.outcome.x))
       /\ (sum.z <=> ~(OwedBy(P).z <=> p.outcome.z))
  BY <1>1, XorFields
<1> HIDE DEF sum
<1>14. (OwedBy(P \cup {p}).x <=> sum.x) /\ (OwedBy(P \cup {p}).z <=> sum.z)
  BY <1>10, <1>11, <1>12, <1>13
<1>15. OwedBy(P \cup {p}) = sum
  BY <1>1, <1>13, <1>14, FrameFields
<1> QED  BY <1>1, <1>4, <1>15 DEF sum

(***************************************************************************)
(* The times of a chain                                                    *)
(***************************************************************************)
LEMMA ChainTimes ==
  /\ Last \in Nat /\ Last >= 2 /\ Hop \in Nat /\ Hop >= 1 /\ LocalDelay \in Nat
  /\ Latencies \subseteq Nat /\ ListenTimes \subseteq Nat /\ Count \in Nat /\ Count >= 1
  /\ End \in Nat
  /\ Senders \subseteq 0 .. Last - 1
  /\ \A i \in 0 .. Last : /\ Hop * i \in Nat /\ MeasureTime(i) \in Nat
                          /\ chainApp = "Telep" => MeasureTime(i) >= Hop * i
  /\ \A i \in 0 .. Last - 1 : Hop * (i + 1) = Hop * i + Hop /\ Hop * (i + 1) <= End
  /\ \A i \in Senders : MeasureTime(i) <= Hop * i + LocalDelay
<1>1. /\ Last \in Nat /\ Last >= 2 /\ Hop \in Nat /\ Hop >= 1 /\ LocalDelay \in Nat
      /\ Latencies \subseteq Nat /\ ListenTimes \subseteq Nat
  BY TimingAssumption
<1>2. Count \in Nat /\ Count >= 1 /\ Senders \subseteq 0 .. Last - 1 /\ End \in Nat
  BY <1>1 DEF Count, Senders, End
<1>3. ASSUME NEW i \in 0 .. Last
      PROVE  /\ Hop * i \in Nat /\ MeasureTime(i) \in Nat
             /\ chainApp = "Telep" => MeasureTime(i) >= Hop * i
  BY <1>1 DEF MeasureTime
<1>4. ASSUME NEW i \in 0 .. Last - 1
      PROVE  Hop * (i + 1) = Hop * i + Hop /\ Hop * (i + 1) <= End
  <2>1. Last - (i + 1) \in Nat /\ i \in Nat
    BY <1>1
  <2>2. Hop * Last = Hop * (i + 1) + Hop * (Last - (i + 1))
    BY <1>1
  <2>3. Hop * (Last - (i + 1)) \in Nat
    BY <1>1, <2>1
  <2>4. Hop * (i + 1) \in Nat /\ Hop * i \in Nat
    BY <1>1, <2>1
  <2> QED  BY <1>1, <2>1, <2>2, <2>3, <2>4 DEF End
<1>5. ASSUME NEW i \in Senders
      PROVE  MeasureTime(i) <= Hop * i + LocalDelay
  <2>1. i \in Nat /\ Hop * i \in Nat
    BY <1>1, <1>2, <1>3
  <2>2. CASE chainApp # "Telep"
    <3>1. i \in Nat /\ i - 1 \in Nat
      BY <1>1, <2>2 DEF Senders
    <3>2. Hop * i = Hop + Hop * (i - 1) /\ Hop * (i - 1) \in Nat
      BY <1>1, <3>1
    <3>3. MeasureTime(i) \in {Hop * i, Hop}
      BY <2>2 DEF MeasureTime
    <3> QED  BY <1>1, <2>1, <3>2, <3>3
  <2>3. CASE chainApp = "Telep"
    BY <1>1, <2>1, <2>3 DEF MeasureTime
  <2> QED  BY <2>2, <2>3
<1> QED  BY <1>1, <1>2, <1>3, <1>4, <1>5

\* The owners that measure; those of a swap are as many as outcomes are counted.
LEMMA SendersCounted ==
  /\ IsFiniteSet(Senders)
  /\ chainApp = "EntSwap" => Cardinality(Senders) = Count
<1>1. Last \in Nat /\ Last >= 2
  BY ChainTimes
<1>2. IsFiniteSet(0 .. Last - 1) /\ Senders \subseteq 0 .. Last - 1
  BY <1>1, FS_Interval, ChainTimes
<1>3. IsFiniteSet(Senders)
  BY <1>2, FS_Subset
<1>4. chainApp = "EntSwap" => Cardinality(Senders) = Count
  <2>1. Cardinality(1 .. (Last - 1)) = Last - 1
    BY <1>1, FS_Interval
  <2> QED  BY <2>1 DEF Senders, Count
<1> QED  BY <1>3, <1>4

\* When all outcomes are counted, none is under way and none was lost.
LEMMA AllCounted ==
  ASSUME ChainTypeOK, OutcomesCounted, chainApp = "EntSwap"
  PROVE  /\ IsFiniteSet(sent) /\ IsFiniteSet(lost) /\ IsFiniteSet(packets)
         /\ Cardinality(sent) \in Nat /\ Cardinality(sent) <= Count
         /\ Cardinality(lost) \in Nat /\ Cardinality(packets) \in Nat
         /\ count >= Cardinality(packets) + Cardinality(lost)
         /\ count = 0 => sent = Senders /\ packets = {} /\ lost = {}
<1>1. sent \subseteq Senders /\ lost \subseteq sent /\ IsFiniteSet(packets) /\ count \in Nat
  BY DEF ChainTypeOK
<1>2. IsFiniteSet(Senders) /\ Cardinality(Senders) = Count /\ Count \in Nat
  BY SendersCounted, ChainTimes
<1>3. /\ IsFiniteSet(sent) /\ Cardinality(sent) <= Count
      /\ Cardinality(sent) = Count => sent = Senders
  BY <1>1, <1>2, FS_Subset
<1>4. IsFiniteSet(lost)
  BY <1>1, <1>3, FS_Subset
<1>5. Cardinality(sent) \in Nat /\ Cardinality(lost) \in Nat /\ Cardinality(packets) \in Nat
  BY <1>1, <1>3, <1>4, FS_CardinalityType
<1>6. count + Cardinality(sent) = Count + Cardinality(packets) + Cardinality(lost)
  BY DEF OutcomesCounted
<1>7. count >= Cardinality(packets) + Cardinality(lost)
  BY <1>1, <1>2, <1>3, <1>5, <1>6
<1>8. ASSUME count = 0
      PROVE  sent = Senders /\ packets = {} /\ lost = {}
  <2>1. Cardinality(packets) = 0 /\ Cardinality(lost) = 0 /\ Cardinality(sent) = Count
    BY <1>2, <1>3, <1>5, <1>6, <1>8
  <2> QED  BY <1>1, <1>3, <1>4, <2>1, FS_EmptySet
<1> QED  BY <1>1, <1>3, <1>4, <1>5, <1>7, <1>8

(***************************************************************************)
(* The inductive invariant                                                 *)
(***************************************************************************)
LEMMA ChainInitIInv == ChainInit => ChainIInv
<1> SUFFICES ASSUME ChainInit
             PROVE  ChainIInv
  OBVIOUS
<1>1. /\ chainApp \in {"EntSwap", "Telep"} /\ latency \in Latencies /\ listenTime \in ListenTimes
      /\ chainNow = 0 /\ sent = {} /\ frame = Identity /\ packets = {} /\ count = Count
      /\ flag = Identity /\ corrected = FALSE /\ lost = {} /\ crashed = FALSE
      /\ godNode \in BOOLEAN /\ spaced \in BOOLEAN
  BY DEF ChainInit
<1>2. /\ IsFiniteSet({}) /\ Cardinality({}) = 0
  BY FS_EmptySet
<1>3. ChainTypeOK
  <2>1. 0 \in 0 .. End /\ Count \in Nat
    BY ChainTimes
  <2>2. Identity \in Frames /\ FALSE \in BOOLEAN
    BY FrameFields
  <2>3. packets \subseteq [from : sent, outcome : Frames, at : Nat] /\ IsFiniteSet(packets)
    BY <1>1, <1>2
  <2>4. sent \subseteq Senders /\ lost \subseteq sent
    BY <1>1
  <2> QED  BY <1>1, <2>1, <2>2, <2>3, <2>4 DEF ChainTypeOK
<1>4. MeasuredOnTime
  BY <1>1, ChainTimes DEF MeasuredOnTime
<1>5. OnePacketEach
  BY <1>1 DEF OnePacketEach
<1>6. OutcomesCounted
  BY <1>1, <1>2, ChainTimes DEF OutcomesCounted
<1>7. FrameAccounted
  <2>1. Owed = Identity
    <3>1. {p \in {} : p.outcome.x} = {} /\ {p \in {} : p.outcome.z} = {}
      OBVIOUS
    <3>2. Odd({}) = FALSE
      BY <1>2 DEF Odd
    <3> QED  BY <1>1, <3>1, <3>2 DEF Owed, Identity
  <2> QED  BY <1>1, <2>1, FrameFields, XorLaws DEF FrameAccounted
<1>8. CrashedForAReason
  BY <1>1 DEF CrashedForAReason
<1> QED  BY <1>3, <1>4, <1>5, <1>6, <1>7, <1>8 DEF ChainIInv

LEMMA AdvanceIInv ==
  ASSUME ChainIInv, Advance, chainNow < End, ~crashed
  PROVE  ChainIInv'
<1>1. /\ chainNow \in 0 .. End /\ chainNow < End /\ chainNow' = chainNow + 1
      /\ \A i \in Senders \ sent : chainNow # MeasureTime(i)
      /\ \A p \in packets : chainNow < p.at + latency
      /\ UNCHANGED <<chainApp, latency, listenTime, godNode, spaced, crashed>>
      /\ UNCHANGED <<sent, frame, packets, count, flag, corrected, lost>>
  BY DEF Advance, chainSetup, ChainIInv, ChainTypeOK
<1>2. Senders' = Senders /\ End' = End /\ InTime' = InTime /\ Owed' = Owed
      /\ \A i : MeasureTime(i)' = MeasureTime(i)
  BY <1>1 DEF Senders, End, InTime, MeasureTime, Owed
<1>3. ChainTypeOK'
  BY <1>1, <1>2, ChainTimes DEF ChainIInv, ChainTypeOK
<1>4. MeasuredOnTime'
  <2>1. ASSUME NEW i \in Senders, MeasureTime(i) < chainNow + 1
        PROVE  i \in sent
    BY <1>1, <2>1, ChainTimes DEF ChainIInv, MeasuredOnTime
  <2>2. ASSUME NEW i \in sent
        PROVE  MeasureTime(i) <= chainNow + 1
    <3>1. MeasureTime(i) <= chainNow /\ MeasureTime(i) \in Nat
      BY ChainTimes DEF ChainIInv, MeasuredOnTime, ChainTypeOK
    <3> QED  BY <1>1, <3>1, ChainTimes
  <2> QED  BY <1>1, <1>2, <2>1, <2>2 DEF MeasuredOnTime
<1>5. OnePacketEach'
  <2>1. ASSUME NEW p \in packets
        PROVE  chainNow + 1 <= p.at + latency
    <3>1. p.at \in Nat /\ latency \in Nat /\ chainNow \in Nat
      BY <1>1, ChainTimes DEF ChainIInv, ChainTypeOK
    <3> QED  BY <1>1, <3>1
  <2> QED  BY <1>1, <1>2, <2>1 DEF ChainIInv, OnePacketEach
<1>6. OutcomesCounted'
  BY <1>1 DEF ChainIInv, OutcomesCounted
<1>7. FrameAccounted'
  BY <1>1, <1>2 DEF ChainIInv, FrameAccounted
<1>8. CrashedForAReason'
  BY <1>1 DEF CrashedForAReason
<1> QED  BY <1>3, <1>4, <1>5, <1>6, <1>7, <1>8 DEF ChainIInv

LEMMA MeasureIInv ==
  ASSUME ChainIInv, NEW i \in Senders, MeasureAndSend(i), chainNow < End
  PROVE  ChainIInv'
<1>1. PICK outcome \in Frames :
        /\ frame' = frame (+) outcome
        /\ packets' = packets \cup {[from |-> i, outcome |-> outcome, at |-> chainNow]}
  BY DEF MeasureAndSend
<1>2. /\ chainNow = MeasureTime(i) /\ i \notin sent /\ sent' = sent \cup {i}
      /\ UNCHANGED <<chainApp, latency, listenTime, godNode, spaced, crashed>>
      /\ UNCHANGED <<chainNow, count, flag, corrected, lost>>
  BY DEF MeasureAndSend, chainSetup
<1>3. ChainTypeOK /\ MeasuredOnTime /\ OnePacketEach /\ OutcomesCounted /\ FrameAccounted
  BY DEF ChainIInv
<1> DEFINE new == [from |-> i, outcome |-> outcome, at |-> chainNow]
<1>4. new.from = i /\ new.outcome = outcome /\ new.at = chainNow /\ packets' = packets \cup {new}
  BY <1>1
<1>5. chainNow \in Nat /\ latency \in Nat
  BY <1>3, ChainTimes DEF ChainTypeOK
<1>6. new \in [from : sent', outcome : Frames, at : Nat]
  BY <1>2, <1>5
<1> HIDE DEF new
<1>7. \A p \in packets : p.from \in sent /\ p.outcome \in Frames /\ p.at \in Nat
  BY <1>3 DEF ChainTypeOK
<1>8. new \notin packets
  BY <1>2, <1>4, <1>7
<1>9. Senders' = Senders /\ End' = End /\ InTime' = InTime
      /\ \A j : MeasureTime(j)' = MeasureTime(j)
  BY <1>2 DEF Senders, End, InTime, MeasureTime
<1>10. ChainTypeOK'
  <2>1. frame' \in Frames
    BY <1>1, <1>3, XorFields DEF ChainTypeOK
  <2>2. IsFiniteSet(packets')
    BY <1>3, <1>4, FS_AddElement DEF ChainTypeOK
  <2>3. packets' \subseteq [from : sent', outcome : Frames, at : Nat]
    BY <1>2, <1>3, <1>4, <1>6 DEF ChainTypeOK
  <2> QED  BY <1>2, <1>3, <1>9, <2>1, <2>2, <2>3 DEF ChainTypeOK
<1>11. MeasuredOnTime'
  <2>1. \A j \in sent' : MeasureTime(j) <= chainNow
    BY <1>2, <1>3, <1>5 DEF MeasuredOnTime
  <2> QED  BY <1>2, <1>3, <1>9, <2>1 DEF MeasuredOnTime
<1>12. OnePacketEach'
  <2>1. new.at = MeasureTime(new.from) /\ chainNow <= new.at + latency /\ new.from \notin lost
    BY <1>2, <1>3, <1>4, <1>5 DEF ChainTypeOK
  <2>2. \A p \in packets : p.from # new.from
    BY <1>2, <1>4, <1>7
  <2> QED  BY <1>2, <1>3, <1>4, <1>9, <2>1, <2>2 DEF OnePacketEach
<1>13. OutcomesCounted'
  <2> SUFFICES ASSUME chainApp = "EntSwap"
               PROVE  OutcomesCounted'
    BY <1>2 DEF OutcomesCounted
  <2>1. /\ IsFiniteSet(sent) /\ IsFiniteSet(packets) /\ Cardinality(sent) \in Nat
        /\ Cardinality(packets) \in Nat /\ Cardinality(lost) \in Nat
    BY <1>3, AllCounted
  <2>2. Cardinality(sent') = Cardinality(sent) + 1
    BY <1>2, <2>1, FS_AddElement
  <2>3. Cardinality(packets') = Cardinality(packets) + 1
    BY <1>4, <1>8, <2>1, FS_AddElement
  <2>4. count + Cardinality(sent) = Count + Cardinality(packets) + Cardinality(lost)
        /\ count \in Nat /\ Count \in Nat
    BY <1>3, ChainTimes DEF OutcomesCounted, ChainTypeOK
  <2>5. count + Cardinality(sent') = Count + Cardinality(packets') + Cardinality(lost)
    BY <2>1, <2>2, <2>3, <2>4
  <2>6. corrected <=> count = 0
    BY <1>3 DEF OutcomesCounted
  <2> QED  BY <1>2, <2>5, <2>6 DEF OutcomesCounted
<1>14. FrameAccounted'
  <2>1. chainApp = "Telep" => flag = Identity /\ ~corrected
    BY <1>3 DEF FrameAccounted
  <2>2. ~corrected
    <3> SUFFICES ASSUME chainApp = "EntSwap"
                 PROVE  ~corrected
      BY <1>3, <2>1 DEF ChainTypeOK
    <3> QED  BY <1>2, <1>3, AllCounted DEF OutcomesCounted
  <2>3. ASSUME lost = {}, chainApp = "Telep" => InTime
        PROVE  frame' = flag (+) Owed'
    <3>1. frame = flag (+) Owed
      BY <1>3, <2>2, <2>3 DEF FrameAccounted
    <3>2. Owed = OwedBy(packets) /\ Owed' = OwedBy(packets')
      BY DEF Owed, OwedBy
    <3>3. Owed \in Frames /\ Owed' = Owed (+) outcome
      BY <1>3, <1>4, <1>7, <1>8, <3>2, OwedWith DEF ChainTypeOK
    <3>4. frame' = (flag (+) Owed) (+) outcome
      BY <1>1, <3>1
    <3> QED  BY <1>3, <3>3, <3>4, XorLaws DEF ChainTypeOK
  <2> QED  BY <1>2, <1>9, <2>1, <2>2, <2>3 DEF FrameAccounted
<1>15. CrashedForAReason'
  BY <1>2, <1>9 DEF ChainIInv, CrashedForAReason, Doomed
<1> QED  BY <1>10, <1>11, <1>12, <1>13, <1>14, <1>15 DEF ChainIInv

\* What a packet that has come leaves.
LEMMA WithoutPacket ==
  ASSUME ChainIInv, NEW p \in packets
  PROVE  LET rest == packets \ {p}
         IN /\ IsFiniteSet(rest) /\ Cardinality(rest) = Cardinality(packets) - 1
            /\ OwedBy(rest) \in Frames /\ OwedBy({}) = Identity
            /\ Owed = OwedBy(rest) (+) p.outcome
            /\ p.from \in sent /\ p.from \notin lost /\ p.outcome \in Frames
<1> DEFINE rest == packets \ {p}
<1>1. ChainTypeOK /\ OnePacketEach
  BY DEF ChainIInv
<1>2. IsFiniteSet(packets) /\ \A q \in packets : q.from \in sent /\ q.outcome \in Frames
  BY <1>1 DEF ChainTypeOK
<1>3. IsFiniteSet(rest) /\ Cardinality(rest) = Cardinality(packets) - 1
  BY <1>2, FS_RemoveElement
<1>4. p \notin rest /\ packets = rest \cup {p}
  OBVIOUS
<1>5. \A q \in rest : q.outcome \in Frames
  BY <1>2
<1> HIDE DEF rest
<1>6. /\ OwedBy(rest) \in Frames /\ OwedBy({}) = Identity
      /\ OwedBy(rest \cup {p}) = OwedBy(rest) (+) p.outcome
  BY <1>2, <1>3, <1>4, <1>5, OwedWith
<1>7. Owed = OwedBy(packets)
  BY DEF Owed, OwedBy
<1>8. p.from \notin lost
  BY <1>1 DEF OnePacketEach
<1> QED  BY <1>2, <1>3, <1>4, <1>6, <1>7, <1>8 DEF rest

LEMMA HandleEntSwapIInv ==
  ASSUME ChainIInv, NEW p \in packets, HandleEntSwap(p)
  PROVE  ChainIInv'
<1> DEFINE rest == packets \ {p}
           sum == flag (+) p.outcome
<1>1. /\ chainApp = "EntSwap" /\ packets' = rest /\ flag' = sum /\ count' = count - 1
      /\ IF count - 1 = 0 THEN frame' = frame (+) sum /\ corrected' = TRUE
         ELSE frame' = frame /\ corrected' = corrected
      /\ UNCHANGED <<chainApp, latency, listenTime, godNode, spaced, crashed>>
      /\ UNCHANGED <<chainNow, sent, lost>>
  BY DEF HandleEntSwap, Read, chainSetup
<1>2. ChainTypeOK /\ MeasuredOnTime /\ OnePacketEach /\ OutcomesCounted /\ FrameAccounted
  BY DEF ChainIInv
<1>3. /\ IsFiniteSet(rest) /\ Cardinality(rest) = Cardinality(packets) - 1
      /\ OwedBy(rest) \in Frames /\ OwedBy({}) = Identity
      /\ Owed = OwedBy(rest) (+) p.outcome
      /\ p.from \in sent /\ p.from \notin lost /\ p.outcome \in Frames
  BY WithoutPacket
<1>4. /\ Cardinality(packets) \in Nat /\ Cardinality(lost) \in Nat /\ Cardinality(sent) \in Nat
      /\ count >= Cardinality(packets) + Cardinality(lost) /\ count \in Nat
      /\ IsFiniteSet(packets) /\ IsFiniteSet(lost)
  BY <1>1, <1>2, AllCounted DEF ChainTypeOK
<1>5. Cardinality(packets) >= 1
  BY <1>4, FS_EmptySet
<1>6. count >= 1 /\ count - 1 \in Nat
  BY <1>4, <1>5
<1>7. Senders' = Senders /\ End' = End /\ \A j : MeasureTime(j)' = MeasureTime(j)
  BY <1>1 DEF Senders, End, MeasureTime
<1>8. frame \in Frames /\ flag \in Frames /\ sum \in Frames
  BY <1>2, <1>3, XorFields DEF ChainTypeOK
<1> HIDE DEF sum
<1>9. frame' \in Frames /\ corrected' \in BOOLEAN
  <2>1. frame (+) sum \in Frames
    BY <1>8, XorFields
  <2>2. corrected \in BOOLEAN
    BY <1>2 DEF ChainTypeOK
  <2> QED  BY <1>1, <1>8, <2>1, <2>2
<1>10. rest \subseteq packets
  OBVIOUS
<1> HIDE DEF rest
<1>11. ChainTypeOK'
  <2>1. packets' \subseteq [from : sent', outcome : Frames, at : Nat] /\ IsFiniteSet(packets')
    BY <1>1, <1>2, <1>3, <1>10 DEF ChainTypeOK
  <2> QED  BY <1>1, <1>2, <1>6, <1>7, <1>8, <1>9, <2>1 DEF ChainTypeOK
<1>12. MeasuredOnTime'
  BY <1>1, <1>2, <1>7 DEF MeasuredOnTime
<1>13. OnePacketEach'
  BY <1>1, <1>2, <1>7, <1>10 DEF OnePacketEach
<1>14. corrected <=> count = 0
  BY <1>1, <1>2 DEF OutcomesCounted
<1>15. OutcomesCounted'
  <2>1. count + Cardinality(sent) = Count + Cardinality(packets) + Cardinality(lost)
    BY <1>1, <1>2 DEF OutcomesCounted
  <2>2. (count - 1) + Cardinality(sent) = Count + Cardinality(rest) + Cardinality(lost)
    <3>1. Count \in Nat
      BY ChainTimes
    <3> QED  BY <1>3, <1>4, <2>1, <3>1
  <2>3. corrected' <=> count' = 0
    BY <1>1, <1>6, <1>14
  <2> QED  BY <1>1, <2>2, <2>3 DEF OutcomesCounted
<1>16. FrameAccounted'
  <2> SUFFICES ASSUME lost = {}
               PROVE  frame' = IF corrected' THEN Identity ELSE sum (+) Owed'
    BY <1>1 DEF FrameAccounted
  <2>1. frame = flag (+) Owed
    BY <1>1, <1>2, <1>6, <1>14 DEF FrameAccounted
  <2>2. Owed' = OwedBy(rest)
    BY <1>1 DEF Owed, OwedBy
  <2>3. frame = sum (+) OwedBy(rest)
    <3>1. OwedBy(rest) (+) p.outcome = p.outcome (+) OwedBy(rest)
      BY <1>3, XorLaws
    <3>2. flag (+) (p.outcome (+) OwedBy(rest)) = (flag (+) p.outcome) (+) OwedBy(rest)
      BY <1>3, <1>8, XorLaws
    <3> QED  BY <1>3, <2>1, <3>1, <3>2 DEF sum
  <2>4. CASE count - 1 = 0
    <3>1. Cardinality(packets) = 1
      BY <1>4, <1>5, <2>4
    <3>2. rest = {}
      BY <1>3, <3>1, FS_EmptySet
    <3>3. frame = sum
      BY <1>3, <1>8, <2>3, <3>2, XorLaws
    <3> QED  BY <1>1, <1>8, <2>4, <3>3, XorLaws
  <2>5. CASE count - 1 # 0
    <3>1. ~corrected' /\ frame' = frame
      BY <1>1, <1>6, <1>14, <2>5
    <3> QED  BY <2>2, <2>3, <3>1
  <2> QED  BY <2>4, <2>5
<1>17. CrashedForAReason'
  BY <1>1, <1>7 DEF ChainIInv, CrashedForAReason, Doomed
<1> QED  BY <1>11, <1>12, <1>13, <1>15, <1>16, <1>17 DEF ChainIInv

LEMMA HandleTelepIInv ==
  ASSUME ChainIInv, NEW p \in packets, HandleTelep(p)
  PROVE  ChainIInv'
<1> DEFINE rest == packets \ {p}
<1>1. /\ chainApp = "Telep" /\ packets' = rest
      /\ frame' = IF p.from + 1 \notin sent THEN frame (+) p.outcome ELSE frame
      /\ UNCHANGED <<chainApp, latency, listenTime, godNode, spaced, crashed>>
      /\ UNCHANGED <<chainNow, sent, count, flag, corrected, lost>>
  BY DEF HandleTelep, Read, chainSetup
<1>2. ChainTypeOK /\ MeasuredOnTime /\ OnePacketEach /\ OutcomesCounted /\ FrameAccounted
  BY DEF ChainIInv
<1>3. /\ IsFiniteSet(rest) /\ OwedBy(rest) \in Frames
      /\ Owed = OwedBy(rest) (+) p.outcome
      /\ p.from \in sent /\ p.outcome \in Frames
  BY WithoutPacket
<1>4. Senders' = Senders /\ End' = End /\ InTime' = InTime
      /\ \A j : MeasureTime(j)' = MeasureTime(j)
  BY <1>1 DEF Senders, End, InTime, MeasureTime
<1>5. frame' \in Frames /\ frame \in Frames
  BY <1>1, <1>2, <1>3, XorFields DEF ChainTypeOK
<1>6. rest \subseteq packets
  OBVIOUS
<1> HIDE DEF rest
<1>7. ChainTypeOK'
  <2>1. packets' \subseteq [from : sent', outcome : Frames, at : Nat] /\ IsFiniteSet(packets')
    BY <1>1, <1>2, <1>3, <1>6 DEF ChainTypeOK
  <2> QED  BY <1>1, <1>2, <1>4, <1>5, <2>1 DEF ChainTypeOK
<1>8. MeasuredOnTime'
  BY <1>1, <1>2, <1>4 DEF MeasuredOnTime
<1>9. OnePacketEach'
  BY <1>1, <1>2, <1>4, <1>6 DEF OnePacketEach
<1>10. OutcomesCounted'
  BY <1>1 DEF OutcomesCounted
<1>11. FrameAccounted'
  <2>1. flag = Identity /\ ~corrected
    BY <1>1, <1>2 DEF FrameAccounted
  <2>2. ASSUME lost = {}, InTime
        PROVE  frame' = Identity (+) OwedBy(rest)
    <3>1. p.from + 1 \notin sent
      <4> SUFFICES ASSUME p.from + 1 \in sent
                   PROVE  FALSE
        OBVIOUS
      <4> DEFINE i == p.from
      <4>1. i \in Senders /\ i \in 0 .. Last - 1 /\ i + 1 \in 0 .. Last - 1
        BY <1>2, <1>3, ChainTimes DEF ChainTypeOK
      <4>2. p.at = MeasureTime(i) /\ chainNow <= p.at + latency
        BY <1>2 DEF OnePacketEach
      <4>3. MeasureTime(i + 1) <= chainNow
        BY <1>2 DEF MeasuredOnTime
      <4> HIDE DEF i
      <4>4. /\ MeasureTime(i) <= Hop * i + LocalDelay /\ Hop * (i + 1) = Hop * i + Hop
            /\ MeasureTime(i) \in Nat /\ Hop * i \in Nat /\ MeasureTime(i + 1) \in Nat
            /\ MeasureTime(i + 1) >= Hop * (i + 1) /\ Hop * (i + 1) \in Nat
        BY <1>1, <4>1, ChainTimes
      <4>5. LocalDelay + latency < Hop /\ latency \in Nat /\ LocalDelay \in Nat /\ Hop \in Nat
            /\ chainNow \in Nat
        BY <1>2, <2>2, ChainTimes DEF InTime, ChainTypeOK
      <4> DEFINE a == Hop * i
                 b == Hop * (i + 1)
                 s == MeasureTime(i)
                 t == MeasureTime(i + 1)
      <4>6. /\ a \in Nat /\ b = a + Hop /\ s \in Nat /\ t \in Nat /\ t <= chainNow /\ t >= b
            /\ s <= a + LocalDelay /\ chainNow <= s + latency
        BY <4>2, <4>3, <4>4
      <4> HIDE DEF a, b, s, t
      <4> QED  BY <4>5, <4>6
    <3>2. frame = Identity (+) Owed
      BY <1>2, <2>1, <2>2 DEF FrameAccounted
    <3>3. Identity \in Frames
      BY FrameFields
    <3>4. frame = Owed
      BY <1>3, <3>2, <3>3, XorFields, XorLaws
    <3>5. frame' = (OwedBy(rest) (+) p.outcome) (+) p.outcome
      BY <1>1, <1>3, <3>1, <3>4
    <3>6. p.outcome (+) p.outcome = Identity
      BY <1>3, XorLaws
    <3>7. OwedBy(rest) (+) (p.outcome (+) p.outcome) = (OwedBy(rest) (+) p.outcome) (+) p.outcome
      BY <1>3, XorLaws
    <3>8. OwedBy(rest) (+) Identity = OwedBy(rest) /\ Identity (+) OwedBy(rest) = OwedBy(rest)
      BY <1>3, XorLaws
    <3> QED  BY <3>5, <3>6, <3>7, <3>8
  <2>3. Owed' = OwedBy(rest)
    BY <1>1 DEF Owed, OwedBy
  <2> QED  BY <1>1, <1>4, <2>1, <2>2, <2>3 DEF FrameAccounted
<1>12. CrashedForAReason'
  BY <1>1, <1>4 DEF ChainIInv, CrashedForAReason, Doomed
<1> QED  BY <1>7, <1>8, <1>9, <1>10, <1>11, <1>12 DEF ChainIInv

LEMMA DropIInv ==
  ASSUME ChainIInv, NEW p \in packets, Drop(p)
  PROVE  ChainIInv'
<1> DEFINE rest == packets \ {p}
<1>1. /\ packets' = rest /\ lost' = lost \cup {p.from}
      /\ UNCHANGED <<chainApp, latency, listenTime, godNode, spaced, crashed>>
      /\ UNCHANGED <<chainNow, sent, frame, count, flag, corrected>>
  BY DEF Drop, chainSetup
<1>2. ChainTypeOK /\ MeasuredOnTime /\ OnePacketEach /\ OutcomesCounted /\ FrameAccounted
  BY DEF ChainIInv
<1>3. /\ IsFiniteSet(rest) /\ Cardinality(rest) = Cardinality(packets) - 1
      /\ p.from \in sent /\ p.from \notin lost
  BY WithoutPacket
<1>4. Senders' = Senders /\ End' = End /\ \A j : MeasureTime(j)' = MeasureTime(j)
  BY <1>1 DEF Senders, End, MeasureTime
<1>5. rest \subseteq packets /\ p \notin rest
  OBVIOUS
<1> HIDE DEF rest
<1>6. ChainTypeOK'
  <2>1. packets' \subseteq [from : sent', outcome : Frames, at : Nat] /\ IsFiniteSet(packets')
    BY <1>1, <1>2, <1>3, <1>5 DEF ChainTypeOK
  <2>2. lost' \subseteq sent'
    BY <1>1, <1>2, <1>3 DEF ChainTypeOK
  <2> QED  BY <1>1, <1>2, <1>4, <2>1, <2>2 DEF ChainTypeOK
<1>7. MeasuredOnTime'
  BY <1>1, <1>2, <1>4 DEF MeasuredOnTime
<1>8. OnePacketEach'
  <2>1. \A q \in rest : q.from # p.from
    BY <1>2, <1>5 DEF OnePacketEach
  <2> QED  BY <1>1, <1>2, <1>4, <1>5, <2>1 DEF OnePacketEach
<1>9. OutcomesCounted'
  <2> SUFFICES ASSUME chainApp = "EntSwap"
               PROVE  OutcomesCounted'
    BY <1>1 DEF OutcomesCounted
  <2>1. /\ IsFiniteSet(lost) /\ Cardinality(sent) \in Nat
        /\ Cardinality(packets) \in Nat /\ Cardinality(lost) \in Nat
    BY <1>2, AllCounted
  <2>2. Cardinality(lost') = Cardinality(lost) + 1
    BY <1>1, <1>3, <2>1, FS_AddElement
  <2>3. count + Cardinality(sent) = Count + Cardinality(packets) + Cardinality(lost)
        /\ (corrected <=> count = 0) /\ count \in Nat /\ Count \in Nat
    BY <1>2, ChainTimes DEF OutcomesCounted, ChainTypeOK
  <2>4. count + Cardinality(sent) = Count + Cardinality(rest) + Cardinality(lost')
    BY <1>3, <2>1, <2>2, <2>3
  <2> QED  BY <1>1, <2>3, <2>4 DEF OutcomesCounted
<1>10. FrameAccounted'
  <2>1. lost' # {}
    BY <1>1
  <2> QED  BY <1>1, <1>2, <2>1 DEF FrameAccounted
<1>11. CrashedForAReason'
  BY <1>1, <1>4 DEF ChainIInv, CrashedForAReason, Doomed
<1> QED  BY <1>6, <1>7, <1>8, <1>9, <1>10, <1>11 DEF ChainIInv

\* A relay fails without God's node, or because another one has measured before.
LEMMA CrashIInv ==
  ASSUME ChainIInv, NEW i \in Senders, MeasureCrashes(i), chainNow < End
  PROVE  ChainIInv'
<1>1. /\ chainNow = MeasureTime(i) /\ ~MeasureSucceeds /\ crashed' = TRUE
      /\ UNCHANGED <<chainApp, latency, listenTime, godNode, spaced>>
      /\ UNCHANGED <<chainNow, sent, frame, packets, count, flag, corrected, lost>>
  BY DEF MeasureCrashes, chainSetup
<1>2. Senders' = Senders /\ End' = End /\ InTime' = InTime /\ Owed' = Owed
      /\ \A j : MeasureTime(j)' = MeasureTime(j)
  BY <1>1 DEF Senders, End, InTime, MeasureTime, Owed
<1>3. ChainTypeOK /\ MeasuredOnTime /\ OnePacketEach /\ OutcomesCounted /\ FrameAccounted
  BY DEF ChainIInv
<1>4. ChainTypeOK'
  BY <1>1, <1>2, <1>3 DEF ChainTypeOK
<1>5. MeasuredOnTime' /\ OnePacketEach'
  BY <1>1, <1>2, <1>3 DEF MeasuredOnTime, OnePacketEach
<1>6. OutcomesCounted' /\ FrameAccounted'
  BY <1>1, <1>2, <1>3 DEF OutcomesCounted, FrameAccounted
<1>7. Doomed
  <2> SUFFICES ASSUME godNode
               PROVE  chainApp = "EntSwap" /\ spaced /\ Last > 2
    BY <1>1 DEF Doomed, MeasureSucceeds
  <2>1. chainApp = "EntSwap" /\ TracedBefore # {}
    BY <1>1 DEF MeasureSucceeds
  <2>2. PICK j \in sent : MeasureTime(j) < MeasureTime(i)
    BY <1>1, <2>1 DEF TracedBefore
  <2>3. j \in 1 .. (Last - 1) /\ i \in 1 .. (Last - 1)
    BY <1>3, <2>1 DEF ChainTypeOK, Senders
  <2>4. Last \in Nat /\ Hop \in Nat
    BY ChainTimes
  <2>5. i # j
    <3>1. MeasureTime(i) \in Nat
      BY <2>3, <2>4, ChainTimes
    <3> QED  BY <2>2, <3>1
  <2>6. spaced
    BY <2>1, <2>2, <2>4 DEF MeasureTime
  <2>7. Last > 2
    BY <2>3, <2>4, <2>5
  <2> QED  BY <2>1, <2>6, <2>7
<1>8. CrashedForAReason'
  BY <1>1, <1>2, <1>7 DEF CrashedForAReason, Doomed
<1> QED  BY <1>4, <1>5, <1>6, <1>8 DEF ChainIInv

\* Every reachable state keeps the invariant.
THEOREM ChainInvariance == ChainSpec => []ChainIInv
<1>1. ChainInit => ChainIInv
  BY ChainInitIInv
<1>2. ChainIInv /\ [ChainNext]_chainVars => ChainIInv'
  <2> SUFFICES ASSUME ChainIInv, [ChainNext]_chainVars
               PROVE  ChainIInv'
    OBVIOUS
  <2>1. ASSUME Advance, chainNow < End, ~crashed
        PROVE  ChainIInv'
    BY <2>1, AdvanceIInv
  <2>2. ASSUME NEW i \in Senders, MeasureAndSend(i), chainNow < End
        PROVE  ChainIInv'
    BY <2>2, MeasureIInv
  <2>3. ASSUME NEW p \in packets, HandleEntSwap(p)
        PROVE  ChainIInv'
    BY <2>3, HandleEntSwapIInv
  <2>4. ASSUME NEW p \in packets, HandleTelep(p)
        PROVE  ChainIInv'
    BY <2>4, HandleTelepIInv
  <2>5. ASSUME NEW p \in packets, Drop(p)
        PROVE  ChainIInv'
    BY <2>5, DropIInv
  <2>6. CASE UNCHANGED chainVars
    BY <2>6 DEF chainVars, chainSetup, ChainIInv, ChainTypeOK, MeasuredOnTime, OnePacketEach,
                OutcomesCounted, FrameAccounted, CrashedForAReason, Doomed, Senders, End, InTime,
                MeasureTime, Owed
  <2>7. ASSUME NEW i \in Senders, MeasureCrashes(i), chainNow < End
        PROVE  ChainIInv'
    BY <2>7, CrashIInv
  <2> QED  BY <2>1, <2>2, <2>3, <2>4, <2>5, <2>6, <2>7 DEF ChainNext
<1> QED  BY <1>1, <1>2, PTL DEF ChainSpec

\* Every variable of a chain has values of its kind.
THEOREM ChainTypeCorrect == ChainSpec => []ChainTypeOK
<1>1. ChainIInv => ChainTypeOK
  BY DEF ChainIInv
<1> QED  BY <1>1, ChainInvariance, PTL

\* The receiver of the swap outcomes corrects with all of them or not at all, whatever order they
\* come in, and in a network that is fast enough no correction is missing at the end, unless a
\* packet was lost; the program fails only at a relay of a swap that finds no node of God or
\* measures after another relay (EntSwapDstApp::HandleRead, TelepDstApp::HandleRead,
\* EntSwapSrcApp::MeasureAndSend).
THEOREM NothingMissing == ChainSpec => []NoCorrectionMissing
<1>1. ChainIInv => NoCorrectionMissing
  <2> SUFFICES ASSUME ChainIInv
               PROVE  NoCorrectionMissing
    OBVIOUS
  <2>1. /\ ChainTypeOK /\ MeasuredOnTime /\ OnePacketEach /\ OutcomesCounted /\ FrameAccounted
        /\ CrashedForAReason
    BY DEF ChainIInv
  <2>2. ASSUME chainApp = "EntSwap", corrected
        PROVE  sent = Senders /\ frame = Identity /\ lost = {}
    <3>1. count = 0
      BY <2>1, <2>2 DEF OutcomesCounted
    <3>2. sent = Senders /\ lost = {}
      BY <2>1, <2>2, <3>1, AllCounted
    <3> QED  BY <2>1, <2>2, <3>2 DEF FrameAccounted
  <2>3. ASSUME InTime, chainNow = End, lost = {}
        PROVE  frame = Identity
    <3>1. ASSUME NEW i \in Senders
          PROVE  /\ MeasureTime(i) < End
                 /\ MeasureTime(i) + latency < End
      <4>1. i \in 0 .. Last - 1
        BY ChainTimes
      <4>2. /\ MeasureTime(i) <= Hop * i + LocalDelay /\ Hop * (i + 1) = Hop * i + Hop
            /\ MeasureTime(i) \in Nat /\ Hop * i \in Nat /\ Hop * (i + 1) <= End /\ End \in Nat
        BY <4>1, ChainTimes
      <4>3. LocalDelay + latency < Hop /\ latency \in Nat /\ LocalDelay \in Nat /\ Hop \in Nat
        BY <2>1, <2>3, ChainTimes DEF InTime, ChainTypeOK
      <4> DEFINE a == Hop * i
                 b == Hop * (i + 1)
                 s == MeasureTime(i)
                 e == End
      <4>4. a \in Nat /\ b = a + Hop /\ s \in Nat /\ s <= a + LocalDelay /\ b <= e /\ e \in Nat
        BY <4>2
      <4> HIDE DEF a, b, s, e
      <4>5. s < e /\ s + latency < e
        BY <4>3, <4>4
      <4> QED  BY <4>5 DEF s, e
    <3>2. sent = Senders
      BY <2>1, <2>3, <3>1 DEF MeasuredOnTime, ChainTypeOK
    <3>3. packets = {}
      <4> SUFFICES ASSUME NEW p \in packets
                   PROVE  FALSE
        OBVIOUS
      <4>1. p.from \in Senders /\ p.at = MeasureTime(p.from) /\ End <= p.at + latency
        BY <2>1, <2>3 DEF ChainTypeOK, OnePacketEach
      <4>2. MeasureTime(p.from) + latency < End
        BY <3>1, <4>1
      <4>3. MeasureTime(p.from) \in Nat /\ latency \in Nat /\ End \in Nat
        BY <2>1, <4>1, ChainTimes DEF ChainTypeOK
      <4> QED  BY <4>1, <4>2, <4>3
    <3>4. Owed = Identity
      <4>1. Cardinality({}) = 0
        BY FS_EmptySet
      <4>2. {p \in {} : p.outcome.x} = {} /\ {p \in {} : p.outcome.z} = {}
        OBVIOUS
      <4>3. Odd({}) = FALSE
        BY <4>1 DEF Odd
      <4> QED  BY <3>3, <4>2, <4>3 DEF Owed, Identity
    <3>5. CASE chainApp = "Telep"
      <4>1. frame = Identity (+) Identity
        BY <2>1, <2>3, <3>4, <3>5 DEF FrameAccounted
      <4> QED  BY <4>1, FrameFields, XorLaws
    <3>6. CASE chainApp = "EntSwap"
      <4>1. count + Count = Count + 0 + 0
        BY <2>1, <2>3, <3>2, <3>3, <3>6, SendersCounted, FS_EmptySet DEF OutcomesCounted
      <4>2. count = 0
        BY <2>1, <4>1, ChainTimes DEF ChainTypeOK
      <4>3. corrected
        BY <2>1, <3>6, <4>2 DEF OutcomesCounted
      <4> QED  BY <2>2, <3>6, <4>3
    <3> QED  BY <2>1, <3>5, <3>6 DEF ChainTypeOK
  <2> QED  BY <2>1, <2>2, <2>3 DEF NoCorrectionMissing
<1> QED  BY <1>1, ChainInvariance, PTL

(***************************************************************************)
(*                                                                         *)
(*                               DISTILLATION                              *)
(*                                                                         *)
(***************************************************************************)

(***************************************************************************)
(* What Distillate schedules                                               *)
(***************************************************************************)
HalfByHalf(upTo, halvings) ==
  upTo = [i \in 0 .. halvings |-> IF i = 0 THEN OfTwo ELSE OfHalves(upTo[i - 1])]

\* Halving is defined for every number of halvings.
LEMMA DistillateDefined ==
  ASSUME NEW n \in Nat
  PROVE  \E upTo : HalfByHalf(upTo, n) /\ Distillate(n) = upTo[n]
<1> DEFINE Defines(g, m) == g = [i \in 0 .. m |-> IF i = 0 THEN OfTwo ELSE OfHalves(g[i - 1])]
           S == {m \in Nat : \E g : Defines(g, m)}
<1>1. S \in SUBSET Nat
  OBVIOUS
<1>2. 0 \in S
  <2> DEFINE g == [i \in 0 .. 0 |-> OfTwo]
  <2>1. Defines(g, 0)
    OBVIOUS
  <2> QED  BY <2>1
<1>3. ASSUME NEW m \in S
      PROVE  m + 1 \in S
  <2>1. PICK g : Defines(g, m)
    OBVIOUS
  <2> DEFINE h == [i \in 0 .. m + 1 |-> IF i = m + 1 THEN OfHalves(g[m]) ELSE g[i]]
  <2>2. m \in Nat
    OBVIOUS
  <2>3. ASSUME NEW i \in 0 .. m + 1
        PROVE  h[i] = IF i = 0 THEN OfTwo ELSE OfHalves(h[i - 1])
    <3>1. CASE i = m + 1
      BY <2>2, <3>1
    <3>2. CASE i \in 0 .. m
      <4>1. g[i] = IF i = 0 THEN OfTwo ELSE OfHalves(g[i - 1])
        BY <2>1, <3>2
      <4>2. h[i] = g[i] /\ (i # 0 => h[i - 1] = g[i - 1])
        BY <2>2, <3>2
      <4> QED  BY <4>1, <4>2
    <3> QED  BY <2>2, <3>1, <3>2
  <2>4. Defines(h, m + 1)
    BY <2>3
  <2> HIDE DEF Defines, h
  <2> QED  BY <2>2, <2>4
<1> HIDE DEF S
<1>4. n \in S
  BY <1>1, <1>2, <1>3, NatSetInduction
<1>5. \E g : Defines(g, n)
  BY <1>4 DEF S
<1> DEFINE upTo == CHOOSE g : Defines(g, n)
<1>6. Defines(upTo, n)
  BY <1>5
<1>7. Distillate(n) = upTo[n]
  BY DEF Distillate
<1> HIDE DEF upTo
<1> QED  BY <1>6, <1>7 DEF HalfByHalf

CallsOf(n) == [op : {"epr", "round"}, goal : 0 .. n - 1, meas : 0 .. n - 1]

IsEpr(calls, k, q) == calls[k].op = "epr" /\ calls[k].goal = q

\* A schedule makes each pair once, before the rounds it is in; every pair but the first is
\* measured, and not used after that; the last round is between the survivors of two halves.
IsSchedule(calls, n) ==
  /\ n \in Nat /\ n >= 2
  /\ calls \in Seq(CallsOf(n)) /\ Len(calls) >= 1
  /\ calls[Len(calls)] = Call("round", 0, n \div 2)
  /\ \A q \in 0 .. n - 1 : \E k \in 1 .. Len(calls) : IsEpr(calls, k, q)
  /\ \A k, l \in 1 .. Len(calls) :
       calls[k].op = "epr" /\ calls[l].op = "epr" /\ calls[k].goal = calls[l].goal => k = l
  /\ \A k \in 1 .. Len(calls) :
       calls[k].op = "round" =>
         /\ calls[k].goal < calls[k].meas
         /\ \E i \in 1 .. k - 1 : IsEpr(calls, i, calls[k].goal)
         /\ \E i \in 1 .. k - 1 : IsEpr(calls, i, calls[k].meas)
  /\ \A q \in 1 .. n - 1 : \E k \in 1 .. Len(calls) : calls[k].op = "round" /\ calls[k].meas = q
  /\ \A k, l \in 1 .. Len(calls) :
       calls[k].op = "round" /\ calls[l].op = "round" /\ k < l =>
         calls[k].meas # calls[l].goal /\ calls[k].meas # calls[l].meas

\* Two pairs, distilled once.
LEMMA TwoIsSchedule == IsSchedule(OfTwo.calls, 2) /\ OfTwo.pairs = 2
<1> DEFINE calls == <<Call("epr", 0, 0), Call("epr", 1, 1), Call("round", 0, 1)>>
<1>1. OfTwo.calls = calls /\ OfTwo.pairs = 2
  <2>1. Meas(2) = 1
    BY DEF Meas
  <2> QED  BY <2>1 DEF OfTwo
<1>2. /\ calls \in Seq(CallsOf(2)) /\ Len(calls) = 3
      /\ calls[1].op = "epr" /\ calls[1].goal = 0 /\ calls[1].meas = 0
      /\ calls[2].op = "epr" /\ calls[2].goal = 1 /\ calls[2].meas = 1
      /\ calls[3].op = "round" /\ calls[3].goal = 0 /\ calls[3].meas = 1
      /\ calls[3] = Call("round", 0, 1)
  BY DEF CallsOf, Call
<1> HIDE DEF calls
<1>3. 2 \div 2 = 1
  OBVIOUS
<1>4. \A q \in 0 .. 2 - 1 : \E k \in 1 .. Len(calls) : IsEpr(calls, k, q)
  BY <1>2 DEF IsEpr
<1>5. \A k \in 1 .. Len(calls) :
        calls[k].op = "round" =>
          /\ calls[k].goal < calls[k].meas
          /\ \E i \in 1 .. k - 1 : IsEpr(calls, i, calls[k].goal)
          /\ \E i \in 1 .. k - 1 : IsEpr(calls, i, calls[k].meas)
  <2> SUFFICES ASSUME NEW k \in 1 .. Len(calls), calls[k].op = "round"
               PROVE  /\ calls[k].goal < calls[k].meas
                      /\ \E i \in 1 .. k - 1 : IsEpr(calls, i, calls[k].goal)
                      /\ \E i \in 1 .. k - 1 : IsEpr(calls, i, calls[k].meas)
    OBVIOUS
  <2>1. k = 3
    BY <1>2
  <2>2. 1 \in 1 .. k - 1 /\ 2 \in 1 .. k - 1
    BY <2>1
  <2> QED  BY <1>2, <2>1, <2>2 DEF IsEpr
<1>6. \A q \in 1 .. 2 - 1 : \E k \in 1 .. Len(calls) : calls[k].op = "round" /\ calls[k].meas = q
  BY <1>2
<1>7. \A k, l \in 1 .. Len(calls) :
        calls[k].op = "epr" /\ calls[l].op = "epr" /\ calls[k].goal = calls[l].goal => k = l
  BY <1>2
<1>8. \A k, l \in 1 .. Len(calls) :
        calls[k].op = "round" /\ calls[l].op = "round" /\ k < l =>
          calls[k].meas # calls[l].goal /\ calls[k].meas # calls[l].meas
  BY <1>2
<1> QED  BY <1>1, <1>2, <1>3, <1>4, <1>5, <1>6, <1>7, <1>8 DEF IsSchedule

\* What two halves schedule, followed by the round between them.
LEMMA HalvesAreSchedule ==
  ASSUME NEW half, NEW m, half.pairs = m, IsSchedule(half.calls, m)
  PROVE  IsSchedule(OfHalves(half).calls, 2 * m) /\ OfHalves(half).pairs = 2 * m
<1> DEFINE calls == half.calls
           size == Len(calls)
           second == Shifted(calls, m)
           last == Call("round", 0, m)
           both == OfHalves(half).calls
<1>1. /\ m \in Nat /\ m >= 2 /\ calls \in Seq(CallsOf(m)) /\ size \in Nat /\ size >= 1
      /\ \A k \in 1 .. size : /\ calls[k] \in CallsOf(m)
                              /\ calls[k].op \in {"epr", "round"}
                              /\ calls[k].goal \in 0 .. m - 1 /\ calls[k].meas \in 0 .. m - 1
  <2>1. m \in Nat /\ m >= 2 /\ calls \in Seq(CallsOf(m)) /\ size \in Nat /\ size >= 1
    BY DEF IsSchedule
  <2>2. \A k \in 1 .. size : calls[k] \in CallsOf(m)
    BY <2>1
  <2> QED  BY <2>1, <2>2 DEF CallsOf
<1>2. Meas(2 * m) = m
  BY <1>1 DEF Meas
<1>3. both = calls \o second \o <<last>> /\ OfHalves(half).pairs = 2 * m
  BY <1>2 DEF OfHalves
<1>4. /\ second \in Seq(CallsOf(2 * m)) /\ Len(second) = size
      /\ \A k \in 1 .. size : /\ second[k].op = calls[k].op
                              /\ second[k].goal = calls[k].goal + m
                              /\ second[k].meas = calls[k].meas + m
  <2>1. second = [k \in 1 .. size |-> Call(calls[k].op, calls[k].goal + m, calls[k].meas + m)]
    BY <1>1 DEF Shifted
  <2> HIDE DEF calls, size, second
  <2>2. ASSUME NEW k \in 1 .. size
        PROVE  Call(calls[k].op, calls[k].goal + m, calls[k].meas + m) \in CallsOf(2 * m)
    <3>1. calls[k].goal + m \in 0 .. 2 * m - 1 /\ calls[k].meas + m \in 0 .. 2 * m - 1
      <4>1. calls[k].goal \in 0 .. m - 1 /\ calls[k].meas \in 0 .. m - 1 /\ m \in Nat
        BY <1>1
      <4> QED  BY <4>1
    <3>2. calls[k].op \in {"epr", "round"}
      BY <1>1
    <3> QED  BY <3>1, <3>2 DEF Call, CallsOf
  <2>3. second \in Seq(CallsOf(2 * m)) /\ Len(second) = size
    <3> DEFINE S == CallsOf(2 * m)
    <3>1. second \in [1 .. size -> S]
      BY <2>1, <2>2
    <3> HIDE DEF S
    <3>2. size \in Nat
      BY <1>1
    <3>3. second \in Seq(S) /\ Len(second) = size
      BY <3>1, <3>2
    <3> QED  BY <3>3 DEF S
  <2> QED  BY <2>1, <2>3 DEF Call
<1>5. calls \in Seq(CallsOf(2 * m)) /\ last \in CallsOf(2 * m)
  <2> HIDE DEF calls, size
  <2>1. 0 .. m - 1 \subseteq 0 .. 2 * m - 1 /\ 0 \in 0 .. 2 * m - 1 /\ m \in 0 .. 2 * m - 1
    BY <1>1
  <2>2. CallsOf(m) \subseteq CallsOf(2 * m)
    BY <2>1 DEF CallsOf
  <2>3. last \in CallsOf(2 * m)
    BY <2>1 DEF Call, CallsOf
  <2> QED  BY <1>1, <2>2, <2>3
<1> HIDE DEF second, last, size, calls
<1>6. /\ both \in Seq(CallsOf(2 * m)) /\ Len(both) = 2 * size + 1
      /\ \A k \in 1 .. size : both[k] = calls[k]
      /\ \A k \in 1 .. size : both[k + size] = second[k]
      /\ both[2 * size + 1] = last
  <2>1. /\ calls \o second \in Seq(CallsOf(2 * m))
        /\ Len(calls \o second) = size + size
        /\ \A k \in 1 .. size + size :
             (calls \o second)[k] = IF k <= size THEN calls[k] ELSE second[k - size]
    <3> DEFINE S == CallsOf(2 * m)
    <3>1. calls \in Seq(S) /\ second \in Seq(S)
      BY <1>4, <1>5
    <3> HIDE DEF S
    <3>2. Len(calls) = size /\ Len(second) = size
      BY <1>4 DEF size
    <3>3. /\ calls \o second \in Seq(S)
          /\ Len(calls \o second) = size + size
          /\ \A k \in 1 .. size + size :
               (calls \o second)[k] = IF k <= size THEN calls[k] ELSE second[k - size]
      BY <3>1, <3>2
    <3> QED  BY <3>3 DEF S
  <2> DEFINE first == calls \o second
  <2>2. both = Append(first, last)
    <3>1. first \o <<last>> = Append(first, last)
      BY <1>5, <2>1
    <3> QED  BY <1>3, <3>1
  <2>3. first \in Seq(CallsOf(2 * m)) /\ Len(first) = size + size
    BY <2>1
  <2>4. \A k \in 1 .. size : first[k] = calls[k] /\ first[k + size] = second[k]
    BY <1>1, <2>1
  <2> HIDE DEF first, both
  <2>5. /\ both \in Seq(CallsOf(2 * m)) /\ Len(both) = size + size + 1
        /\ \A k \in 1 .. size + size : both[k] = first[k]
        /\ both[size + size + 1] = last
    <3> DEFINE S == CallsOf(2 * m)
               n == size + size
    <3>1. first \in Seq(S) /\ last \in S /\ Len(first) = n
      BY <1>5, <2>3
    <3> HIDE DEF S, n
    <3>2. /\ both \in Seq(S) /\ Len(both) = n + 1
          /\ \A k \in 1 .. n : both[k] = first[k]
          /\ both[n + 1] = last
      BY <2>2, <3>1
    <3> QED  BY <3>2 DEF S, n
  <2>6. /\ size + size + 1 = 2 * size + 1
        /\ \A k \in 1 .. size : k \in 1 .. size + size /\ k + size \in 1 .. size + size
    BY <1>1
  <2> QED  BY <2>4, <2>5, <2>6
<1> HIDE DEF both
<1>7. last.op = "round" /\ last.goal = 0 /\ last.meas = m
  BY DEF last, Call
\* Each call is of the first half, of the second, or the last.
<1>8. \A k \in 1 .. 2 * size + 1 :
        k \in 1 .. size \/ (\E i \in 1 .. size : k = i + size) \/ k = 2 * size + 1
  <2> SUFFICES ASSUME NEW k \in 1 .. 2 * size + 1
               PROVE  k \in 1 .. size \/ (\E i \in 1 .. size : k = i + size) \/ k = 2 * size + 1
    OBVIOUS
  <2>1. k \in 1 .. size \/ (k - size \in 1 .. size /\ k = (k - size) + size) \/ k = 2 * size + 1
    BY <1>1
  <2> QED  BY <2>1, Zenon
<1>9. \A k \in 1 .. size : /\ k \in 1 .. 2 * size + 1 /\ k + size \in 1 .. 2 * size + 1
                           /\ both[k].op = calls[k].op /\ both[k].goal = calls[k].goal
                           /\ both[k].meas = calls[k].meas
                           /\ both[k + size].op = calls[k].op
                           /\ both[k + size].goal = calls[k].goal + m
                           /\ both[k + size].meas = calls[k].meas + m
  <2> SUFFICES ASSUME NEW k \in 1 .. size
               PROVE  /\ k \in 1 .. 2 * size + 1 /\ k + size \in 1 .. 2 * size + 1
                      /\ both[k] = calls[k] /\ both[k + size] = second[k]
    BY <1>4
  <2> QED  BY <1>1, <1>6
<1>10. \A q \in 0 .. 2 * m - 1 : \E k \in 1 .. 2 * size + 1 : IsEpr(both, k, q)
  <2> SUFFICES ASSUME NEW q \in 0 .. 2 * m - 1
               PROVE  \E k \in 1 .. 2 * size + 1 : IsEpr(both, k, q)
    OBVIOUS
  <2>1. \A p \in 0 .. m - 1 : \E k \in 1 .. size : IsEpr(calls, k, p)
    BY DEF IsSchedule, size, calls
  <2>2. CASE q \in 0 .. m - 1
    BY <1>9, <2>1, <2>2 DEF IsEpr
  <2>3. CASE q - m \in 0 .. m - 1
    <3>1. PICK k \in 1 .. size : IsEpr(calls, k, q - m)
      BY <2>1, <2>3
    <3>2. (q - m) + m = q
      BY <1>1
    <3> QED  BY <1>9, <3>1, <3>2 DEF IsEpr
  <2>4. q \in 0 .. m - 1 \/ q - m \in 0 .. m - 1
    BY <1>1
  <2> QED  BY <2>2, <2>3, <2>4
<1>11. \A q \in 1 .. 2 * m - 1 :
         \E k \in 1 .. 2 * size + 1 : both[k].op = "round" /\ both[k].meas = q
  <2> SUFFICES ASSUME NEW q \in 1 .. 2 * m - 1
               PROVE  \E k \in 1 .. 2 * size + 1 : both[k].op = "round" /\ both[k].meas = q
    OBVIOUS
  <2>1. \A p \in 1 .. m - 1 : \E k \in 1 .. size : calls[k].op = "round" /\ calls[k].meas = p
    BY DEF IsSchedule, size, calls
  <2>2. CASE q \in 1 .. m - 1
    BY <1>9, <2>1, <2>2
  <2>3. CASE q - m \in 1 .. m - 1
    <3>1. PICK k \in 1 .. size : calls[k].op = "round" /\ calls[k].meas = q - m
      BY <2>1, <2>3
    <3>2. (q - m) + m = q
      BY <1>1
    <3> QED  BY <1>9, <3>1, <3>2
  <2>4. CASE q = m
    <3>1. 2 * size + 1 \in 1 .. 2 * size + 1
      BY <1>1
    <3> QED  BY <1>6, <1>7, <2>4, <3>1
  <2>5. q \in 1 .. m - 1 \/ q - m \in 1 .. m - 1 \/ q = m
    BY <1>1
  <2> QED  BY <2>2, <2>3, <2>4, <2>5
<1>12. \A k, l \in 1 .. 2 * size + 1 :
         both[k].op = "epr" /\ both[l].op = "epr" /\ both[k].goal = both[l].goal => k = l
  <2> SUFFICES ASSUME NEW k \in 1 .. 2 * size + 1, NEW l \in 1 .. 2 * size + 1,
                      both[k].op = "epr", both[l].op = "epr", both[k].goal = both[l].goal
               PROVE  k = l
    OBVIOUS
  <2>1. \A i, j \in 1 .. size :
          calls[i].op = "epr" /\ calls[j].op = "epr" /\ calls[i].goal = calls[j].goal => i = j
    BY DEF IsSchedule, size, calls
  <2>2. k # 2 * size + 1 /\ l # 2 * size + 1
    BY <1>6, <1>7
  <2>3. CASE k \in 1 .. size /\ l \in 1 .. size
    BY <1>9, <2>1, <2>3
  <2>4. ASSUME NEW i \in 1 .. size, NEW j \in 1 .. size, k = i + size, l = j + size
        PROVE  k = l
    <3>1. calls[i].op = "epr" /\ calls[j].op = "epr" /\ calls[i].goal + m = calls[j].goal + m
      BY <1>9, <2>4
    <3>2. calls[i].goal = calls[j].goal
      <4>1. calls[i].goal \in 0 .. m - 1 /\ calls[j].goal \in 0 .. m - 1
        BY <1>1
      <4> HIDE DEF size
      <4> DEFINE x == calls[i].goal
                 y == calls[j].goal
      <4>2. x + m = y + m /\ x \in Int /\ y \in Int /\ m \in Int
        BY <1>1, <3>1, <4>1
      <4> HIDE DEF x, y
      <4>3. x = y
        BY <4>2
      <4> QED  BY <4>3 DEF x, y
    <3> QED  BY <2>1, <2>4, <3>1, <3>2
  <2>5. ASSUME NEW i \in 1 .. size, NEW j \in 1 .. size, calls[i].goal = calls[j].goal + m
        PROVE  FALSE
    <3>1. calls[i].goal \in 0 .. m - 1 /\ calls[j].goal \in 0 .. m - 1
      BY <1>1
    <3> QED  BY <1>1, <2>5, <3>1
  <2>6. ~(k \in 1 .. size /\ \E j \in 1 .. size : l = j + size)
    BY <1>9, <2>5
  <2>7. ~(l \in 1 .. size /\ \E i \in 1 .. size : k = i + size)
    BY <1>9, <2>5
  <2> QED  BY <1>8, <2>2, <2>3, <2>4, <2>6, <2>7
<1>13. \A k \in 1 .. 2 * size + 1 :
         both[k].op = "round" =>
           /\ both[k].goal < both[k].meas
           /\ \E i \in 1 .. k - 1 : IsEpr(both, i, both[k].goal)
           /\ \E i \in 1 .. k - 1 : IsEpr(both, i, both[k].meas)
  <2> SUFFICES ASSUME NEW k \in 1 .. 2 * size + 1, both[k].op = "round"
               PROVE  /\ both[k].goal < both[k].meas
                      /\ \E i \in 1 .. k - 1 : IsEpr(both, i, both[k].goal)
                      /\ \E i \in 1 .. k - 1 : IsEpr(both, i, both[k].meas)
    OBVIOUS
  <2>1. \A j \in 1 .. size :
          calls[j].op = "round" =>
            /\ calls[j].goal < calls[j].meas
            /\ \E i \in 1 .. j - 1 : IsEpr(calls, i, calls[j].goal)
            /\ \E i \in 1 .. j - 1 : IsEpr(calls, i, calls[j].meas)
    BY DEF IsSchedule, size, calls
  <2>2. CASE k \in 1 .. size
    <3>1. \A i \in 1 .. k - 1 : i \in 1 .. size
      BY <1>1, <2>2
    <3>2. both[k].op = calls[k].op /\ both[k].goal = calls[k].goal /\ both[k].meas = calls[k].meas
      BY <1>9, <2>2
    <3>3. \A i \in 1 .. k - 1 : \A q : IsEpr(calls, i, q) => IsEpr(both, i, q)
      BY <1>9, <3>1 DEF IsEpr
    <3> QED  BY <2>1, <2>2, <3>2, <3>3
  <2>3. ASSUME NEW j \in 1 .. size, k = j + size
        PROVE  /\ both[k].goal < both[k].meas
               /\ \E i \in 1 .. k - 1 : IsEpr(both, i, both[k].goal)
               /\ \E i \in 1 .. k - 1 : IsEpr(both, i, both[k].meas)
    <3>1. j \in 1 .. size /\ k = j + size
      BY <2>3
    <3>2. /\ calls[j].op = "round" /\ both[k].goal = calls[j].goal + m
          /\ both[k].meas = calls[j].meas + m
      BY <1>9, <3>1
    <3>3. \A i \in 1 .. j - 1 : i \in 1 .. size /\ i + size \in 1 .. k - 1
      BY <1>1, <3>1
    <3>4. \A i \in 1 .. j - 1 : \A q : IsEpr(calls, i, q) => IsEpr(both, i + size, q + m)
      BY <1>9, <3>3 DEF IsEpr
    <3>5. calls[j].goal < calls[j].meas => both[k].goal < both[k].meas
      <4>1. calls[j].goal \in 0 .. m - 1 /\ calls[j].meas \in 0 .. m - 1 /\ m \in Nat
        BY <1>1, <3>1
      <4> QED  BY <3>2, <4>1
    <3> QED  BY <2>1, <3>1, <3>2, <3>3, <3>4, <3>5
  <2>4. CASE k = 2 * size + 1
    <3>1. both[k].goal = 0 /\ both[k].meas = m
      BY <1>6, <1>7, <2>4
    <3>2. PICK i \in 1 .. size : IsEpr(calls, i, 0)
      BY <1>1 DEF IsSchedule, size, calls
    <3>3. IsEpr(both, i, 0) /\ IsEpr(both, i + size, m)
      <4>1. 0 + m = m
        BY <1>1
      <4> QED  BY <1>9, <3>2, <4>1 DEF IsEpr
    <3>4. i \in 1 .. k - 1 /\ i + size \in 1 .. k - 1
      BY <1>1, <2>4
    <3>5. 0 < m
      BY <1>1
    <3> QED  BY <3>1, <3>3, <3>4, <3>5
  <2> QED  BY <1>8, <2>2, <2>3, <2>4
<1>14. \A k, l \in 1 .. 2 * size + 1 :
         both[k].op = "round" /\ both[l].op = "round" /\ k < l =>
           both[k].meas # both[l].goal /\ both[k].meas # both[l].meas
  <2> SUFFICES ASSUME NEW k \in 1 .. 2 * size + 1, NEW l \in 1 .. 2 * size + 1,
                      both[k].op = "round", both[l].op = "round", k < l
               PROVE  both[k].meas # both[l].goal /\ both[k].meas # both[l].meas
    OBVIOUS
  <2>1. \A i, j \in 1 .. size :
          calls[i].op = "round" /\ calls[j].op = "round" /\ i < j =>
            calls[i].meas # calls[j].goal /\ calls[i].meas # calls[j].meas
    BY DEF IsSchedule, size, calls
  <2>2. \A i \in 1 .. size : calls[i].op = "round" => calls[i].meas # 0
    <3>1. \A i \in 1 .. size : calls[i].op = "round" => calls[i].goal < calls[i].meas
      BY DEF IsSchedule, size, calls
    <3> QED  BY <1>1, <3>1
  <2>3. CASE k \in 1 .. size /\ l \in 1 .. size
    BY <1>9, <2>1, <2>3
  <2> DEFINE Apart == both[k].meas # both[l].goal /\ both[k].meas # both[l].meas
  <2>4. ASSUME NEW i \in 1 .. size, NEW j \in 1 .. size, k = i + size, l = j + size
        PROVE  Apart
    <3>1. calls[i].op = "round" /\ calls[j].op = "round"
      BY <1>9, <2>4
    <3>2. i < j
      BY <1>1, <2>4
    <3>3. calls[i].meas # calls[j].goal /\ calls[i].meas # calls[j].meas
      BY <2>1, <3>1, <3>2
    <3>4. /\ calls[i].meas \in 0 .. m - 1 /\ calls[j].goal \in 0 .. m - 1
          /\ calls[j].meas \in 0 .. m - 1
      BY <1>1
    <3>5. /\ both[k].meas = calls[i].meas + m
          /\ both[l].goal = calls[j].goal + m /\ both[l].meas = calls[j].meas + m
      BY <1>9, <2>4
    <3>6. \A x, y \in 0 .. m - 1 : x # y => x + m # y + m
      BY <1>1
    <3> QED  BY <3>3, <3>4, <3>5, <3>6
  <2>5. ASSUME k \in 1 .. size, NEW j \in 1 .. size, l = j + size
        PROVE  Apart
    <3>1. /\ calls[k].meas \in 0 .. m - 1 /\ calls[j].goal \in 0 .. m - 1
          /\ calls[j].meas \in 0 .. m - 1
      BY <1>1, <2>5
    <3>2. /\ both[k].meas = calls[k].meas
          /\ both[l].goal = calls[j].goal + m /\ both[l].meas = calls[j].meas + m
      BY <1>9, <2>5
    <3>3. \A x, y \in 0 .. m - 1 : x # y + m
      BY <1>1
    <3> QED  BY <3>1, <3>2, <3>3
  <2>6. CASE k \in 1 .. size /\ l = 2 * size + 1
    <3>1. /\ both[k].meas = calls[k].meas /\ calls[k].op = "round"
          /\ both[l].goal = 0 /\ both[l].meas = m
      BY <1>6, <1>7, <1>9, <2>6
    <3>2. calls[k].meas \in 0 .. m - 1 /\ calls[k].meas # 0
      BY <1>1, <2>2, <2>6, <3>1
    <3> QED  BY <1>1, <3>1, <3>2
  <2>7. ASSUME NEW i \in 1 .. size, k = i + size, l = 2 * size + 1
        PROVE  Apart
    <3>1. both[k].meas = calls[i].meas + m /\ calls[i].op = "round"
          /\ both[l].goal = 0 /\ both[l].meas = m
      BY <1>6, <1>7, <1>9, <2>7
    <3>2. calls[i].meas \in 0 .. m - 1 /\ calls[i].meas # 0
      BY <1>1, <2>2, <3>1
    <3> QED  BY <1>1, <3>1, <3>2
  <2>8. ~(l \in 1 .. size /\ \E i \in 1 .. size : k = i + size) /\ k # 2 * size + 1
    BY <1>1
  <2> HIDE DEF Apart
  <2>9. Apart
    BY <1>8, <2>3, <2>4, <2>5, <2>6, <2>7, <2>8 DEF Apart
  <2> QED  BY <2>9 DEF Apart
<1>15. /\ 2 * m \in Nat /\ 2 * m >= 2 /\ Len(both) >= 1 /\ Len(both) = 2 * size + 1
       /\ both[Len(both)] = Call("round", 0, (2 * m) \div 2)
  <2>1. 2 * m \in Nat /\ 2 * m >= 2 /\ 2 * size + 1 >= 1 /\ (2 * m) \div 2 = m
    BY <1>1
  <2> QED  BY <1>6, <2>1 DEF last
<1> DEFINE n == 2 * m
<1>16. both \in Seq(CallsOf(n))
  BY <1>6
<1> HIDE DEF n
<1>17. IsSchedule(both, n)
  BY <1>10, <1>11, <1>12, <1>13, <1>14, <1>15, <1>16 DEF IsSchedule, n
<1> QED  BY <1>3, <1>17 DEF n, both

\* The calls of Distillate, however often the pairs are halved.
LEMMA DistillateIsSchedule ==
  ASSUME NEW n \in Nat
  PROVE  IsSchedule(Distillate(n).calls, Distillate(n).pairs)
<1>1. PICK upTo : HalfByHalf(upTo, n) /\ Distillate(n) = upTo[n]
  BY DistillateDefined
<1> DEFINE S == {i \in Nat : i <= n => IsSchedule(upTo[i].calls, upTo[i].pairs)}
<1>2. 0 \in S
  <2>1. upTo[0] = OfTwo
    BY <1>1 DEF HalfByHalf
  <2> QED  BY <2>1, TwoIsSchedule
<1>3. ASSUME NEW i \in S
      PROVE  i + 1 \in S
  <2> SUFFICES ASSUME i + 1 <= n
               PROVE  IsSchedule(upTo[i + 1].calls, upTo[i + 1].pairs)
    OBVIOUS
  <2>1. i + 1 \in 0 .. n /\ i + 1 # 0 /\ (i + 1) - 1 = i /\ i <= n
    OBVIOUS
  <2>2. upTo[i + 1] = OfHalves(upTo[i])
    BY <1>1, <2>1 DEF HalfByHalf
  <2>3. IsSchedule(upTo[i].calls, upTo[i].pairs)
    BY <2>1
  <2> QED  BY <2>2, <2>3, HalvesAreSchedule
<1>4. S \in SUBSET Nat
  OBVIOUS
<1> HIDE DEF S
<1>5. n \in S
  BY <1>2, <1>3, <1>4, NatSetInduction
<1> QED  BY <1>1, <1>5 DEF S

(***************************************************************************)
(* The events                                                              *)
(***************************************************************************)
\* The calls of this simulation.
LEMMA TheSchedule ==
  ASSUME distillation \in Distillations
  PROVE  /\ IsSchedule(Calls, Distillate(distillation.halvings).pairs)
         /\ distillation.latency \in Nat /\ distillation.bits \subseteq Bit
         /\ distillation.halvings \in Nat
<1>1. /\ distillation.halvings \in Nat
      /\ distillation.latency \in Nat /\ distillation.bits \subseteq Bit
  BY DistillAssumption
<1>2. IsSchedule(Distillate(distillation.halvings).calls, Distillate(distillation.halvings).pairs)
  BY <1>1, DistillateIsSchedule
<1> QED  BY <1>1, <1>2 DEF Calls

\* The schedule in terms of the module.
LEMMA CallFields ==
  ASSUME distillation \in Distillations
  PROVE  /\ Len(Calls) \in Nat /\ Len(Calls) >= 1 /\ DOMAIN Calls = 1 .. Len(Calls)
         /\ \A k \in 1 .. Len(Calls) :
              /\ Calls[k].goal \in Pairs /\ Calls[k].meas \in Pairs
              /\ CallTime(k) \in Nat
              /\ k \in Rounds \/ k \in MakesPairs
              /\ Calls[k].op \in {"epr", "round"}
         /\ \A k \in Rounds : k \in 1 .. Len(Calls) /\ k \notin MakesPairs /\ Calls[k].op = "round"
         /\ \A k \in MakesPairs : k \in 1 .. Len(Calls) /\ k \notin Rounds /\ Calls[k].op = "epr"
         /\ Len(Calls) \in Rounds
<1> DEFINE n == Distillate(distillation.halvings).pairs
           calls == Calls
<1>1. IsSchedule(calls, n)
  BY TheSchedule
<1>2. Pairs = 0 .. n - 1
  BY DEF Pairs
<1> HIDE DEF n, calls
<1>3. n \in Nat /\ calls \in Seq(CallsOf(n)) /\ Len(calls) >= 1 /\ Len(calls) \in Nat
  BY <1>1 DEF IsSchedule
<1>4. DOMAIN calls = 1 .. Len(calls)
  BY <1>3
<1>5. \A k \in 1 .. Len(calls) : calls[k] \in CallsOf(n)
  BY <1>3
<1>6. \A k \in 1 .. Len(calls) : /\ calls[k].goal \in 0 .. n - 1 /\ calls[k].meas \in 0 .. n - 1
                                 /\ calls[k].op \in {"epr", "round"}
  BY <1>5 DEF CallsOf
<1>7. \A k \in 1 .. Len(calls) : CallTime(k) \in Nat
  <2>1. Step \in Nat
    BY DistillAssumption
  <2>2. StartDelay \in Nat
    <3>1. 21 * Step \in Nat
      BY <2>1
    <3> QED  BY <3>1 DEF StartDelay
  <2>3. \A j \in Nat : j * Step \in Nat
    BY <2>1
  <2> SUFFICES ASSUME NEW k \in 1 .. Len(calls)
               PROVE  CallTime(k) \in Nat
    OBVIOUS
  <2> DEFINE after == (k - 1) * Step
  <2>4. k - 1 \in Nat
    BY <1>3
  <2>5. after \in Nat
    BY <2>3, <2>4
  <2>6. CallTime(k) = StartDelay + after
    BY DEF CallTime
  <2> HIDE DEF after
  <2> QED  BY <2>2, <2>5, <2>6
<1>8. calls[Len(calls)].op = "round"
  BY <1>1 DEF IsSchedule, Call
<1>9. \A k : /\ k \in Rounds <=> k \in 1 .. Len(calls) /\ calls[k].op = "round"
             /\ k \in MakesPairs <=> k \in 1 .. Len(calls) /\ calls[k].op = "epr"
  BY <1>4 DEF Rounds, MakesPairs, calls
<1>10. Len(calls) \in Rounds
  BY <1>3, <1>8, <1>9
<1> QED  BY <1>2, <1>3, <1>4, <1>6, <1>7, <1>9, <1>10 DEF calls

\* What the order of the calls is for.
LEMMA CallOrder ==
  ASSUME distillation \in Distillations
  PROVE  /\ \A k, l \in MakesPairs : Calls[k].goal = Calls[l].goal => k = l
         /\ \A k \in Rounds :
              /\ \E i \in MakesPairs : i < k /\ Calls[i].goal = Calls[k].goal
              /\ \E i \in MakesPairs : i < k /\ Calls[i].goal = Calls[k].meas
         /\ \A k, l \in Rounds :
              k < l => Calls[k].meas # Calls[l].goal /\ Calls[k].meas # Calls[l].meas
<1> DEFINE n == Distillate(distillation.halvings).pairs
           calls == Calls
<1>1. IsSchedule(calls, n)
  BY TheSchedule
<1>2. \A k : /\ k \in Rounds <=> k \in 1 .. Len(calls) /\ calls[k].op = "round"
             /\ k \in MakesPairs <=> k \in 1 .. Len(calls) /\ calls[k].op = "epr"
  BY CallFields DEF Rounds, MakesPairs
<1>3. Len(calls) \in Nat
  BY CallFields
<1> HIDE DEF n, calls
<1>4. \A k, l \in MakesPairs : calls[k].goal = calls[l].goal => k = l
  <2>1. \A k, l \in 1 .. Len(calls) :
          calls[k].op = "epr" /\ calls[l].op = "epr" /\ calls[k].goal = calls[l].goal => k = l
    BY <1>1 DEF IsSchedule
  <2> QED  BY <1>2, <2>1
<1>5. \A k, l \in Rounds :
        k < l => calls[k].meas # calls[l].goal /\ calls[k].meas # calls[l].meas
  <2>1. \A k, l \in 1 .. Len(calls) :
          calls[k].op = "round" /\ calls[l].op = "round" /\ k < l =>
            calls[k].meas # calls[l].goal /\ calls[k].meas # calls[l].meas
    BY <1>1 DEF IsSchedule
  <2> QED  BY <1>2, <2>1
<1>6. ASSUME NEW k \in Rounds
      PROVE  /\ \E i \in MakesPairs : i < k /\ calls[i].goal = calls[k].goal
             /\ \E i \in MakesPairs : i < k /\ calls[i].goal = calls[k].meas
  <2>1. k \in 1 .. Len(calls) /\ calls[k].op = "round"
    BY <1>2
  <2>2. /\ \E i \in 1 .. k - 1 : IsEpr(calls, i, calls[k].goal)
        /\ \E i \in 1 .. k - 1 : IsEpr(calls, i, calls[k].meas)
    BY <1>1, <2>1 DEF IsSchedule
  <2>3. \A i \in 1 .. k - 1 : \A q : IsEpr(calls, i, q) =>
          i \in MakesPairs /\ i < k /\ calls[i].goal = q
    <3>1. \A i \in 1 .. k - 1 : i \in 1 .. Len(calls) /\ i < k
      BY <1>3, <2>1
    <3> QED  BY <1>2, <3>1 DEF IsEpr
  <2> QED  BY <2>2, <2>3
<1> QED  BY <1>4, <1>5, <1>6 DEF calls

\* Events with times and numbers of their own have a first.
LEMMA Earliest ==
  ASSUME NEW S, S # {}, \A e \in S : e.at \in Nat /\ e.uid \in Nat,
         \A e, f \in S : e.uid = f.uid => e = f
  PROVE  \E e \in S : IsNext(e, S)
<1>0. \A T \in SUBSET Nat : T # {} => \E x \in T : \A y \in T : x <= y
  <2> SUFFICES ASSUME NEW T \in SUBSET Nat, T # {}
               PROVE  \E x \in T : \A y \in T : x <= y
    OBVIOUS
  <2>1. IsWellFoundedOn(OpToRel(<, Nat), Nat)
    BY Zenon, NatLessThanWellFounded
  <2>2. PICK x \in T : \A y \in T : ~(<<y, x>> \in OpToRel(<, Nat))
    BY Zenon, <2>1, WFMin
  <2>3. \A y \in T : ~(y < x)
    BY <2>2 DEF OpToRel
  <2> QED  BY <2>3
<1> DEFINE Times == {e.at : e \in S}
<1>1. Times \in SUBSET Nat /\ Times # {}
  OBVIOUS
<1>2. PICK t \in Times : \A y \in Times : t <= y
  BY <1>0, <1>1
<1> DEFINE Soon == {e \in S : e.at = t}
           Uids == {e.uid : e \in Soon}
<1>3. Uids \in SUBSET Nat /\ Uids # {}
  OBVIOUS
<1> HIDE DEF Uids
<1>4. PICK u \in Uids : \A y \in Uids : u <= y
  BY <1>0, <1>3
<1>5. PICK e \in Soon : e.uid = u
  BY <1>4 DEF Uids
<1>6. ASSUME NEW f \in S \ {e}
      PROVE  Precedes(e, f)
  <2>1. t <= f.at /\ t \in Nat /\ f.at \in Nat /\ e.at = t
    BY <1>1, <1>2
  <2>2. CASE f.at = t
    <3>1. f.uid \in Uids
      BY <2>2 DEF Uids
    <3>2. u <= f.uid /\ f.uid # e.uid /\ f.uid \in Nat /\ u \in Nat
      BY <1>3, <1>4, <1>5, <3>1
    <3> QED  BY <1>5, <2>1, <2>2, <3>2 DEF Precedes
  <2> QED  BY <2>1, <2>2 DEF Precedes
<1> QED  BY <1>6 DEF IsNext

\* The stage of an event is that of its operation.
LEMMA StageOf ==
  ASSUME NEW e
  PROVE  /\ e.op \in {"epr", "round"} => Stage(e) = 0
         /\ e.op \in {"qubit", "outcome"} => Stage(e) = 1
         /\ e.op = "verdict" => Stage(e) = 2
         /\ e.op \in {"epr", "round", "qubit", "outcome", "verdict"} => Stage(e) \in 0 .. 2
BY DEF Stage

\* The first event is one of the pending, and none comes before it.
LEMMA FirstOfAll ==
  ASSUME DistillTypeOK, pending # {}, \A e, f \in pending : e.uid = f.uid => e = f
  PROVE  /\ First \in pending
         /\ \A f \in pending \ {First} : Precedes(First, f)
<1>1. \A e \in pending : e.at \in Nat /\ e.uid \in Nat
  BY DEF DistillTypeOK
<1>2. \E e \in pending : IsNext(e, pending)
  BY <1>1, Earliest
<1>3. IsNext(First, pending)
  BY <1>2, Zenon DEF First
<1> QED  BY <1>3 DEF IsNext

\* The calls are one step apart.
LEMMA CallTimesGrow ==
  ASSUME distillation \in Distillations,
         NEW k \in 1 .. Len(Calls), NEW l \in 1 .. Len(Calls), k < l
  PROVE  CallTime(k) <= CallTime(l)
<1>1. Len(Calls) \in Nat /\ CallTime(k) \in Nat /\ CallTime(l) \in Nat
  BY CallFields
<1>2. \A i, j, n \in Nat : i <= j => i * n <= j * n
  OBVIOUS
<1>3. k - 1 \in Nat /\ l - 1 \in Nat /\ k - 1 <= l - 1 /\ Step \in Nat
  BY <1>1, DistillAssumption
<1> DEFINE before == (k - 1) * Step
           after == (l - 1) * Step
<1>4. before <= after /\ before \in Nat /\ after \in Nat
  <2>1. \A i, j \in Nat : i * j \in Nat
    OBVIOUS
  <2>2. before \in Nat /\ after \in Nat
    BY <1>3, <2>1
  <2>3. before <= after
    BY <1>2, <1>3
  <2> QED  BY <2>2, <2>3
<1>5. CallTime(k) = StartDelay + before /\ CallTime(l) = StartDelay + after
  BY DEF CallTime
<1>6. StartDelay \in Nat
  <2>1. 21 * Step \in Nat
    BY DistillAssumption
  <2> QED  BY <2>1 DEF StartDelay
<1> HIDE DEF before, after
<1> QED  BY <1>4, <1>5, <1>6

\* Of what waits at a stage, the call that is first runs first.
LEMMA RunsInOrder ==
  ASSUME DistillTypeOK, NEW waits, InOrder(waits), pending # {}
  PROVE  /\ First \in pending
         /\ First.call \in waits[Stage(First)]
         /\ \A l \in waits[Stage(First)] : l \in Int => First.call <= l
<1>1. \A e, f \in pending : e.uid = f.uid => e = f
  BY DEF InOrder
<1>2. First \in pending /\ \A f \in pending \ {First} : Precedes(First, f)
  BY <1>1, FirstOfAll
<1> DEFINE e == First
           s == Stage(e)
<1>3. e.op \in {"epr", "round", "qubit", "outcome", "verdict"}
  BY <1>2 DEF DistillTypeOK
<1>4. s \in 0 .. 2
  BY <1>3, StageOf
<1>5. e.call \in waits[s] /\ e.at = CallTime(e.call) + s * distillation.latency
  BY <1>2 DEF InOrder
<1>6. distillation \in Distillations
  BY DEF DistillTypeOK
<1>7. distillation.latency \in Nat
  BY <1>6, TheSchedule
<1>8. ASSUME NEW l \in waits[s], l \in Int, ~(e.call <= l)
      PROVE  FALSE
  <2>1. PICK f \in pending : Stage(f) = s /\ f.call = l
    BY <1>4, <1>8 DEF InOrder
  <2>2. e.call \in 1 .. Len(Calls) /\ f.call \in 1 .. Len(Calls) /\ Len(Calls) \in Nat
    BY <1>2, <1>6, CallFields DEF DistillTypeOK
  <2>3. f.call < e.call
    BY <1>8, <2>1, <2>2
  <2>4. CallTime(f.call) <= CallTime(e.call) /\ CallTime(f.call) \in Nat /\ CallTime(e.call) \in Nat
    BY <1>6, <2>2, <2>3, CallTimesGrow, CallFields
  <2>5. f.at = CallTime(f.call) + s * distillation.latency
    BY <2>1 DEF InOrder
  <2>6. f.at <= e.at /\ f.at \in Nat /\ e.at \in Nat
    <3> DEFINE way == s * distillation.latency
    <3>1. way \in Nat
      <4>1. \A i, j \in Nat : i * j \in Nat
        OBVIOUS
      <4>2. s \in Nat
        BY <1>4
      <4> QED  BY <1>7, <4>1, <4>2
    <3>2. f.at = CallTime(f.call) + way /\ e.at = CallTime(e.call) + way
      BY <1>5, <2>5
    <3> HIDE DEF way
    <3> QED  BY <2>4, <3>1, <3>2
  <2>7. f.uid < e.uid /\ f.uid \in Nat /\ e.uid \in Nat
    <3>1. f.uid < e.uid
      BY <1>2, <2>1, <2>3 DEF InOrder
    <3> QED  BY <1>2, <3>1 DEF DistillTypeOK
  <2>8. f # e
    BY <2>2, <2>3
  <2>9. Precedes(e, f)
    BY <1>2, <2>8
  <2> HIDE DEF e
  <2> QED  BY <2>6, <2>7, <2>9 DEF Precedes
<1> QED  BY <1>2, <1>5, <1>8

\* The counters of an invariant state.
LEMMA NextCall ==
  ASSUME DistillTypeOK,
         NEW c \in 0 .. Len(Calls), NEW d \in 0 .. Len(Calls), NEW v \in 0 .. Len(Calls),
         v <= d, d <= c, InOrder(WaitsFor(c, d, v)), pending # {}
  PROVE  /\ First \in pending /\ First.call \in 1 .. Len(Calls)
         /\ Stage(First) = 0 => /\ First.call = c + 1 /\ c + 1 <= Len(Calls)
                                /\ First.op = Calls[c + 1].op
         /\ Stage(First) = 1 => /\ First.call = d + 1 /\ d + 1 <= c
                                /\ First.op = "qubit" <=> d + 1 \in MakesPairs
         /\ Stage(First) = 2 => /\ First.call \in Rounds /\ v < First.call /\ First.call <= d
                                /\ \A l \in Rounds \cap (v + 1 .. d) : First.call <= l
<1> DEFINE waits == WaitsFor(c, d, v)
           e == First
<1>1. /\ e \in pending /\ e.call \in waits[Stage(e)]
      /\ \A l \in waits[Stage(e)] : l \in Int => e.call <= l
  BY RunsInOrder
<1>2. /\ waits[0] = c + 1 .. Len(Calls) /\ waits[1] = d + 1 .. c
      /\ waits[2] = Rounds \cap (v + 1 .. d)
  BY DEF WaitsFor
<1>3. distillation \in Distillations
  BY DEF DistillTypeOK
<1>4. Len(Calls) \in Nat /\ DOMAIN Calls = 1 .. Len(Calls)
  BY <1>3, CallFields
<1>5. e.call \in 1 .. Len(Calls)
  BY <1>1, <1>4 DEF DistillTypeOK
<1>6. /\ Stage(e) = 0 => e = EventOf(e.call)
      /\ Stage(e) = 1 => (e.op = "qubit" <=> e.call \in MakesPairs)
  BY <1>1 DEF InOrder
<1> HIDE DEF waits
<1>7. ASSUME Stage(e) = 0
      PROVE  e.call = c + 1 /\ c + 1 <= Len(Calls) /\ e.op = Calls[c + 1].op
  <2>1. e.call \in c + 1 .. Len(Calls)
    BY <1>1, <1>2, <1>7
  <2>2. c + 1 \in waits[Stage(e)] /\ c + 1 \in Int
    BY <1>2, <1>4, <1>7, <2>1
  <2>3. e.call <= c + 1
    BY <1>1, <2>2
  <2>4. e.call = c + 1 /\ c + 1 <= Len(Calls)
    BY <1>4, <2>1, <2>3
  <2>5. e.op = Calls[e.call].op
    BY <1>6, <1>7 DEF EventOf
  <2> QED  BY <2>4, <2>5
<1>8. ASSUME Stage(e) = 1
      PROVE  e.call = d + 1 /\ d + 1 <= c
  <2>1. e.call \in d + 1 .. c
    BY <1>1, <1>2, <1>8
  <2>2. d + 1 \in waits[Stage(e)] /\ d + 1 \in Int
    BY <1>2, <1>4, <1>8, <2>1
  <2>3. e.call <= d + 1
    BY <1>1, <2>2
  <2> QED  BY <1>4, <2>1, <2>3
<1>9. ASSUME Stage(e) = 2
      PROVE  /\ e.call \in Rounds /\ v < e.call /\ e.call <= d
             /\ \A l \in Rounds \cap (v + 1 .. d) : e.call <= l
  <2>1. e.call \in Rounds \cap (v + 1 .. d)
    BY <1>1, <1>2, <1>9
  <2>2. \A l \in Rounds \cap (v + 1 .. d) : e.call <= l
    BY <1>1, <1>2, <1>9
  <2> QED  BY <1>4, <2>1, <2>2
<1> QED  BY <1>1, <1>5, <1>6, <1>7, <1>8, <1>9

\* A step changes nothing of the schedule.
LEMMA SameSchedule ==
  ASSUME distillation' = distillation
  PROVE  /\ Calls' = Calls /\ Rounds' = Rounds /\ MakesPairs' = MakesPairs /\ Pairs' = Pairs
         /\ \A k : CallTime(k)' = CallTime(k) /\ EventOf(k)' = EventOf(k) /\ Place(k)' = Place(k)
         /\ \A own, k : After(own, k)' = After(own, k)
         /\ \A c, d, v : WaitsFor(c, d, v)' = WaitsFor(c, d, v)
<1>1. Calls' = Calls /\ Pairs' = Pairs
  BY DEF Calls, Pairs
<1>2. Rounds' = Rounds /\ MakesPairs' = MakesPairs
  BY <1>1 DEF Rounds, MakesPairs
<1>3. \A k : CallTime(k)' = CallTime(k)
  BY DEF CallTime, StartDelay
<1>4. \A k : EventOf(k)' = EventOf(k)
  BY <1>1, <1>3 DEF EventOf
<1>5. \A k : Place(k)' = Place(k)
  BY <1>2 DEF Place
<1>6. \A own, k : After(own, k)' = After(own, k)
  BY <1>1 DEF After
<1>7. \A c, d, v : WaitsFor(c, d, v)' = WaitsFor(c, d, v)
  BY <1>1, <1>2 DEF WaitsFor
<1> QED  BY <1>1, <1>2, <1>3, <1>4, <1>5, <1>6, <1>7

\* The first event waits no longer; its call waits for the packet that is sent, if any.
Passes(waits, waits2, p, replies) ==
  /\ replies \in {{}, {p}}
  /\ replies # {} =>
       /\ p.at = First.at + distillation.latency /\ p.uid = scheduled + 1
       /\ p.call = First.call /\ Stage(p) = Stage(First) + 1
       /\ p \in [at : Nat, uid : Nat, call : DOMAIN Calls, bit : Bit,
                 op : {"qubit", "outcome", "verdict"}]
       /\ Stage(p) = 1 => (p.op = "qubit" <=> p.call \in MakesPairs)
       /\ \A l \in waits[Stage(p)] : l < First.call
  /\ \A t \in 0 .. 2 :
       waits2[t] = IF t = Stage(First) THEN waits[t] \ {First.call}
                   ELSE IF replies # {} /\ t = Stage(First) + 1 THEN waits[t] \cup {First.call}
                   ELSE waits[t]

\* When the first event runs, those it sends keep the order of the calls.
LEMMA EventsStayInOrder ==
  ASSUME DistillTypeOK, NEW waits, NEW waits2, InOrder(waits),
         First \in pending, First.call \in 1 .. Len(Calls),
         distillation' = distillation, NEW p, NEW replies,
         pending' = (pending \ {First}) \cup replies,
         scheduled' = scheduled + Cardinality(replies),
         Passes(waits, waits2, p, replies)
  PROVE  /\ InOrder(waits2)'
         /\ scheduled' \in Nat /\ scheduled' >= Len(Calls)
         /\ pending' \subseteq [at : Nat, uid : 1 .. scheduled', call : DOMAIN Calls, bit : Bit,
                                op : {"epr", "round", "qubit", "outcome", "verdict"}]
<1> USE DEF Passes
<1> DEFINE k == First.call
           s == Stage(First)
<1>1. distillation \in Distillations
  BY DEF DistillTypeOK
<1>2. Len(Calls) \in Nat /\ DOMAIN Calls = 1 .. Len(Calls) /\ distillation.latency \in Nat
  BY <1>1, CallFields, TheSchedule
<1>3. scheduled \in Nat /\ scheduled >= Len(Calls)
  BY DEF DistillTypeOK
<1>4. \A e \in pending : /\ e.op \in {"epr", "round", "qubit", "outcome", "verdict"}
                         /\ e.at \in Nat /\ e.uid \in 1 .. scheduled
                         /\ Stage(e) \in 0 .. 2
  BY StageOf DEF DistillTypeOK
<1>5. IF replies = {} THEN scheduled' = scheduled ELSE scheduled' = scheduled + 1
  <2>1. Cardinality({}) = 0 /\ Cardinality({p}) = 1
    BY FS_EmptySet, FS_Singleton
  <2>2. CASE replies = {}
    BY <1>3, <2>1, <2>2
  <2>3. CASE replies = {p}
    BY <1>3, <2>1, <2>3
  <2> QED  BY <2>2, <2>3
<1>6. scheduled' \in Nat /\ scheduled' >= scheduled /\ (replies # {} => scheduled' = scheduled + 1)
  BY <1>3, <1>5
<1>7. \A e \in pending' : (e \in pending /\ e # First) \/ (replies # {} /\ e = p)
  OBVIOUS
<1>8. s \in 0 .. 2
  BY <1>4
<1>9. \A e \in pending : Stage(e) = s /\ e # First => e.call # k
  <2>1. \A e, f \in pending : Stage(e) = Stage(f) => (e.call = f.call => e = f)
    BY DEF InOrder
  <2> QED  BY <2>1
<1>10. pending' \subseteq [at : Nat, uid : 1 .. scheduled', call : DOMAIN Calls, bit : Bit,
                           op : {"epr", "round", "qubit", "outcome", "verdict"}]
  <2> SUFFICES ASSUME NEW e \in pending'
               PROVE  e \in [at : Nat, uid : 1 .. scheduled', call : DOMAIN Calls, bit : Bit,
                             op : {"epr", "round", "qubit", "outcome", "verdict"}]
    BY Zenon
  <2>1. CASE e \in pending
    <3>1. 1 .. scheduled \subseteq 1 .. scheduled'
      BY <1>3, <1>6
    <3> QED  BY <2>1, <3>1 DEF DistillTypeOK
  <2>2. CASE replies # {} /\ e = p
    <3>1. scheduled + 1 \in 1 .. scheduled'
      BY <1>3, <1>6, <2>2
    <3> QED  BY <2>2, <3>1
  <2> QED  BY <1>7, <2>1, <2>2
<1>11. ASSUME NEW e \in pending'
       PROVE  /\ e.call \in waits2[Stage(e)]
              /\ e.at = CallTime(e.call) + Stage(e) * distillation.latency
              /\ IF Stage(e) = 0 THEN e = EventOf(e.call) ELSE e.uid > Len(Calls)
              /\ Stage(e) = 1 => (e.op = "qubit" <=> e.call \in MakesPairs)
  <2>1. CASE e \in pending /\ e # First
    <3>1. /\ e.call \in waits[Stage(e)]
          /\ e.at = CallTime(e.call) + Stage(e) * distillation.latency
          /\ IF Stage(e) = 0 THEN e = EventOf(e.call) ELSE e.uid > Len(Calls)
          /\ Stage(e) = 1 => (e.op = "qubit" <=> e.call \in MakesPairs)
      BY <2>1 DEF InOrder
    <3>2. Stage(e) = s => e.call # k
      BY <1>9, <2>1
    <3>3. e.call \in waits2[Stage(e)]
      BY <1>4, <2>1, <3>1, <3>2
    <3> QED  BY <3>1, <3>3
  <2>2. CASE replies # {} /\ e = p
    <3>1. Stage(e) = s + 1 /\ e.call = k /\ e.uid = scheduled + 1
      BY <2>2
    <3>2. Stage(e) \in 0 .. 2 /\ Stage(e) # s /\ Stage(e) # 0
      <4>1. e.op \in {"qubit", "outcome", "verdict"}
        BY <2>2
      <4>2. Stage(e) \in {1, 2}
        BY <4>1, StageOf
      <4> HIDE DEF s
      <4> QED  BY <1>8, <3>1, <4>2
    <3>3. e.call \in waits2[Stage(e)]
      BY <2>2, <3>1, <3>2
    <3>4. First.at = CallTime(k) + s * distillation.latency
      BY DEF InOrder
    <3>5. e.at = CallTime(k) + (s + 1) * distillation.latency
      <4> DEFINE t == distillation.latency
                 b == CallTime(k)
      <4>1. e.at = b + s * t + t /\ t \in Nat /\ b \in Nat
        BY <1>1, <1>2, <2>2, <3>4, CallFields
      <4>2. \A i, j, n \in Nat : j + i * n + n = j + (i + 1) * n
        OBVIOUS
      <4>3. s \in Nat
        BY <1>8
      <4> HIDE DEF s, t, b
      <4>4. e.at = b + (s + 1) * t
        BY <4>1, <4>2, <4>3
      <4> QED  BY <4>4 DEF t, b
    <3>6. e.uid > Len(Calls)
      BY <1>2, <1>3, <3>1
    <3> QED  BY <2>2, <3>1, <3>2, <3>3, <3>5, <3>6
  <2> QED  BY <1>7, <2>1, <2>2
<1>12. ASSUME NEW t \in 0 .. 2, NEW l \in waits2[t]
       PROVE  \E e \in pending' : Stage(e) = t /\ e.call = l
  <2>1. CASE l \in waits[t]
    <3>1. PICK e \in pending : Stage(e) = t /\ e.call = l
      BY <2>1 DEF InOrder
    <3>2. e # First
      BY <3>1, <1>12
    <3> QED  BY <3>1, <3>2
  <2>2. CASE l \notin waits[t]
    <3>1. replies # {} /\ t = s + 1 /\ l = k
      BY <1>12, <2>2
    <3> QED  BY <3>1
  <2> QED  BY <2>1, <2>2
<1>13. ASSUME NEW e \in pending', NEW f \in pending'
       PROVE  /\ e.uid = f.uid => e = f
              /\ Stage(e) = Stage(f) => /\ e.call < f.call => e.uid < f.uid
                                        /\ e.call = f.call => e = f
  <2>1. CASE e \in pending /\ f \in pending
    BY <2>1 DEF InOrder
  <2> DEFINE Newer(old, new) == /\ old.uid < new.uid /\ ~(new.uid < old.uid) /\ old.uid # new.uid
                                /\ Stage(old) = Stage(new) => old.call < new.call
  <2>2. ASSUME NEW old \in pending, replies # {}
        PROVE  Newer(old, p)
    <3>1. old.uid \in 1 .. scheduled /\ p.uid = scheduled + 1
      BY <1>4, <2>2
    <3>2. old.uid < p.uid /\ ~(p.uid < old.uid) /\ old.uid # p.uid
      BY <1>3, <3>1
    <3>3. Stage(old) = Stage(p) => old.call < p.call
      <4>1. old.call \in waits[Stage(old)]
        BY DEF InOrder
      <4> QED  BY <2>2, <4>1
    <3> QED  BY <3>2, <3>3
  <2>3. \A old \in pending : old.call \in 1 .. Len(Calls)
    BY <1>2 DEF DistillTypeOK
  <2>4. replies # {} => p.call \in 1 .. Len(Calls)
    OBVIOUS
  <2>5. ASSUME NEW old \in pending, replies # {}, Stage(old) = Stage(p)
        PROVE  ~(p.call < old.call) /\ p.call # old.call
    <3>1. old.call < p.call
      BY <2>2, <2>5
    <3> QED  BY <1>2, <2>3, <2>4, <2>5, <3>1
  <2>6. CASE e \in pending /\ replies # {} /\ f = p
    BY <2>2, <2>5, <2>6
  <2>7. CASE f \in pending /\ replies # {} /\ e = p
    BY <2>2, <2>5, <2>7
  <2>8. CASE replies # {} /\ e = p /\ f = p
    <3>1. ~(p.call < p.call)
      BY <1>2, <2>4, <2>8
    <3> QED  BY <2>8, <3>1
  <2> QED  BY <1>7, <2>1, <2>6, <2>7, <2>8
<1> HIDE DEF k, s
<1>14. InOrder(waits2)'
  <2>1. \A e \in pending' :
          /\ e.call \in waits2[Stage(e)]
          /\ e.at = CallTime(e.call)' + Stage(e) * distillation'.latency
          /\ IF Stage(e) = 0 THEN e = EventOf(e.call)' ELSE e.uid > Len(Calls')
          /\ Stage(e) = 1 => (e.op = "qubit" <=> e.call \in MakesPairs')
    BY <1>11, SameSchedule
  <2> QED  BY <1>12, <1>13, <2>1 DEF InOrder
<1> QED  BY <1>3, <1>2, <1>6, <1>10, <1>14

(***************************************************************************)
(* The bits                                                                *)
(***************************************************************************)
\* A bit is written, and the others stay.
LEMMA WithFields ==
  ASSUME NEW bits, NEW q, NEW bit
  PROVE  /\ DOMAIN With(bits, q, bit) = DOMAIN bits \cup {q}
         /\ With(bits, q, bit)[q] = bit
         /\ \A p \in DOMAIN bits : p # q => With(bits, q, bit)[p] = bits[p]
BY DEF With

\* The pair that the next call makes is in no round yet.
LEMMA NewPair ==
  ASSUME distillation \in Distillations, NEW k \in MakesPairs
  PROVE  \A j \in Rounds \cap (1 .. k - 1) :
           Calls[j].meas # Calls[k].goal /\ Calls[j].goal # Calls[k].goal
<1> SUFFICES ASSUME NEW j \in Rounds, j \in 1 .. k - 1,
                    Calls[j].meas = Calls[k].goal \/ Calls[j].goal = Calls[k].goal
             PROVE  FALSE
  OBVIOUS
<1>1. PICK i \in MakesPairs : i < j /\ Calls[i].goal = Calls[k].goal
  BY CallOrder
<1>2. i = k
  BY <1>1, CallOrder
<1>3. k \in Nat /\ j \in Nat /\ j < k
  BY CallFields
<1> QED  BY <1>1, <1>2, <1>3

\* A pair is made, with any bit.
LEMMA PairMade ==
  ASSUME distillation \in Distillations, NEW n \in Nat, n + 1 \in MakesPairs,
         NEW own, NEW own2, NEW held, NEW bit, Explains(own, held, n),
         own2[Calls[n + 1].goal] = bit,
         \A q : q # Calls[n + 1].goal => own2[q] = own[q]
  PROVE  Explains(own2, With(held, Calls[n + 1].goal, bit), n + 1)
<1> DEFINE q == Calls[n + 1].goal
           got == With(held, q, bit)
<1>1. /\ DOMAIN got = DOMAIN held \cup {q} /\ got[q] = bit
      /\ \A p \in DOMAIN held : p # q => got[p] = held[p]
  BY DEF With
<1> HIDE DEF got
<1>2. /\ DOMAIN held = {Calls[k].goal : k \in MakesPairs \cap (1 .. n)}
      /\ \A p \in DOMAIN held :
           (\A k \in Rounds \cap (1 .. n) : Calls[k].meas # p) => held[p] = own[p]
      /\ \A k \in Rounds \cap (1 .. n) : held[Calls[k].meas] = After(own, k)
  BY DEF Explains
<1>3. n + 1 \notin Rounds
  BY CallFields
<1>4. \A k : k \in 1 .. n + 1 <=> k \in 1 .. n \/ k = n + 1
  OBVIOUS
<1>5. Rounds \cap (1 .. n + 1) = Rounds \cap (1 .. n)
  BY <1>3, <1>4
<1>6. \A j \in Rounds \cap (1 .. n) : Calls[j].meas # q /\ Calls[j].goal # q
  <2>1. n + 1 - 1 = n
    OBVIOUS
  <2> QED  BY <2>1, NewPair
<1>7. DOMAIN got = {Calls[k].goal : k \in MakesPairs \cap (1 .. n + 1)}
  <2>1. \A p : p \in {Calls[k].goal : k \in MakesPairs \cap (1 .. n + 1)}
                 <=> p \in {Calls[k].goal : k \in MakesPairs \cap (1 .. n)} \/ p = q
    BY <1>4
  <2> QED  BY <1>1, <1>2, <2>1
<1>8. ASSUME NEW p \in DOMAIN got, \A k \in Rounds \cap (1 .. n + 1) : Calls[k].meas # p
      PROVE  got[p] = own2[p]
  <2>1. CASE p = q
    BY <1>1, <2>1
  <2>2. CASE p # q
    <3>1. p \in DOMAIN held /\ held[p] = own[p]
      BY <1>1, <1>2, <1>5, <1>8, <2>2
    <3> QED  BY <1>1, <2>2, <3>1
  <2> QED  BY <2>1, <2>2
<1>9. ASSUME NEW k \in Rounds \cap (1 .. n + 1)
      PROVE  got[Calls[k].meas] = After(own2, k)
  <2>1. k \in Rounds \cap (1 .. n) /\ Calls[k].meas # q /\ Calls[k].goal # q
    BY <1>5, <1>6
  <2>2. Calls[k].meas \in DOMAIN held
    <3>1. PICK i \in MakesPairs : i < k /\ Calls[i].goal = Calls[k].meas
      BY <2>1, CallOrder
    <3>2. i \in 1 .. n
      BY <2>1, <3>1, CallFields
    <3> QED  BY <1>2, <3>1, <3>2
  <2>3. got[Calls[k].meas] = After(own, k)
    BY <1>1, <1>2, <2>1, <2>2
  <2>4. own2[Calls[k].meas] = own[Calls[k].meas] /\ own2[Calls[k].goal] = own[Calls[k].goal]
    BY <2>1
  <2> QED  BY <2>3, <2>4 DEF After
<1>10. Explains(own2, got, n + 1)
  BY <1>7, <1>8, <1>9 DEF Explains
<1> QED  BY <1>10 DEF got

\* A round operates on pairs that were made and that no round before it has measured.
LEMMA RoundReady ==
  ASSUME distillation \in Distillations, NEW n \in Nat, n + 1 \in Rounds,
         NEW own, NEW held, Explains(own, held, n)
  PROVE  /\ Calls[n + 1].goal \in DOMAIN held /\ Calls[n + 1].meas \in DOMAIN held
         /\ held[Calls[n + 1].goal] = own[Calls[n + 1].goal]
         /\ held[Calls[n + 1].meas] = own[Calls[n + 1].meas]
<1>1. /\ DOMAIN held = {Calls[k].goal : k \in MakesPairs \cap (1 .. n)}
      /\ \A p \in DOMAIN held :
           (\A k \in Rounds \cap (1 .. n) : Calls[k].meas # p) => held[p] = own[p]
  BY DEF Explains
<1>2. \A i \in MakesPairs : i < n + 1 => i \in 1 .. n
  <2>1. \A i \in MakesPairs : i \in 1 .. Len(Calls) /\ Len(Calls) \in Nat
    BY CallFields
  <2> QED  BY <2>1
<1>3. Calls[n + 1].goal \in DOMAIN held /\ Calls[n + 1].meas \in DOMAIN held
  BY <1>1, <1>2, CallOrder
<1>4. \A k \in Rounds \cap (1 .. n) :
        Calls[k].meas # Calls[n + 1].goal /\ Calls[k].meas # Calls[n + 1].meas
  <2>1. \A k \in 1 .. n : k < n + 1
    OBVIOUS
  <2> QED  BY <2>1, CallOrder
<1> QED  BY <1>1, <1>3, <1>4

\* A round measures what its two pairs were made with.
LEMMA RoundMade ==
  ASSUME distillation \in Distillations, NEW n \in Nat, n + 1 \in Rounds,
         NEW own, NEW held, Explains(own, held, n),
         NEW bit, bit = (held[Calls[n + 1].meas] + held[Calls[n + 1].goal]) % 2
  PROVE  /\ bit = After(own, n + 1)
         /\ Explains(own, With(held, Calls[n + 1].meas, bit), n + 1)
<1> DEFINE q == Calls[n + 1].meas
           got == With(held, q, bit)
<1>1. /\ DOMAIN got = DOMAIN held \cup {q} /\ got[q] = bit
      /\ \A p \in DOMAIN held : p # q => got[p] = held[p]
  BY DEF With
<1> HIDE DEF got
<1>2. /\ DOMAIN held = {Calls[k].goal : k \in MakesPairs \cap (1 .. n)}
      /\ \A p \in DOMAIN held :
           (\A k \in Rounds \cap (1 .. n) : Calls[k].meas # p) => held[p] = own[p]
      /\ \A k \in Rounds \cap (1 .. n) : held[Calls[k].meas] = After(own, k)
  BY DEF Explains
<1>3. q \in DOMAIN held /\ bit = After(own, n + 1)
  BY RoundReady DEF After
<1>4. \A k : k \in 1 .. n + 1 <=> k \in 1 .. n \/ k = n + 1
  OBVIOUS
<1>5. MakesPairs \cap (1 .. n + 1) = MakesPairs \cap (1 .. n)
  BY <1>4, CallFields
<1>6. DOMAIN got = {Calls[k].goal : k \in MakesPairs \cap (1 .. n + 1)}
  BY <1>1, <1>2, <1>3, <1>5
<1>7. ASSUME NEW p \in DOMAIN got, \A k \in Rounds \cap (1 .. n + 1) : Calls[k].meas # p
      PROVE  got[p] = own[p]
  <2>1. p # q /\ p \in DOMAIN held /\ \A k \in Rounds \cap (1 .. n) : Calls[k].meas # p
    BY <1>1, <1>4, <1>7
  <2> QED  BY <1>1, <1>2, <2>1
<1>8. ASSUME NEW k \in Rounds \cap (1 .. n + 1)
      PROVE  got[Calls[k].meas] = After(own, k)
  <2>1. CASE k = n + 1
    BY <1>1, <1>3, <2>1
  <2>2. CASE k \in 1 .. n
    <3>1. Calls[k].meas # q
      <4>1. k < n + 1
        BY <2>2
      <4> QED  BY <4>1, CallOrder
    <3>2. PICK i \in MakesPairs : i < k /\ Calls[i].goal = Calls[k].meas
      BY CallOrder
    <3>3. i \in 1 .. n
      BY <2>2, <3>2, CallFields
    <3>4. Calls[k].meas \in DOMAIN held
      BY <1>2, <3>2, <3>3
    <3> QED  BY <1>1, <1>2, <2>2, <3>1, <3>4
  <2> QED  BY <1>4, <2>1, <2>2
<1>9. Explains(own, got, n + 1)
  BY <1>6, <1>7, <1>8 DEF Explains
<1> QED  BY <1>3, <1>9 DEF got

\* Bob's outcome is Alice's when the two pairs were flipped alike.
LEMMA SameParity ==
  ASSUME NEW a \in Bit, NEW b \in Bit, NEW f \in Bit, NEW g \in Bit
  PROVE  (((a + f) % 2) + ((b + g) % 2)) % 2 = (a + b) % 2 <=> g = f
<1>1. /\ (0 + 0) % 2 = 0 /\ (0 + 1) % 2 = 1 /\ (1 + 0) % 2 = 1 /\ (1 + 1) % 2 = 0
  OBVIOUS
<1> QED  BY <1>1 DEF Bit

\* The outcomes of a round agree when its two pairs were flipped alike.
LEMMA OutcomesTell ==
  ASSUME distillation \in Distillations, flips \in [Pairs -> Bit],
         NEW bits \in [Pairs -> Bit], NEW k \in Rounds
  PROVE  After(Others(bits), k) = After(bits, k) <=> Agree(k)
<1>1. PICK q, g, own : q = Calls[k].meas /\ g = Calls[k].goal /\ own = Others(bits)
  OBVIOUS
<1>2. q \in Pairs /\ g \in Pairs
  BY <1>1, CallFields
<1>3. PICK a1, a2, f1, f2 : a1 = bits[q] /\ a2 = bits[g] /\ f1 = flips[q] /\ f2 = flips[g]
  OBVIOUS
<1>4. a1 \in Bit /\ a2 \in Bit /\ f1 \in Bit /\ f2 \in Bit
  BY <1>2, <1>3
<1>5. own[q] = (a1 + f1) % 2 /\ own[g] = (a2 + f2) % 2
  BY <1>1, <1>2, <1>3 DEF Others
<1>6. After(own, k) = (((a1 + f1) % 2) + ((a2 + f2) % 2)) % 2
  <2>1. After(own, k) = (own[q] + own[g]) % 2
    BY <1>1 DEF After
  <2> QED  BY <1>5, <2>1
<1>7. After(bits, k) = (a1 + a2) % 2
  BY <1>1, <1>3 DEF After
<1>8. Agree(k) <=> f2 = f1
  BY <1>1, <1>3 DEF Agree
<1>9. (((a1 + f1) % 2) + ((a2 + f2) % 2)) % 2 = (a1 + a2) % 2 <=> f2 = f1
  BY <1>4, SameParity
<1> QED  BY <1>1, <1>6, <1>7, <1>8, <1>9

(***************************************************************************)
(* The measurements                                                        *)
(***************************************************************************)
\* A round takes the next place, and no other call does.
LEMMA PlaceAfter ==
  ASSUME distillation \in Distillations, NEW n \in Nat
  PROVE  /\ Place(0) = 0 /\ Place(n) \in Nat
         /\ n + 1 \in Rounds => Place(n + 1) = Place(n) + 1
         /\ n + 1 \notin Rounds => Place(n + 1) = Place(n)
<1>1. \A j \in Nat : IsFiniteSet(Rounds \cap (1 .. j))
  <2> SUFFICES ASSUME NEW j \in Nat
               PROVE  IsFiniteSet(Rounds \cap (1 .. j))
    OBVIOUS
  <2>1. IsFiniteSet(1 .. j)
    BY FS_Interval
  <2> QED  BY <2>1, FS_Intersection
<1>2. Place(n) \in Nat
  BY <1>1, FS_CardinalityType DEF Place
<1>3. Place(0) = 0
  <2>1. Rounds \cap (1 .. 0) = {}
    OBVIOUS
  <2> QED  BY <2>1, FS_EmptySet DEF Place
<1>4. \A k : k \in 1 .. n + 1 <=> k \in 1 .. n \/ k = n + 1
  OBVIOUS
<1>5. ASSUME n + 1 \in Rounds
      PROVE  Place(n + 1) = Place(n) + 1
  <2>1. Rounds \cap (1 .. n + 1) = (Rounds \cap (1 .. n)) \cup {n + 1}
    BY <1>4, <1>5
  <2>2. n + 1 \notin Rounds \cap (1 .. n)
    OBVIOUS
  <2> QED  BY <1>1, <2>1, <2>2, FS_AddElement DEF Place
<1>6. ASSUME n + 1 \notin Rounds
      PROVE  Place(n + 1) = Place(n)
  <2>1. Rounds \cap (1 .. n + 1) = Rounds \cap (1 .. n)
    BY <1>4, <1>6
  <2> QED  BY <2>1 DEF Place
<1> QED  BY <1>2, <1>3, <1>5, <1>6

\* Later rounds have later places.
LEMMA PlacesGrow ==
  ASSUME distillation \in Distillations, NEW k \in Nat, NEW l \in Nat, k <= l
  PROVE  /\ Place(k) \in Nat /\ Place(l) \in Nat /\ Place(k) <= Place(l)
         /\ k < l /\ l \in Rounds => Place(k) < Place(l)
<1>1. \A i, j \in Nat : i <= j => Place(i) <= Place(j)
  <2> SUFFICES ASSUME NEW i \in Nat, NEW j \in Nat, i <= j
               PROVE  Place(i) <= Place(j)
    OBVIOUS
  <2>1. IsFiniteSet(Rounds \cap (1 .. j))
    <3>1. IsFiniteSet(1 .. j)
      BY FS_Interval
    <3> QED  BY <3>1, FS_Intersection
  <2>2. Rounds \cap (1 .. i) \subseteq Rounds \cap (1 .. j)
    OBVIOUS
  <2> QED  BY <2>1, <2>2, FS_Subset DEF Place
<1>2. Place(k) \in Nat /\ Place(l) \in Nat
  BY PlaceAfter
<1>3. ASSUME k < l, l \in Rounds
      PROVE  Place(k) < Place(l)
  <2>1. l - 1 \in Nat /\ k <= l - 1 /\ (l - 1) + 1 = l
    BY <1>3
  <2>2. Place(l) = Place(l - 1) + 1 /\ Place(l - 1) \in Nat
    BY <1>3, <2>1, PlaceAfter
  <2>3. Place(k) <= Place(l - 1)
    BY <1>1, <2>1
  <2> QED  BY <1>2, <2>2, <2>3
<1> QED  BY <1>1, <1>2, <1>3

\* The next round is measured, or a pair is made.
LEMMA MeasuredNext ==
  ASSUME distillation \in Distillations, NEW n \in Nat, n + 1 \in 1 .. Len(Calls),
         NEW qubits \in Seq(Pairs), MeasuredUpTo(qubits, n)
  PROVE  /\ n + 1 \in Rounds => MeasuredUpTo(Append(qubits, Calls[n + 1].meas), n + 1)
         /\ n + 1 \notin Rounds => MeasuredUpTo(qubits, n + 1)
<1>1. /\ Len(qubits) = Place(n) /\ DOMAIN qubits = 1 .. Len(qubits)
      /\ \A i \in DOMAIN qubits :
           \E k \in Rounds \cap (1 .. n) : i = Place(k) /\ qubits[i] = Calls[k].meas
  BY DEF MeasuredUpTo
<1>2. \A k \in 1 .. n : k \in 1 .. n + 1
  OBVIOUS
<1>3. ASSUME n + 1 \notin Rounds
      PROVE  MeasuredUpTo(qubits, n + 1)
  <2>1. Place(n + 1) = Place(n)
    BY <1>3, PlaceAfter
  <2> QED  BY <1>1, <1>2, <2>1 DEF MeasuredUpTo
<1>4. ASSUME n + 1 \in Rounds
      PROVE  MeasuredUpTo(Append(qubits, Calls[n + 1].meas), n + 1)
  <2> DEFINE q == Calls[n + 1].meas
             got == Append(qubits, q)
  <2>1. Place(n + 1) = Place(n) + 1 /\ Place(n) \in Nat
    BY <1>4, PlaceAfter
  <2>2. /\ Len(got) = Place(n) + 1 /\ DOMAIN got = 1 .. Place(n) + 1
        /\ \A i \in 1 .. Place(n) : got[i] = qubits[i]
        /\ got[Place(n) + 1] = q
    <3>1. q \in Pairs
      BY CallFields
    <3> HIDE DEF q
    <3> QED  BY <1>1, <3>1
  <2> HIDE DEF got
  <2>3. ASSUME NEW i \in DOMAIN got
        PROVE  \E k \in Rounds \cap (1 .. n + 1) : i = Place(k) /\ got[i] = Calls[k].meas
    <3>1. CASE i \in 1 .. Place(n)
      BY <1>1, <1>2, <2>2, <3>1
    <3>2. CASE i = Place(n) + 1
      <4>1. n + 1 \in Rounds \cap (1 .. n + 1)
        BY <1>4
      <4> QED  BY <2>1, <2>2, <3>2, <4>1
    <3> QED  BY <2>1, <2>2, <3>1, <3>2
  <2>4. MeasuredUpTo(got, n + 1)
    BY <2>1, <2>2, <2>3 DEF MeasuredUpTo
  <2> QED  BY <2>4 DEF got
<1> QED  BY <1>3, <1>4

(***************************************************************************)
(* The steps                                                               *)
(***************************************************************************)
Kept(c, d, v, bits) ==
  /\ c \in 0 .. Len(Calls) /\ d \in 0 .. Len(Calls) /\ v \in 0 .. Len(Calls)
  /\ v <= d /\ d <= c
  /\ InOrder(WaitsFor(c, d, v))
  /\ MeasuredUpTo(measured.Alice, c) /\ MeasuredUpTo(measured.Bob, d)
  /\ bits \in [Pairs -> Bit] /\ ExplainedBy(bits, c, d)
  /\ Concluded(d, v)

\* The invariant, with its counters and bits named.
LEMMA KeptIsIInv ==
  /\ DistillIInv <=> DistillTypeOK /\ \E c, d, v, bits : Kept(c, d, v, bits)
  /\ DistillIInv' <=> DistillTypeOK' /\ \E c, d, v, bits : Kept(c, d, v, bits)'
<1>1. DistillIInv <=> DistillTypeOK /\ \E c, d, v, bits : Kept(c, d, v, bits)
  BY DEF DistillIInv, Kept
<1>2. DistillIInv' <=> DistillTypeOK' /\ \E c, d, v, bits : Kept(c, d, v, bits)'
  BY DEF DistillIInv, Kept
<1> QED  BY <1>1, <1>2

\* A call is made, its packet arrives, or the verdict on it does.
LEMMA CallMoves ==
  ASSUME distillation \in Distillations, NEW c \in Nat, NEW d \in Nat, NEW v \in Nat,
         d <= c, c + 1 <= Len(Calls)
  PROVE  /\ WaitsFor(c + 1, d, v)[0] = WaitsFor(c, d, v)[0] \ {c + 1}
         /\ WaitsFor(c + 1, d, v)[1] = WaitsFor(c, d, v)[1] \cup {c + 1}
         /\ WaitsFor(c + 1, d, v)[2] = WaitsFor(c, d, v)[2]
<1>1. Len(Calls) \in Nat
  BY CallFields
<1>2. /\ c + 1 + 1 .. Len(Calls) = (c + 1 .. Len(Calls)) \ {c + 1}
      /\ d + 1 .. c + 1 = (d + 1 .. c) \cup {c + 1}
  BY <1>1
<1> QED  BY <1>2 DEF WaitsFor

\* The packet of the next call arrives.
LEMMA PacketMoves ==
  ASSUME distillation \in Distillations, NEW c \in Nat, NEW d \in Nat, NEW v \in Nat,
         v <= d, d + 1 <= c
  PROVE  /\ WaitsFor(c, d + 1, v)[0] = WaitsFor(c, d, v)[0]
         /\ WaitsFor(c, d + 1, v)[1] = WaitsFor(c, d, v)[1] \ {d + 1}
         /\ d + 1 \in Rounds => WaitsFor(c, d + 1, v)[2] = WaitsFor(c, d, v)[2] \cup {d + 1}
         /\ d + 1 \notin Rounds => WaitsFor(c, d + 1, v)[2] = WaitsFor(c, d, v)[2]
<1>1. /\ d + 1 + 1 .. c = (d + 1 .. c) \ {d + 1}
      /\ v + 1 .. d + 1 = (v + 1 .. d) \cup {d + 1}
  OBVIOUS
<1>2. /\ d + 1 \in Rounds => Rounds \cap (v + 1 .. d + 1) = (Rounds \cap (v + 1 .. d)) \cup {d + 1}
      /\ d + 1 \notin Rounds => Rounds \cap (v + 1 .. d + 1) = Rounds \cap (v + 1 .. d)
  BY <1>1
<1> QED  BY <1>1, <1>2 DEF WaitsFor

\* The verdict on the first round that waits for one arrives.
LEMMA VerdictMoves ==
  ASSUME distillation \in Distillations, NEW c \in Nat, NEW d \in Nat, NEW v \in Nat,
         NEW k \in Rounds, v < k, k <= d, \A l \in Rounds \cap (v + 1 .. d) : k <= l
  PROVE  /\ WaitsFor(c, d, k)[0] = WaitsFor(c, d, v)[0]
         /\ WaitsFor(c, d, k)[1] = WaitsFor(c, d, v)[1]
         /\ WaitsFor(c, d, k)[2] = WaitsFor(c, d, v)[2] \ {k}
<1>1. Len(Calls) \in Nat /\ \A l \in Rounds : l \in 1 .. Len(Calls)
  BY CallFields
<1>2. Rounds \cap (k + 1 .. d) = (Rounds \cap (v + 1 .. d)) \ {k}
  <2>1. \A l \in Rounds : l \in k + 1 .. d <=> (l \in v + 1 .. d /\ l # k)
    BY <1>1
  <2> QED  BY <2>1
<1> QED  BY <1>2 DEF WaitsFor

\* What a packet tells does not change while it is on its way.
LEMMA PacketsStillTell ==
  ASSUME distillation' = distillation, flips' = flips,
         NEW replies, pending' = (pending \ {First}) \cup replies,
         NEW bits, PacketsTell(bits),
         \A e \in replies : /\ e.op = "qubit" => e.bit = Others(bits)[Goal(e)]
                            /\ e.op = "outcome" => e.bit = After(bits, e.call)
                            /\ e.op = "verdict" => (e.bit = 1 <=> Agree(e.call))
  PROVE  PacketsTell(bits)'
<1>1. /\ Others(bits)' = Others(bits)
      /\ \A k : After(bits, k)' = After(bits, k)
      /\ \A e : Goal(e)' = Goal(e)
      /\ \A k : Agree(k)' <=> Agree(k)
  BY SameSchedule DEF Others, After, Goal, Agree
<1>2. \A e \in pending' : e \in pending \/ e \in replies
  OBVIOUS
<1>3. \A e \in pending' :
        /\ e.op = "qubit" => e.bit = Others(bits)[Goal(e)]
        /\ e.op = "outcome" => e.bit = After(bits, e.call)
        /\ e.op = "verdict" => (e.bit = 1 <=> Agree(e.call))
  BY <1>2 DEF PacketsTell
<1>4. \A e \in pending' :
        /\ e.op = "qubit" => e.bit = Others(bits)'[Goal(e)']
        /\ e.op = "outcome" => e.bit = After(bits, e.call)'
        /\ e.op = "verdict" => (e.bit = 1 <=> Agree(e.call)')
  BY <1>1, <1>3
<1> QED  BY <1>4 DEF PacketsTell

\* Explanations do not depend on the flips.
LEMMA StillExplains ==
  ASSUME distillation' = distillation, NEW own, NEW n
  PROVE  /\ Explains(own, alice', n) => Explains(own, alice, n)'
         /\ Explains(own, bob', n) => Explains(own, bob, n)'
<1>1. /\ Calls' = Calls /\ Rounds' = Rounds /\ MakesPairs' = MakesPairs
      /\ \A k : After(own, k)' = After(own, k)
  BY SameSchedule
<1> QED  BY <1>1 DEF Explains

\* Nor does the order of the measurements.
LEMMA StillMeasured ==
  ASSUME distillation' = distillation, NEW n
  PROVE  /\ MeasuredUpTo(measured'.Alice, n) => MeasuredUpTo(measured.Alice, n)'
         /\ MeasuredUpTo(measured'.Bob, n) => MeasuredUpTo(measured.Bob, n)'
<1>1. Calls' = Calls /\ Rounds' = Rounds /\ \A k : Place(k)' = Place(k)
  BY SameSchedule
<1> QED  BY <1>1 DEF MeasuredUpTo

\* The verdicts are about flips that do not change.
LEMMA StillConcluded ==
  ASSUME distillation' = distillation, flips' = flips, NEW d, NEW v,
         d = Len(Calls) => (win'.Bob <=> Agree(Len(Calls))),
         v = Len(Calls) => (win'.Alice <=> Agree(Len(Calls)))
  PROVE  Concluded(d, v)'
<1>1. Calls' = Calls /\ \A k : Agree(k)' <=> Agree(k)
  BY SameSchedule DEF Agree
<1> QED  BY <1>1 DEF Concluded

\* Bits of a pair that is not made yet explain nothing.
LEMMA ExplainsElsewhere ==
  ASSUME distillation \in Distillations, NEW k \in MakesPairs, NEW n \in Nat, n < k,
         NEW own, NEW own2, NEW held, Explains(own, held, n),
         \A q : q \in Pairs /\ q # Calls[k].goal => own2[q] = own[q]
  PROVE  Explains(own2, held, n)
<1>1. /\ DOMAIN held = {Calls[j].goal : j \in MakesPairs \cap (1 .. n)}
      /\ \A p \in DOMAIN held :
           (\A j \in Rounds \cap (1 .. n) : Calls[j].meas # p) => held[p] = own[p]
      /\ \A j \in Rounds \cap (1 .. n) : held[Calls[j].meas] = After(own, j)
  BY DEF Explains
<1>2. \A j \in 1 .. n : j \in 1 .. k - 1 /\ j # k
  BY CallFields
<1>3. \A p \in DOMAIN held : p \in Pairs /\ p # Calls[k].goal
  <2> SUFFICES ASSUME NEW j \in MakesPairs \cap (1 .. n)
               PROVE  Calls[j].goal \in Pairs /\ Calls[j].goal # Calls[k].goal
    BY <1>1
  <2> QED  BY <1>2, CallFields, CallOrder
<1>4. \A p \in DOMAIN held : own2[p] = own[p]
  BY <1>3
<1>5. \A j \in Rounds \cap (1 .. n) : After(own2, j) = After(own, j)
  <2> SUFFICES ASSUME NEW j \in Rounds \cap (1 .. n)
               PROVE  After(own2, j) = After(own, j)
    OBVIOUS
  <2>1. Calls[j].meas # Calls[k].goal /\ Calls[j].goal # Calls[k].goal
    BY <1>2, NewPair
  <2>2. Calls[j].meas \in Pairs /\ Calls[j].goal \in Pairs
    BY CallFields
  <2>3. own2[Calls[j].meas] = own[Calls[j].meas] /\ own2[Calls[j].goal] = own[Calls[j].goal]
    BY <2>1, <2>2
  <2> QED  BY <2>3 DEF After
<1> QED  BY <1>1, <1>4, <1>5 DEF Explains

\* Nothing has been called, and any bits explain that.
LEMMA DistillInitIInv == DistillInit => DistillIInv
<1> SUFFICES ASSUME DistillInit
             PROVE  DistillIInv
  OBVIOUS
<1>1. /\ distillation \in Distillations /\ flips \in [Pairs -> Bit]
      /\ pending = {EventOf(k) : k \in DOMAIN Calls} /\ scheduled = Len(Calls)
      /\ alice = <<>> /\ bob = <<>> /\ measured = [Alice |-> <<>>, Bob |-> <<>>]
      /\ win = [Alice |-> FALSE, Bob |-> FALSE]
  BY DEF DistillInit
<1>2. /\ Len(Calls) \in Nat /\ Len(Calls) >= 1 /\ DOMAIN Calls = 1 .. Len(Calls)
      /\ \A k \in 1 .. Len(Calls) : /\ CallTime(k) \in Nat /\ Calls[k].op \in {"epr", "round"}
  BY <1>1, CallFields
<1>3. \A k : /\ EventOf(k).at = CallTime(k) /\ EventOf(k).uid = k /\ EventOf(k).call = k
             /\ EventOf(k).op = Calls[k].op /\ EventOf(k).bit = 0
             /\ EventOf(k) = [at |-> CallTime(k), uid |-> k, op |-> Calls[k].op, call |-> k,
                              bit |-> 0]
  BY DEF EventOf
<1>4. DistillTypeOK
  <2>1. \A k \in 1 .. Len(Calls) :
          EventOf(k) \in [at : Nat, uid : 1 .. scheduled, call : DOMAIN Calls, bit : Bit,
                          op : {"epr", "round", "qubit", "outcome", "verdict"}]
    BY <1>1, <1>2, <1>3 DEF Bit
  <2>2. /\ measured \in [Alice : Seq(Pairs), Bob : Seq(Pairs)]
        /\ win \in [Alice : BOOLEAN, Bob : BOOLEAN]
    BY <1>1
  <2>3. scheduled \in Nat /\ scheduled >= Len(Calls)
    BY <1>1, <1>2
  <2>4. pending \subseteq [at : Nat, uid : 1 .. scheduled, call : DOMAIN Calls, bit : Bit,
                           op : {"epr", "round", "qubit", "outcome", "verdict"}]
    BY <1>1, <1>2, <2>1
  <2>5. distillation \in Distillations /\ flips \in [Pairs -> Bit]
    BY <1>1
  <2> QED  BY <2>2, <2>3, <2>4, <2>5 DEF DistillTypeOK
<1>5. \A k \in 1 .. Len(Calls) : Stage(EventOf(k)) = 0
  BY <1>2, <1>3, StageOf
<1>6. InOrder(WaitsFor(0, 0, 0))
  <2> DEFINE w == WaitsFor(0, 0, 0)
  <2>1. w[0] = 1 .. Len(Calls) /\ w[1] = {} /\ w[2] = {}
    BY DEF WaitsFor
  <2> HIDE DEF w
  <2>2. ASSUME NEW e \in pending
        PROVE  /\ e.call \in w[Stage(e)]
               /\ e.at = CallTime(e.call) + Stage(e) * distillation.latency
               /\ IF Stage(e) = 0 THEN e = EventOf(e.call) ELSE e.uid > Len(Calls)
               /\ Stage(e) = 1 => (e.op = "qubit" <=> e.call \in MakesPairs)
    <3>1. PICK k \in 1 .. Len(Calls) : e = EventOf(k)
      BY <1>1, <1>2
    <3>2. Stage(e) = 0 /\ e.call = k /\ e.at = CallTime(k)
      BY <1>3, <1>5, <3>1
    <3>3. CallTime(k) = CallTime(k) + 0 * distillation.latency
      <4>1. distillation.latency \in Nat
        BY <1>1, TheSchedule
      <4> QED  BY <1>2, <4>1
    <3> QED  BY <2>1, <3>1, <3>2, <3>3
  <2>3. ASSUME NEW t \in 0 .. 2, NEW k \in w[t]
        PROVE  \E e \in pending : Stage(e) = t /\ e.call = k
    <3>1. t = 0 /\ k \in 1 .. Len(Calls)
      BY <2>1, <2>3
    <3> QED  BY <1>1, <1>2, <1>3, <1>5, <3>1
  <2>4. ASSUME NEW e \in pending, NEW f \in pending
        PROVE  /\ e.uid = f.uid => e = f
               /\ Stage(e) = Stage(f) => /\ e.call < f.call => e.uid < f.uid
                                         /\ e.call = f.call => e = f
    <3>1. PICK k \in 1 .. Len(Calls) : e = EventOf(k)
      BY <1>1, <1>2
    <3>2. PICK l \in 1 .. Len(Calls) : f = EventOf(l)
      BY <1>1, <1>2
    <3>3. e.uid = k /\ e.call = k /\ f.uid = l /\ f.call = l
      BY <1>3, <3>1, <3>2
    <3> QED  BY <3>1, <3>2, <3>3
  <2>5. InOrder(w)
    BY <2>2, <2>3, <2>4 DEF InOrder
  <2> QED  BY <2>5 DEF w
<1>7. MeasuredUpTo(measured.Alice, 0) /\ MeasuredUpTo(measured.Bob, 0)
  <2>1. Place(0) = 0
    BY <1>1, PlaceAfter
  <2>2. measured.Alice = <<>> /\ measured.Bob = <<>>
    BY <1>1
  <2> QED  BY <2>1, <2>2 DEF MeasuredUpTo
<1> DEFINE bits == [q \in Pairs |-> 0]
<1>8. bits \in [Pairs -> Bit]
  BY DEF Bit
<1> HIDE DEF bits
<1>9. ExplainedBy(bits, 0, 0)
  <2>1. MakesPairs \cap (1 .. 0) = {} /\ Rounds \cap (1 .. 0) = {}
    OBVIOUS
  <2>2. \A own : Explains(own, <<>>, 0)
    BY <2>1 DEF Explains
  <2>3. \A e \in pending : e.op \in {"epr", "round"}
    BY <1>1, <1>2, <1>3
  <2>4. PacketsTell(bits)
    BY <2>3 DEF PacketsTell
  <2> QED  BY <1>1, <2>2, <2>4 DEF ExplainedBy
<1>10. Concluded(0, 0)
  BY <1>2 DEF Concluded
<1>11. 0 \in 0 .. Len(Calls)
  BY <1>2
<1>12. Kept(0, 0, 0, bits)
  BY <1>6, <1>7, <1>8, <1>9, <1>10, <1>11 DEF Kept
<1> QED  BY <1>4, <1>12, KeptIsIInv

\* What every step needs of the state it starts from.
LEMMA StepFacts ==
  ASSUME DistillTypeOK, NEW c, NEW d, NEW v, NEW bits, Kept(c, d, v, bits),
         NEW op, NEW replies, RunFirst(op, replies)
  PROVE  /\ distillation \in Distillations /\ distillation' = distillation /\ flips' = flips
         /\ c \in 0 .. Len(Calls) /\ d \in 0 .. Len(Calls) /\ v \in 0 .. Len(Calls)
         /\ c \in Nat /\ d \in Nat /\ v \in Nat /\ Len(Calls) \in Nat
         /\ v <= d /\ d <= c
         /\ First \in pending /\ First.op = op /\ First.call \in 1 .. Len(Calls)
         /\ Goal(First) = Calls[First.call].goal /\ Measured(First) = Calls[First.call].meas
         /\ op \in {"epr", "round"} =>
              /\ First.call = c + 1 /\ c + 1 <= Len(Calls)
              /\ op = Calls[c + 1].op /\ Stage(First) = 0
         /\ op \in {"qubit", "outcome"} =>
              /\ First.call = d + 1 /\ d + 1 <= c /\ Stage(First) = 1
              /\ op = "qubit" <=> d + 1 \in MakesPairs
         /\ op = "verdict" =>
              /\ First.call \in Rounds /\ v < First.call /\ First.call <= d /\ Stage(First) = 2
              /\ \A l \in Rounds \cap (v + 1 .. d) : First.call <= l
<1>1. /\ c \in 0 .. Len(Calls) /\ d \in 0 .. Len(Calls) /\ v \in 0 .. Len(Calls)
      /\ v <= d /\ d <= c /\ InOrder(WaitsFor(c, d, v))
  BY DEF Kept
<1>2. /\ pending # {} /\ First.op = op /\ distillation' = distillation /\ flips' = flips
  BY DEF RunFirst
<1>3. distillation \in Distillations
  BY DEF DistillTypeOK
<1>4. Len(Calls) \in Nat
  BY <1>3, CallFields
<1>5. c \in Nat /\ d \in Nat /\ v \in Nat
  BY <1>1, <1>4
<1>6. /\ First \in pending /\ First.call \in 1 .. Len(Calls)
      /\ Stage(First) = 0 => /\ First.call = c + 1 /\ c + 1 <= Len(Calls)
                             /\ First.op = Calls[c + 1].op
      /\ Stage(First) = 1 => /\ First.call = d + 1 /\ d + 1 <= c
                             /\ First.op = "qubit" <=> d + 1 \in MakesPairs
      /\ Stage(First) = 2 => /\ First.call \in Rounds /\ v < First.call /\ First.call <= d
                             /\ \A l \in Rounds \cap (v + 1 .. d) : First.call <= l
  BY <1>1, <1>2, NextCall
<1>7. /\ op \in {"epr", "round"} => Stage(First) = 0
      /\ op \in {"qubit", "outcome"} => Stage(First) = 1
      /\ op = "verdict" => Stage(First) = 2
  BY <1>2, StageOf
<1>8. Goal(First) = Calls[First.call].goal /\ Measured(First) = Calls[First.call].meas
  BY DEF Goal, Measured
<1> QED  BY <1>1, <1>2, <1>3, <1>4, <1>5, <1>6, <1>7, <1>8

\* What is to be shown of a step.
KeepsUp(c2, d2, v2, bits2, replies) ==
  /\ c2 \in 0 .. Len(Calls) /\ d2 \in 0 .. Len(Calls) /\ v2 \in 0 .. Len(Calls)
  /\ v2 <= d2 /\ d2 <= c2 /\ bits2 \in [Pairs -> Bit]
  /\ measured' \in [Alice : Seq(Pairs), Bob : Seq(Pairs)]
  /\ win' \in [Alice : BOOLEAN, Bob : BOOLEAN]
  /\ MeasuredUpTo(measured'.Alice, c2) /\ MeasuredUpTo(measured'.Bob, d2)
  /\ Explains(bits2, alice', c2) /\ Explains(Others(bits2), bob', d2) /\ PacketsTell(bits2)
  /\ \A e \in replies : /\ e.op = "qubit" => e.bit = Others(bits2)[Goal(e)]
                        /\ e.op = "outcome" => e.bit = After(bits2, e.call)
                        /\ e.op = "verdict" => (e.bit = 1 <=> Agree(e.call))
  /\ d2 = Len(Calls) => (win'.Bob <=> Agree(Len(Calls)))
  /\ v2 = Len(Calls) => (win'.Alice <=> Agree(Len(Calls)))

\* The invariant after a step that passes an event on and keeps up.
LEMMA KeptAfter ==
  ASSUME DistillTypeOK, NEW c, NEW d, NEW v, NEW bits, Kept(c, d, v, bits),
         NEW op, NEW replies, RunFirst(op, replies),
         NEW c2, NEW d2, NEW v2, NEW bits2, KeepsUp(c2, d2, v2, bits2, replies),
         NEW p, Passes(WaitsFor(c, d, v), WaitsFor(c2, d2, v2), p, replies)
  PROVE  DistillIInv'
<1> USE DEF KeepsUp
<1>0. PICK w, w2 : w = WaitsFor(c, d, v) /\ w2 = WaitsFor(c2, d2, v2)
  OBVIOUS
<1>1. /\ distillation \in Distillations /\ distillation' = distillation /\ flips' = flips
      /\ First \in pending /\ First.call \in 1 .. Len(Calls)
  BY StepFacts
<1>2. /\ pending' = (pending \ {First}) \cup replies
      /\ scheduled' = scheduled + Cardinality(replies)
  BY DEF RunFirst
<1>3. InOrder(w)
  BY <1>0 DEF Kept
<1>4. /\ InOrder(w2)' /\ scheduled' \in Nat /\ scheduled' >= Len(Calls)
      /\ pending' \subseteq [at : Nat, uid : 1 .. scheduled', call : DOMAIN Calls, bit : Bit,
                             op : {"epr", "round", "qubit", "outcome", "verdict"}]
  BY <1>0, <1>1, <1>2, <1>3, EventsStayInOrder
<1>5. Calls' = Calls /\ Pairs' = Pairs
  BY <1>1, SameSchedule
<1>6. DistillTypeOK'
  BY <1>1, <1>4, <1>5 DEF DistillTypeOK
<1>7. InOrder(WaitsFor(c2, d2, v2))'
  <2>1. WaitsFor(c2, d2, v2)' = w2
    BY <1>0, <1>1, SameSchedule
  <2> QED  BY <1>4, <2>1
<1>8. Explains(bits2, alice, c2)'
  BY <1>1, StillExplains
<1>9. Explains(Others(bits2), bob, d2)'
  <2>1. Others(bits2)' = Others(bits2)
    BY <1>1, <1>5 DEF Others
  <2>2. PICK own : own = Others(bits2)
    OBVIOUS
  <2>3. Explains(own, bob, d2)'
    BY <1>1, <2>2, StillExplains
  <2> QED  BY <2>1, <2>2, <2>3
<1>10. PacketsTell(bits2)'
  BY <1>1, <1>2, PacketsStillTell
<1>11. MeasuredUpTo(measured.Alice, c2)' /\ MeasuredUpTo(measured.Bob, d2)'
  BY <1>1, StillMeasured
<1>12. Concluded(d2, v2)'
  BY <1>1, StillConcluded
<1>13. Kept(c2, d2, v2, bits2)'
  BY <1>5, <1>7, <1>8, <1>9, <1>10, <1>11, <1>12 DEF Kept, ExplainedBy
<1> QED  BY <1>6, <1>13, KeptIsIInv

\* A pair is made: the bits that explain the rest are changed at this pair only.
LEMMA GenerateIInv == DistillIInv /\ GenerateAndDistributeEPR => DistillIInv'
<1> SUFFICES ASSUME DistillIInv, GenerateAndDistributeEPR
             PROVE  DistillIInv'
  OBVIOUS
<1>1. DistillTypeOK /\ \E c, d, v, bits : Kept(c, d, v, bits)
  BY KeptIsIInv
<1>2. PICK c, d, v, bits : Kept(c, d, v, bits)
  BY <1>1
<1>3. PICK bit \in distillation.bits :
        /\ RunFirst("epr", {Packet("qubit", (bit + flips[Goal(First)]) % 2)})
        /\ alice' = With(alice, Goal(First), bit)
        /\ UNCHANGED <<bob, measured, win>>
  BY DEF GenerateAndDistributeEPR
<1>0. PICK k, q, told, p, replies, bits2 :
        /\ k = c + 1 /\ q = Calls[k].goal /\ told = (bit + flips[q]) % 2
        /\ p = Packet("qubit", told) /\ replies = {p} /\ bits2 = [bits EXCEPT ![q] = bit]
  OBVIOUS
<1>4. /\ distillation \in Distillations /\ distillation' = distillation /\ flips' = flips
      /\ c \in 0 .. Len(Calls) /\ d \in 0 .. Len(Calls) /\ v \in 0 .. Len(Calls)
      /\ c \in Nat /\ d \in Nat /\ v \in Nat /\ Len(Calls) \in Nat /\ v <= d /\ d <= c
      /\ First \in pending /\ First.op = "epr" /\ First.call = k /\ k <= Len(Calls)
      /\ k \in 1 .. Len(Calls) /\ Calls[k].op = "epr" /\ Stage(First) = 0 /\ Goal(First) = q
      /\ k = c + 1
  <2>1. "epr" \in {"epr", "round"}
    OBVIOUS
  <2> QED  BY <1>0, <1>1, <1>2, <1>3, <2>1, StepFacts
<1>5. /\ InOrder(WaitsFor(c, d, v)) /\ MeasuredUpTo(measured.Alice, c)
      /\ MeasuredUpTo(measured.Bob, d) /\ bits \in [Pairs -> Bit]
      /\ Explains(bits, alice, c) /\ Explains(Others(bits), bob, d) /\ PacketsTell(bits)
      /\ Concluded(d, v)
  BY <1>2 DEF Kept, ExplainedBy
<1>6. /\ k \in MakesPairs /\ k \notin Rounds /\ q \in Pairs /\ k \in Nat
      /\ DOMAIN Calls = 1 .. Len(Calls)
  BY <1>0, <1>4, CallFields DEF MakesPairs, Rounds
<1>7. bit \in Bit /\ flips \in [Pairs -> Bit] /\ told \in Bit
  <2>1. bit \in Bit /\ flips \in [Pairs -> Bit]
    BY <1>1, <1>4, TheSchedule DEF DistillTypeOK
  <2>2. flips[q] \in Bit
    BY <1>6, <2>1
  <2>3. \A a, b \in Bit : (a + b) % 2 \in Bit
    BY DEF Bit
  <2> QED  BY <1>0, <2>1, <2>2, <2>3
<1>8. /\ pending' = (pending \ {First}) \cup replies
      /\ scheduled' = scheduled + Cardinality(replies)
      /\ alice' = With(alice, q, bit) /\ bob' = bob /\ measured' = measured /\ win' = win
  BY <1>0, <1>3, <1>4 DEF RunFirst
<1>9. /\ p.at = First.at + distillation.latency /\ p.uid = scheduled + 1 /\ p.call = k
      /\ p.op = "qubit" /\ p.bit = told
      /\ p = [at |-> First.at + distillation.latency, uid |-> scheduled + 1, op |-> "qubit",
              call |-> k, bit |-> told]
  BY <1>0, <1>4 DEF Packet
<1>10. First.at + distillation.latency \in Nat /\ scheduled + 1 \in Nat
  <2>1. distillation.latency \in Nat /\ First.at \in Nat /\ scheduled \in Nat
    BY <1>1, <1>4, TheSchedule DEF DistillTypeOK
  <2> QED  BY <2>1
<1>11. p \in [at : Nat, uid : Nat, call : DOMAIN Calls, bit : Bit,
               op : {"qubit", "outcome", "verdict"}]
  BY <1>4, <1>6, <1>7, <1>9, <1>10
<1>12. Stage(p) = 1
  BY <1>9, StageOf
<1>13. PICK w, w2 : w = WaitsFor(c, d, v) /\ w2 = WaitsFor(k, d, v)
  OBVIOUS
<1>14. \A t \in 0 .. 2 : w2[t] = IF t = 0 THEN w[t] \ {k}
                                ELSE IF t = 1 THEN w[t] \cup {k} ELSE w[t]
  <2>1. c + 1 <= Len(Calls)
    BY <1>4
  <2>2. /\ WaitsFor(c + 1, d, v)[0] = WaitsFor(c, d, v)[0] \ {c + 1}
        /\ WaitsFor(c + 1, d, v)[1] = WaitsFor(c, d, v)[1] \cup {c + 1}
        /\ WaitsFor(c + 1, d, v)[2] = WaitsFor(c, d, v)[2]
    BY <1>4, <2>1, CallMoves
  <2>3. w = WaitsFor(c, d, v) /\ w2 = WaitsFor(c + 1, d, v) /\ k = c + 1
    BY <1>4, <1>13
  <2>4. w2[0] = w[0] \ {k} /\ w2[1] = w[1] \cup {k} /\ w2[2] = w[2]
    BY <2>2, <2>3
  <2>5. \A t \in 0 .. 2 : t = 0 \/ t = 1 \/ t = 2
    OBVIOUS
  <2> QED  BY <2>4, <2>5
<1>15. \A l \in w[1] : l < k
  <2>1. w[1] = d + 1 .. c
    BY <1>13 DEF WaitsFor
  <2> QED  BY <1>4, <2>1
<1>16. Passes(w, w2, p, replies)
  <2>1. replies \in {{}, {p}} /\ replies # {}
    BY <1>0
  <2>2. \A t \in 0 .. 2 :
           w2[t] = IF t = Stage(First) THEN w[t] \ {First.call}
                   ELSE IF replies # {} /\ t = Stage(First) + 1 THEN w[t] \cup {First.call}
                   ELSE w[t]
    <3>1. Stage(First) = 0 /\ Stage(First) + 1 = 1 /\ First.call = k
      BY <1>4
    <3> QED  BY <1>14, <2>1, <3>1
  <2>4. Stage(p) = Stage(First) + 1
    BY <1>4, <1>12
  <2>5. p.op = "qubit" <=> p.call \in MakesPairs
    BY <1>6, <1>9
  <2>6. p.call = First.call /\ \A l \in w[Stage(p)] : l < First.call
    BY <1>4, <1>9, <1>12, <1>15
  <2>8. replies # {} =>
          /\ p.at = First.at + distillation.latency /\ p.uid = scheduled + 1
          /\ p.call = First.call /\ Stage(p) = Stage(First) + 1
          /\ p \in [at : Nat, uid : Nat, call : DOMAIN Calls, bit : Bit,
                    op : {"qubit", "outcome", "verdict"}]
          /\ Stage(p) = 1 => (p.op = "qubit" <=> p.call \in MakesPairs)
          /\ \A l \in w[Stage(p)] : l < First.call
    BY <1>11, <2>4, <2>5, <2>6, <1>9
  <2> QED  BY <2>1, <2>2, <2>8 DEF Passes
<1>17. bits2 \in [Pairs -> Bit] /\ bits2[q] = bit /\ \A r : r # q => bits2[r] = bits[r]
  BY <1>0, <1>5, <1>6, <1>7
<1>18. Others(bits2)[q] = told /\ \A r \in Pairs : r # q => Others(bits2)[r] = Others(bits)[r]
  BY <1>0, <1>6, <1>17 DEF Others
<1>19. Explains(bits2, alice', k)
  <2>1. /\ c + 1 \in MakesPairs /\ q = Calls[c + 1].goal /\ k = c + 1
        /\ bits2[q] = bit /\ \A r : r # q => bits2[r] = bits[r]
    BY <1>0, <1>4, <1>6, <1>17
  <2>2. Explains(bits2, With(alice, Calls[c + 1].goal, bit), c + 1)
    BY <1>4, <1>5, <2>1, PairMade
  <2> QED  BY <1>8, <2>1, <2>2
<1>20. Explains(Others(bits2), bob', d)
  <2>1. d < k
    BY <1>4
  <2>2. Explains(Others(bits2), bob, d)
    BY <1>4, <1>5, <1>6, <1>18, <2>1, ExplainsElsewhere, <1>0
  <2> QED  BY <1>8, <2>2
<1>21. PacketsTell(bits2)
  <2> SUFFICES ASSUME NEW e \in pending
               PROVE  /\ e.op = "qubit" => e.bit = Others(bits2)[Goal(e)]
                      /\ e.op = "outcome" => e.bit = After(bits2, e.call)
                      /\ e.op = "verdict" => (e.bit = 1 <=> Agree(e.call))
    BY DEF PacketsTell
  <2>1. /\ e.op = "qubit" => e.bit = Others(bits)[Goal(e)]
        /\ e.op = "outcome" => e.bit = After(bits, e.call)
        /\ e.op = "verdict" => (e.bit = 1 <=> Agree(e.call))
    BY <1>5 DEF PacketsTell
  <2>2. ASSUME e.op \in {"qubit", "outcome"}
        PROVE  e.call \in 1 .. k - 1 /\ e.call # k /\ e.call \in 1 .. Len(Calls)
    <3>1. Stage(e) = 1
      BY <2>2, StageOf
    <3>2. e.call \in WaitsFor(c, d, v)[1]
      BY <1>5, <3>1 DEF InOrder
    <3>3. e.call \in d + 1 .. c
      BY <3>2 DEF WaitsFor
    <3> QED  BY <1>4, <3>3
  <2>3. ASSUME e.op = "qubit"
        PROVE  Others(bits2)[Goal(e)] = Others(bits)[Goal(e)]
    <3>1. Stage(e) = 1 /\ e.call \in MakesPairs
      BY <1>5, <2>3, StageOf DEF InOrder
    <3>2. Calls[e.call].goal # q /\ Calls[e.call].goal \in Pairs
      <4>1. e.call # k /\ e.call \in 1 .. Len(Calls)
        BY <2>2, <2>3
      <4>2. Calls[e.call].goal # Calls[k].goal
        BY <1>4, <1>6, <3>1, <4>1, CallOrder
      <4> QED  BY <1>0, <1>4, <4>1, <4>2, CallFields
    <3> QED  BY <1>18, <3>2 DEF Goal
  <2>4. ASSUME e.op = "outcome"
        PROVE  After(bits2, e.call) = After(bits, e.call)
    <3>1. Stage(e) = 1 /\ e.call \notin MakesPairs
      BY <1>5, <2>4, StageOf DEF InOrder
    <3>2. e.call \in Rounds
      BY <1>4, <2>2, <2>4, <3>1, CallFields
    <3>3. Calls[e.call].meas # q /\ Calls[e.call].goal # q
      BY <1>4, <1>6, <2>2, <2>4, <3>2, NewPair, <1>0
    <3> QED  BY <1>17, <3>3 DEF After
  <2> QED  BY <2>1, <2>3, <2>4
<1>22. \A e \in replies : /\ e.op = "qubit" => e.bit = Others(bits2)[Goal(e)]
                          /\ e.op = "outcome" => e.bit = After(bits2, e.call)
                          /\ e.op = "verdict" => (e.bit = 1 <=> Agree(e.call))
  <2>1. Goal(p) = q
    BY <1>0, <1>9 DEF Goal
  <2> QED  BY <1>0, <1>9, <1>18, <2>1
<1>23. MeasuredUpTo(measured'.Alice, k) /\ MeasuredUpTo(measured'.Bob, d)
  <2>1. measured.Alice \in Seq(Pairs)
    BY <1>1 DEF DistillTypeOK
  <2>2. MeasuredUpTo(measured.Alice, k)
    BY <1>4, <1>5, <1>6, <2>1, MeasuredNext
  <2> QED  BY <1>5, <1>8, <2>2
<1>24. /\ d = Len(Calls) => (win'.Bob <=> Agree(Len(Calls)))
       /\ v = Len(Calls) => (win'.Alice <=> Agree(Len(Calls)))
  BY <1>5, <1>8 DEF Concluded
<1>25. /\ measured' \in [Alice : Seq(Pairs), Bob : Seq(Pairs)]
       /\ win' \in [Alice : BOOLEAN, Bob : BOOLEAN]
  BY <1>1, <1>8 DEF DistillTypeOK
<1>26. RunFirst("epr", replies) /\ k \in 0 .. Len(Calls) /\ d <= k
  BY <1>0, <1>3, <1>4
<1>27. KeepsUp(k, d, v, bits2, replies)
  <2>1. /\ k \in 0 .. Len(Calls) /\ d \in 0 .. Len(Calls) /\ v \in 0 .. Len(Calls)
        /\ v <= d /\ d <= k /\ bits2 \in [Pairs -> Bit]
    BY <1>4, <1>17, <1>26
  <2>2. /\ Explains(bits2, alice', k) /\ Explains(Others(bits2), bob', d) /\ PacketsTell(bits2)
        /\ MeasuredUpTo(measured'.Alice, k) /\ MeasuredUpTo(measured'.Bob, d)
    BY <1>19, <1>20, <1>21, <1>23
  <2> QED  BY <1>22, <1>24, <1>25, <2>1, <2>2 DEF KeepsUp
<1>28. Passes(WaitsFor(c, d, v), WaitsFor(k, d, v), p, replies)
  BY <1>13, <1>16
<1> QED  BY <1>1, <1>2, <1>26, <1>27, <1>28, KeptAfter

\* Bob's qubit arrives, flipped or not.
LEMMA ReceiveIInv == DistillIInv /\ ReceiveQubit => DistillIInv'
<1> SUFFICES ASSUME DistillIInv, ReceiveQubit
             PROVE  DistillIInv'
  OBVIOUS
<1>1. DistillTypeOK /\ \E c, d, v, bits : Kept(c, d, v, bits)
  BY KeptIsIInv
<1>2. PICK c, d, v, bits : Kept(c, d, v, bits)
  BY <1>1
<1>3. /\ RunFirst("qubit", {})
      /\ bob' = With(bob, Goal(First), First.bit)
      /\ alice' = alice /\ measured' = measured /\ win' = win
  BY DEF ReceiveQubit
<1>4. PICK k, q : k = d + 1 /\ q = Calls[k].goal
  OBVIOUS
<1>5. /\ distillation \in Distillations
      /\ c \in 0 .. Len(Calls) /\ d \in 0 .. Len(Calls) /\ v \in 0 .. Len(Calls)
      /\ c \in Nat /\ d \in Nat /\ v \in Nat /\ Len(Calls) \in Nat /\ v <= d /\ d <= c
      /\ First \in pending /\ First.op = "qubit" /\ First.call = k /\ k <= c
      /\ k \in MakesPairs /\ Stage(First) = 1 /\ Goal(First) = q
  <2>1. "qubit" \in {"qubit", "outcome"}
    OBVIOUS
  <2> QED  BY <1>1, <1>2, <1>3, <1>4, <2>1, StepFacts
<1>6. /\ MeasuredUpTo(measured.Alice, c) /\ MeasuredUpTo(measured.Bob, d)
      /\ bits \in [Pairs -> Bit]
      /\ Explains(bits, alice, c) /\ Explains(Others(bits), bob, d) /\ PacketsTell(bits)
      /\ Concluded(d, v)
  BY <1>2 DEF Kept, ExplainedBy
<1>7. k \notin Rounds /\ k # Len(Calls) /\ k \in 1 .. Len(Calls) /\ v <= k
  <2>1. k \notin Rounds /\ k \in 1 .. Len(Calls) /\ Len(Calls) \in Rounds
    BY <1>5, CallFields
  <2> QED  BY <1>4, <1>5, <2>1
<1>8. Passes(WaitsFor(c, d, v), WaitsFor(c, k, v), 0, {})
  <2>1. d + 1 <= c /\ d + 1 \notin Rounds
    BY <1>4, <1>5, <1>7
  <2>2. PICK w, w2 : w = WaitsFor(c, d, v) /\ w2 = WaitsFor(c, k, v)
    OBVIOUS
  <2>3. w2[0] = w[0] /\ w2[1] = w[1] \ {k} /\ w2[2] = w[2]
    <3>1. /\ WaitsFor(c, d + 1, v)[0] = WaitsFor(c, d, v)[0]
          /\ WaitsFor(c, d + 1, v)[1] = WaitsFor(c, d, v)[1] \ {d + 1}
          /\ WaitsFor(c, d + 1, v)[2] = WaitsFor(c, d, v)[2]
      BY <1>5, <2>1, PacketMoves
    <3> QED  BY <1>4, <2>2, <3>1
  <2>4. \A t \in 0 .. 2 : t = 0 \/ t = 1 \/ t = 2
    OBVIOUS
  <2>5. \A t \in 0 .. 2 : w2[t] = IF t = 1 THEN w[t] \ {k} ELSE w[t]
    BY <2>3, <2>4
  <2> QED  BY <1>5, <2>2, <2>5 DEF Passes
<1>9. Explains(Others(bits), bob', k)
  <2>1. First.bit = Others(bits)[q]
    BY <1>5, <1>6 DEF PacketsTell
  <2>2. PICK own : own = Others(bits)
    OBVIOUS
  <2>3. /\ own[Calls[d + 1].goal] = First.bit /\ \A r : r # Calls[d + 1].goal => own[r] = own[r]
        /\ d + 1 \in MakesPairs /\ Explains(own, bob, d)
    BY <1>4, <1>5, <1>6, <2>1, <2>2
  <2>4. Explains(own, With(bob, Calls[d + 1].goal, First.bit), d + 1)
    BY <1>5, <2>3, PairMade
  <2> QED  BY <1>3, <1>4, <1>5, <2>2, <2>4
<1>10. MeasuredUpTo(measured'.Bob, k)
  <2>1. measured.Bob \in Seq(Pairs)
    BY <1>1 DEF DistillTypeOK
  <2>2. MeasuredUpTo(measured.Bob, d + 1)
    BY <1>4, <1>5, <1>6, <1>7, <2>1, MeasuredNext
  <2> QED  BY <1>3, <1>4, <2>2
<1>11. KeepsUp(c, k, v, bits, {})
  <2>1. /\ c \in 0 .. Len(Calls) /\ k \in 0 .. Len(Calls) /\ v \in 0 .. Len(Calls)
        /\ v <= k /\ k <= c /\ bits \in [Pairs -> Bit]
    BY <1>5, <1>6, <1>7
  <2>2. /\ measured' \in [Alice : Seq(Pairs), Bob : Seq(Pairs)]
        /\ win' \in [Alice : BOOLEAN, Bob : BOOLEAN]
    BY <1>1, <1>3 DEF DistillTypeOK
  <2>3. /\ MeasuredUpTo(measured'.Alice, c) /\ MeasuredUpTo(measured'.Bob, k)
        /\ Explains(bits, alice', c) /\ Explains(Others(bits), bob', k) /\ PacketsTell(bits)
    BY <1>3, <1>6, <1>9, <1>10
  <2>4. v = Len(Calls) => (win'.Alice <=> Agree(Len(Calls)))
    BY <1>3, <1>6 DEF Concluded
  <2> QED  BY <1>7, <2>1, <2>2, <2>3, <2>4 DEF KeepsUp
<1> QED  BY <1>1, <1>2, <1>3, <1>8, <1>11, KeptAfter

\* Alice's half of a round.
LEMMA DistillateIInv == DistillIInv /\ DistillateOnce => DistillIInv'
<1> SUFFICES ASSUME DistillIInv, DistillateOnce
             PROVE  DistillIInv'
  OBVIOUS
<1>1. DistillTypeOK /\ \E c, d, v, bits : Kept(c, d, v, bits)
  BY KeptIsIInv
<1>2. PICK c, d, v, bits : Kept(c, d, v, bits)
  BY <1>1
<1>3. /\ RunFirst("round", {Packet("outcome", Cnot(alice)[Measured(First)])})
      /\ alice' = Cnot(alice) /\ bob' = bob /\ win' = win
      /\ measured' = [measured EXCEPT !.Alice = Append(@, Measured(First))]
  BY DEF DistillateOnce
<1>4. PICK k, q, told, p :
        /\ k = c + 1 /\ q = Calls[k].meas /\ told = Cnot(alice)[Measured(First)]
        /\ p = Packet("outcome", told)
  OBVIOUS
<1>5. /\ distillation \in Distillations
      /\ c \in 0 .. Len(Calls) /\ d \in 0 .. Len(Calls) /\ v \in 0 .. Len(Calls)
      /\ c \in Nat /\ d \in Nat /\ v \in Nat /\ Len(Calls) \in Nat /\ v <= d /\ d <= c
      /\ First \in pending /\ First.op = "round" /\ First.call = k /\ k <= Len(Calls)
      /\ Calls[k].op = "round" /\ Stage(First) = 0
      /\ Goal(First) = Calls[k].goal /\ Measured(First) = q
  <2>1. "round" \in {"epr", "round"}
    OBVIOUS
  <2> QED  BY <1>1, <1>2, <1>3, <1>4, <2>1, StepFacts
<1>6. /\ MeasuredUpTo(measured.Alice, c) /\ MeasuredUpTo(measured.Bob, d)
      /\ bits \in [Pairs -> Bit]
      /\ Explains(bits, alice, c) /\ Explains(Others(bits), bob, d) /\ PacketsTell(bits)
      /\ Concluded(d, v)
  BY <1>2 DEF Kept, ExplainedBy
<1>7. /\ k \in 1 .. Len(Calls) /\ k \in Rounds /\ k \notin MakesPairs /\ q \in Pairs
      /\ Calls[k].goal \in Pairs /\ DOMAIN Calls = 1 .. Len(Calls)
  <2>1. k \in 1 .. Len(Calls)
    BY <1>4, <1>5
  <2> QED  BY <1>4, <1>5, <2>1, CallFields DEF Rounds
<1>8. told = After(bits, k) /\ Explains(bits, alice', k)
  <2>1. PICK b : b = (alice[Calls[c + 1].meas] + alice[Calls[c + 1].goal]) % 2
    OBVIOUS
  <2>2. b = After(bits, c + 1) /\ Explains(bits, With(alice, Calls[c + 1].meas, b), c + 1)
    BY <1>4, <1>5, <1>6, <1>7, <2>1, RoundMade
  <2>3. Cnot(alice) = With(alice, q, b)
    BY <1>4, <1>5, <2>1 DEF Cnot
  <2>4. told = b
    <3>1. With(alice, q, b)[q] = b
      BY DEF With
    <3> QED  BY <1>4, <1>5, <2>3, <3>1
  <2> QED  BY <1>3, <1>4, <2>2, <2>3, <2>4
<1>9. /\ p.at = First.at + distillation.latency /\ p.uid = scheduled + 1 /\ p.call = k
      /\ p.op = "outcome" /\ p.bit = told
      /\ p = [at |-> First.at + distillation.latency, uid |-> scheduled + 1, op |-> "outcome",
              call |-> k, bit |-> told]
  BY <1>4, <1>5 DEF Packet
<1>10. p \in [at : Nat, uid : Nat, call : DOMAIN Calls, bit : Bit,
               op : {"qubit", "outcome", "verdict"}]
  <2>1. distillation.latency \in Nat /\ First.at \in Nat /\ scheduled \in Nat
    BY <1>1, <1>5, TheSchedule DEF DistillTypeOK
  <2>2. First.at + distillation.latency \in Nat /\ scheduled + 1 \in Nat
    BY <2>1
  <2>3. told \in Bit
    <3>1. \A a, b \in Bit : (a + b) % 2 \in Bit
      BY DEF Bit
    <3>2. bits[Calls[k].meas] \in Bit /\ bits[Calls[k].goal] \in Bit
      BY <1>4, <1>6, <1>7
    <3> QED  BY <1>8, <3>1, <3>2 DEF After
  <2> QED  BY <1>7, <1>9, <2>2, <2>3
<1>11. Stage(p) = 1
  BY <1>9, StageOf
<1>12. Passes(WaitsFor(c, d, v), WaitsFor(k, d, v), p, {p})
  <2>1. d <= c /\ c + 1 <= Len(Calls)
    BY <1>4, <1>5
  <2>2. PICK w, w2 : w = WaitsFor(c, d, v) /\ w2 = WaitsFor(k, d, v)
    OBVIOUS
  <2>3. w2[0] = w[0] \ {k} /\ w2[1] = w[1] \cup {k} /\ w2[2] = w[2]
    <3>1. /\ WaitsFor(c + 1, d, v)[0] = WaitsFor(c, d, v)[0] \ {c + 1}
          /\ WaitsFor(c + 1, d, v)[1] = WaitsFor(c, d, v)[1] \cup {c + 1}
          /\ WaitsFor(c + 1, d, v)[2] = WaitsFor(c, d, v)[2]
      BY <1>5, <2>1, CallMoves
    <3> QED  BY <1>4, <2>2, <3>1
  <2>4. \A t \in 0 .. 2 : t = 0 \/ t = 1 \/ t = 2
    OBVIOUS
  <2>5. \A t \in 0 .. 2 : w2[t] = IF t = 0 THEN w[t] \ {k}
                                 ELSE IF t = 1 THEN w[t] \cup {k} ELSE w[t]
    BY <2>3, <2>4
  <2>6. \A l \in w[Stage(p)] : l < k
    <3>1. w[1] = d + 1 .. c
      BY <2>2 DEF WaitsFor
    <3> QED  BY <1>4, <1>5, <1>11, <3>1
  <2>7. Stage(First) = 0 /\ Stage(First) + 1 = 1 /\ First.call = k /\ {p} # {}
    BY <1>5
  <2>8. p.op = "qubit" <=> p.call \in MakesPairs
    BY <1>7, <1>9
  <2>9. \A t \in 0 .. 2 :
          w2[t] = IF t = Stage(First) THEN w[t] \ {First.call}
                  ELSE IF {p} # {} /\ t = Stage(First) + 1 THEN w[t] \cup {First.call}
                  ELSE w[t]
    BY <2>5, <2>7
  <2>10. Passes(w, w2, p, {p})
    BY <1>9, <1>10, <1>11, <2>6, <2>7, <2>8, <2>9 DEF Passes
  <2> QED  BY <2>2, <2>10
<1>13. /\ MeasuredUpTo(measured'.Alice, k) /\ measured'.Bob = measured.Bob
       /\ measured' \in [Alice : Seq(Pairs), Bob : Seq(Pairs)]
  <2>1. measured \in [Alice : Seq(Pairs), Bob : Seq(Pairs)]
    BY <1>1 DEF DistillTypeOK
  <2>2. MeasuredUpTo(Append(measured.Alice, Calls[c + 1].meas), c + 1)
    BY <1>4, <1>5, <1>6, <1>7, <2>1, MeasuredNext
  <2>3. measured' = [measured EXCEPT !.Alice = Append(measured.Alice, q)]
    BY <1>3, <1>5
  <2>4. measured'.Alice = Append(measured.Alice, q) /\ measured'.Bob = measured.Bob
    BY <2>1, <2>3
  <2>5. Append(measured.Alice, q) \in Seq(Pairs)
    BY <1>7, <2>1
  <2> QED  BY <1>4, <2>1, <2>2, <2>3, <2>4, <2>5
<1>14. KeepsUp(k, d, v, bits, {p})
  <2>1. /\ k \in 0 .. Len(Calls) /\ d \in 0 .. Len(Calls) /\ v \in 0 .. Len(Calls)
        /\ v <= d /\ d <= k /\ bits \in [Pairs -> Bit]
    BY <1>4, <1>5, <1>6
  <2>2. win' \in [Alice : BOOLEAN, Bob : BOOLEAN]
    BY <1>1, <1>3 DEF DistillTypeOK
  <2>3. /\ MeasuredUpTo(measured'.Alice, k) /\ MeasuredUpTo(measured'.Bob, d)
        /\ Explains(bits, alice', k) /\ Explains(Others(bits), bob', d) /\ PacketsTell(bits)
    BY <1>3, <1>6, <1>8, <1>13
  <2>4. /\ d = Len(Calls) => (win'.Bob <=> Agree(Len(Calls)))
        /\ v = Len(Calls) => (win'.Alice <=> Agree(Len(Calls)))
    BY <1>3, <1>6 DEF Concluded
  <2>5. p.op = "outcome" /\ p.bit = After(bits, p.call)
    BY <1>8, <1>9
  <2> QED  BY <1>13, <2>1, <2>2, <2>3, <2>4, <2>5 DEF KeepsUp
<1>15. RunFirst("round", {p})
  BY <1>3, <1>4
<1> QED  BY <1>1, <1>2, <1>12, <1>14, <1>15, KeptAfter

\* Bob's half of a round.
LEMMA BobIInv == DistillIInv /\ BobReads => DistillIInv'
<1> SUFFICES ASSUME DistillIInv, BobReads
             PROVE  DistillIInv'
  OBVIOUS
<1>1. DistillTypeOK /\ \E c, d, v, bits : Kept(c, d, v, bits)
  BY KeptIsIInv
<1>2. PICK c, d, v, bits : Kept(c, d, v, bits)
  BY <1>1
<1>3. PICK same, p :
        /\ same = (Cnot(bob)[Measured(First)] = First.bit)
        /\ p = Packet("verdict", IF same THEN 1 ELSE 0)
        /\ RunFirst("outcome", {p}) /\ win' = [win EXCEPT !.Bob = same]
        /\ bob' = Cnot(bob) /\ alice' = alice
        /\ measured' = [measured EXCEPT !.Bob = Append(@, Measured(First))]
  BY DEF BobReads
<1>4. PICK k, q : k = d + 1 /\ q = Calls[k].meas
  OBVIOUS
<1>5. /\ distillation \in Distillations
      /\ c \in 0 .. Len(Calls) /\ d \in 0 .. Len(Calls) /\ v \in 0 .. Len(Calls)
      /\ c \in Nat /\ d \in Nat /\ v \in Nat /\ Len(Calls) \in Nat /\ v <= d /\ d <= c
      /\ First \in pending /\ First.op = "outcome" /\ First.call = k /\ k <= c
      /\ k \notin MakesPairs /\ Stage(First) = 1
      /\ Goal(First) = Calls[k].goal /\ Measured(First) = q
  <2>1. "outcome" \in {"qubit", "outcome"} /\ "outcome" # "qubit"
    OBVIOUS
  <2> QED  BY <1>1, <1>2, <1>3, <1>4, <2>1, StepFacts
<1>6. /\ MeasuredUpTo(measured.Alice, c) /\ MeasuredUpTo(measured.Bob, d)
      /\ bits \in [Pairs -> Bit]
      /\ Explains(bits, alice, c) /\ Explains(Others(bits), bob, d) /\ PacketsTell(bits)
      /\ Concluded(d, v)
  BY <1>2 DEF Kept, ExplainedBy
<1>7. /\ k \in 1 .. Len(Calls) /\ k \in Rounds /\ q \in Pairs /\ v <= k /\ v # Len(Calls)
      /\ Calls[k].goal \in Pairs /\ DOMAIN Calls = 1 .. Len(Calls)
  <2>1. k \in 1 .. Len(Calls) /\ v <= k /\ v # Len(Calls)
    BY <1>4, <1>5
  <2> QED  BY <1>4, <1>5, <2>1, CallFields
<1>8. (same <=> Agree(k)) /\ Explains(Others(bits), bob', k)
  <2>1. PICK b, own : /\ own = Others(bits)
                      /\ b = (bob[Calls[d + 1].meas] + bob[Calls[d + 1].goal]) % 2
    OBVIOUS
  <2>2. b = After(own, d + 1) /\ Explains(own, With(bob, Calls[d + 1].meas, b), d + 1)
    <3>1. d + 1 \in Rounds /\ Explains(own, bob, d)
      BY <1>4, <1>6, <1>7, <2>1
    <3> QED  BY <1>5, <2>1, <3>1, RoundMade
  <2>3. Cnot(bob) = With(bob, q, b)
    BY <1>4, <1>5, <2>1 DEF Cnot
  <2>4. Cnot(bob)[Measured(First)] = b
    <3>1. With(bob, q, b)[q] = b
      BY DEF With
    <3> QED  BY <1>5, <2>3, <3>1
  <2>5. First.bit = After(bits, k)
    BY <1>5, <1>6 DEF PacketsTell
  <2>6. b = First.bit <=> Agree(k)
    <3>1. After(Others(bits), k) = After(bits, k) <=> Agree(k)
      <4>1. flips \in [Pairs -> Bit]
        BY <1>1 DEF DistillTypeOK
      <4> QED  BY <1>5, <1>6, <1>7, <4>1, OutcomesTell
    <3> QED  BY <1>4, <2>1, <2>2, <2>5, <3>1
  <2> QED  BY <1>3, <1>4, <2>1, <2>2, <2>3, <2>4, <2>6
<1>9. /\ p.at = First.at + distillation.latency /\ p.uid = scheduled + 1 /\ p.call = k
      /\ p.op = "verdict" /\ p.bit = IF same THEN 1 ELSE 0
      /\ p = [at |-> First.at + distillation.latency, uid |-> scheduled + 1, op |-> "verdict",
              call |-> k, bit |-> IF same THEN 1 ELSE 0]
  BY <1>3, <1>5 DEF Packet
<1>10. p \in [at : Nat, uid : Nat, call : DOMAIN Calls, bit : Bit,
               op : {"qubit", "outcome", "verdict"}]
  <2>1. distillation.latency \in Nat /\ First.at \in Nat /\ scheduled \in Nat
    BY <1>1, <1>5, TheSchedule DEF DistillTypeOK
  <2>2. First.at + distillation.latency \in Nat /\ scheduled + 1 \in Nat
    BY <2>1
  <2>3. (IF same THEN 1 ELSE 0) \in Bit
    BY DEF Bit
  <2> QED  BY <1>7, <1>9, <2>2, <2>3
<1>11. Stage(p) = 2
  BY <1>9, StageOf
<1>12. Passes(WaitsFor(c, d, v), WaitsFor(c, k, v), p, {p})
  <2>1. d + 1 <= c /\ d + 1 \in Rounds
    BY <1>4, <1>5, <1>7
  <2>2. PICK w, w2 : w = WaitsFor(c, d, v) /\ w2 = WaitsFor(c, k, v)
    OBVIOUS
  <2>3. w2[0] = w[0] /\ w2[1] = w[1] \ {k} /\ w2[2] = w[2] \cup {k}
    <3>1. /\ WaitsFor(c, d + 1, v)[0] = WaitsFor(c, d, v)[0]
          /\ WaitsFor(c, d + 1, v)[1] = WaitsFor(c, d, v)[1] \ {d + 1}
          /\ WaitsFor(c, d + 1, v)[2] = WaitsFor(c, d, v)[2] \cup {d + 1}
      BY <1>5, <2>1, PacketMoves
    <3> QED  BY <1>4, <2>2, <3>1
  <2>4. \A t \in 0 .. 2 : t = 0 \/ t = 1 \/ t = 2
    OBVIOUS
  <2>5. \A t \in 0 .. 2 : w2[t] = IF t = 1 THEN w[t] \ {k}
                                 ELSE IF t = 2 THEN w[t] \cup {k} ELSE w[t]
    BY <2>3, <2>4
  <2>6. \A l \in w[Stage(p)] : l < k
    <3>1. w[2] = Rounds \cap (v + 1 .. d)
      BY <2>2 DEF WaitsFor
    <3> QED  BY <1>4, <1>5, <1>11, <3>1
  <2>7. Stage(First) = 1 /\ Stage(First) + 1 = 2 /\ First.call = k /\ {p} # {}
    BY <1>5
  <2>8. \A t \in 0 .. 2 :
          w2[t] = IF t = Stage(First) THEN w[t] \ {First.call}
                  ELSE IF {p} # {} /\ t = Stage(First) + 1 THEN w[t] \cup {First.call}
                  ELSE w[t]
    BY <2>5, <2>7
  <2>9. Passes(w, w2, p, {p})
    BY <1>9, <1>10, <1>11, <2>6, <2>7, <2>8 DEF Passes
  <2> QED  BY <2>2, <2>9
<1>13. /\ MeasuredUpTo(measured'.Bob, k) /\ measured'.Alice = measured.Alice
       /\ measured' \in [Alice : Seq(Pairs), Bob : Seq(Pairs)]
  <2>1. measured \in [Alice : Seq(Pairs), Bob : Seq(Pairs)]
    BY <1>1 DEF DistillTypeOK
  <2>2. MeasuredUpTo(Append(measured.Bob, Calls[d + 1].meas), d + 1)
    BY <1>4, <1>5, <1>6, <1>7, <2>1, MeasuredNext
  <2>3. measured' = [measured EXCEPT !.Bob = Append(measured.Bob, q)]
    BY <1>3, <1>5
  <2>4. measured'.Bob = Append(measured.Bob, q) /\ measured'.Alice = measured.Alice
    BY <2>1, <2>3
  <2>5. Append(measured.Bob, q) \in Seq(Pairs)
    BY <1>7, <2>1
  <2> QED  BY <1>4, <2>1, <2>2, <2>3, <2>4, <2>5
<1>14. KeepsUp(c, k, v, bits, {p})
  <2>1. /\ c \in 0 .. Len(Calls) /\ k \in 0 .. Len(Calls) /\ v \in 0 .. Len(Calls)
        /\ v <= k /\ k <= c /\ bits \in [Pairs -> Bit]
    BY <1>5, <1>6, <1>7
  <2>2. win' \in [Alice : BOOLEAN, Bob : BOOLEAN] /\ (win'.Bob <=> same)
    <3>1. win \in [Alice : BOOLEAN, Bob : BOOLEAN]
      BY <1>1 DEF DistillTypeOK
    <3>2. same \in BOOLEAN
      BY <1>3
    <3>3. win' = [win EXCEPT !.Bob = same]
      BY <1>3
    <3> QED  BY <3>1, <3>2, <3>3
  <2>3. /\ MeasuredUpTo(measured'.Alice, c) /\ MeasuredUpTo(measured'.Bob, k)
        /\ Explains(bits, alice', c) /\ Explains(Others(bits), bob', k) /\ PacketsTell(bits)
    BY <1>3, <1>6, <1>8, <1>13
  <2>4. k = Len(Calls) => (win'.Bob <=> Agree(Len(Calls)))
    BY <1>8, <2>2
  <2>5. p.op = "verdict" /\ (p.bit = 1 <=> Agree(p.call))
    BY <1>8, <1>9
  <2> QED  BY <1>7, <1>13, <2>1, <2>2, <2>3, <2>4, <2>5 DEF KeepsUp
<1> QED  BY <1>1, <1>2, <1>3, <1>12, <1>14, KeptAfter

\* The verdict reaches Alice.
LEMMA AliceIInv == DistillIInv /\ AliceReads => DistillIInv'
<1> SUFFICES ASSUME DistillIInv, AliceReads
             PROVE  DistillIInv'
  OBVIOUS
<1>1. DistillTypeOK /\ \E c, d, v, bits : Kept(c, d, v, bits)
  BY KeptIsIInv
<1>2. PICK c, d, v, bits : Kept(c, d, v, bits)
  BY <1>1
<1>3. /\ RunFirst("verdict", {}) /\ win' = [win EXCEPT !.Alice = First.bit = 1]
      /\ alice' = alice /\ bob' = bob /\ measured' = measured
  BY DEF AliceReads
<1>4. PICK k : k = First.call
  OBVIOUS
<1>5. /\ distillation \in Distillations
      /\ c \in 0 .. Len(Calls) /\ d \in 0 .. Len(Calls) /\ v \in 0 .. Len(Calls)
      /\ c \in Nat /\ d \in Nat /\ v \in Nat /\ Len(Calls) \in Nat /\ v <= d /\ d <= c
      /\ First \in pending /\ First.op = "verdict" /\ k \in Rounds /\ v < k /\ k <= d
      /\ Stage(First) = 2 /\ \A l \in Rounds \cap (v + 1 .. d) : k <= l
  BY <1>1, <1>2, <1>3, <1>4, StepFacts
<1>6. /\ MeasuredUpTo(measured.Alice, c) /\ MeasuredUpTo(measured.Bob, d)
      /\ bits \in [Pairs -> Bit]
      /\ Explains(bits, alice, c) /\ Explains(Others(bits), bob, d) /\ PacketsTell(bits)
      /\ Concluded(d, v)
  BY <1>2 DEF Kept, ExplainedBy
<1>7. k \in 1 .. Len(Calls)
  BY <1>5, CallFields
<1>8. Passes(WaitsFor(c, d, v), WaitsFor(c, d, k), 0, {})
  <2>1. PICK w, w2 : w = WaitsFor(c, d, v) /\ w2 = WaitsFor(c, d, k)
    OBVIOUS
  <2>2. w2[0] = w[0] /\ w2[1] = w[1] /\ w2[2] = w[2] \ {k}
    <3>1. /\ WaitsFor(c, d, k)[0] = WaitsFor(c, d, v)[0]
          /\ WaitsFor(c, d, k)[1] = WaitsFor(c, d, v)[1]
          /\ WaitsFor(c, d, k)[2] = WaitsFor(c, d, v)[2] \ {k}
      BY <1>5, VerdictMoves
    <3> QED  BY <2>1, <3>1
  <2>3. \A t \in 0 .. 2 : t = 0 \/ t = 1 \/ t = 2
    OBVIOUS
  <2>4. \A t \in 0 .. 2 : w2[t] = IF t = 2 THEN w[t] \ {k} ELSE w[t]
    BY <2>2, <2>3
  <2> QED  BY <1>4, <1>5, <2>1, <2>4 DEF Passes
<1>9. First.bit = 1 <=> Agree(k)
  BY <1>4, <1>5, <1>6 DEF PacketsTell
<1>10. KeepsUp(c, d, k, bits, {})
  <2>1. /\ c \in 0 .. Len(Calls) /\ d \in 0 .. Len(Calls) /\ k \in 0 .. Len(Calls)
        /\ k <= d /\ d <= c /\ bits \in [Pairs -> Bit]
    BY <1>5, <1>6, <1>7
  <2>2. /\ win' \in [Alice : BOOLEAN, Bob : BOOLEAN]
        /\ (win'.Alice <=> First.bit = 1) /\ (win'.Bob <=> win.Bob)
    <3>1. win \in [Alice : BOOLEAN, Bob : BOOLEAN]
      BY <1>1 DEF DistillTypeOK
    <3>2. win' = [win EXCEPT !.Alice = (First.bit = 1)]
      BY <1>3
    <3> QED  BY <3>1, <3>2
  <2>3. /\ MeasuredUpTo(measured'.Alice, c) /\ MeasuredUpTo(measured'.Bob, d)
        /\ Explains(bits, alice', c) /\ Explains(Others(bits), bob', d) /\ PacketsTell(bits)
        /\ measured' \in [Alice : Seq(Pairs), Bob : Seq(Pairs)]
    BY <1>1, <1>3, <1>6 DEF DistillTypeOK
  <2>4. d = Len(Calls) => (win'.Bob <=> Agree(Len(Calls)))
    BY <1>6, <2>2 DEF Concluded
  <2>5. k = Len(Calls) => (win'.Alice <=> Agree(Len(Calls)))
    BY <1>9, <2>2
  <2> QED  BY <2>1, <2>2, <2>3, <2>4, <2>5 DEF KeepsUp
<1> QED  BY <1>1, <1>2, <1>3, <1>8, <1>10, KeptAfter

\* A step that changes nothing.
LEMMA NothingIInv == DistillIInv /\ UNCHANGED distillVars => DistillIInv'
<1> SUFFICES ASSUME DistillIInv, UNCHANGED distillVars
             PROVE  DistillIInv'
  OBVIOUS
<1>1. /\ distillation' = distillation /\ flips' = flips /\ pending' = pending
      /\ scheduled' = scheduled /\ alice' = alice /\ bob' = bob
      /\ measured' = measured /\ win' = win
  BY DEF distillVars
<1>2. PICK c, d, v, bits : DistillTypeOK /\ Kept(c, d, v, bits)
  BY KeptIsIInv
<1>3. PICK own, w : own = Others(bits) /\ w = WaitsFor(c, d, v)
  OBVIOUS
<1>4. /\ Calls' = Calls /\ Pairs' = Pairs /\ Rounds' = Rounds /\ MakesPairs' = MakesPairs
      /\ \A k : CallTime(k)' = CallTime(k) /\ EventOf(k)' = EventOf(k)
      /\ WaitsFor(c, d, v)' = w /\ Others(bits)' = own
  <2>1. Calls' = Calls /\ Pairs' = Pairs
    BY <1>1, SameSchedule
  <2>2. Others(bits)' = own
    BY <1>1, <1>3, <2>1 DEF Others
  <2> QED  BY <1>1, <1>3, <2>1, <2>2, SameSchedule
<1>5. DistillTypeOK'
  BY <1>1, <1>2, <1>4 DEF DistillTypeOK
<1>6. InOrder(WaitsFor(c, d, v))'
  <2>1. InOrder(w)
    BY <1>2, <1>3 DEF Kept
  <2>2. InOrder(w)'
    BY <1>1, <1>4, <2>1 DEF InOrder
  <2> QED  BY <1>4, <2>2
<1>7. PacketsTell(bits)'
  <2>1. PacketsTell(bits)
    BY <1>2 DEF Kept, ExplainedBy
  <2>2. /\ \A k : After(bits, k)' = After(bits, k)
        /\ \A e : Goal(e)' = Goal(e)
        /\ \A k : Agree(k)' <=> Agree(k)
    BY <1>1, <1>4, SameSchedule DEF Goal, Agree
  <2> QED  BY <1>1, <1>3, <1>4, <2>1, <2>2 DEF PacketsTell
<1>8. Explains(bits, alice, c)' /\ Explains(Others(bits), bob, d)'
  <2>1. Explains(bits, alice', c) /\ Explains(own, bob', d)
    BY <1>1, <1>2, <1>3 DEF Kept, ExplainedBy
  <2>2. Explains(bits, alice, c)' /\ Explains(own, bob, d)'
    BY <1>1, <2>1, StillExplains
  <2> QED  BY <1>4, <2>2
<1>9. MeasuredUpTo(measured.Alice, c)' /\ MeasuredUpTo(measured.Bob, d)'
  BY <1>1, <1>2, StillMeasured DEF Kept
<1>10. Concluded(d, v)'
  BY <1>1, <1>2, StillConcluded DEF Kept, Concluded
<1>11. Kept(c, d, v, bits)'
  BY <1>2, <1>4, <1>6, <1>7, <1>8, <1>9, <1>10 DEF Kept, ExplainedBy
<1> QED  BY <1>2, <1>5, <1>11, KeptIsIInv

\* Every state of a distillation keeps the invariant, for any number of pairs and any latency.
THEOREM DistillInvariance == DistillSpec => []DistillIInv
<1>1. DistillInit => DistillIInv
  BY DistillInitIInv
<1>2. DistillIInv /\ [DistillNext]_distillVars => DistillIInv'
  <2> SUFFICES ASSUME DistillIInv, [DistillNext]_distillVars
               PROVE  DistillIInv'
    OBVIOUS
  <2>1. CASE GenerateAndDistributeEPR
    BY <2>1, GenerateIInv
  <2>2. CASE ReceiveQubit
    BY <2>2, ReceiveIInv
  <2>3. CASE DistillateOnce
    BY <2>3, DistillateIInv
  <2>4. CASE BobReads
    BY <2>4, BobIInv
  <2>5. CASE AliceReads
    BY <2>5, AliceIInv
  <2>6. CASE UNCHANGED distillVars
    BY <2>6, NothingIInv
  <2> QED  BY <2>1, <2>2, <2>3, <2>4, <2>5, <2>6 DEF DistillNext
<1> QED  BY <1>1, <1>2, PTL DEF DistillSpec

(***************************************************************************)
(* What it concludes                                                       *)
(***************************************************************************)
\* Every pair but the first is measured, in a round with an earlier one.
LEMMA OnlyTheFirstIsLeft ==
  ASSUME distillation \in Distillations
  PROVE  \E n \in Nat :
           /\ n >= 2 /\ Pairs = 0 .. n - 1 /\ Cardinality(Pairs) = n
           /\ Calls[Len(Calls)].goal = 0 /\ Calls[Len(Calls)].meas = n \div 2
           /\ \A q \in Pairs : \E k \in MakesPairs : Calls[k].goal = q
           /\ \A k \in Rounds : Calls[k].goal < Calls[k].meas
           /\ \A q \in 1 .. n - 1 : \E k \in Rounds : Calls[k].meas = q
<1>1. PICK n, calls : n = Distillate(distillation.halvings).pairs /\ calls = Calls
  OBVIOUS
<1>2. IsSchedule(calls, n)
  BY <1>1, TheSchedule
<1>3. \A k : /\ k \in Rounds <=> k \in 1 .. Len(calls) /\ calls[k].op = "round"
             /\ k \in MakesPairs <=> k \in 1 .. Len(calls) /\ calls[k].op = "epr"
  BY <1>1, CallFields DEF Rounds, MakesPairs
<1>4. n \in Nat /\ n >= 2 /\ Pairs = 0 .. n - 1
  <2>1. n \in Nat /\ n >= 2
    BY <1>2 DEF IsSchedule
  <2> QED  BY <1>1, <2>1 DEF Pairs
<1>5. Cardinality(Pairs) = n
  <2>1. 0 \in Int /\ n - 1 \in Int /\ ~(0 > n - 1) /\ (n - 1) - 0 + 1 = n
    BY <1>4
  <2>2. Cardinality(0 .. n - 1) = IF 0 > n - 1 THEN 0 ELSE (n - 1) - 0 + 1
    BY <2>1, FS_Interval
  <2> QED  BY <1>4, <2>1, <2>2
<1>6. calls[Len(calls)].goal = 0 /\ calls[Len(calls)].meas = n \div 2
  BY <1>2 DEF IsSchedule, Call
<1>7. \A q \in 0 .. n - 1 : \E k \in MakesPairs : calls[k].goal = q
  <2>1. \A q \in 0 .. n - 1 : \E k \in 1 .. Len(calls) : IsEpr(calls, k, q)
    BY <1>2 DEF IsSchedule
  <2> QED  BY <1>3, <2>1 DEF IsEpr
<1>8. \A k \in Rounds : calls[k].goal < calls[k].meas
  <2>1. \A k \in 1 .. Len(calls) : calls[k].op = "round" => calls[k].goal < calls[k].meas
    BY <1>2 DEF IsSchedule
  <2> QED  BY <1>3, <2>1
<1>9. \A q \in 1 .. n - 1 : \E k \in Rounds : calls[k].meas = q
  <2>1. \A q \in 1 .. n - 1 : \E k \in 1 .. Len(calls) : calls[k].op = "round" /\ calls[k].meas = q
    BY <1>2 DEF IsSchedule
  <2> QED  BY <1>3, <2>1
<1> QED  BY <1>1, <1>4, <1>5, <1>6, <1>7, <1>8, <1>9

\* The outcome of a round is at its place.
LEMMA OutcomeAt ==
  ASSUME distillation \in Distillations, NEW n \in Nat, NEW qubits \in Seq(Pairs),
         MeasuredUpTo(qubits, n), NEW k \in Rounds, k <= n
  PROVE  Place(k) \in 1 .. Len(qubits) /\ qubits[Place(k)] = Calls[k].meas
<1>1. k \in Nat /\ 0 < k /\ \A j \in Rounds : j \in Nat
  BY CallFields
<1>2. /\ Place(0) = 0 /\ Place(0) < Place(k) /\ Place(k) <= Place(n)
      /\ Place(k) \in Nat /\ Place(n) \in Nat
  <2>1. Place(0) = 0
    BY PlaceAfter
  <2>2. Place(0) < Place(k)
    BY <1>1, PlacesGrow
  <2>3. Place(k) <= Place(n) /\ Place(k) \in Nat /\ Place(n) \in Nat
    BY <1>1, PlacesGrow
  <2> QED  BY <2>1, <2>2, <2>3
<1>3. Len(qubits) = Place(n) /\ DOMAIN qubits = 1 .. Len(qubits)
  BY DEF MeasuredUpTo
<1>4. Place(k) \in 1 .. Len(qubits)
  BY <1>2, <1>3
<1>5. PICK j \in Rounds : Place(k) = Place(j) /\ qubits[Place(k)] = Calls[j].meas
  BY <1>3, <1>4 DEF MeasuredUpTo
<1>6. j = k
  <2>1. j < k => Place(j) < Place(k)
    BY <1>1, PlacesGrow
  <2>2. k < j => Place(k) < Place(j)
    BY <1>1, PlacesGrow
  <2> QED  BY <1>1, <1>2, <1>5, <2>1, <2>2
<1> QED  BY <1>4, <1>5, <1>6

\* Each round measures a qubit of its own.
LEMMA MeasuredOnce ==
  ASSUME distillation \in Distillations, NEW n \in Nat, NEW qubits \in Seq(Pairs),
         MeasuredUpTo(qubits, n)
  PROVE  /\ Len(qubits) = Cardinality({qubits[i] : i \in DOMAIN qubits})
         /\ {qubits[i] : i \in DOMAIN qubits} = {Calls[k].meas : k \in Rounds \cap (1 .. n)}
<1> DEFINE used == {qubits[i] : i \in DOMAIN qubits}
<1>1. DOMAIN qubits = 1 .. Len(qubits) /\ Len(qubits) \in Nat
  OBVIOUS
<1>2. \A i \in 1 .. Len(qubits) :
        \E k \in Rounds \cap (1 .. n) : i = Place(k) /\ qubits[i] = Calls[k].meas
  BY <1>1 DEF MeasuredUpTo
<1>3. ASSUME NEW i \in 1 .. Len(qubits), NEW j \in 1 .. Len(qubits), qubits[i] = qubits[j]
      PROVE  i = j
  <2>1. PICK k \in Rounds : i = Place(k) /\ qubits[i] = Calls[k].meas
    BY <1>2
  <2>2. PICK l \in Rounds : j = Place(l) /\ qubits[j] = Calls[l].meas
    BY <1>2
  <2>3. ~(k < l) /\ ~(l < k)
    BY <1>3, <2>1, <2>2, CallOrder
  <2>4. k \in Nat /\ l \in Nat
    BY CallFields
  <2> QED  BY <2>1, <2>2, <2>3, <2>4
<1>4. used = {Calls[k].meas : k \in Rounds \cap (1 .. n)}
  <2>1. \A q \in used : \E k \in Rounds \cap (1 .. n) : q = Calls[k].meas
    BY <1>1, <1>2
  <2>2. ASSUME NEW k \in Rounds \cap (1 .. n)
        PROVE  Calls[k].meas \in used
    <3>1. Place(k) \in 1 .. Len(qubits) /\ qubits[Place(k)] = Calls[k].meas
      <4>1. k <= n
        OBVIOUS
      <4> QED  BY <4>1, OutcomeAt
    <3> QED  BY <1>1, <3>1
  <2> HIDE DEF used
  <2> QED  BY <2>1, <2>2
<1>5. Len(qubits) = Cardinality(used)
  <2>1. qubits \in [1 .. Len(qubits) -> used]
    <3>1. qubits = [i \in 1 .. Len(qubits) |-> qubits[i]]
      BY <1>1
    <3> QED  BY <1>1, <3>1
  <2>2. \A q \in used : \E i \in 1 .. Len(qubits) : qubits[i] = q
    BY <1>1
  <2>3. \A i, j \in DOMAIN qubits : qubits[i] = qubits[j] => i = j
    BY <1>1, <1>3
  <2> HIDE DEF used
  <2>4. /\ qubits \in Surjection(1 .. Len(qubits), used)
        /\ qubits \in Injection(1 .. Len(qubits), used)
    BY <2>1, <2>2, <2>3 DEF Surjection, Injection, IsInjective
  <2>5. IsFiniteSet(1 .. Len(qubits)) /\ Cardinality(1 .. Len(qubits)) = Len(qubits)
    <3>1. 1 \in Int /\ Len(qubits) \in Int
      BY <1>1
    <3>2. /\ IsFiniteSet(1 .. Len(qubits))
          /\ Cardinality(1 .. Len(qubits)) = IF 1 > Len(qubits) THEN 0 ELSE Len(qubits) - 1 + 1
      BY <3>1, FS_Interval
    <3> QED  BY <1>1, <3>2
  <2>6. Cardinality(used) = Cardinality(1 .. Len(qubits))
    BY <2>4, <2>5, FS_Surjection
  <2> QED  BY <2>5, <2>6
<1> QED  BY <1>4, <1>5

\* The channel's flip shows in what is left of a pair.
LEMMA FlipShows ==
  ASSUME NEW a \in Bit, NEW f \in Bit
  PROVE  (a + ((a + f) % 2)) % 2 = f
<1>1. /\ (0 + 0) % 2 = 0 /\ (0 + 1) % 2 = 1 /\ (1 + 0) % 2 = 1 /\ (1 + 1) % 2 = 0
  OBVIOUS
<1> QED  BY <1>1 DEF Bit

\* In the end, nothing is waited for.
LEMMA AllIsDone ==
  ASSUME DistillTypeOK, NEW c, NEW d, NEW v, NEW bits, Kept(c, d, v, bits), pending = {}
  PROVE  c = Len(Calls) /\ d = Len(Calls) /\ v = Len(Calls)
<1>1. distillation \in Distillations
  BY DEF DistillTypeOK
<1>2. /\ Len(Calls) \in Nat /\ Len(Calls) \in Rounds /\ Len(Calls) >= 1
      /\ \A k \in Rounds : k \in 1 .. Len(Calls)
  BY <1>1, CallFields
<1>3. /\ c \in 0 .. Len(Calls) /\ d \in 0 .. Len(Calls) /\ v \in 0 .. Len(Calls) /\ v <= d /\ d <= c
      /\ InOrder(WaitsFor(c, d, v))
  BY DEF Kept
<1>4. PICK waits : waits = WaitsFor(c, d, v)
  OBVIOUS
<1>5. /\ waits[0] = c + 1 .. Len(Calls) /\ waits[1] = d + 1 .. c
      /\ waits[2] = Rounds \cap (v + 1 .. d)
  BY <1>4 DEF WaitsFor
<1>6. \A stage \in 0 .. 2 : waits[stage] = {}
  BY <1>3, <1>4 DEF InOrder
<1>7. c + 1 \notin c + 1 .. Len(Calls) /\ d + 1 \notin d + 1 .. c /\ Len(Calls) \notin v + 1 .. d
  <2>1. 0 \in 0 .. 2 /\ 1 \in 0 .. 2 /\ 2 \in 0 .. 2
    OBVIOUS
  <2> QED  BY <1>2, <1>5, <1>6, <2>1
<1> QED  BY <1>2, <1>3, <1>7

\* Bob has what he operates on.
LEMMA BobHasThem ==
  ASSUME DistillIInv, pending # {}, First.op = "outcome"
  PROVE  {Goal(First), Measured(First)} \subseteq DOMAIN bob
<1>1. PICK c, d, v, bits : DistillTypeOK /\ Kept(c, d, v, bits)
  BY KeptIsIInv
<1>2. distillation \in Distillations
  BY <1>1 DEF DistillTypeOK
<1>3. /\ c \in 0 .. Len(Calls) /\ d \in 0 .. Len(Calls) /\ v \in 0 .. Len(Calls) /\ v <= d /\ d <= c
      /\ InOrder(WaitsFor(c, d, v)) /\ Explains(Others(bits), bob, d)
  BY <1>1 DEF Kept, ExplainedBy
<1>4. /\ First.call = d + 1 /\ d + 1 <= c /\ d + 1 \notin MakesPairs
  <2>1. Stage(First) = 1
    BY StageOf
  <2> QED  BY <1>1, <1>3, <2>1, NextCall
<1>5. d \in Nat /\ d + 1 \in Rounds
  <2>1. Len(Calls) \in Nat /\ \A k \in 1 .. Len(Calls) : k \in Rounds \/ k \in MakesPairs
    BY <1>2, CallFields
  <2>2. d \in Nat /\ d + 1 \in 1 .. Len(Calls)
    BY <1>3, <1>4, <2>1
  <2> QED  BY <1>4, <2>1, <2>2
<1>6. PICK own : own = Others(bits)
  OBVIOUS
<1>7. Explains(own, bob, d)
  BY <1>3, <1>6
<1>8. Calls[d + 1].goal \in DOMAIN bob /\ Calls[d + 1].meas \in DOMAIN bob
  BY <1>2, <1>5, <1>7, RoundReady
<1> QED  BY <1>4, <1>8 DEF Goal, Measured

\* What is left, and what the verdict says of it.
LEMMA TheLastPair ==
  ASSUME DistillIInv, pending = {}
  PROVE  LET used == {measured.Bob[k] : k \in DOMAIN measured.Bob}
             survivors == Pairs \ used
         IN /\ survivors = {0} /\ flips[0] = (alice[0] + bob[0]) % 2
            /\ (\A q \in used : alice[q] = bob[q]) => \A q \in Pairs : flips[q] = flips[0]
            /\ \A owner \in {"Alice", "Bob"} :
                 win[owner] <=> flips[0] = flips[Cardinality(Pairs) \div 2]
<1>1. PICK c, d, v, bits : DistillTypeOK /\ Kept(c, d, v, bits)
  BY KeptIsIInv
<1>2. /\ distillation \in Distillations /\ flips \in [Pairs -> Bit]
      /\ measured.Bob \in Seq(Pairs)
  BY <1>1 DEF DistillTypeOK
<1>3. PICK last : last = Len(Calls)
  OBVIOUS
<1>4. c = last /\ d = last /\ v = last
  BY <1>1, <1>3, AllIsDone
<1>5. /\ MeasuredUpTo(measured.Bob, last) /\ bits \in [Pairs -> Bit]
      /\ Explains(bits, alice, last) /\ Explains(Others(bits), bob, last)
      /\ (win.Bob <=> Agree(last)) /\ (win.Alice <=> Agree(last))
  BY <1>1, <1>3, <1>4 DEF Kept, ExplainedBy, Concluded
<1>6. /\ last \in Nat /\ \A k \in Rounds : k \in 1 .. last
      /\ \A k \in MakesPairs : k \in 1 .. last
      /\ \A k \in 1 .. last : Calls[k].goal \in Pairs /\ Calls[k].meas \in Pairs
  BY <1>2, <1>3, CallFields
<1>7. Rounds \cap (1 .. last) = Rounds /\ MakesPairs \cap (1 .. last) = MakesPairs
  BY <1>6
<1>8. PICK n \in Nat :
        /\ n >= 2 /\ Pairs = 0 .. n - 1 /\ Cardinality(Pairs) = n
        /\ Calls[last].goal = 0 /\ Calls[last].meas = n \div 2
        /\ \A q \in Pairs : \E k \in MakesPairs : Calls[k].goal = q
        /\ \A k \in Rounds : Calls[k].goal < Calls[k].meas
        /\ \A q \in 1 .. n - 1 : \E k \in Rounds : Calls[k].meas = q
  BY <1>2, <1>3, OnlyTheFirstIsLeft
<1>9. PICK used : used = {measured.Bob[k] : k \in DOMAIN measured.Bob}
  OBVIOUS
<1>10. used = {Calls[k].meas : k \in Rounds}
  <2>1. PICK qubits : qubits = measured.Bob
    OBVIOUS
  <2>2. {qubits[k] : k \in DOMAIN qubits} = {Calls[k].meas : k \in Rounds \cap (1 .. last)}
    <3>1. qubits \in Seq(Pairs) /\ MeasuredUpTo(qubits, last) /\ last \in Nat
      BY <1>2, <1>5, <1>6, <2>1
    <3> QED  BY <1>2, <3>1, MeasuredOnce
  <2> QED  BY <1>7, <1>9, <2>1, <2>2
<1>11. \A k \in Rounds : /\ Calls[k].goal \in 0 .. n - 1 /\ Calls[k].meas \in 1 .. n - 1
                         /\ Calls[k].goal < Calls[k].meas
  <2> SUFFICES ASSUME NEW k \in Rounds
               PROVE  /\ Calls[k].goal \in 0 .. n - 1 /\ Calls[k].meas \in 1 .. n - 1
                      /\ Calls[k].goal < Calls[k].meas
    OBVIOUS
  <2>1. PICK g, q : g = Calls[k].goal /\ q = Calls[k].meas
    OBVIOUS
  <2>2. g \in 0 .. n - 1 /\ q \in 0 .. n - 1
    BY <1>6, <1>8, <2>1
  <2>3. g < q
    BY <1>8, <2>1
  <2>4. q \in 1 .. n - 1
    BY <2>2, <2>3
  <2> QED  BY <2>1, <2>2, <2>3, <2>4
<1>12. used = 1 .. n - 1
  BY <1>8, <1>10, <1>11
<1>13. Pairs \ used = {0}
  BY <1>8, <1>12
<1>14. \A k \in Rounds : Calls[k].meas # 0
  BY <1>11
<1>15. 0 \in Pairs
  BY <1>8
<1>16. flips[0] = (alice[0] + bob[0]) % 2
  <2>1. PICK own : own = Others(bits)
    OBVIOUS
  <2>2. \A which, held : Explains(which, held, last) => held[0] = which[0]
    <3> SUFFICES ASSUME NEW which, NEW held, Explains(which, held, last)
                 PROVE  held[0] = which[0]
      OBVIOUS
    <3>1. 0 \in DOMAIN held
      <4>1. DOMAIN held = {Calls[k].goal : k \in MakesPairs}
        BY <1>7 DEF Explains
      <4> QED  BY <1>8, <1>15, <4>1
    <3> QED  BY <1>14, <3>1 DEF Explains
  <2>3. alice[0] = bits[0] /\ bob[0] = own[0]
    BY <1>5, <2>1, <2>2
  <2>4. own[0] = (bits[0] + flips[0]) % 2
    BY <1>15, <2>1 DEF Others
  <2>5. PICK a, f : a = bits[0] /\ f = flips[0]
    OBVIOUS
  <2>6. a \in Bit /\ f \in Bit
    BY <1>2, <1>5, <1>15, <2>5
  <2>7. (a + ((a + f) % 2)) % 2 = f
    BY <2>6, FlipShows
  <2> QED  BY <2>3, <2>4, <2>5, <2>7
<1>17. ASSUME \A q \in used : alice[q] = bob[q]
       PROVE  \A q \in Pairs : flips[q] = flips[0]
  <2>1. \A k \in Rounds : Agree(k)
    <3> SUFFICES ASSUME NEW k \in Rounds
                 PROVE  Agree(k)
      OBVIOUS
    <3>1. \A which, held : Explains(which, held, last) => held[Calls[k].meas] = After(which, k)
      BY <1>7 DEF Explains
    <3>2. /\ alice[Calls[k].meas] = After(bits, k)
          /\ bob[Calls[k].meas] = After(Others(bits), k)
      BY <1>5, <3>1
    <3>3. alice[Calls[k].meas] = bob[Calls[k].meas]
      BY <1>10, <1>17
    <3>4. After(Others(bits), k) = After(bits, k) <=> Agree(k)
      BY <1>2, <1>5, OutcomesTell
    <3> QED  BY <3>2, <3>3, <3>4
  <2>2. \A q \in 1 .. n - 1 : \E g \in 0 .. q - 1 : flips[g] = flips[q]
    <3> SUFFICES ASSUME NEW q \in 1 .. n - 1
                 PROVE  \E g \in 0 .. q - 1 : flips[g] = flips[q]
      OBVIOUS
    <3>1. PICK k \in Rounds : Calls[k].meas = q
      BY <1>8
    <3>2. PICK g : g = Calls[k].goal
      OBVIOUS
    <3>3. flips[g] = flips[q]
      BY <2>1, <3>1, <3>2 DEF Agree
    <3>4. g \in 0 .. n - 1 /\ g < q
      BY <1>11, <3>1, <3>2
    <3>5. g \in 0 .. q - 1
      BY <1>8, <3>4
    <3> QED  BY <3>3, <3>5
  <2> DEFINE S == {m \in Nat : \A q \in 0 .. n - 1 : q <= m => flips[q] = flips[0]}
  <2>3. 0 \in S
    BY <1>8
  <2>4. ASSUME NEW m \in S
        PROVE  m + 1 \in S
    <3>1. m \in Nat
      OBVIOUS
    <3>2. ASSUME NEW q \in 0 .. n - 1, q <= m + 1
          PROVE  flips[q] = flips[0]
      <4>1. CASE q <= m
        BY <2>4, <4>1
      <4>2. CASE q = m + 1
        <5>1. q \in 1 .. n - 1
          BY <3>1, <4>2
        <5>2. PICK g \in 0 .. q - 1 : flips[g] = flips[q]
          BY <2>2, <5>1
        <5>3. g \in 0 .. n - 1 /\ g <= m
          BY <1>8, <3>1, <4>2
        <5> QED  BY <2>4, <5>2, <5>3
      <4> QED  BY <3>1, <3>2, <4>1, <4>2
    <3> QED  BY <3>1, <3>2
  <2>5. S \in SUBSET Nat
    OBVIOUS
  <2> HIDE DEF S
  <2>6. S = Nat
    BY <2>3, <2>4, <2>5, NatSetInduction
  <2>7. \A q \in 0 .. n - 1 : flips[q] = flips[0]
    <3>1. \A q \in 0 .. n - 1 : q \in Nat
      BY <1>8
    <3> QED  BY <2>6, <3>1 DEF S
  <2> QED  BY <1>8, <2>7
<1>18. Agree(last) <=> flips[0] = flips[Cardinality(Pairs) \div 2]
  BY <1>8 DEF Agree
<1>19. \A owner \in {"Alice", "Bob"} :
         win[owner] <=> flips[0] = flips[Cardinality(Pairs) \div 2]
  BY <1>5, <1>18
<1> QED  BY <1>9, <1>13, <1>16, <1>17, <1>19

\* However many pairs and however long packets take, so however many rounds overlap: both
\* sides measure the same qubits, in the same order and once each, Bob has what he operates
\* on, and the verdict tells whether the survivors of the two halves were flipped alike
\* (DistillNestedApp::HandleRead).
THEOREM DistillConcludes == DistillSpec => []DistillationConcludes
<1>1. DistillIInv => DistillationConcludes
  <2> SUFFICES ASSUME DistillIInv
               PROVE  DistillationConcludes
    OBVIOUS
  <2>1. PICK c, d, v, bits : DistillTypeOK /\ Kept(c, d, v, bits)
    BY KeptIsIInv
  <2>2. /\ distillation \in Distillations
        /\ measured.Alice \in Seq(Pairs) /\ measured.Bob \in Seq(Pairs)
    BY <2>1 DEF DistillTypeOK
  <2>3. /\ c \in Nat /\ d \in Nat /\ d <= c
        /\ MeasuredUpTo(measured.Alice, c) /\ MeasuredUpTo(measured.Bob, d)
    <3>1. Len(Calls) \in Nat
      BY <2>2, CallFields
    <3> QED  BY <2>1, <3>1 DEF Kept
  <2>4. ASSUME NEW i \in DOMAIN measured.Bob
        PROVE  i <= Len(measured.Alice) /\ measured.Bob[i] = measured.Alice[i]
    <3>1. PICK k \in Rounds \cap (1 .. d) : i = Place(k) /\ measured.Bob[i] = Calls[k].meas
      BY <2>3 DEF MeasuredUpTo
    <3>2. k <= c /\ k \in Rounds
      BY <2>3
    <3>3. PICK qubits : qubits = measured.Alice
      OBVIOUS
    <3>4. Place(k) \in 1 .. Len(qubits) /\ qubits[Place(k)] = Calls[k].meas
      BY <2>2, <2>3, <3>2, <3>3, OutcomeAt
    <3> QED  BY <3>1, <3>3, <3>4
  <2>5. Len(measured.Alice) = Cardinality({measured.Alice[k] : k \in DOMAIN measured.Alice})
    <3>1. PICK qubits : qubits = measured.Alice
      OBVIOUS
    <3>2. Len(qubits) = Cardinality({qubits[k] : k \in DOMAIN qubits})
      BY <2>2, <2>3, <3>1, MeasuredOnce
    <3> QED  BY <3>1, <3>2
  <2>6. pending # {} /\ First.op = "outcome" => {Goal(First), Measured(First)} \subseteq DOMAIN bob
    BY BobHasThem
  <2> QED  BY <2>4, <2>5, <2>6, TheLastPair DEF DistillationConcludes
<1> QED  BY <1>1, DistillInvariance, PTL

(***************************************************************************)
(*                                                                         *)
(*                            ROUTE SIMULATION                             *)
(*                                                                         *)
(***************************************************************************)

(***************************************************************************)
(*                                                                         *)
(*                            ROUTE SIMULATION                             *)
(*                                                                         *)
(***************************************************************************)
BellState(r) == [r |-> r, pair |-> [ends |-> Ends(r), x |-> 0, z |-> 0]]

\* The pairs of O are of other routes.
Foreign(O, r) == \A p \in O : \A q \in p.ends : q[1] # r

(***************************************************************************)
(* Times                                                                   *)
(***************************************************************************)
\* MilliSeconds rounds down, to whole units.
LEMMA Rounding ==
  ASSUME NEW a \in Nat
  PROVE  /\ MilliSeconds(a) \in Nat
         /\ MilliSeconds(a) * Unit <= a /\ a < MilliSeconds(a) * Unit + Unit
<1>1. Unit \in Nat /\ Unit > 0
  BY RouteAssumption
<1> DEFINE m == a \div Unit
<1>2. m \in Int
  BY <1>1
<1>3. m * Unit <= a /\ a < m * Unit + Unit
  BY <1>1
<1>4. m \in Nat
  BY <1>1, <1>2, <1>3
<1> QED  BY <1>3, <1>4 DEF MilliSeconds

\* Rounding keeps the order of times.
LEMMA RoundingGrows ==
  ASSUME NEW a \in Nat, NEW b \in Nat, a <= b
  PROVE  MilliSeconds(a) <= MilliSeconds(b)
<1>1. Unit \in Nat /\ Unit > 0
  BY RouteAssumption
<1> DEFINE m == MilliSeconds(a)
           n == MilliSeconds(b)
<1>2. /\ m \in Nat /\ n \in Nat
      /\ m * Unit <= a /\ b < n * Unit + Unit
  BY Rounding
<1> HIDE DEF m, n
<1>3. m * Unit < (n + 1) * Unit
  BY <1>1, <1>2
<1>4. m < n + 1
  BY <1>1, <1>2, <1>3
<1> QED  BY <1>2, <1>4 DEF m, n

\* What the assumption says of the simulation.
LEMMA PlayFields ==
  ASSUME play \in Plays
  PROVE  /\ play.program \in {"study", "requests", "mismatch", "test"}
         /\ play.routes \in Seq(Seq(Nat) \ {<<>>}) \ {<<>>}
         /\ play.delays \in [DOMAIN play.routes -> Nat]
         /\ play.jitters \subseteq Nat /\ play.losses \subseteq BOOLEAN
         /\ play.program \in {"study", "test"} => Len(play.routes) = 1
         /\ play.program = "test" => Len(play.routes[1]) = 2
         /\ play.program = "mismatch" =>
              Len(play.routes) = 2 /\ \A r \in {1, 2} : Len(play.routes[r]) \in {2, 3}
BY RouteAssumption

\* Every route has links, with setup times and a delay that are numbers.
LEMMA RouteFacts ==
  ASSUME play \in Plays
  PROVE  /\ Len(play.routes) \in Nat /\ Len(play.routes) > 0
         /\ DOMAIN play.routes = 1 .. Len(play.routes)
         /\ \A r \in DOMAIN play.routes :
              /\ Links(r) \in Nat /\ Links(r) > 0
              /\ play.delays[r] \in Nat
              /\ \A i \in 0 .. Links(r) - 1 : Setup(r, i) \in Nat
         /\ 1 \in DOMAIN play.routes
<1>1. /\ play.routes \in Seq(Seq(Nat) \ {<<>>}) \ {<<>>}
      /\ play.delays \in [DOMAIN play.routes -> Nat]
  BY PlayFields
<1>2. /\ Len(play.routes) \in Nat /\ Len(play.routes) > 0
      /\ DOMAIN play.routes = 1 .. Len(play.routes)
  BY <1>1
<1>3. ASSUME NEW r \in DOMAIN play.routes
      PROVE  /\ Links(r) \in Nat /\ Links(r) > 0
             /\ \A i \in 0 .. Links(r) - 1 : Setup(r, i) \in Nat
  <2>1. play.routes[r] \in Seq(Nat) /\ play.routes[r] # <<>>
    BY <1>1
  <2>2. Links(r) \in Nat /\ Links(r) > 0
    BY <2>1 DEF Links
  <2>3. \A i \in 0 .. Links(r) - 1 : i + 1 \in 1 .. Len(play.routes[r])
    BY <2>2 DEF Links
  <2> QED  BY <2>1, <2>2, <2>3 DEF Setup
<1>4. \A r \in DOMAIN play.routes : play.delays[r] \in Nat
  BY <1>1
<1>5. 1 \in DOMAIN play.routes
  BY <1>2
<1> QED  BY Zenon, <1>2, <1>3, <1>4, <1>5

\* A finite set of setup times has a greatest.
LEMMA Greatest ==
  ASSUME NEW f, NEW n \in Nat, n > 0, \A i \in 0 .. n - 1 : f[i] \in Nat
  PROVE  LET S == {f[i] : i \in 0 .. n - 1}
         IN Max(S) \in S /\ \A y \in S : y <= Max(S)
<1> DEFINE Has(m) == \E x \in {f[i] : i \in 0 .. m} : \A y \in {f[i] : i \in 0 .. m} : x >= y
           Good == {m \in Nat : m < n => Has(m)}
<1>1. 0 \in Good
  <2>1. \A i : i \in 0 .. 0 <=> i = 0
    OBVIOUS
  <2>2. {f[i] : i \in 0 .. 0} = {f[0]}
    BY <2>1
  <2>3. f[0] \in Nat
    OBVIOUS
  <2> QED  BY <2>2, <2>3
<1>2. ASSUME NEW m \in Good
      PROVE  m + 1 \in Good
  <2> SUFFICES ASSUME m + 1 < n
               PROVE  Has(m + 1)
    OBVIOUS
  <2>1. PICK x \in {f[i] : i \in 0 .. m} : \A y \in {f[i] : i \in 0 .. m} : x >= y
    OBVIOUS
  <2>2. x \in Nat /\ f[m + 1] \in Nat /\ \A i \in 0 .. m : f[i] \in Nat /\ x >= f[i]
    BY <2>1
  <2>3. {f[i] : i \in 0 .. m + 1} = {f[i] : i \in 0 .. m} \cup {f[m + 1]}
    <3>1. \A i : i \in 0 .. m + 1 <=> i \in 0 .. m \/ i = m + 1
      OBVIOUS
    <3> QED  BY <3>1
  <2>4. CASE x >= f[m + 1]
    BY <2>1, <2>3, <2>4
  <2>5. CASE ~ x >= f[m + 1]
    <3>1. \A y \in {f[i] : i \in 0 .. m + 1} : f[m + 1] >= y
      BY <2>2, <2>3, <2>5
    <3> QED  BY <2>3, <3>1
  <2> QED  BY <2>4, <2>5
<1> HIDE DEF Has
<1>3. Good = Nat
  BY <1>1, <1>2, NatSetInduction
<1>4. Has(n - 1)
  BY <1>3
<1> DEFINE S == {f[i] : i \in 0 .. n - 1}
<1>5. \E x \in S : \A y \in S : x >= y
  BY <1>4 DEF Has
<1>6. S \subseteq Nat
  OBVIOUS
<1> HIDE DEF S
<1>7. Max(S) \in S /\ \A y \in S : Max(S) >= y
  BY <1>5, Zenon DEF Max
<1>8. Max(S) \in S /\ \A y \in S : y <= Max(S)
  BY <1>6, <1>7
<1> QED  BY <1>8 DEF S

\* No link is set up after the chain starts.
LEMMA ChainStartsLast ==
  ASSUME play \in Plays
  PROVE  /\ TMax(1) \in Nat /\ ChainStart \in Nat
         /\ \A i \in 0 .. Links(1) - 1 :
              /\ Setup(1, i) <= TMax(1)
              /\ MilliSeconds(Setup(1, i)) \in Nat
              /\ MilliSeconds(Setup(1, i)) <= ChainStart
<1> DEFINE n == Links(1)
           f == [i \in 0 .. n - 1 |-> Setup(1, i)]
<1>1. n \in Nat /\ n > 0 /\ \A i \in 0 .. n - 1 : Setup(1, i) \in Nat
  BY RouteFacts
<1>2. {Setup(1, i) : i \in 0 .. n - 1} = {f[i] : i \in 0 .. n - 1}
  OBVIOUS
<1> DEFINE S == {f[i] : i \in 0 .. n - 1}
<1>3. \A i \in 0 .. n - 1 : f[i] \in Nat
  BY <1>1
<1>4. Max(S) \in S /\ \A y \in S : y <= Max(S)
  <2> HIDE DEF f, n
  <2> QED  BY <1>1, <1>3, Greatest
<1>5. TMax(1) = Max(S)
  BY <1>2 DEF TMax
<1>6. TMax(1) \in Nat /\ \A i \in 0 .. n - 1 : Setup(1, i) <= TMax(1)
  BY <1>1, <1>3, <1>4, <1>5
<1> QED  BY <1>1, <1>6, Rounding, RoundingGrows DEF ChainStart

(***************************************************************************)
(* Rows of pairs                                                           *)
(***************************************************************************)
LEMMA LinksQubits ==
  ASSUME NEW r, NEW I
  PROVE  /\ QubitsOf({r} \X I) = UNION {{Left(r, i), Right(r, i)} : i \in I}
         /\ {LinkPair(l[1], l[2]) : l \in {r} \X I} = {LinkPair(r, i) : i \in I}
<1>1. ASSUME NEW q \in QubitsOf({r} \X I)
      PROVE  q \in UNION {{Left(r, i), Right(r, i)} : i \in I}
  <2>1. PICK l \in {r} \X I, side \in {"left", "right"} : q = <<l[1], l[2], side>>
    BY DEF QubitsOf
  <2>2. l[1] = r /\ l[2] \in I
    OBVIOUS
  <2>3. q \in {Left(r, l[2]), Right(r, l[2])}
    BY <2>1, <2>2 DEF Left, Right
  <2> QED  BY <2>2, <2>3
<1>2. ASSUME NEW i \in I
      PROVE  /\ Left(r, i) \in QubitsOf({r} \X I) /\ Right(r, i) \in QubitsOf({r} \X I)
             /\ LinkPair(r, i) \in {LinkPair(l[1], l[2]) : l \in {r} \X I}
  <2> DEFINE l == <<r, i>>
  <2>1. l \in {r} \X I /\ l[1] = r /\ l[2] = i
    OBVIOUS
  <2> HIDE DEF l
  <2>2. Left(r, i) = <<l[1], l[2], "left">> /\ Right(r, i) = <<l[1], l[2], "right">>
    BY <2>1 DEF Left, Right
  <2> QED  BY <2>1, <2>2 DEF QubitsOf, l
<1>3. ASSUME NEW l \in {r} \X I
      PROVE  LinkPair(l[1], l[2]) \in {LinkPair(r, i) : i \in I}
  <2>1. l[2] \in I /\ l[1] = r
    OBVIOUS
  <2> QED  BY Zenon, <2>1
<1>4. QubitsOf({r} \X I) = UNION {{Left(r, i), Right(r, i)} : i \in I}
  <2>1. ASSUME NEW q \in UNION {{Left(r, i), Right(r, i)} : i \in I}
        PROVE  q \in QubitsOf({r} \X I)
    <3>1. PICK i \in I : q \in {Left(r, i), Right(r, i)}
      OBVIOUS
    <3> QED  BY <1>2, <3>1
  <2> QED  BY <1>1, <2>1
<1>5. {LinkPair(l[1], l[2]) : l \in {r} \X I} = {LinkPair(r, i) : i \in I}
  BY <1>2, <1>3
<1> QED  BY <1>4, <1>5

\* A row is made of pairs of qubits of its route.
LEMMA RowPairs ==
  ASSUME NEW r \in Nat, NEW n \in Nat, NEW k \in 1 .. n, NEW x \in Bits, NEW z \in Bits
  PROVE  /\ Row(r, n, k, x, z) \subseteq PairType
         /\ RowQubits(r, n, k) \subseteq RouteQubits
         /\ \A p \in Row(r, n, k, x, z) : \A q \in p.ends : q[1] = r
<1>1. Left(r, 0) \in RouteQubits /\ Right(r, k - 1) \in RouteQubits
  BY DEF Left, Right, RouteQubits
<1>2. \A i \in k .. n - 1 : Left(r, i) \in RouteQubits /\ Right(r, i) \in RouteQubits
  BY DEF Left, Right, RouteQubits
<1>3. \A i : Left(r, i)[1] = r /\ Right(r, i)[1] = r
  BY DEF Left, Right
<1>4. Joined(r, k, x, z) \in PairType /\ \A q \in Joined(r, k, x, z).ends : q[1] = r
  BY <1>1, <1>3 DEF Joined, PairType
<1>5. \A i \in k .. n - 1 :
        LinkPair(r, i) \in PairType /\ \A q \in LinkPair(r, i).ends : q[1] = r
  BY <1>2, <1>3 DEF LinkPair, PairType, Bits
<1>6. QubitsOf({r} \X (k .. n - 1)) \subseteq RouteQubits
  BY DEF QubitsOf, RouteQubits
<1> QED  BY <1>1, <1>4, <1>5, <1>6 DEF Row, RowQubits

\* The ends of the pairs of a row differ.
LEMMA RowEnds ==
  ASSUME NEW r, NEW n \in Nat, NEW k \in 1 .. n, NEW x, NEW z
  PROVE  /\ Joined(r, k, x, z).ends = {Left(r, 0), Right(r, k - 1)}
         /\ Joined(r, k, x, z).x = x /\ Joined(r, k, x, z).z = z
         /\ \A i : LinkPair(r, i).ends = {Left(r, i), Right(r, i)}
         /\ \A i : LinkPair(r, i).x = 0 /\ LinkPair(r, i).z = 0
         /\ \A i, j : /\ Left(r, i) = Left(r, j) => i = j
                      /\ Right(r, i) = Right(r, j) => i = j
                      /\ Left(r, i) # Right(r, j)
         /\ \A i \in k .. n - 1 : i # 0 /\ i # k - 1
<1>1. /\ Joined(r, k, x, z).ends = {Left(r, 0), Right(r, k - 1)}
      /\ Joined(r, k, x, z).x = x /\ Joined(r, k, x, z).z = z
  BY DEF Joined
<1>2. \A i : LinkPair(r, i).ends = {Left(r, i), Right(r, i)}
  BY DEF LinkPair
<1>3. \A i : LinkPair(r, i).x = 0 /\ LinkPair(r, i).z = 0
  BY DEF LinkPair
<1>4. \A i, j : /\ Left(r, i) = Left(r, j) => i = j
                /\ Right(r, i) = Right(r, j) => i = j
                /\ Left(r, i) # Right(r, j)
  BY DEF Left, Right
<1>5. \A i \in k .. n - 1 : i # 0 /\ i # k - 1
  OBVIOUS
<1> QED  BY Zenon, <1>1, <1>2, <1>3, <1>4, <1>5

\* Among the pairs are those of a row, and the others are of other routes.
HasRow(pairs, O, r, n, k, x, z) ==
  /\ r \in Nat /\ n \in Nat /\ k \in 1 .. n /\ x \in Bits /\ z \in Bits
  /\ Foreign(O, r)
  /\ pairs = O \cup Row(r, n, k, x, z)

\* The pairs of the ends of a row.
LEMMA EndsOnce ==
  ASSUME NEW pairs, NEW O, NEW r \in Nat, NEW n \in Nat, NEW k \in 1 .. n, NEW x, NEW z,
         HasRow(pairs, O, r, n, k, x, z)
  PROVE  /\ Joined(r, k, x, z) \in pairs
         /\ \A p \in pairs :
              /\ Right(r, k - 1) \in p.ends <=> p = Joined(r, k, x, z)
              /\ Left(r, 0) \in p.ends <=> p = Joined(r, k, x, z)
         /\ \A i \in k .. n - 1 :
              LinkPair(r, i) \in pairs /\ \A p \in pairs : Left(r, i) \in p.ends <=> p = LinkPair(r, i)
<1>0. /\ Foreign(O, r) /\ pairs = O \cup Row(r, n, k, x, z)
  BY DEF HasRow
<1> DEFINE J == Joined(r, k, x, z)
           P(i) == LinkPair(r, i)
<1>1. \A p \in pairs : p \in O \/ p = J \/ \E i \in k .. n - 1 : p = P(i)
  BY <1>0 DEF Row
<1>2. J \in pairs /\ \A i \in k .. n - 1 : P(i) \in pairs
  BY <1>0 DEF Row
<1>3. \A p \in O : \A i : Left(r, i) \notin p.ends /\ Right(r, i) \notin p.ends
  BY <1>0 DEF Foreign, Left, Right
<1>4. /\ J.ends = {Left(r, 0), Right(r, k - 1)}
      /\ \A i \in k .. n - 1 :
           /\ P(i).ends = {Left(r, i), Right(r, i)}
           /\ Left(r, 0) \notin P(i).ends
           /\ Right(r, k - 1) \notin P(i).ends
           /\ Left(r, i) \notin J.ends
           /\ \A j \in k .. n - 1 : j # i => Left(r, i) \notin P(j).ends
  <2>1. /\ J.ends = {Left(r, 0), Right(r, k - 1)}
        /\ \A i : P(i).ends = {Left(r, i), Right(r, i)}
    BY DEF Joined, LinkPair
  <2>2. \A i, j : /\ Left(r, i) = Left(r, j) => i = j
                  /\ Right(r, i) = Right(r, j) => i = j
                  /\ Left(r, i) # Right(r, j)
    BY DEF Left, Right
  <2>3. \A i \in k .. n - 1 : i # 0 /\ i # k - 1
    BY <1>0
  <2> HIDE DEF J, P
  <2> QED  BY <2>1, <2>2, <2>3
<1> HIDE DEF J, P
<1>5. \A p \in pairs : /\ Right(r, k - 1) \in p.ends <=> p = J
                       /\ Left(r, 0) \in p.ends <=> p = J
                       /\ \A i \in k .. n - 1 : Left(r, i) \in p.ends <=> p = P(i)
  BY <1>1, <1>2, <1>3, <1>4
<1> QED  BY <1>2, <1>5 DEF J, P

\* Of a row, and pairs of other routes, the joined pair is the only one at its two ends,
LEMMA JoinedFound ==
  ASSUME NEW pairs, NEW O, NEW r \in Nat, NEW n \in Nat, NEW k \in 1 .. n, NEW x, NEW z,
         HasRow(pairs, O, r, n, k, x, z)
  PROVE  /\ Joined(r, k, x, z) \in pairs
         /\ PairOf(pairs, Right(r, k - 1)) = Joined(r, k, x, z)
         /\ PairOf(pairs, Left(r, 0)) = Joined(r, k, x, z)
<1> DEFINE J == Joined(r, k, x, z)
<1>1. J \in pairs /\ \A p \in pairs : /\ Right(r, k - 1) \in p.ends <=> p = J
                                      /\ Left(r, 0) \in p.ends <=> p = J
  BY EndsOnce
<1> HIDE DEF J
<1> QED  BY <1>1 DEF PairOf, J

\* ... and the pair of the next link the only one at that link's left qubit.
LEMMA NextFound ==
  ASSUME NEW pairs, NEW O, NEW r \in Nat, NEW n \in Nat, NEW k \in 1 .. n, NEW x, NEW z,
         HasRow(pairs, O, r, n, k, x, z), k < n
  PROVE  /\ LinkPair(r, k) \in pairs
         /\ PairOf(pairs, Left(r, k)) = LinkPair(r, k)
<1> DEFINE P == LinkPair(r, k)
<1>1. k \in k .. n - 1
  OBVIOUS
<1>2. \A i \in k .. n - 1 :
        LinkPair(r, i) \in pairs /\ \A p \in pairs : Left(r, i) \in p.ends <=> p = LinkPair(r, i)
  BY EndsOnce
<1>3. P \in pairs /\ \A p \in pairs : Left(r, k) \in p.ends <=> p = P
  BY <1>1, <1>2
<1> HIDE DEF P
<1> QED  BY <1>3 DEF PairOf, P

\* A swap joins one more link.
LEMMA RowSwap ==
  ASSUME NEW pairs, NEW O, NEW r \in Nat, NEW n \in Nat, NEW k \in 1 .. n, NEW x, NEW z,
         HasRow(pairs, O, r, n, k, x, z),
         k < n, NEW a \in Bits, NEW b \in Bits
  PROVE  LET J == Joined(r, k, x, z)
             P == LinkPair(r, k)
             new == Joined(r, k + 1, a, b)
         IN HasRow((pairs \ {J, P}) \cup {new}, O, r, n, k + 1, a, b)
<1> DEFINE J == Joined(r, k, x, z)
           P(i) == LinkPair(r, i)
<1>0. /\ r \in Nat /\ n \in Nat /\ k \in 1 .. n /\ Foreign(O, r)
      /\ pairs = O \cup Row(r, n, k, x, z)
  BY DEF HasRow
<1>1. k \in k .. n - 1 /\ \A i : i \in k .. n - 1 <=> i = k \/ i \in k + 1 .. n - 1
  BY <1>0
<1>2. k \notin k + 1 .. n - 1
  BY <1>0
<1>3. \A p \in O : \A i : Left(r, i) \notin p.ends /\ Right(r, i) \notin p.ends
  BY <1>0 DEF Foreign, Left, Right
<1>4. /\ J.ends = {Left(r, 0), Right(r, k - 1)}
      /\ \A i \in k .. n - 1 :
           /\ P(i).ends = {Left(r, i), Right(r, i)}
           /\ Left(r, 0) \notin P(i).ends
           /\ Left(r, i) \notin J.ends
           /\ \A j \in k .. n - 1 : j # i => Left(r, i) \notin P(j).ends
  <2>1. /\ J.ends = {Left(r, 0), Right(r, k - 1)}
        /\ \A i : P(i).ends = {Left(r, i), Right(r, i)}
    BY DEF Joined, LinkPair
  <2>2. \A i, j : /\ Left(r, i) = Left(r, j) => i = j
                  /\ Left(r, i) # Right(r, j)
    BY DEF Left, Right
  <2>3. \A i \in k .. n - 1 : i # 0
    BY <1>0
  <2> HIDE DEF J, P
  <2> QED  BY <2>1, <2>2, <2>3
<1>5. J \notin O /\ P(k) \notin O /\ \A i \in k + 1 .. n - 1 : P(i) # J /\ P(i) # P(k)
  <2> HIDE DEF J, P
  <2>1. Left(r, 0) \in J.ends /\ \A i \in k .. n - 1 : Left(r, i) \in P(i).ends
    BY <1>4
  <2> QED  BY <1>1, <1>2, <1>3, <1>4, <2>1
<1>6. /\ Row(r, n, k, x, z) = {J} \cup {P(k)} \cup {P(i) : i \in k + 1 .. n - 1}
      /\ Row(r, n, k + 1, a, b) = {Joined(r, k + 1, a, b)} \cup {P(i) : i \in k + 1 .. n - 1}
  BY <1>1 DEF Row
<1>7. (pairs \ {J, P(k)}) \cup {Joined(r, k + 1, a, b)} = O \cup Row(r, n, k + 1, a, b)
  <2> HIDE DEF J, P
  <2> QED  BY <1>0, <1>5, <1>6
<1>8. k + 1 \in 1 .. n
  BY <1>0
<1> QED  BY <1>0, <1>7, <1>8 DEF HasRow

\* The qubits that are left.
LEMMA QubitsSwap ==
  ASSUME NEW r \in Nat, NEW n \in Nat, NEW k \in 1 .. n, k < n
  PROVE  LET gone == {Right(r, k - 1), Left(r, k)}
         IN /\ ({Left(r, 0), Right(r, k - 1)} \cup {Left(r, k), Right(r, k)}) \ gone
                 = {Left(r, 0), Right(r, k)}
            /\ RowQubits(r, n, k) \ gone = RowQubits(r, n, k + 1)
            /\ gone \subseteq RowQubits(r, n, k)
<1> DEFINE gone == {Right(r, k - 1), Left(r, k)}
<1>1. k \in k .. n - 1 /\ \A i : i \in k .. n - 1 <=> i = k \/ i \in k + 1 .. n - 1
  OBVIOUS
<1>8. \A i, j : /\ Left(r, i) = Left(r, j) => i = j
                /\ Right(r, i) = Right(r, j) => i = j
                /\ Left(r, i) # Right(r, j)
  BY DEF Left, Right
<1>9. ({Left(r, 0), Right(r, k - 1)} \cup {Left(r, k), Right(r, k)}) \ gone
        = {Left(r, 0), Right(r, k)}
  <2>1. k # 0 /\ k # k - 1
    OBVIOUS
  <2> QED  BY <1>8, <2>1
<1>10. RowQubits(r, n, k) \ gone = RowQubits(r, n, k + 1) /\ gone \subseteq RowQubits(r, n, k)
  <2> DEFINE Q(i) == {Left(r, i), Right(r, i)}
             rest == UNION {Q(i) : i \in k + 1 .. n - 1}
  <2>1. \A m : QubitsOf({r} \X (m .. n - 1)) = UNION {Q(i) : i \in m .. n - 1}
    BY LinksQubits
  <2>2. UNION {Q(i) : i \in k .. n - 1} = Q(k) \cup rest
    BY <1>1
  <2>3. /\ RowQubits(r, n, k) = {Left(r, 0), Right(r, k - 1)} \cup Q(k) \cup rest
        /\ RowQubits(r, n, k + 1) = {Left(r, 0), Right(r, k)} \cup rest
    <3>1. k + 1 - 1 = k
      OBVIOUS
    <3>2. /\ QubitsOf({r} \X (k .. n - 1)) = Q(k) \cup rest
          /\ QubitsOf({r} \X (k + 1 .. n - 1)) = rest
      BY Zenon, <2>1, <2>2
    <3>3. RowQubits(r, n, k) = {Left(r, 0), Right(r, k - 1)} \cup QubitsOf({r} \X (k .. n - 1))
      BY DEF RowQubits
    <3>4. RowQubits(r, n, k + 1)
            = {Left(r, 0), Right(r, k)} \cup QubitsOf({r} \X (k + 1 .. n - 1))
      BY <3>1 DEF RowQubits
    <3> HIDE DEF Q, rest
    <3> QED  BY <3>2, <3>3, <3>4
  <2>4. \A q \in rest : q \notin gone
    <3>1. \A i \in k + 1 .. n - 1 : i # k /\ i # k - 1
      OBVIOUS
    <3> QED  BY <1>8, <3>1
  <2>5. Left(r, 0) \notin gone /\ Right(r, k) \notin gone
    BY <1>8
  <2> HIDE DEF rest
  <2> QED  BY <2>3, <2>4, <2>5
<1> QED  BY <1>9, <1>10

\* A correction changes the operator of the joined pair only.
LEMMA RowCorrected ==
  ASSUME NEW pairs, NEW O, NEW r \in Nat, NEW n \in Nat, NEW k \in 1 .. n, NEW x, NEW z,
         HasRow(pairs, O, r, n, k, x, z),
         NEW a \in Bits, NEW b \in Bits
  PROVE  HasRow((pairs \ {Joined(r, k, x, z)}) \cup {Joined(r, k, a, b)}, O, r, n, k, a, b)
<1> DEFINE J == Joined(r, k, x, z)
           P(i) == LinkPair(r, i)
<1>0. /\ r \in Nat /\ n \in Nat /\ k \in 1 .. n /\ Foreign(O, r)
      /\ pairs = O \cup Row(r, n, k, x, z)
  BY DEF HasRow
<1>1. Left(r, 0) \in J.ends /\ \A i \in k .. n - 1 : Left(r, 0) \notin P(i).ends
  <2>1. /\ J.ends = {Left(r, 0), Right(r, k - 1)}
        /\ \A i : P(i).ends = {Left(r, i), Right(r, i)}
    BY DEF Joined, LinkPair
  <2>2. \A i : Left(r, i) # Right(r, i) /\ (Left(r, i) = Left(r, 0) => i = 0)
             /\ Left(r, 0) # Right(r, i)
    BY DEF Left, Right
  <2>3. \A i \in k .. n - 1 : i # 0
    BY <1>0
  <2> HIDE DEF J, P
  <2> QED  BY <2>1, <2>2, <2>3
<1>2. J \notin O
  BY <1>0, <1>1 DEF Foreign, Left
<1> HIDE DEF J, P
<1>3. \A i \in k .. n - 1 : P(i) # J
  BY <1>1
<1>4. /\ Row(r, n, k, x, z) = {J} \cup {P(i) : i \in k .. n - 1}
      /\ Row(r, n, k, a, b) = {Joined(r, k, a, b)} \cup {P(i) : i \in k .. n - 1}
  BY DEF Row, J, P
<1>5. (pairs \ {J}) \cup {Joined(r, k, a, b)} = O \cup Row(r, n, k, a, b)
  BY <1>0, <1>2, <1>3, <1>4
<1> QED  BY <1>0, <1>5 DEF J, HasRow

\* The links as they are made, and the route as it ends.
LEMMA RowOfLinks ==
  ASSUME NEW r \in Nat, NEW n \in Nat, n > 0
  PROVE  /\ {LinkPair(l[1], l[2]) : l \in {r} \X (0 .. n - 1)} = Row(r, n, 1, 0, 0)
         /\ QubitsOf({r} \X (0 .. n - 1)) = RowQubits(r, n, 1)
         /\ \A x, z : Row(r, n, n, x, z) = {Joined(r, n, x, z)}
         /\ RowQubits(r, n, n) = {Left(r, 0), Right(r, n - 1)}
<1>1. \A i : i \in 0 .. n - 1 <=> i = 0 \/ i \in 1 .. n - 1
  OBVIOUS
<1>2. LinkPair(r, 0) = Joined(r, 1, 0, 0)
  BY DEF LinkPair, Joined
<1>3. {LinkPair(l[1], l[2]) : l \in {r} \X (0 .. n - 1)} = {LinkPair(r, i) : i \in 0 .. n - 1}
  BY LinksQubits
<1>4. {LinkPair(r, i) : i \in 0 .. n - 1} = Row(r, n, 1, 0, 0)
  BY <1>1, <1>2 DEF Row
<1>5. QubitsOf({r} \X (0 .. n - 1)) = RowQubits(r, n, 1)
  <2>1. QubitsOf({r} \X (0 .. n - 1))
          = {Left(r, 0), Right(r, 0)} \cup QubitsOf({r} \X (1 .. n - 1))
    <3> DEFINE Q(i) == {Left(r, i), Right(r, i)}
    <3>1. UNION {Q(i) : i \in 0 .. n - 1} = Q(0) \cup UNION {Q(i) : i \in 1 .. n - 1}
      BY <1>1
    <3> QED  BY <3>1, LinksQubits
  <2>2. 1 - 1 = 0
    OBVIOUS
  <2> QED  BY <2>1, <2>2, Zenon DEF RowQubits
<1>6. n .. n - 1 = {}
  OBVIOUS
<1>7. QubitsOf({r} \X {}) = {}
  <2>1. {r} \X {} = {}
    OBVIOUS
  <2> QED  BY <2>1 DEF QubitsOf
<1> QED  BY <1>3, <1>4, <1>5, <1>6, <1>7 DEF Row, RowQubits

(***************************************************************************)
(* The physical entity                                                     *)
(***************************************************************************)
LEMMA ClockType ==
  ASSUME NEW S \in SUBSET RouteQubits, NEW f, f = [q \in S |-> f[q]], \A q \in S : f[q] \in Int
  PROVE  f \in Clocks
<1>1. f \in [S -> Int]
  BY Zenon
<1> QED  BY <1>1 DEF Clocks

\* What a clock holds are qubits and times.
LEMMA ClockFields ==
  ASSUME NEW c \in Clocks
  PROVE  /\ DOMAIN c \subseteq RouteQubits
         /\ \A q \in DOMAIN c : c[q] \in Int
BY DEF Clocks

\* Setting a clock gives a clock.
LEMMA StampedClock ==
  ASSUME NEW c \in Clocks, NEW S \in SUBSET RouteQubits, NEW t \in Int
  PROVE  /\ Stamped(c, S, t) \in Clocks
         /\ DOMAIN Stamped(c, S, t) = DOMAIN c \cup S
         /\ \A q \in DOMAIN c \cup S : Stamped(c, S, t)[q] = IF q \in S THEN t ELSE c[q]
<1>1. DOMAIN c \subseteq RouteQubits /\ \A q \in DOMAIN c : c[q] \in Int
  BY ClockFields
<1> DEFINE D == DOMAIN c \cup S
           f == [q \in D |-> IF q \in S THEN t ELSE c[q]]
<1>2. f \in [D -> Int]
  BY <1>1
<1>3. f \in Clocks
  BY <1>1, <1>2 DEF Clocks
<1> QED  BY <1>3 DEF Stamped

\* Noting a wait gives a clock.
LEMMA WaitedClock ==
  ASSUME NEW s \in Labs, time \in Int, NEW S \in SUBSET (DOMAIN s.born)
  PROVE  /\ Waited(s, S) \in Clocks
         /\ DOMAIN Waited(s, S) = DOMAIN s.waited \cup S
         /\ \A q \in DOMAIN s.waited \cup S :
              Waited(s, S)[q] = IF q \in S THEN time - s.born[q] ELSE s.waited[q]
<1>1. s.waited \in Clocks /\ s.born \in Clocks
  BY DEF Labs
<1>2. /\ DOMAIN s.waited \subseteq RouteQubits /\ \A q \in DOMAIN s.waited : s.waited[q] \in Int
      /\ DOMAIN s.born \subseteq RouteQubits /\ \A q \in DOMAIN s.born : s.born[q] \in Int
  BY <1>1, ClockFields
<1> DEFINE D == DOMAIN s.waited \cup S
           f == [q \in D |-> IF q \in S THEN time - s.born[q] ELSE s.waited[q]]
<1>3. f \in [D -> Int]
  BY <1>2
<1>4. D \in SUBSET RouteQubits
  BY <1>2
<1>5. f \in Clocks
  BY <1>3, <1>4 DEF Clocks
<1> QED  BY <1>5 DEF Waited

\* EnsureAllDecoherence fails only for names that are out of date and not valid.
LEMMA SweptLab ==
  ASSUME NEW s \in Labs, time \in Int
  PROVE  LET t == Swept(s)
         IN /\ t \in Labs
            /\ t.pairs = s.pairs /\ t.live = s.live /\ t.born = s.born /\ t.waited = s.waited
            /\ DOMAIN t.memory = DOMAIN s.memory
            /\ t.failed \in {s.failed, "stale"}
            /\ DOMAIN s.memory \subseteq s.live \/ (\A q \in DOMAIN s.memory : s.memory[q] = time)
                 => t.failed = s.failed /\ \A q \in DOMAIN t.memory : t.memory[q] = time
<1>1. /\ s.memory \in Clocks
      /\ DOMAIN s.memory \subseteq RouteQubits
      /\ \A q \in DOMAIN s.memory : s.memory[q] \in Int
  BY ClockFields DEF Labs
<1> DEFINE stale == \E q \in DOMAIN s.memory \ s.live : s.memory[q] < time
           m == [q \in DOMAIN s.memory |-> time]
<1>2. m \in Clocks
  BY <1>1 DEF Clocks
<1>3. CASE stale
  <2>1. Swept(s) = [s EXCEPT !.failed = "stale"]
    BY <1>3 DEF Swept
  <2>2. ~ (DOMAIN s.memory \subseteq s.live)
        /\ ~ (\A q \in DOMAIN s.memory : s.memory[q] = time)
    BY <1>3
  <2> HIDE DEF stale
  <2>3. [s EXCEPT !.failed = "stale"] \in Labs
    BY DEF Labs
  <2>4. LET t == [s EXCEPT !.failed = "stale"]
        IN /\ t.pairs = s.pairs /\ t.live = s.live /\ t.born = s.born /\ t.waited = s.waited
           /\ t.memory = s.memory /\ t.failed = "stale"
    BY DEF Labs
  <2> QED  BY <2>1, <2>2, <2>3, <2>4
<1>4. CASE ~ stale
  <2>1. Swept(s) = [s EXCEPT !.memory = m]
    BY <1>4 DEF Swept
  <2> HIDE DEF stale
  <2>2. DOMAIN m = DOMAIN s.memory /\ \A q \in DOMAIN m : m[q] = time
    OBVIOUS
  <2> HIDE DEF m
  <2> QED  BY <1>2, <2>1, <2>2 DEF Labs
<1> QED  BY <1>3, <1>4

\* An outcome and its correction together change nothing.
LEMMA Parity ==
  ASSUME NEW a \in Bits, NEW b \in Bits
  PROVE  /\ (a + b) % 2 \in Bits /\ (a + 0 + b) % 2 = (a + b) % 2
         /\ (a + a) % 2 = 0 /\ (0 + a) % 2 = a
BY DEF Bits

\* The entity t is s when the operands of swap k of route r have been measured in the
\* name of o.
HasMeasured(t, s, O, r, n, k, x, z, o) ==
  LET gone == {Right(r, k - 1), Left(r, k)}
  IN /\ HasRow(t.pairs, O, r, n, k + 1, x, z)
     /\ t.live = s.live \ gone /\ t.born = s.born /\ t.memory = Swept(s).memory
     /\ gone \subseteq DOMAIN s.born /\ t.waited = Waited(s, gone)
     /\ t.failed = IF Owned(s, o, gone) THEN Swept(s).failed ELSE "owner"

\* A Bell measurement joins the next link of its route.
LEMMA BellMeasuredLab ==
  ASSUME NEW s \in Labs, time \in Int, AllBorn(s),
         NEW O, NEW r \in Nat, NEW n \in Nat, NEW k \in 1 .. n, NEW x \in Bits, NEW z \in Bits,
         HasRow(s.pairs, O, r, n, k, x, z), k < n,
         NEW a \in Bits, NEW b \in Bits, NEW o
  PROVE  LET t == BellMeasured(s, o, Right(r, k - 1), Left(r, k), a, b)
         IN t \in Labs /\ AllBorn(t) /\ HasMeasured(t, s, O, r, n, k, (x + a) % 2, (z + b) % 2, o)
<1> DEFINE J == Joined(r, k, x, z)
           P == LinkPair(r, k)
           gone == {Right(r, k - 1), Left(r, k)}
           new == Joined(r, k + 1, (x + a) % 2, (z + b) % 2)
           w == Swept(s)
           t == BellMeasured(s, o, Right(r, k - 1), Left(r, k), a, b)
<1>1. /\ PairOf(s.pairs, Right(r, k - 1)) = J /\ PairOf(s.pairs, Left(r, k)) = P
      /\ J \in s.pairs /\ P \in s.pairs
  <2> DEFINE pairs == s.pairs
  <2> HIDE DEF pairs
  <2>1. HasRow(pairs, O, r, n, k, x, z)
    BY DEF pairs
  <2>2. /\ PairOf(pairs, Right(r, k - 1)) = J /\ PairOf(pairs, Left(r, k)) = P
        /\ J \in pairs /\ P \in pairs
    BY <2>1, JoinedFound, NextFound
  <2> QED  BY <2>2 DEF pairs
<1>3. /\ J.ends = {Left(r, 0), Right(r, k - 1)} /\ J.x = x /\ J.z = z
      /\ P.ends = {Left(r, k), Right(r, k)} /\ P.x = 0 /\ P.z = 0
  BY DEF Joined, LinkPair
<1>5. (x + a) % 2 \in Bits /\ (z + b) % 2 \in Bits
      /\ (x + 0 + a) % 2 = (x + a) % 2 /\ (z + 0 + b) % 2 = (z + b) % 2
  BY Parity
<1>4. HasRow((s.pairs \ {J, P}) \cup {new}, O, r, n, k + 1, (x + a) % 2, (z + b) % 2)
  BY <1>5, RowSwap
<1>6. k + 1 - 1 = k
  OBVIOUS
<1>2. (J.ends \cup P.ends) \ gone = {Left(r, 0), Right(r, k)}
  <2>1. J.ends \cup P.ends = {Left(r, 0), Right(r, k - 1)} \cup {Left(r, k), Right(r, k)}
    BY <1>3
  <2> QED  BY Zenon, <2>1, QubitsSwap
<1>7. [ends |-> (J.ends \cup P.ends) \ gone, x |-> (J.x + P.x + a) % 2, z |-> (J.z + P.z + b) % 2]
        = new
  <2> HIDE DEF J, P, gone
  <2>1. new = [ends |-> {Left(r, 0), Right(r, k)}, x |-> (x + a) % 2, z |-> (z + b) % 2]
    BY <1>6 DEF Joined
  <2> HIDE DEF new
  <2> QED  BY <1>2, <1>3, <1>5, <2>1
<1>8. J.ends \subseteq DOMAIN s.born /\ P.ends \subseteq DOMAIN s.born
  BY <1>1 DEF AllBorn
<1>9. gone \subseteq DOMAIN s.born /\ new.ends \subseteq DOMAIN s.born
  <2>1. new.ends = {Left(r, 0), Right(r, k + 1 - 1)}
    BY DEF Joined
  <2>2. new.ends = {Left(r, 0), Right(r, k)}
    BY <1>6, <2>1
  <2> HIDE DEF new, J, P
  <2> QED  BY <1>3, <1>8, <2>2
<1>10. Waited(s, gone) \in Clocks
  BY <1>9, WaitedClock
<1>11. /\ w \in Labs
       /\ w.pairs = s.pairs /\ w.live = s.live /\ w.born = s.born
  BY SweptLab
<1>12. new \in PairType
  <2>1. k + 1 \in 1 .. n
    OBVIOUS
  <2>2. new \in Row(r, n, k + 1, (x + a) % 2, (z + b) % 2)
    BY DEF Row
  <2> QED  BY <1>5, <2>1, <2>2, RowPairs
<1> DEFINE f == IF Owned(s, o, gone) THEN w.failed ELSE "owner"
<1>13. t = [w EXCEPT !.pairs = (@ \ {J, P}) \cup {new}, !.live = @ \ gone,
                     !.waited = Waited(s, gone), !.failed = f]
  <2> HIDE DEF w, J, P, new
  <2> QED  BY <1>1, <1>7 DEF BellMeasured, w
<1>14. f \in {"nothing", "stale", "owner"}
  <2>1. w.failed \in {"nothing", "stale", "owner"}
    BY <1>11 DEF Labs
  <2> HIDE DEF w
  <2> QED  BY Zenon, <2>1
<1> HIDE DEF J, P, new, w, f, t, gone
<1>15. /\ t \in Labs /\ t.pairs = (s.pairs \ {J, P}) \cup {new} /\ t.live = s.live \ gone
       /\ t.born = s.born /\ t.memory = w.memory /\ t.waited = Waited(s, gone) /\ t.failed = f
  BY <1>10, <1>11, <1>12, <1>13, <1>14 DEF Labs
<1>16. HasRow(t.pairs, O, r, n, k + 1, (x + a) % 2, (z + b) % 2)
  BY <1>4, <1>15
<1>17. AllBorn(t)
  BY <1>9, <1>15 DEF AllBorn
<1>18. HasMeasured(t, s, O, r, n, k, (x + a) % 2, (z + b) % 2, o)
  BY <1>9, <1>15, <1>16 DEF f, w, gone, HasMeasured
<1> QED  BY <1>15, <1>17, <1>18 DEF t

\* The entity t is s with the last joined qubit of route r corrected in the name of o.
HasCorrected(t, s, O, r, n, k, x, z, o) ==
  /\ HasRow(t.pairs, O, r, n, k, x, z)
  /\ t.live = s.live /\ t.born = s.born /\ t.memory = s.memory /\ t.waited = s.waited
  /\ t.failed = IF Owned(s, o, {Right(r, k - 1)}) THEN s.failed ELSE "owner"

\* A correction changes the joined pair, and asks who owns its end.
LEMMA CorrectedLab ==
  ASSUME NEW s \in Labs, AllBorn(s),
         NEW O, NEW r \in Nat, NEW n \in Nat, NEW k \in 1 .. n, NEW x \in Bits, NEW z \in Bits,
         HasRow(s.pairs, O, r, n, k, x, z),
         NEW a \in Bits, NEW b \in Bits, NEW o
  PROVE  LET t == Corrected(s, o, Right(r, k - 1), a, b)
         IN t \in Labs /\ AllBorn(t) /\ HasCorrected(t, s, O, r, n, k, (x + a) % 2, (z + b) % 2, o)
<1> DEFINE J == Joined(r, k, x, z)
           new == Joined(r, k, (x + a) % 2, (z + b) % 2)
           t == Corrected(s, o, Right(r, k - 1), a, b)
           f == IF Owned(s, o, {Right(r, k - 1)}) THEN s.failed ELSE "owner"
<1>1. PairOf(s.pairs, Right(r, k - 1)) = J /\ J \in s.pairs
  <2> DEFINE pairs == s.pairs
  <2> HIDE DEF pairs
  <2>1. HasRow(pairs, O, r, n, k, x, z)
    BY DEF pairs
  <2>2. PairOf(pairs, Right(r, k - 1)) = J /\ J \in pairs
    BY <2>1, JoinedFound
  <2> QED  BY <2>2 DEF pairs
<1>2. new = [ends |-> J.ends, x |-> (J.x + a) % 2, z |-> (J.z + b) % 2]
  <2>1. J.ends = {Left(r, 0), Right(r, k - 1)} /\ J.x = x /\ J.z = z
    BY DEF Joined
  <2> HIDE DEF J
  <2> QED  BY <2>1 DEF Joined
<1>3. new.ends = J.ends
  BY DEF Joined
<1>4. J.ends \subseteq DOMAIN s.born
  BY <1>1 DEF AllBorn
<1>5. (x + a) % 2 \in Bits /\ (z + b) % 2 \in Bits
  BY Parity
<1>6. new \in PairType
  <2>1. new \in Row(r, n, k, (x + a) % 2, (z + b) % 2)
    BY DEF Row
  <2> QED  BY <1>5, <2>1, RowPairs
<1>7. HasRow((s.pairs \ {J}) \cup {new}, O, r, n, k, (x + a) % 2, (z + b) % 2)
  BY <1>5, RowCorrected
<1>8. f \in {"nothing", "stale", "owner"}
  <2>1. s.failed \in {"nothing", "stale", "owner"}
    BY DEF Labs
  <2> QED  BY Zenon, <2>1
<1>9. t = [s EXCEPT !.pairs = (@ \ {J}) \cup {new}, !.failed = f]
  <2> HIDE DEF J, new
  <2> QED  BY <1>1, <1>2 DEF Corrected
<1> HIDE DEF J, new, t, f
<1>10. /\ t \in Labs /\ t.pairs = (s.pairs \ {J}) \cup {new} /\ t.failed = f
       /\ t.live = s.live /\ t.born = s.born /\ t.memory = s.memory /\ t.waited = s.waited
  BY <1>6, <1>8, <1>9 DEF Labs
<1>11. AllBorn(t)
  BY <1>3, <1>4, <1>10 DEF AllBorn
<1>12. HasCorrected(t, s, O, r, n, k, (x + a) % 2, (z + b) % 2, o)
  BY <1>7, <1>10 DEF f, HasCorrected
<1> QED  BY <1>10, <1>11, <1>12 DEF t

\* What the other operations on the entity change.
LEMMA EvaluatedLab ==
  ASSUME NEW s \in Labs, AllBorn(s), time \in Int, NEW r, Ends(r) \subseteq DOMAIN s.born
  PROVE  LET t == Evaluated(s, r)
         IN /\ t \in Labs /\ AllBorn(t)
            /\ t.pairs = s.pairs /\ t.live = s.live /\ t.born = s.born
            /\ t.memory = Swept(s).memory /\ t.failed = Swept(s).failed
            /\ t.waited = Waited(s, Ends(r))
<1> DEFINE w == Swept(s)
           c == Waited(s, Ends(r))
<1>1. w \in Labs /\ w.pairs = s.pairs /\ w.live = s.live /\ w.born = s.born
  BY SweptLab
<1>2. c \in Clocks
  BY WaitedClock
<1>3. Evaluated(s, r) = [w EXCEPT !.waited = c]
  BY DEF Evaluated
<1> HIDE DEF w, c
<1> DEFINE t == [w EXCEPT !.waited = c]
<1>4. /\ t \in Labs /\ t.pairs = w.pairs /\ t.live = w.live /\ t.born = w.born
      /\ t.memory = w.memory /\ t.failed = w.failed /\ t.waited = c
  BY <1>1, <1>2 DEF Labs
<1> HIDE DEF t
<1>5. AllBorn(t)
  BY <1>1, <1>4 DEF AllBorn
<1> QED  BY <1>1, <1>3, <1>4, <1>5 DEF w, c, t

\* The ends of a route are traced (CalculatePhysicalFidelity).
LEMMA EndsTracedLab ==
  ASSUME NEW s \in Labs, AllBorn(s), NEW r
  PROVE  LET t == EndsTraced(s, r)
         IN /\ t \in Labs /\ AllBorn(t)
            /\ t.pairs = {p \in s.pairs : p.ends # Ends(r)}
            /\ t.memory = s.memory /\ t.born = s.born /\ t.failed = s.failed
<1> DEFINE P == {p \in s.pairs : p.ends # Ends(r)}
           L == s.live \ Ends(r)
           t == [s EXCEPT !.live = L, !.pairs = P]
<1>1. EndsTraced(s, r) = t
  BY DEF EndsTraced
<1>2. P \subseteq s.pairs /\ L \subseteq s.live
  OBVIOUS
<1> HIDE DEF P, L
<1>3. /\ t \in Labs /\ t.pairs = P
      /\ t.memory = s.memory /\ t.born = s.born /\ t.failed = s.failed
  BY <1>2 DEF Labs
<1>4. AllBorn(t)
  BY <1>2, <1>3 DEF AllBorn
<1> QED  BY <1>1, <1>3, <1>4 DEF P

\* Names leave the memories (RemoveQubit).
LEMMA RemovedLab ==
  ASSUME NEW s \in Labs, AllBorn(s), NEW S
  PROVE  LET t == RemoveQubits(s, S)
         IN /\ t \in Labs /\ AllBorn(t)
            /\ t.pairs = s.pairs /\ t.live = s.live /\ t.born = s.born /\ t.waited = s.waited
            /\ t.failed = s.failed /\ DOMAIN t.memory = DOMAIN s.memory \ S
<1> DEFINE D == DOMAIN s.memory \ S
           m == [q \in D |-> s.memory[q]]
           t == [s EXCEPT !.memory = m]
<1>1. s.memory \in Clocks
  BY DEF Labs
<1>2. D \subseteq RouteQubits /\ \A q \in D : s.memory[q] \in Int
  BY <1>1, ClockFields
<1>3. m \in Clocks /\ DOMAIN m = D
  <2>1. DOMAIN m = D /\ m \in [D -> Int]
    BY <1>2
  <2>2. D \in SUBSET RouteQubits
    BY <1>2
  <2> HIDE DEF m, D
  <2> QED  BY <2>1, <2>2 DEF Clocks
<1>4. RemoveQubits(s, S) = t
  BY DEF RemoveQubits
<1> HIDE DEF m
<1>5. /\ t \in Labs
      /\ t.pairs = s.pairs /\ t.live = s.live /\ t.born = s.born /\ t.waited = s.waited
      /\ t.failed = s.failed /\ t.memory = m
  BY <1>3 DEF Labs
<1>6. AllBorn(t)
  BY <1>5 DEF AllBorn
<1> QED  BY <1>3, <1>4, <1>5, <1>6

\* The entity u is s with the pairs of the links in L, made at time t.
Adds(u, s, L, t) ==
  /\ u.pairs = s.pairs \cup {LinkPair(l[1], l[2]) : l \in L}
  /\ u.live = s.live \cup QubitsOf(L)
  /\ DOMAIN u.memory = DOMAIN s.memory \cup QubitsOf(L)
  /\ DOMAIN u.born = DOMAIN s.born \cup QubitsOf(L)
  /\ \A q \in DOMAIN u.memory : u.memory[q] = IF q \in QubitsOf(L) THEN t ELSE s.memory[q]
  /\ \A q \in DOMAIN u.born : u.born[q] = IF q \in QubitsOf(L) THEN t ELSE s.born[q]
  /\ u.waited = s.waited /\ u.failed = s.failed

\* Links get their pairs (GenerateQubitsMixed, GenerateQubitsPure).
LEMMA GeneratedLab ==
  ASSUME NEW s \in Labs, AllBorn(s), NEW L \in SUBSET (Nat \X Nat), NEW t \in Nat
  PROVE  LET u == Generated(s, L, t)
         IN u \in Labs /\ AllBorn(u) /\ Adds(u, s, L, t)
<1> DEFINE Q == QubitsOf(L)
           P == {LinkPair(l[1], l[2]) : l \in L}
           m == Stamped(s.memory, Q, t)
           b == Stamped(s.born, Q, t)
           u == [s EXCEPT !.pairs = @ \cup P, !.live = @ \cup Q, !.memory = m, !.born = b]
<1>1. \A l \in L : l[1] \in Nat /\ l[2] \in Nat
  OBVIOUS
<1>2. Q \in SUBSET RouteQubits
  BY <1>1 DEF QubitsOf, RouteQubits
<1>3. \A l \in L : LinkPair(l[1], l[2]) \in PairType /\ LinkPair(l[1], l[2]).ends \subseteq Q
  <2> SUFFICES ASSUME NEW l \in L
               PROVE  LinkPair(l[1], l[2]) \in PairType /\ LinkPair(l[1], l[2]).ends \subseteq Q
    OBVIOUS
  <2>1. Left(l[1], l[2]) \in Q /\ Right(l[1], l[2]) \in Q
    BY DEF QubitsOf, Left, Right
  <2> HIDE DEF Q
  <2> QED  BY <1>2, <2>1 DEF LinkPair, PairType, Bits
<1>4. P \subseteq PairType
  BY <1>3
<1>5. s.memory \in Clocks /\ s.born \in Clocks
  BY DEF Labs
<1>6. /\ m \in Clocks /\ DOMAIN m = DOMAIN s.memory \cup Q
      /\ \A q \in DOMAIN s.memory \cup Q : m[q] = IF q \in Q THEN t ELSE s.memory[q]
      /\ b \in Clocks /\ DOMAIN b = DOMAIN s.born \cup Q
      /\ \A q \in DOMAIN s.born \cup Q : b[q] = IF q \in Q THEN t ELSE s.born[q]
  <2> DEFINE c == s.memory
             d == s.born
  <2> HIDE DEF c, d, Q
  <2>1. c \in Clocks /\ d \in Clocks /\ t \in Int
    BY <1>5 DEF c, d
  <2>2. /\ Stamped(c, Q, t) \in Clocks /\ DOMAIN Stamped(c, Q, t) = DOMAIN c \cup Q
        /\ \A q \in DOMAIN c \cup Q : Stamped(c, Q, t)[q] = IF q \in Q THEN t ELSE c[q]
    BY <1>2, <2>1, StampedClock
  <2>3. /\ Stamped(d, Q, t) \in Clocks /\ DOMAIN Stamped(d, Q, t) = DOMAIN d \cup Q
        /\ \A q \in DOMAIN d \cup Q : Stamped(d, Q, t)[q] = IF q \in Q THEN t ELSE d[q]
    BY <1>2, <2>1, StampedClock
  <2> QED  BY <2>2, <2>3 DEF c, d
<1>7. Generated(s, L, t) = u
  BY DEF Generated
<1>8. \A p \in P : p.ends \subseteq Q
  BY <1>3
<1> HIDE DEF P, Q, m, b
<1>9. /\ u \in Labs /\ u.pairs = s.pairs \cup P /\ u.live = s.live \cup Q
      /\ u.memory = m /\ u.born = b /\ u.waited = s.waited /\ u.failed = s.failed
  BY <1>2, <1>4, <1>6 DEF Labs
<1>10. AllBorn(u)
  BY <1>6, <1>8, <1>9 DEF AllBorn
<1>11. Adds(u, s, L, t)
  <2> HIDE DEF u
  <2> QED  BY <1>6, <1>9 DEF Adds, P, Q
<1> QED  BY <1>7, <1>9, <1>10, <1>11

(***************************************************************************)
(* Events                                                                  *)
(***************************************************************************)
\* The event that runs.
LEMMA DueIsFirst ==
  ASSUME RouteTypeOK, events # {}, \A e, f \in events : e.uid = f.uid => e = f
  PROVE  due \in events /\ \A f \in events \ {due} : Precedes(due, f)
<1>1. \A e \in events : e.at \in Nat /\ e.uid \in Nat
  BY DEF RouteTypeOK, EventType
<1>2. \E e \in events : IsNext(e, events)
  BY <1>1, Earliest
<1>3. IsNext(due, events)
  BY <1>2, Zenon DEF due
<1> QED  BY <1>3 DEF IsNext

\* An event that is alone is due.
LEMMA DueAlone ==
  ASSUME NEW e, events = {e}
  PROVE  due = e /\ events \ {due} = {}
<1>1. IsNext(e, events) /\ \A f \in events : f = e
  BY DEF IsNext
<1> QED  BY <1>1 DEF due

\* What is awaited is due.
LEMMA Awaited ==
  ASSUME RouteTypeOK, NEW op, NEW r, NEW k, Awaits(op, r, k)
  PROVE  /\ events = {due} /\ due \in EventType /\ time \in Nat /\ time = due.at
         /\ due.op = op /\ due.r = r /\ due.k = k
<1>1. PICK e \in events : events = {e} /\ e.op = op /\ e.r = r /\ e.k = k
  BY DEF Awaits
<1>2. due = e
  BY <1>1, DueAlone
<1>3. e \in EventType
  BY DEF RouteTypeOK
<1> QED  BY <1>1, <1>2, <1>3 DEF time, EventType

\* A step that leaves the entity as it should be keeps the types.
LEMMA StepTypes ==
  ASSUME RouteTypeOK, NEW op, NEW after, NEW new, Runs(op, after, new),
         after \in Labs, AllBorn(after), new \subseteq EventType, new = {} \/ \E e : new = {e}
  PROVE  /\ RouteTypeOK' /\ play' = play /\ lab' = after /\ due.op = op
         /\ events' = IF after.failed = "nothing" THEN (events \ {due}) \cup new ELSE {}
         /\ issued' = IF new = {} THEN issued ELSE issued + 1
<1>1. /\ play' = play /\ lab' = after /\ due.op = op
      /\ events' = IF after.failed = "nothing" THEN (events \ {due}) \cup new ELSE {}
      /\ issued' = issued + Cardinality(new)
  BY DEF Runs
<1>2. Cardinality(new) = IF new = {} THEN 0 ELSE 1
  <2>1. CASE new = {}
    BY <2>1, FS_EmptySet
  <2>2. CASE \E e : new = {e}
    <3>1. PICK e : new = {e}
      BY <2>2
    <3>2. Cardinality(new) = 1
      BY Zenon, <3>1, FS_Singleton
    <3>3. new # {}
      BY <3>1
    <3> QED  BY <3>2, <3>3
  <2> QED  BY <2>1, <2>2
<1>3. issued \in Nat /\ play \in Plays /\ events \subseteq EventType
  BY DEF RouteTypeOK
<1>4. issued' = IF new = {} THEN issued ELSE issued + 1
  BY <1>1, <1>2, <1>3
<1>5. issued' \in Nat
  BY <1>3, <1>4
<1>6. events' \subseteq EventType
  BY <1>1, <1>3
<1>7. lab' \in Labs /\ AllBorn(lab')
  BY <1>1
<1>8. RouteTypeOK'
  BY <1>1, <1>3, <1>5, <1>6, <1>7 DEF RouteTypeOK, AllBorn
<1> QED  BY <1>1, <1>4, <1>8

\* The fields of an event.
IsEvent(e, t, n, op, r, k, x, z) ==
  /\ e \in EventType
  /\ e.at = t /\ e.uid = n /\ e.op = op /\ e.r = r /\ e.k = k /\ e.x = x /\ e.z = z

\* The fields of an event.
LEMMA EventFields ==
  ASSUME NEW t \in Nat, NEW n \in Nat, NEW r \in Nat, NEW k \in Nat,
         NEW op \in {"generate", "swap", "signal", "evaluate", "request", "hop", "finish",
                     "relay", "pivot", "wait"}
  PROVE  IsEvent(Event(t, n, op, r, k), t, n, op, r, k, 0, 0)
<1> DEFINE e == Event(t, n, op, r, k)
<1>1. e \in EventType
  BY DEF Event, EventType, Bits
<1>2. e.at = t /\ e.uid = n /\ e.op = op /\ e.r = r /\ e.k = k /\ e.x = 0 /\ e.z = 0
  BY DEF Event
<1> HIDE DEF e
<1>3. IsEvent(e, t, n, op, r, k, 0, 0)
  BY <1>1, <1>2 DEF IsEvent
<1> QED  BY <1>3 DEF e

\* Those of an event that carries outcomes.
LEMMA PacketFields ==
  ASSUME NEW t \in Nat, NEW n \in Nat, NEW r \in Nat, NEW k \in Nat,
         NEW op \in {"generate", "swap", "signal", "evaluate", "request", "hop", "finish",
                     "relay", "pivot", "wait"},
         NEW x \in Bits, NEW z \in Bits
  PROVE  IsEvent([Event(t, n, op, r, k) EXCEPT !.x = x, !.z = z], t, n, op, r, k, x, z)
<1> DEFINE e == Event(t, n, op, r, k)
           f == [e EXCEPT !.x = x, !.z = z]
<1>1. IsEvent(e, t, n, op, r, k, 0, 0)
  BY EventFields
<1> HIDE DEF e
<1>2. f \in EventType
  BY <1>1 DEF EventType, IsEvent
<1>3. /\ f.at = e.at /\ f.uid = e.uid /\ f.op = e.op /\ f.r = e.r /\ f.k = e.k
      /\ f.x = x /\ f.z = z
  BY <1>1 DEF EventType, IsEvent
<1> HIDE DEF f
<1>4. IsEvent(f, t, n, op, r, k, x, z)
  BY <1>1, <1>2, <1>3 DEF IsEvent
<1> QED  BY <1>4 DEF e, f

(***************************************************************************)
(* The study                                                               *)
(***************************************************************************)
\* What a step leaves alone with the simulation.
LEMMA SamePlay ==
  ASSUME play' = play
  PROVE  /\ \A r : Links(r)' = Links(r) /\ Ends(r)' = Ends(r)
         /\ \A r, i : Setup(r, i)' = Setup(r, i)
         /\ ChainStart' = ChainStart /\ \A k : SwapTime(k)' = SwapTime(k)
         /\ \A q : SwapsBefore(q)' = SwapsBefore(q)
<1>1. \A r : Links(r)' = Links(r)
  BY DEF Links
<1>2. \A r : Ends(r)' = Ends(r)
  BY <1>1, Zenon DEF Ends
<1>3. \A r, i : Setup(r, i)' = Setup(r, i)
  BY DEF Setup
<1>4. ChainStart' = ChainStart
  BY <1>1, <1>3 DEF ChainStart, TMax
<1>5. \A k : SwapTime(k)' = SwapTime(k)
  BY <1>4 DEF SwapTime
<1>6. \A q : SwapsBefore(q)' = SwapsBefore(q)
  BY <1>1, <1>2, Zenon DEF SwapsBefore
<1> QED  BY Zenon, <1>1, <1>2, <1>3, <1>4, <1>5, <1>6

\* The swaps are one signal apart.
LEMMA SwapTimes ==
  ASSUME play \in Plays, NEW k \in Nat, k > 0
  PROVE  /\ SwapTime(k) \in Nat
         /\ MilliSeconds(play.delays[1]) \in Nat
         /\ SwapTime(k + 1) = SwapTime(k) + MilliSeconds(play.delays[1])
         /\ SwapTime(1) = ChainStart
<1> DEFINE d == MilliSeconds(play.delays[1])
           c == ChainStart
<1>1. d \in Nat
  BY RouteFacts, Rounding
<1>2. c \in Nat
  BY ChainStartsLast
<1>3. \A j : SwapTime(j) = c + (j - 1) * d
  BY DEF SwapTime
<1> HIDE DEF d, c
<1>4. k - 1 \in Nat /\ k + 1 - 1 = (k - 1) + 1 /\ 1 - 1 = 0
  OBVIOUS
<1>5. (k - 1) * d \in Nat /\ ((k - 1) + 1) * d = (k - 1) * d + d /\ 0 * d = 0
  BY <1>1, <1>4
<1>6. SwapTime(k) = c + (k - 1) * d /\ SwapTime(1) = c
  BY <1>2, <1>3, <1>4, <1>5
<1>7. SwapTime(k + 1) = c + ((k - 1) * d + d)
  BY <1>3, <1>4, <1>5
<1>8. SwapTime(k) \in Nat /\ SwapTime(k + 1) = SwapTime(k) + d
  BY <1>1, <1>2, <1>5, <1>6, <1>7
<1> QED  BY <1>1, <1>6, <1>8 DEF d, c

\* The swap of relay k is the one that a qubit waits for.
LEMMA SwapOperands ==
  ASSUME NEW k \in Nat, k > 0, k < Links(1), Links(1) \in Nat
  PROVE  LET gone == {Right(1, k - 1), Left(1, k)}
         IN /\ Swapped(k + 1) = Swapped(k) \cup gone
            /\ \A q \in gone : SwapsBefore(q) + 1 = k
<1> DEFINE gone == {Right(1, k - 1), Left(1, k)}
<1>1. \A j : j \in 1 .. k + 1 - 1 <=> j \in 1 .. k - 1 \/ j = k
  OBVIOUS
<1>2. Swapped(k + 1) = Swapped(k) \cup gone
  BY <1>1 DEF Swapped
<1>3. /\ \A i, j : (Left(1, i) = Left(1, j) => i = j) /\ (Right(1, i) = Right(1, j) => i = j)
                   /\ Left(1, i) # Right(1, j)
      /\ \A i : Left(1, i)[2] = i /\ Left(1, i)[3] = "left"
      /\ \A i : Right(1, i)[2] = i /\ Right(1, i)[3] = "right" /\ Right(1, i)[3] # "left"
  BY DEF Left, Right
<1>4. Right(1, k - 1) \notin Ends(1) /\ Left(1, k) \notin Ends(1)
  <2>1. k # 0 /\ k - 1 # Links(1) - 1
    OBVIOUS
  <2> QED  BY <1>3, <2>1, Zenon DEF Ends
<1>5. SwapsBefore(Right(1, k - 1)) = k - 1 /\ SwapsBefore(Left(1, k)) = k - 1
  BY <1>3, <1>4, Zenon DEF SwapsBefore
<1>6. k - 1 + 1 = k
  OBVIOUS
<1> QED  BY <1>2, <1>5, <1>6

\* Every link is up: the chain of swaps may start.
LEMMA ChainBegins ==
  ASSUME play \in Plays, SetsUp({})
  PROVE  Swaps(1)
<1> DEFINE n == Links(1)
           up == {1} \X (0 .. n - 1)
           start == Event(ChainStart, n, IF n = 1 THEN "evaluate" ELSE "swap", 1, 1)
<1>1. n \in Nat /\ n > 0
  BY RouteFacts
<1>2. /\ events = {start} /\ lab.pairs = {LinkPair(l[1], l[2]) : l \in up}
      /\ lab.live = QubitsOf(up) /\ DOMAIN lab.waited = {} /\ Reports({})
  <2>1. (0 .. n - 1) \ {} = 0 .. n - 1
    OBVIOUS
  <2>2. {Event(MilliSeconds(Setup(1, i)), i, "generate", 1, i) : i \in {}} = {}
    OBVIOUS
  <2> HIDE DEF start
  <2> QED  BY <2>1, <2>2 DEF SetsUp, start
<1>3. lab.pairs = Row(1, n, 1, 0, 0) /\ lab.live = RowQubits(1, n, 1)
  <2> HIDE DEF n
  <2> QED  BY <1>1, <1>2, RowOfLinks
<1>4. Swapped(1) = {}
  <2>1. 1 .. 1 - 1 = {}
    OBVIOUS
  <2> QED  BY <2>1 DEF Swapped
<1>5. start.at = ChainStart /\ start.op = (IF 1 < n THEN "swap" ELSE "evaluate")
      /\ start.r = 1 /\ start.k = 1
  <2>1. n = 1 <=> ~ (1 < n)
    BY <1>1
  <2> QED  BY <2>1 DEF Event
<1>6. SwapTime(1) = ChainStart
  BY SwapTimes
<1> HIDE DEF start
<1> QED  BY <1>2, <1>3, <1>4, <1>5, <1>6 DEF Swaps, Awaits, AllDue

\* The first event of a study that sets up links.
LEMMA SetupIsFirst ==
  ASSUME RouteTypeOK, NEW G \in SUBSET (0 .. Links(1) - 1), SetsUp(G), G # {}
  PROVE  \E i \in G : /\ due = Event(MilliSeconds(Setup(1, i)), i, "generate", 1, i)
                      /\ due.uid # Links(1)
<1> DEFINE n == Links(1)
           g(i) == Event(MilliSeconds(Setup(1, i)), i, "generate", 1, i)
           start == Event(ChainStart, n, IF n = 1 THEN "evaluate" ELSE "swap", 1, 1)
<1>0. play \in Plays /\ n \in Nat
  BY RouteFacts DEF RouteTypeOK
<1>1. events = {g(i) : i \in G} \cup {start}
  BY DEF SetsUp
<1>2. /\ \A i : g(i).at = MilliSeconds(Setup(1, i)) /\ g(i).uid = i
      /\ start.at = ChainStart /\ start.uid = n
  BY DEF Event
<1>3. \A i \in G : i # n /\ i < n /\ i \in Nat
  BY <1>0
<1> HIDE DEF g, start
<1>4. \A e, f \in events : e.uid = f.uid => e = f
  BY <1>1, <1>2, <1>3
<1>5. due \in events /\ \A f \in events \ {due} : Precedes(due, f)
  BY <1>1, <1>4, DueIsFirst
<1>6. due # start
  <2> SUFFICES ASSUME due = start
               PROVE  FALSE
    OBVIOUS
  <2>1. PICK i \in G : TRUE
    OBVIOUS
  <2>2. g(i) \in events /\ g(i).uid # start.uid
    BY <1>1, <1>2, <1>3
  <2>3. Precedes(start, g(i))
    BY <1>5, <2>2
  <2>4. ChainStart < MilliSeconds(Setup(1, i)) \/ n < i
    BY <1>2, <2>3 DEF Precedes
  <2>5. /\ ChainStart \in Nat /\ MilliSeconds(Setup(1, i)) \in Nat
        /\ MilliSeconds(Setup(1, i)) <= ChainStart
    BY <1>0, ChainStartsLast
  <2> QED  BY <1>0, <1>3, <2>4, <2>5
<1>7. PICK i \in G : due = g(i)
  BY <1>1, <1>5, <1>6
<1> QED  BY <1>2, <1>3, <1>7 DEF g

\* A link is set up.
LEMMA StudySetsUp ==
  ASSUME RouteTypeOK, play.program = "study", StudyKept,
         NEW G \in SUBSET (0 .. Links(1) - 1), SetsUp(G), G # {}, RouteNext
  PROVE  RouteTypeOK' /\ StudyKept' /\ play' = play
<1> DEFINE n == Links(1)
           ms(j) == MilliSeconds(Setup(1, j))
           g(j) == Event(ms(j), j, "generate", 1, j)
           start == Event(ChainStart, n, IF n = 1 THEN "evaluate" ELSE "swap", 1, 1)
           up == {1} \X ((0 .. n - 1) \ G)
<1>0. /\ play \in Plays /\ n \in Nat /\ n > 0 /\ ChainStart \in Nat
      /\ \A j \in 0 .. n - 1 : ms(j) \in Nat
      /\ lab \in Labs /\ AllBorn(lab)
  BY RouteFacts, ChainStartsLast DEF RouteTypeOK
<1>1. PICK i \in G : due = g(i)
  BY SetupIsFirst
<1>2. i \in 0 .. n - 1 /\ i \in Nat
  BY <1>0
<1>3. /\ \A j : g(j).at = ms(j) /\ g(j).uid = j /\ g(j).op = "generate" /\ g(j).r = 1 /\ g(j).k = j
      /\ start.uid = n
  BY DEF Event
<1>4. due.op = "generate" /\ due.r = 1 /\ due.k = i /\ time = ms(i)
  BY <1>1, <1>3 DEF time
<1> HIDE DEF ms
<1>5. Generate
  BY <1>4 DEF RouteNext, Runs, Generate, ExecuteSwapStep, ContinueAfterSignal, Evaluate,
         StartRequest, SwapHop, FinishRequest, RelayAct, FinishPath, AfterWait
<1> DEFINE L == {<<1, i>>}
           u == Generated(lab, L, time)
           Q == QubitsOf(L)
<1>6. Runs("generate", u, {}) /\ results' = results
  BY <1>4, <1>5 DEF Generate
<1>7. L \in SUBSET (Nat \X Nat) /\ time \in Nat
  BY <1>0, <1>2, <1>4
<1>8. /\ u \in Labs /\ AllBorn(u)
      /\ u.pairs = lab.pairs \cup {LinkPair(l[1], l[2]) : l \in L}
      /\ u.live = lab.live \cup Q
      /\ DOMAIN u.memory = DOMAIN lab.memory \cup Q
      /\ DOMAIN u.born = DOMAIN lab.born \cup Q
      /\ \A q \in DOMAIN u.born : u.born[q] = IF q \in Q THEN time ELSE lab.born[q]
      /\ u.waited = lab.waited /\ u.failed = lab.failed
  <2> HIDE DEF L
  <2>1. u \in Labs /\ AllBorn(u) /\ Adds(u, lab, L, time)
    BY <1>0, <1>7, GeneratedLab
  <2> HIDE DEF u
  <2> QED  BY <2>1, Zenon DEF Adds
<1> HIDE DEF u
<1>9. /\ RouteTypeOK' /\ play' = play /\ lab' = u
      /\ events' = IF u.failed = "nothing" THEN (events \ {due}) \cup {} ELSE {}
  <2>1. {} \subseteq EventType /\ ({} = {} \/ \E e : {} = {e})
    OBVIOUS
  <2> QED  BY <1>6, <1>8, <2>1, StepTypes
<1>10. /\ lab.failed = "nothing" /\ DOMAIN lab.memory = lab.live
       /\ lab.live \subseteq DOMAIN lab.born
       /\ \A q \in DOMAIN lab.born : q[2] < n /\ lab.born[q] = ms(q[2])
       /\ DOMAIN lab.waited = {}
       /\ Reports({})
       /\ events = {g(j) : j \in G} \cup {start}
       /\ lab.pairs = {LinkPair(l[1], l[2]) : l \in up} /\ lab.live = QubitsOf(up)
  BY DEF StudyKept, SetsUp, ms
<1>11. events' = {g(j) : j \in G \ {i}} \cup {start}
  <2>1. events' = events \ {g(i)}
    BY <1>1, <1>8, <1>9, <1>10
  <2>2. start # g(i) /\ \A j \in G : j # i => g(j) # g(i)
    <3>1. n # i
      BY <1>0, <1>2
    <3> HIDE DEF g, start
    <3> QED  BY <1>3, <3>1
  <2> HIDE DEF g, start
  <2> QED  BY <1>10, <2>1, <2>2
<1> DEFINE H == G \ {i}
           new == {1} \X ((0 .. n - 1) \ H)
<1>12. new = up \cup L
  BY <1>2
<1>13. /\ u.pairs = {LinkPair(l[1], l[2]) : l \in new}
       /\ u.live = QubitsOf(new)
  <2>1. QubitsOf(up \cup L) = QubitsOf(up) \cup QubitsOf(L)
    BY DEF QubitsOf
  <2>2. {LinkPair(l[1], l[2]) : l \in up \cup L}
          = {LinkPair(l[1], l[2]) : l \in up} \cup {LinkPair(l[1], l[2]) : l \in L}
    OBVIOUS
  <2> HIDE DEF up, L, new
  <2> QED  BY <1>8, <1>10, <1>12, <2>1, <2>2
<1>14. \A q \in Q : q[2] = i
  BY DEF QubitsOf
<1>15. SetsUp(H)'
  <2>1. /\ Links(1)' = n /\ \A j : MilliSeconds(Setup(1, j))' = ms(j)
        /\ ChainStart' = ChainStart
    BY <1>9, SamePlay DEF ms, MilliSeconds
  <2>2. results' = {} /\ Reports({})'
    BY <1>6, <1>10 DEF Reports
  <2>3. DOMAIN lab'.waited = {}
    BY <1>8, <1>9, <1>10
  <2>4. /\ events' = {Event(ms(j), j, "generate", 1, j) : j \in H}
                       \cup {Event(ChainStart, n, IF n = 1 THEN "evaluate" ELSE "swap", 1, 1)}
        /\ lab'.pairs = {LinkPair(l[1], l[2]) : l \in new}
        /\ lab'.live = QubitsOf(new)
    BY <1>9, <1>11, <1>13
  <2>5. {Event(MilliSeconds(Setup(1, j)), j, "generate", 1, j)' : j \in H}
          = {Event(ms(j), j, "generate", 1, j) : j \in H}
    <3> HIDE DEF H
    <3>1. \A j : Event(MilliSeconds(Setup(1, j)), j, "generate", 1, j)'
                  = Event(ms(j), j, "generate", 1, j)
      BY <2>1 DEF Event
    <3> QED  BY <3>1
  <2>6. Event(ChainStart, Links(1), IF Links(1) = 1 THEN "evaluate" ELSE "swap", 1, 1)'
          = Event(ChainStart, n, IF n = 1 THEN "evaluate" ELSE "swap", 1, 1)
    BY <2>1 DEF Event
  <2> HIDE DEF n, H
  <2> QED  BY <2>1, <2>2, <2>3, <2>4, <2>5, <2>6, Zenon DEF SetsUp
<1>16. H \in SUBSET (0 .. Links(1)' - 1)
  BY <1>9, SamePlay
<1>17. /\ lab'.failed = "nothing" /\ DOMAIN lab'.memory = lab'.live
       /\ lab'.live \subseteq DOMAIN lab'.born
  BY <1>8, <1>9, <1>10
<1>18. \A q \in DOMAIN lab'.born : q[2] < Links(1)' /\ lab'.born[q] = MilliSeconds(Setup(1, q[2]))'
  <2> SUFFICES ASSUME NEW q \in DOMAIN u.born
               PROVE  q[2] < n /\ u.born[q] = ms(q[2])
    BY <1>9, SamePlay DEF ms, MilliSeconds
  <2> HIDE DEF Q, L
  <2>1. CASE q \in Q
    <3>1. q[2] = i
      BY <1>14, <2>1
    <3>2. u.born[q] = ms(i)
      BY <1>4, <1>8, <2>1
    <3> QED  BY <1>0, <1>2, <3>1, <3>2
  <2>2. CASE q \notin Q
    BY <1>8, <1>10, <2>2
  <2> QED  BY <2>1, <2>2
<1>19. DOMAIN lab'.waited = {}
  BY <1>8, <1>9, <1>10
<1>20. StudyKept'
  <2> HIDE DEF H
  <2> QED  BY <1>15, <1>16, <1>17, <1>18, <1>19, Zenon DEF StudyKept
<1> QED  BY <1>9, <1>20

\* What a study that swaps keeps: the record of each phase, and that of its clocks.
StudyClocks ==
  /\ lab.failed = "nothing" /\ DOMAIN lab.memory = lab.live
  /\ lab.live \subseteq DOMAIN lab.born
  /\ \A q \in DOMAIN lab.born : q[2] < Links(1) /\ lab.born[q] = MilliSeconds(Setup(1, q[2]))
  /\ \A q \in DOMAIN lab.waited :
       /\ q[2] < Links(1)
       /\ lab.waited[q] = SwapTime(SwapsBefore(q) + 1) - MilliSeconds(Setup(1, q[2]))

\* The entity after a relay or the last owner has done what it does at the time of
\* swap k, with its operands S.
LEMMA StudyWaits ==
  ASSUME RouteTypeOK, StudyClocks, NEW k, NEW S \in SUBSET (DOMAIN lab.born),
         time = SwapTime(k), time \in Nat, \A q \in S : SwapsBefore(q) + 1 = k,
         play' = play, lab'.born = lab.born, lab'.waited = Waited(lab, S),
         lab'.failed = "nothing", DOMAIN lab'.memory = lab'.live, lab'.live \subseteq lab.live
  PROVE  StudyClocks' /\ DOMAIN lab'.waited = DOMAIN lab.waited \cup S
<1>0. lab \in Labs
  BY DEF RouteTypeOK
<1>1. /\ lab.live \subseteq DOMAIN lab.born
      /\ \A q \in DOMAIN lab.born : q[2] < Links(1) /\ lab.born[q] = MilliSeconds(Setup(1, q[2]))
      /\ \A q \in DOMAIN lab.waited :
           /\ q[2] < Links(1)
           /\ lab.waited[q] = SwapTime(SwapsBefore(q) + 1) - MilliSeconds(Setup(1, q[2]))
  BY DEF StudyClocks
<1> DEFINE c == Waited(lab, S)
<1>2. /\ DOMAIN c = DOMAIN lab.waited \cup S
      /\ \A q \in DOMAIN lab.waited \cup S :
           c[q] = IF q \in S THEN time - lab.born[q] ELSE lab.waited[q]
  <2>1. time \in Int
    OBVIOUS
  <2> QED  BY <1>0, <2>1, WaitedClock, Zenon
<1> HIDE DEF c
<1>3. \A q \in DOMAIN c :
        /\ q[2] < Links(1)
        /\ c[q] = SwapTime(SwapsBefore(q) + 1) - MilliSeconds(Setup(1, q[2]))
  <2> SUFFICES ASSUME NEW q \in DOMAIN c
               PROVE  /\ q[2] < Links(1)
                      /\ c[q] = SwapTime(SwapsBefore(q) + 1) - MilliSeconds(Setup(1, q[2]))
    OBVIOUS
  <2>1. CASE q \in S
    BY <1>1, <1>2, <2>1
  <2>2. CASE q \notin S
    BY <1>1, <1>2, <2>2
  <2> QED  BY <2>1, <2>2
<1>4. /\ Links(1)' = Links(1) /\ \A j : SwapTime(j)' = SwapTime(j)
      /\ \A q : SwapsBefore(q)' = SwapsBefore(q)
      /\ \A i : MilliSeconds(Setup(1, i))' = MilliSeconds(Setup(1, i))
  BY SamePlay DEF MilliSeconds
<1>5. lab'.waited = c
  BY DEF c
<1>6. lab'.live \subseteq DOMAIN lab'.born
  BY <1>1
<1>7. \A q \in DOMAIN lab'.born :
        q[2] < Links(1)' /\ lab'.born[q] = MilliSeconds(Setup(1, q[2]))'
  BY <1>1, <1>4
<1>8. \A q \in DOMAIN lab'.waited :
        /\ q[2] < Links(1)'
        /\ lab'.waited[q] = (SwapTime(SwapsBefore(q) + 1))' - MilliSeconds(Setup(1, q[2]))'
  <2>1. \A q : (SwapTime(SwapsBefore(q) + 1))' = SwapTime(SwapsBefore(q) + 1)
    BY <1>4, Zenon
  <2> QED  BY <1>3, <1>4, <1>5, <2>1
<1>9. StudyClocks'
  BY <1>6, <1>7, <1>8, Zenon DEF StudyClocks
<1> QED  BY <1>2, <1>5, <1>9

\* A relay of a study swaps.
LEMMA StudySwaps ==
  ASSUME RouteTypeOK, play.program = "study", StudyClocks,
         NEW k \in 1 .. Links(1), k < Links(1), Swaps(k), RouteNext
  PROVE  RouteTypeOK' /\ StudyClocks' /\ Signals(k)' /\ play' = play
<1> DEFINE n == Links(1)
           gone == {Right(1, k - 1), Left(1, k)}
<1>0. /\ play \in Plays /\ lab \in Labs /\ AllBorn(lab) /\ n \in Nat /\ n > 0 /\ k \in Nat /\ k > 0
      /\ issued \in Nat
  BY RouteFacts DEF RouteTypeOK
<1>1. /\ Awaits("swap", 1, k) /\ AllDue(SwapTime(k))
      /\ lab.pairs = Row(1, n, k, 0, 0) /\ lab.live = RowQubits(1, n, k)
      /\ DOMAIN lab.waited = Swapped(k) /\ Reports({})
  BY DEF Swaps
<1>2. /\ events = {due} /\ due.op = "swap" /\ due.r = 1 /\ due.k = k
      /\ time = SwapTime(k) /\ time \in Nat
  BY <1>1, Awaited DEF AllDue
<1>3. ExecuteSwapStep
  BY <1>2 DEF RouteNext, Runs, Generate, ExecuteSwapStep, ContinueAfterSignal, Evaluate,
         StartRequest, SwapHop, FinishRequest, RelayAct, FinishPath, AfterWait
<1> DEFINE after(x, z) == BellMeasured(lab, k, Right(1, k - 1), Left(1, k), x, z)
           d == MilliSeconds(play.delays[1])
           e(x, z) == [Event(time + d, issued, "signal", 1, k) EXCEPT !.x = x, !.z = z]
<1>4. PICK x \in Bits, z \in Bits :
        /\ Runs("swap", RemoveQubits(after(x, z), gone), {e(x, z)})
        /\ results' = results
  <2>1. Operator(k) = k
    BY DEF Operator
  <2> QED  BY <1>2, <1>3, <2>1 DEF ExecuteSwapStep
<1>5. HasRow(lab.pairs, {}, 1, n, k, 0, 0)
  BY <1>0, <1>1 DEF HasRow, Foreign, Bits
<1>6. 0 \in Bits /\ (0 + x) % 2 = x /\ (0 + z) % 2 = z
  BY Parity DEF Bits
<1> DEFINE t == after(x, z)
<1>7. /\ t \in Labs /\ AllBorn(t)
      /\ HasRow(t.pairs, {}, 1, n, k + 1, x, z)
      /\ t.live = lab.live \ gone /\ t.born = lab.born /\ t.memory = Swept(lab).memory
      /\ gone \subseteq DOMAIN lab.born /\ t.waited = Waited(lab, gone)
      /\ t.failed = IF Owned(lab, k, gone) THEN Swept(lab).failed ELSE "owner"
  <2>1. 1 \in Nat /\ time \in Int
    BY <1>2
  <2>2. /\ t \in Labs /\ AllBorn(t)
        /\ HasMeasured(t, lab, {}, 1, n, k, (0 + x) % 2, (0 + z) % 2, k)
    <3>1. k < n
      OBVIOUS
    <3> HIDE DEF n
    <3> QED  BY <1>0, <1>5, <1>6, <2>1, <3>1, BellMeasuredLab
  <2> HIDE DEF t
  <2>3. HasMeasured(t, lab, {}, 1, n, k, x, z, k)
    BY <1>6, <2>2
  <2> QED  BY <2>2, <2>3, Zenon DEF HasMeasured
<1> HIDE DEF after, t
<1>8. /\ lab.failed = "nothing" /\ DOMAIN lab.memory = lab.live
  BY DEF StudyClocks
<1>9. /\ RowQubits(1, n, k) \ gone = RowQubits(1, n, k + 1)
      /\ gone \subseteq RowQubits(1, n, k)
  <2>1. 1 \in Nat
    OBVIOUS
  <2> HIDE DEF n
  <2>2. k \in 1 .. n /\ k < n
    BY DEF n
  <2> QED  BY <1>0, <2>1, <2>2, QubitsSwap
<1>10. Owned(lab, k, gone)
  <2>1. \A q \in gone : Owner(q) = k
    <3>1. /\ Left(1, k)[2] = k /\ Left(1, k)[3] = "left"
          /\ Right(1, k - 1)[2] = k - 1 /\ Right(1, k - 1)[3] # "left"
          /\ k - 1 + 1 = k
      BY <1>0 DEF Left, Right
    <3> QED  BY <3>1 DEF Owner
  <2> QED  BY <1>1, <1>8, <1>9, <2>1 DEF Owned
<1>11. Swept(lab).failed = "nothing" /\ DOMAIN Swept(lab).memory = lab.live
  <2>1. time \in Int /\ DOMAIN lab.memory \subseteq lab.live
    BY <1>2, <1>8
  <2> QED  BY <1>0, <1>8, <2>1, SweptLab
<1> DEFINE u == RemoveQubits(t, gone)
<1>12. /\ u \in Labs /\ AllBorn(u)
       /\ u.pairs = t.pairs /\ u.live = t.live /\ u.born = t.born /\ u.waited = t.waited
       /\ u.failed = t.failed /\ DOMAIN u.memory = DOMAIN t.memory \ gone
  <2> HIDE DEF gone
  <2> QED  BY <1>7, RemovedLab
<1> HIDE DEF u, gone
<1>13. /\ u.failed = "nothing" /\ DOMAIN u.memory = u.live /\ u.live = RowQubits(1, n, k + 1)
       /\ u.live \subseteq lab.live
  BY <1>1, <1>7, <1>9, <1>10, <1>11, <1>12
<1> DEFINE f == e(x, z)
<1>14. /\ f \in EventType
       /\ f.at = SwapTime(k + 1) /\ f.op = "signal" /\ f.r = 1 /\ f.k = k /\ f.x = x /\ f.z = z
  <2>1. time + d \in Nat /\ time + d = SwapTime(k + 1)
    BY <1>0, <1>2, SwapTimes
  <2>2. IsEvent(f, time + d, issued, "signal", 1, k, x, z)
    <3> HIDE DEF d
    <3> QED  BY <1>0, <2>1, PacketFields
  <2> HIDE DEF f, d
  <2> QED  BY <2>1, <2>2 DEF IsEvent
<1> HIDE DEF f
<1>15. /\ RouteTypeOK' /\ play' = play /\ lab' = u
       /\ events' = IF u.failed = "nothing" THEN (events \ {due}) \cup {f} ELSE {}
  <2>1. {f} \subseteq EventType /\ ({f} = {} \/ \E g : {f} = {g})
    BY <1>14
  <2>2. Runs("swap", u, {f})
    BY <1>4 DEF u, t, f
  <2> QED  BY <1>12, <2>1, <2>2, StepTypes
<1>16. events' = {f}
  BY <1>2, <1>13, <1>15
<1>17. StudyClocks' /\ DOMAIN lab'.waited = Swapped(k + 1)
  <2>1. Swapped(k + 1) = Swapped(k) \cup gone /\ \A q \in gone : SwapsBefore(q) + 1 = k
    BY <1>0, SwapOperands DEF gone
  <2>2. gone \in SUBSET (DOMAIN lab.born)
    BY <1>7
  <2>3. /\ lab'.born = lab.born /\ lab'.waited = Waited(lab, gone) /\ lab'.failed = "nothing"
        /\ DOMAIN lab'.memory = lab'.live /\ lab'.live \subseteq lab.live
    BY <1>7, <1>12, <1>13, <1>15
  <2>4. StudyClocks' /\ DOMAIN lab'.waited = DOMAIN lab.waited \cup gone
    BY <1>2, <1>15, <2>1, <2>2, <2>3, StudyWaits
  <2> QED  BY <1>1, <2>1, <2>4
<1>18. Signals(k)'
  <2>1. Links(1)' = n /\ SwapTime(k + 1)' = SwapTime(k + 1)
    BY <1>15, SamePlay
  <2>2. Reports({})'
    BY <1>1, <1>4 DEF Reports
  <2>3. lab'.pairs = Row(1, n, k + 1, x, z)
    BY <1>7, <1>12, <1>15 DEF HasRow
  <2>4. lab'.live = RowQubits(1, n, k + 1)
    BY <1>13, <1>15
  <2>5. Awaits("signal", 1, k)'
    BY <1>14, <1>16 DEF Awaits
  <2>6. /\ \A g \in events' : g.at = SwapTime(k + 1)'
        /\ \A g \in events' : g.x = x /\ g.z = z
    BY <1>14, <1>16, <2>1
  <2>7. DOMAIN lab'.waited = Swapped(k + 1)'
    BY <1>17 DEF Swapped
  <2> HIDE DEF n
  <2>8. /\ lab'.pairs = Row(1, Links(1)', k + 1, x, z)
        /\ lab'.live = RowQubits(1, Links(1)', k + 1)
    BY <2>1, <2>3, <2>4
  <2> QED  BY <2>2, <2>5, <2>6, <2>7, <2>8, Zenon DEF Signals, AllDue
<1> QED  BY <1>15, <1>17, <1>18

\* The next owner corrects its qubit.
LEMMA StudyCorrects ==
  ASSUME RouteTypeOK, play.program = "study", StudyClocks,
         NEW k \in 1 .. Links(1) - 1, Signals(k), RouteNext
  PROVE  RouteTypeOK' /\ StudyClocks' /\ Swaps(k + 1)' /\ play' = play
<1> DEFINE n == Links(1)
           op == IF k + 1 < n THEN "swap" ELSE "evaluate"
<1>0. /\ play \in Plays /\ lab \in Labs /\ AllBorn(lab) /\ n \in Nat /\ n > 0 /\ k \in Nat /\ k > 0
      /\ k + 1 \in 1 .. n /\ k + 1 - 1 = k /\ issued \in Nat
  BY RouteFacts DEF RouteTypeOK
<1>1. PICK x \in Bits, z \in Bits :
        /\ Awaits("signal", 1, k) /\ AllDue(SwapTime(k + 1))
        /\ \A e \in events : e.x = x /\ e.z = z
        /\ lab.pairs = Row(1, n, k + 1, x, z) /\ lab.live = RowQubits(1, n, k + 1)
        /\ DOMAIN lab.waited = Swapped(k + 1)
        /\ Reports({})
  BY DEF Signals
<1>2. /\ events = {due} /\ due.op = "signal" /\ due.r = 1 /\ due.k = k
      /\ time = SwapTime(k + 1) /\ time \in Nat
      /\ due.x = x /\ due.z = z
  BY <1>1, Awaited DEF AllDue
<1>3. ContinueAfterSignal
  BY <1>2 DEF RouteNext, Runs, Generate, ExecuteSwapStep, ContinueAfterSignal, Evaluate,
         StartRequest, SwapHop, FinishRequest, RelayAct, FinishPath, AfterWait
<1> DEFINE t == Corrected(lab, k + 1, Right(1, k), x, z)
           f == Event(time, issued, op, 1, k + 1)
<1>4. /\ Runs("signal", t, {f})
      /\ results' = results
  <2>1. Operator(k + 1) = k + 1
    BY DEF Operator
  <2> QED  BY <1>2, <1>3, <2>1 DEF ContinueAfterSignal
<1>5. HasRow(lab.pairs, {}, 1, n, k + 1, x, z)
  BY <1>0, <1>1 DEF HasRow, Foreign
<1>6. (x + x) % 2 = 0 /\ (z + z) % 2 = 0
  BY Parity
<1>7. t \in Labs /\ AllBorn(t) /\ HasCorrected(t, lab, {}, 1, n, k + 1, 0, 0, k + 1)
  <2> DEFINE j == k + 1
             w == Corrected(lab, j, Right(1, j - 1), x, z)
  <2>1. w \in Labs /\ AllBorn(w)
        /\ HasCorrected(w, lab, {}, 1, n, j, (x + x) % 2, (z + z) % 2, j)
    <3>1. 1 \in Nat /\ j \in 1 .. n /\ HasRow(lab.pairs, {}, 1, n, j, x, z)
      BY <1>0, <1>5
    <3> HIDE DEF n, j
    <3> QED  BY <1>0, <3>1, CorrectedLab
  <2>2. w = t
    BY <1>0
  <2> HIDE DEF w, t
  <2> QED  BY <1>6, <2>1, <2>2
<1>8. /\ HasRow(t.pairs, {}, 1, n, k + 1, 0, 0)
      /\ t.live = lab.live /\ t.born = lab.born /\ t.memory = lab.memory /\ t.waited = lab.waited
      /\ t.failed = IF Owned(lab, k + 1, {Right(1, k)}) THEN lab.failed ELSE "owner"
  <2> HIDE DEF t
  <2>1. k + 1 - 1 = k
    BY <1>0
  <2> DEFINE j == k + 1
             i == j - 1
  <2> HIDE DEF n, j
  <2>2. HasCorrected(t, lab, {}, 1, n, j, 0, 0, j)
    BY <1>7 DEF j
  <2>3. /\ HasRow(t.pairs, {}, 1, n, j, 0, 0)
        /\ t.live = lab.live /\ t.born = lab.born /\ t.memory = lab.memory
        /\ t.waited = lab.waited
        /\ t.failed = IF Owned(lab, j, {Right(1, i)}) THEN lab.failed ELSE "owner"
    BY <2>2, Zenon DEF HasCorrected
  <2>4. i = k
    BY <2>1 DEF j
  <2> HIDE DEF i
  <2> QED  BY <2>3, <2>4 DEF j
<1> HIDE DEF t
<1>9. lab.failed = "nothing" /\ DOMAIN lab.memory = lab.live
  BY DEF StudyClocks
<1>10. Owned(lab, k + 1, {Right(1, k)})
  <2>1. Right(1, k) \in RowQubits(1, n, k + 1)
    BY <1>0 DEF RowQubits
  <2>2. Right(1, k)[2] = k /\ Right(1, k)[3] # "left"
    BY DEF Right
  <2>3. Owner(Right(1, k)) = k + 1
    BY <2>2 DEF Owner
  <2> QED  BY <1>1, <1>9, <2>1, <2>3 DEF Owned
<1>11. t.failed = "nothing"
  BY <1>8, <1>9, <1>10
<1>12. IsEvent(f, time, issued, op, 1, k + 1, 0, 0)
  <2>1. op \in {"swap", "evaluate"}
    OBVIOUS
  <2>2. 1 \in Nat /\ k + 1 \in Nat /\ 0 \in Bits
    BY <1>0 DEF Bits
  <2> DEFINE t0 == time
             j == k + 1
  <2>3. t0 \in Nat /\ j \in Nat
    BY <1>2, <2>2
  <2> HIDE DEF op, t0, j
  <2>4. IsEvent(Event(t0, issued, op, 1, j), t0, issued, op, 1, j, 0, 0)
    BY <1>0, <2>1, <2>2, <2>3, EventFields
  <2> QED  BY <2>4 DEF t0, j
<1> HIDE DEF f, op
<1>13. /\ RouteTypeOK' /\ play' = play /\ lab' = t
       /\ events' = IF t.failed = "nothing" THEN (events \ {due}) \cup {f} ELSE {}
  <2>1. {f} \subseteq EventType /\ ({f} = {} \/ \E g : {f} = {g})
    BY <1>12 DEF IsEvent
  <2> QED  BY <1>4, <1>7, <2>1, StepTypes
<1>14. events' = {f}
  BY <1>2, <1>11, <1>13
<1>15. StudyClocks'
  <2>1. {} \in SUBSET (DOMAIN lab.born) /\ \A q \in {} : SwapsBefore(q) + 1 = k + 1
    OBVIOUS
  <2>2. lab'.waited = Waited(lab, {})
    <3>1. lab.waited \in Clocks
      BY <1>0 DEF Labs
    <3>2. lab.waited = [q \in DOMAIN lab.waited |-> lab.waited[q]]
      BY <3>1 DEF Clocks
    <3>3. Waited(lab, {}) = [q \in DOMAIN lab.waited |-> lab.waited[q]]
      BY DEF Waited
    <3> QED  BY <1>8, <1>13, <3>2, <3>3
  <2>3. /\ lab'.born = lab.born /\ lab'.failed = "nothing"
        /\ DOMAIN lab'.memory = lab'.live /\ lab'.live \subseteq lab.live
    BY <1>8, <1>9, <1>11, <1>13
  <2> QED  BY <1>2, <1>13, <2>1, <2>2, <2>3, StudyWaits
<1>16. Swaps(k + 1)'
  <2>1. Links(1)' = n /\ SwapTime(k + 1)' = SwapTime(k + 1)
    BY <1>13, SamePlay
  <2>2. Reports({})'
    BY <1>1, <1>4 DEF Reports
  <2>3. lab'.pairs = Row(1, n, k + 1, 0, 0)
    BY <1>8, <1>13 DEF HasRow
  <2>4. lab'.live = RowQubits(1, n, k + 1)
    BY <1>1, <1>8, <1>13
  <2>6. \A g \in events' : g.at = SwapTime(k + 1)'
    BY <1>2, <1>12, <1>14, <2>1 DEF IsEvent
  <2>7. DOMAIN lab'.waited = Swapped(k + 1)'
    BY <1>1, <1>8, <1>13 DEF Swapped
  <2> HIDE DEF n
  <2>8. /\ lab'.pairs = Row(1, Links(1)', k + 1, 0, 0)
        /\ lab'.live = RowQubits(1, Links(1)', k + 1)
        /\ op = IF k + 1 < Links(1)' THEN "swap" ELSE "evaluate"
    BY <2>1, <2>3, <2>4 DEF op
  <2> HIDE DEF op
  <2>9. Awaits(IF k + 1 < Links(1) THEN "swap" ELSE "evaluate", 1, k + 1)'
    <3>1. \E e \in events' : events' = {e} /\ e.op = op /\ e.r = 1 /\ e.k = k + 1
      BY <1>12, <1>14 DEF IsEvent
    <3> QED  BY <2>8, <3>1, Zenon DEF Awaits
  <2> QED  BY <2>2, <2>6, <2>7, <2>8, <2>9, Zenon DEF Swaps, AllDue
<1> QED  BY <1>13, <1>15, <1>16

\* What the fidelity of a route is asked of.
LEMMA RouteIsMeasured ==
  ASSUME NEW s, NEW O, NEW r \in Nat, NEW n \in Nat, n > 0, n = Links(r),
         HasRow(s.pairs, O, r, n, n, 0, 0)
  PROVE  /\ Measurement(s, r) = BellState(r)
         /\ Joined(r, n, 0, 0) \in s.pairs /\ Joined(r, n, 0, 0).ends = Ends(r)
<1> DEFINE pairs == s.pairs
           J == Joined(r, n, 0, 0)
<1>1. PairOf(pairs, Left(r, 0)) = J /\ J \in pairs
  <2> HIDE DEF pairs
  <2>1. HasRow(pairs, O, r, n, n, 0, 0) /\ n \in 1 .. n
    BY DEF pairs
  <2> QED  BY <2>1, JoinedFound
<1>2. J = [ends |-> Ends(r), x |-> 0, z |-> 0]
  BY DEF Joined, Ends
<1>3. J.ends = Ends(r)
  BY <1>2
<1> HIDE DEF J
<1>4. Measurement(s, r) = BellState(r)
  BY <1>1, <1>2, Zenon DEF Measurement, BellState
<1> QED  BY <1>1, <1>3, <1>4 DEF J

\* The last owner evaluates the route.
LEMMA StudyEvaluates ==
  ASSUME RouteTypeOK, play.program = "study", StudyClocks,
         Swaps(Links(1)), RouteNext
  PROVE  RouteTypeOK' /\ StudyClocks' /\ EndIsReached' /\ play' = play
<1> DEFINE n == Links(1)
<1>0. /\ play \in Plays /\ lab \in Labs /\ AllBorn(lab) /\ n \in Nat /\ n > 0 /\ n \in 1 .. n
  BY RouteFacts DEF RouteTypeOK
<1>1. /\ Awaits("evaluate", 1, n) /\ AllDue(SwapTime(n))
      /\ lab.pairs = Row(1, n, n, 0, 0) /\ lab.live = RowQubits(1, n, n)
      /\ DOMAIN lab.waited = Swapped(n) /\ Reports({})
  <2>1. ~ (n < n)
    BY <1>0
  <2> QED  BY <2>1, Zenon DEF Swaps
<1>2. /\ events = {due} /\ due.op = "evaluate" /\ due.r = 1 /\ due.k = n
      /\ time = SwapTime(n) /\ time \in Nat
  BY <1>1, Awaited DEF AllDue
<1>3. Evaluate
  BY <1>2 DEF RouteNext, Runs, Generate, ExecuteSwapStep, ContinueAfterSignal, Evaluate,
         StartRequest, SwapHop, FinishRequest, RelayAct, FinishPath, AfterWait
<1> DEFINE t == Evaluated(lab, 1)
<1>4. Runs("evaluate", t, {}) /\ results' = results \cup {Measurement(lab, 1)}
  BY <1>2, <1>3 DEF Evaluate
<1>5. HasRow(lab.pairs, {}, 1, n, n, 0, 0)
  BY <1>0, <1>1 DEF HasRow, Foreign, Bits
<1>6. /\ Measurement(lab, 1) = BellState(1)
      /\ Joined(1, n, 0, 0) \in lab.pairs /\ Joined(1, n, 0, 0).ends = Ends(1)
  <2>1. 1 \in Nat
    OBVIOUS
  <2> QED  BY <1>0, <1>5, <2>1, RouteIsMeasured
<1>7. Ends(1) \subseteq DOMAIN lab.born
  BY <1>0, <1>6 DEF AllBorn
<1>8. /\ t \in Labs /\ AllBorn(t)
      /\ t.pairs = lab.pairs /\ t.live = lab.live /\ t.born = lab.born
      /\ t.memory = Swept(lab).memory /\ t.failed = Swept(lab).failed
      /\ t.waited = Waited(lab, Ends(1))
  <2>1. time \in Int
    BY <1>2
  <2> QED  BY <1>0, <1>7, <2>1, EvaluatedLab, Zenon
<1> HIDE DEF t
<1>9. lab.failed = "nothing" /\ DOMAIN lab.memory = lab.live
  BY DEF StudyClocks
<1>10. t.failed = "nothing" /\ DOMAIN t.memory = lab.live
  <2>1. time \in Int /\ DOMAIN lab.memory \subseteq lab.live
    BY <1>2, <1>9
  <2> QED  BY <1>0, <1>8, <1>9, <2>1, SweptLab
<1>11. /\ RouteTypeOK' /\ play' = play /\ lab' = t
       /\ events' = IF t.failed = "nothing" THEN (events \ {due}) \cup {} ELSE {}
  <2>1. {} \subseteq EventType /\ ({} = {} \/ \E g : {} = {g})
    OBVIOUS
  <2> QED  BY <1>4, <1>8, <2>1, StepTypes
<1>12. events' = {}
  BY <1>2, <1>10, <1>11
<1>13. StudyClocks' /\ DOMAIN lab'.waited = Swapped(n) \cup Ends(1)
  <2>1. \A q \in Ends(1) : SwapsBefore(q) + 1 = n
    <3>1. \A q \in Ends(1) : SwapsBefore(q) = n - 1
      BY DEF SwapsBefore
    <3> HIDE DEF n
    <3> QED  BY <1>0, <3>1
  <2>2. Ends(1) \in SUBSET (DOMAIN lab.born)
    BY <1>7
  <2>3. /\ lab'.born = lab.born /\ lab'.waited = Waited(lab, Ends(1)) /\ lab'.failed = "nothing"
        /\ DOMAIN lab'.memory = lab'.live /\ lab'.live \subseteq lab.live
    BY <1>8, <1>10, <1>11
  <2>4. StudyClocks' /\ DOMAIN lab'.waited = DOMAIN lab.waited \cup Ends(1)
    BY <1>2, <1>11, <2>1, <2>2, <2>3, StudyWaits
  <2> QED  BY <1>1, <2>4
<1>14. EndIsReached'
  <2>1. Links(1)' = n /\ Ends(1)' = Ends(1)
    BY <1>11, SamePlay
  <2>2. lab'.live = Ends(1)
    <3>1. RowQubits(1, n, n) = {Left(1, 0), Right(1, n - 1)}
      <4>1. 1 \in Nat
        OBVIOUS
      <4> HIDE DEF n
      <4> QED  BY <1>0, <4>1, RowOfLinks
    <3> QED  BY <1>1, <1>8, <1>11, <3>1 DEF Ends
  <2>3. Reports({1})'
    <3>1. results = {}
      BY <1>1 DEF Reports
    <3>2. results' = {BellState(1)}
      BY <1>4, <1>6, <3>1
    <3>3. {[r |-> r, pair |-> [ends |-> Ends(r)', x |-> 0, z |-> 0]] : r \in {1}}
            = {[r |-> 1, pair |-> [ends |-> Ends(1), x |-> 0, z |-> 0]]}
      BY <2>1
    <3> QED  BY <3>2, <3>3, Zenon DEF Reports, BellState
  <2>4. DOMAIN lab'.waited = (Swapped(Links(1)))' \cup Ends(1)'
    BY <1>13, <2>1 DEF Swapped
  <2> QED  BY <1>12, <2>1, <2>2, <2>3, <2>4, Zenon DEF EndIsReached
<1> QED  BY <1>11, <1>13, <1>14

\* A step of a study.
LEMMA StudyStep ==
  ASSUME RouteTypeOK, play.program = "study", StudyKept, RouteNext
  PROVE  RouteTypeOK' /\ StudyKept' /\ play' = play
<1> DEFINE n == Links(1)
<1>0. play \in Plays /\ n \in Nat /\ n > 0
  BY RouteFacts DEF RouteTypeOK
<1>1. StudyClocks
  BY Zenon DEF StudyKept, StudyClocks
<1>2. ASSUME StudyClocks', play' = play,
             \/ \E k \in 1 .. n : Swaps(k)'
             \/ \E k \in 1 .. n - 1 : Signals(k)'
             \/ EndIsReached'
      PROVE  StudyKept'
  <2>1. Links(1)' = n
    BY <1>2, SamePlay
  <2>2. \/ \E k \in 1 .. Links(1)' : Swaps(k)'
        \/ \E k \in 1 .. Links(1)' - 1 : Signals(k)'
        \/ EndIsReached'
    BY <1>2, <2>1
  <2> QED  BY <1>2, <2>2, Zenon DEF StudyKept, StudyClocks
<1>3. ASSUME NEW k \in 1 .. n, Swaps(k)
      PROVE  RouteTypeOK' /\ StudyKept' /\ play' = play
  <2>1. CASE k < n
    <3>1. RouteTypeOK' /\ StudyClocks' /\ Signals(k)' /\ play' = play
      BY <1>1, <1>3, <2>1, StudySwaps
    <3>2. k \in 1 .. n - 1
      BY <1>0, <2>1
    <3> QED  BY <1>2, <3>1, <3>2, Zenon
  <2>2. CASE ~ k < n
    <3>1. Swaps(Links(1))
      BY <1>0, <1>3, <2>2
    <3> QED  BY <1>1, <1>2, <3>1, StudyEvaluates, Zenon
  <2> QED  BY <2>1, <2>2
<1>4. ASSUME NEW k \in 1 .. n - 1, Signals(k)
      PROVE  RouteTypeOK' /\ StudyKept' /\ play' = play
  <2>1. RouteTypeOK' /\ StudyClocks' /\ Swaps(k + 1)' /\ play' = play
    BY <1>1, <1>4, StudyCorrects
  <2>2. k + 1 \in 1 .. n
    BY <1>0
  <2> QED  BY <1>2, <2>1, <2>2, Zenon
<1>5. ASSUME NEW G \in SUBSET (0 .. n - 1), SetsUp(G)
      PROVE  RouteTypeOK' /\ StudyKept' /\ play' = play
  <2>1. CASE G # {}
    BY <1>5, <2>1, StudySetsUp
  <2>2. CASE G = {}
    <3>1. Swaps(1)
      BY <1>0, <1>5, <2>2, ChainBegins
    <3>2. 1 \in 1 .. n
      BY <1>0
    <3> QED  BY <1>3, <3>1, <3>2
  <2> QED  BY <2>1, <2>2
<1>6. ~ EndIsReached
  <2>1. events # {}
    BY DEF RouteNext, Runs, Generate, ExecuteSwapStep, ContinueAfterSignal, Evaluate,
         StartRequest, SwapHop, FinishRequest, RelayAct, FinishPath, AfterWait
  <2> QED  BY <2>1 DEF EndIsReached
<1> QED  BY <1>3, <1>4, <1>5, <1>6, Zenon DEF StudyKept

(***************************************************************************)
(* The test                                                                *)
(***************************************************************************)
\* The god owner operates on every qubit.
LEMMA GodOperates ==
  ASSUME NEW s, NEW S
  PROVE  Owned(s, God, S)
BY DEF Owned

\* The entity t is s when swap k of route r is over.
HasSwapped(t, s, O, r, n, k) ==
  /\ HasRow(t.pairs, O, r, n, k + 1, 0, 0)
  /\ t.live = s.live \ {Right(r, k - 1), Left(r, k)}
  /\ t.memory = Swept(s).memory /\ t.failed = Swept(s).failed

\* Relay k of a route swaps and the next node is corrected, in the name of the god.
LEMMA SwappedAndCorrected ==
  ASSUME NEW s \in Labs, time \in Int, AllBorn(s),
         NEW O, NEW r \in Nat, NEW n \in Nat, NEW k \in 1 .. n, k < n,
         HasRow(s.pairs, O, r, n, k, 0, 0),
         NEW a \in Bits, NEW b \in Bits
  PROVE  LET t == Corrected(BellMeasured(s, God, Right(r, k - 1), Left(r, k), a, b),
                            God, Right(r, k), a, b)
         IN t \in Labs /\ AllBorn(t) /\ HasSwapped(t, s, O, r, n, k)
<1> DEFINE w == BellMeasured(s, God, Right(r, k - 1), Left(r, k), a, b)
           t == Corrected(w, God, Right(r, k), a, b)
<1>1. w \in Labs /\ AllBorn(w) /\ HasMeasured(w, s, O, r, n, k, (0 + a) % 2, (0 + b) % 2, God)
  <2>1. 0 \in Bits
    BY DEF Bits
  <2> QED  BY <2>1, BellMeasuredLab
<1>2. (0 + a) % 2 = a /\ (0 + b) % 2 = b /\ (a + a) % 2 = 0 /\ (b + b) % 2 = 0
  BY Parity
<1> HIDE DEF w
<1>3. HasMeasured(w, s, O, r, n, k, a, b, God)
  BY <1>1, <1>2
<1>4. /\ HasRow(w.pairs, O, r, n, k + 1, a, b)
      /\ w.live = s.live \ {Right(r, k - 1), Left(r, k)}
      /\ w.memory = Swept(s).memory /\ w.failed = Swept(s).failed
  BY <1>3, GodOperates, Zenon DEF HasMeasured
<1> DEFINE j == k + 1
           i == j - 1
           v == Corrected(w, God, Right(r, i), a, b)
<1>5. j \in 1 .. n /\ i = k
  OBVIOUS
<1>6. v \in Labs /\ AllBorn(v) /\ HasCorrected(v, w, O, r, n, j, (a + a) % 2, (b + b) % 2, God)
  <2>1. HasRow(w.pairs, O, r, n, j, a, b)
    BY <1>4
  <2> HIDE DEF j
  <2> QED  BY <1>1, <1>5, <2>1, CorrectedLab
<1>7. v = t
  BY <1>5
<1> HIDE DEF v, t, j
<1>8. HasCorrected(t, w, O, r, n, j, 0, 0, God)
  BY <1>2, <1>6, <1>7
<1>9. /\ HasRow(t.pairs, O, r, n, j, 0, 0)
      /\ t.live = w.live /\ t.memory = w.memory /\ t.failed = w.failed
  BY <1>8, GodOperates, Zenon DEF HasCorrected
<1>10. HasSwapped(t, s, O, r, n, k)
  BY <1>4, <1>9 DEF HasSwapped, j
<1> QED  BY <1>6, <1>7, <1>10 DEF t, w

\* A step of the test keeps what it needs.
LEMMA TestStep ==
  ASSUME RouteTypeOK, play.program = "test", TestKept, RouteNext
  PROVE  RouteTypeOK' /\ TestKept' /\ play' = play
<1>0. /\ play \in Plays /\ lab \in Labs /\ AllBorn(lab) /\ Links(1) = 2
  <2>1. play \in Plays /\ lab \in Labs /\ AllBorn(lab)
    BY DEF RouteTypeOK
  <2> QED  BY <2>1, PlayFields DEF Links
<1>1. events # {}
  BY DEF RouteNext, Runs, Generate, ExecuteSwapStep, ContinueAfterSignal, Evaluate,
         StartRequest, SwapHop, FinishRequest, RelayAct, FinishPath, AfterWait
<1>2. /\ lab.failed = "nothing"
      /\ Awaits("wait", 1, 1) /\ DOMAIN lab.memory = lab.live
      /\ lab.pairs = Row(1, 2, 1, 0, 0) /\ lab.live = RowQubits(1, 2, 1)
      /\ Reports({})
  BY <1>1 DEF TestKept
<1>3. events = {due} /\ due.op = "wait" /\ due.r = 1 /\ due.k = 1 /\ time \in Nat
  BY <1>2, Awaited
<1>4. AfterWait
  BY <1>3 DEF RouteNext, Runs, Generate, ExecuteSwapStep, ContinueAfterSignal, Evaluate,
         StartRequest, SwapHop, FinishRequest, RelayAct, FinishPath, AfterWait
<1> DEFINE s == Swept(lab)
           t(x, z) == Corrected(BellMeasured(s, God, Right(1, 0), Left(1, 1), x, z),
                                God, Right(1, 1), x, z)
           u(x, z) == Evaluated(t(x, z), 1)
<1>5. PICK x \in Bits, z \in Bits :
        /\ Runs("wait", u(x, z), {})
        /\ results' = results \cup {Measurement(t(x, z), 1)}
  BY <1>4 DEF AfterWait
<1>6. /\ s \in Labs /\ s.pairs = lab.pairs /\ s.live = lab.live /\ s.born = lab.born
      /\ DOMAIN s.memory = lab.live /\ s.failed = "nothing"
      /\ \A q \in DOMAIN s.memory : s.memory[q] = time
  <2>1. time \in Int /\ DOMAIN lab.memory \subseteq lab.live
    BY <1>2, <1>3
  <2> QED  BY <1>0, <1>2, <2>1, SweptLab
<1>7. AllBorn(s) /\ HasRow(s.pairs, {}, 1, 2, 1, 0, 0)
  <2> HIDE DEF s
  <2> QED  BY <1>0, <1>2, <1>6 DEF AllBorn, HasRow, Foreign, Bits
<1>8. /\ t(x, z) \in Labs /\ AllBorn(t(x, z))
      /\ HasRow(t(x, z).pairs, {}, 1, 2, 2, 0, 0)
      /\ t(x, z).live = s.live \ {Right(1, 0), Left(1, 1)}
      /\ t(x, z).memory = Swept(s).memory /\ t(x, z).failed = Swept(s).failed
  <2> HIDE DEF s
  <2> DEFINE r == 1
             n == 2
             i == r - 1
             v == Corrected(BellMeasured(s, God, Right(r, i), Left(r, r), x, z),
                            God, Right(r, r), x, z)
  <2>1. /\ r \in Nat /\ n \in Nat /\ r \in 1 .. n /\ r < n /\ i = 0 /\ r + 1 = 2
        /\ time \in Int /\ HasRow(s.pairs, {}, r, n, r, 0, 0)
    BY <1>3, <1>7
  <2>2. v \in Labs /\ AllBorn(v) /\ HasSwapped(v, s, {}, r, n, r)
    <3> HIDE DEF r, n
    <3> QED  BY <1>6, <1>7, <2>1, SwappedAndCorrected
  <2>3. v = t(x, z)
    BY <2>1
  <2> HIDE DEF t, v
  <2>4. /\ HasRow(v.pairs, {}, r, n, 2, 0, 0)
        /\ v.live = s.live \ {Right(r, 0), Left(r, r)}
        /\ v.memory = Swept(s).memory /\ v.failed = Swept(s).failed
    BY <2>1, <2>2 DEF HasSwapped
  <2> QED  BY <2>2, <2>3, <2>4
<1> DEFINE a == t(x, z)
           b == u(x, z)
<1>9. Swept(s).failed = "nothing" /\ DOMAIN Swept(s).memory = lab.live
  <2> HIDE DEF s
  <2>1. time \in Int
    BY <1>3
  <2> QED  BY <1>6, <2>1, SweptLab
<1> HIDE DEF t, s
<1>10. /\ Measurement(a, 1) = BellState(1)
       /\ Joined(1, 2, 0, 0) \in a.pairs /\ Joined(1, 2, 0, 0).ends = Ends(1)
  <2> DEFINE r == 1
             n == 2
  <2> HIDE DEF a
  <2>1. r \in Nat /\ n \in Nat /\ n > 0 /\ n = Links(r) /\ HasRow(a.pairs, {}, r, n, n, 0, 0)
    BY <1>0, <1>8 DEF a
  <2>2. /\ Measurement(a, r) = BellState(r)
        /\ Joined(r, n, 0, 0) \in a.pairs /\ Joined(r, n, 0, 0).ends = Ends(r)
    <3> HIDE DEF r, n
    <3> QED  BY <2>1, RouteIsMeasured
  <2> QED  BY <2>2
<1>11. Ends(1) \subseteq DOMAIN a.born
  BY <1>8, <1>10 DEF AllBorn
<1>12. /\ b \in Labs /\ AllBorn(b) /\ b.live = a.live /\ b.failed = Swept(a).failed
  <2>1. time \in Int
    BY <1>3
  <2> HIDE DEF a
  <2>2. a \in Labs /\ AllBorn(a)
    BY <1>8 DEF a
  <2>3. b = Evaluated(a, 1)
    BY DEF a
  <2> QED  BY <1>11, <2>1, <2>2, <2>3, EvaluatedLab
<1>13. Swept(a).failed = "nothing"
  <2>1. time \in Int
    BY <1>3
  <2>2. \A q \in DOMAIN a.memory : a.memory[q] = time
    <3>1. \A q \in DOMAIN Swept(s).memory : Swept(s).memory[q] = time
      BY <1>6, <2>1, SweptLab
    <3> QED  BY <1>8, <3>1
  <2> HIDE DEF a
  <2>3. a \in Labs /\ a.failed = "nothing"
    BY <1>8, <1>9 DEF a
  <2> QED  BY <2>1, <2>2, <2>3, SweptLab
<1> HIDE DEF u
<1>14. /\ RouteTypeOK' /\ play' = play /\ lab' = b
       /\ events' = IF b.failed = "nothing" THEN (events \ {due}) \cup {} ELSE {}
  <2>1. {} \subseteq EventType /\ ({} = {} \/ \E g : {} = {g})
    OBVIOUS
  <2> QED  BY <1>5, <1>12, <2>1, StepTypes
<1>15. events' = {} /\ lab'.failed = "nothing"
  BY <1>3, <1>12, <1>13, <1>14
<1>16. lab'.live = Ends(1)
  <2> DEFINE r == 1
             n == 2
             i == r - 1
             j == r + 1
             m == n - 1
  <2>1. r \in Nat /\ n \in Nat /\ n > 0 /\ r \in 1 .. n /\ r < n /\ i = 0 /\ j = 2 /\ m = 1
    OBVIOUS
  <2>2. /\ RowQubits(r, n, r) \ {Right(r, i), Left(r, r)} = RowQubits(r, n, j)
        /\ RowQubits(r, n, n) = {Left(r, 0), Right(r, m)}
    <3> HIDE DEF r, n
    <3>1. RowQubits(r, n, r) \ {Right(r, i), Left(r, r)} = RowQubits(r, n, j)
      BY <2>1, QubitsSwap
    <3>2. RowQubits(r, n, n) = {Left(r, 0), Right(r, m)}
      BY <2>1, RowOfLinks
    <3> QED  BY <3>1, <3>2
  <2> HIDE DEF i, j, m
  <2>3. RowQubits(1, 2, 1) \ {Right(1, 0), Left(1, 1)} = {Left(1, 0), Right(1, 1)}
    BY <2>1, <2>2
  <2>4. Ends(1) = {Left(1, 0), Right(1, 1)}
    BY <1>0 DEF Ends
  <2> QED  BY <1>2, <1>6, <1>8, <1>12, <1>14, <2>3, <2>4
<1>17. Ends(1)' = Ends(1)
  BY <1>14, SamePlay
<1>18. Reports({1})'
  <2>1. results' = {BellState(1)}
    BY <1>2, <1>5, <1>10 DEF Reports
  <2>2. {[r |-> r, pair |-> [ends |-> Ends(r)', x |-> 0, z |-> 0]] : r \in {1}}
          = {[r |-> 1, pair |-> [ends |-> Ends(1), x |-> 0, z |-> 0]]}
    BY <1>17
  <2> QED  BY <2>1, <2>2, Zenon DEF Reports, BellState
<1>19. TestKept'
  BY <1>15, <1>16, <1>17, <1>18, Zenon DEF TestKept
<1> QED  BY <1>14, <1>19

(***************************************************************************)
(* The requests                                                            *)
(***************************************************************************)
\* What every request finds.
RequestClocks == lab.failed = "nothing" /\ AllDue(0) /\ \A q \in DOMAIN lab.memory : lab.memory[q] = 0

\* The pairs of a route are made.
LEMMA RequestStarts ==
  ASSUME RouteTypeOK, RequestClocks,
         NEW r \in DOMAIN play.routes, Awaits("request", r, 1), lab.pairs = {}, RouteNext
  PROVE  /\ RouteTypeOK' /\ RequestClocks' /\ play' = play /\ results' = results
         /\ Awaits(IF 1 < Links(r) THEN "hop" ELSE "finish", r, 1)'
         /\ lab'.pairs = Row(r, Links(r), 1, 0, 0)
<1> DEFINE n == Links(r)
           op == IF n > 1 THEN "hop" ELSE "finish"
<1>0. /\ play \in Plays /\ lab \in Labs /\ AllBorn(lab) /\ n \in Nat /\ n > 0 /\ r \in Nat
      /\ issued \in Nat
  BY RouteFacts DEF RouteTypeOK
<1>1. /\ events = {due} /\ due.op = "request" /\ due.r = r /\ due.k = 1 /\ time = 0
  BY Awaited DEF AllDue, RequestClocks
<1>2. StartRequest
  BY <1>1 DEF RouteNext, Runs, Generate, ExecuteSwapStep, ContinueAfterSignal, Evaluate,
         StartRequest, SwapHop, FinishRequest, RelayAct, FinishPath, AfterWait
<1> DEFINE L == LinksOf(r)
           t == Generated(lab, L, 0)
           f == Event(0, issued, op, r, 1)
<1>3. Runs("request", t, {f}) /\ results' = results
  BY <1>1, <1>2 DEF StartRequest
<1>4. L \in SUBSET (Nat \X Nat) /\ L = {r} \X (0 .. n - 1)
  BY <1>0 DEF LinksOf
<1>5. t \in Labs /\ AllBorn(t) /\ Adds(t, lab, L, 0)
  <2> HIDE DEF L
  <2>1. 0 \in Nat
    OBVIOUS
  <2> QED  BY <1>0, <1>4, <2>1, GeneratedLab
<1> HIDE DEF t
<1>6. /\ t.pairs = {LinkPair(l[1], l[2]) : l \in L}
      /\ \A q \in DOMAIN t.memory : t.memory[q] = 0
      /\ t.failed = "nothing"
  <2>1. t.pairs = {} \cup {LinkPair(l[1], l[2]) : l \in L} /\ t.failed = lab.failed
    BY <1>5, Zenon DEF Adds
  <2>2. ASSUME NEW q \in DOMAIN t.memory
        PROVE  t.memory[q] = 0
    <3>1. t.memory[q] = IF q \in QubitsOf(L) THEN 0 ELSE lab.memory[q]
      BY <1>5 DEF Adds
    <3>2. q \in DOMAIN lab.memory \cup QubitsOf(L)
      BY <1>5, Zenon DEF Adds
    <3>3. q \notin QubitsOf(L) => lab.memory[q] = 0
      BY <3>2 DEF RequestClocks
    <3> QED  BY <3>1, <3>3
  <2> QED  BY <2>1, <2>2 DEF RequestClocks
<1>7. t.pairs = Row(r, n, 1, 0, 0)
  <2> HIDE DEF n
  <2> QED  BY <1>0, <1>4, <1>6, RowOfLinks
<1>8. IsEvent(f, 0, issued, op, r, 1, 0, 0)
  <2>1. op \in {"hop", "finish"}
    OBVIOUS
  <2>2. 1 \in Nat /\ 0 \in Nat /\ 0 \in Bits
    BY DEF Bits
  <2> HIDE DEF op
  <2> QED  BY <1>0, <2>1, <2>2, EventFields
<1> HIDE DEF f
<1>9. /\ RouteTypeOK' /\ play' = play /\ lab' = t
      /\ events' = IF t.failed = "nothing" THEN (events \ {due}) \cup {f} ELSE {}
  <2>1. {f} \subseteq EventType /\ ({f} = {} \/ \E g : {f} = {g})
    BY <1>8 DEF IsEvent
  <2> QED  BY <1>3, <1>5, <2>1, StepTypes
<1>10. events' = {f}
  BY <1>1, <1>6, <1>9
<1>11. RequestClocks'
  BY <1>6, <1>8, <1>9, <1>10 DEF RequestClocks, AllDue, IsEvent
<1>12. Awaits(IF 1 < Links(r) THEN "hop" ELSE "finish", r, 1)'
  <2>1. op = IF 1 < Links(r)' THEN "hop" ELSE "finish"
    BY <1>0, <1>9, SamePlay
  <2> HIDE DEF op
  <2>2. \E e \in events' : /\ events' = {e} /\ e.op = op /\ e.r = r /\ e.k = 1
    BY <1>8, <1>10 DEF IsEvent
  <2> QED  BY <2>1, <2>2, Zenon DEF Awaits
<1> QED  BY <1>3, <1>7, <1>9, <1>11, <1>12

\* A relay of a route swaps.
LEMMA RequestSwaps ==
  ASSUME RouteTypeOK, RequestClocks,
         NEW r \in DOMAIN play.routes, NEW k \in 1 .. Links(r), k < Links(r),
         Awaits("hop", r, k), lab.pairs = Row(r, Links(r), k, 0, 0), RouteNext
  PROVE  /\ RouteTypeOK' /\ RequestClocks' /\ play' = play /\ results' = results
         /\ Awaits(IF k + 1 < Links(r) THEN "hop" ELSE "finish", r, k + 1)'
         /\ lab'.pairs = Row(r, Links(r), k + 1, 0, 0)
<1> DEFINE n == Links(r)
           op == IF k + 1 < n THEN "hop" ELSE "finish"
<1>0. /\ play \in Plays /\ lab \in Labs /\ AllBorn(lab) /\ n \in Nat /\ n > 0 /\ r \in Nat
      /\ issued \in Nat
  BY RouteFacts DEF RouteTypeOK
<1>1. /\ events = {due} /\ due.op = "hop" /\ due.r = r /\ due.k = k /\ time = 0
  BY Awaited DEF AllDue, RequestClocks
<1>2. SwapHop
  BY <1>1 DEF RouteNext, Runs, Generate, ExecuteSwapStep, ContinueAfterSignal, Evaluate,
         StartRequest, SwapHop, FinishRequest, RelayAct, FinishPath, AfterWait
<1> DEFINE t(x, z) == Corrected(BellMeasured(lab, God, Right(r, k - 1), Left(r, k), x, z),
                                God, Right(r, k), x, z)
           f == Event(0, issued, op, r, k + 1)
<1>3. PICK x \in Bits, z \in Bits : Runs("hop", t(x, z), {f}) /\ results' = results
  BY <1>1, <1>2 DEF SwapHop
<1> DEFINE u == t(x, z)
<1>4. HasRow(lab.pairs, {}, r, n, k, 0, 0)
  BY <1>0 DEF HasRow, Foreign, Bits
<1>5. u \in Labs /\ AllBorn(u) /\ HasSwapped(u, lab, {}, r, n, k)
  <2>1. k < n /\ time \in Int
    BY <1>1
  <2> HIDE DEF n
  <2> QED  BY <1>0, <1>4, <2>1, SwappedAndCorrected
<1> HIDE DEF t, u
<1>6. u.failed = "nothing" /\ \A q \in DOMAIN u.memory : u.memory[q] = 0
  <2>1. time \in Int /\ lab.failed = "nothing" /\ \A q \in DOMAIN lab.memory : lab.memory[q] = time
    BY <1>1 DEF RequestClocks
  <2>2. Swept(lab).failed = lab.failed
        /\ \A q \in DOMAIN Swept(lab).memory : Swept(lab).memory[q] = time
    BY <1>0, <2>1, SweptLab
  <2>3. u.memory = Swept(lab).memory /\ u.failed = Swept(lab).failed
    BY <1>5 DEF HasSwapped
  <2> QED  BY <1>1, <2>1, <2>2, <2>3
<1>7. IsEvent(f, 0, issued, op, r, k + 1, 0, 0)
  <2>1. op \in {"hop", "finish"}
    OBVIOUS
  <2>2. k + 1 \in Nat /\ 0 \in Nat /\ 0 \in Bits
    BY DEF Bits
  <2> HIDE DEF op
  <2> QED  BY <1>0, <2>1, <2>2, EventFields
<1> HIDE DEF f
<1>8. /\ RouteTypeOK' /\ play' = play /\ lab' = u
      /\ events' = IF u.failed = "nothing" THEN (events \ {due}) \cup {f} ELSE {}
  <2>1. {f} \subseteq EventType /\ ({f} = {} \/ \E g : {f} = {g})
    BY <1>7 DEF IsEvent
  <2>2. Runs("hop", u, {f})
    BY <1>3 DEF u
  <2> QED  BY <1>5, <2>1, <2>2, StepTypes
<1>9. events' = {f}
  BY <1>1, <1>6, <1>8
<1>10. RequestClocks'
  BY <1>6, <1>7, <1>8, <1>9 DEF RequestClocks, AllDue, IsEvent
<1>11. Awaits(IF k + 1 < Links(r) THEN "hop" ELSE "finish", r, k + 1)'
  <2>1. op = IF k + 1 < Links(r)' THEN "hop" ELSE "finish"
    BY <1>0, <1>8, SamePlay
  <2> HIDE DEF op
  <2>2. \E e \in events' : /\ events' = {e} /\ e.op = op /\ e.r = r /\ e.k = k + 1
    BY <1>7, <1>9 DEF IsEvent
  <2> QED  BY <2>1, <2>2, Zenon DEF Awaits
<1>12. lab'.pairs = Row(r, Links(r), k + 1, 0, 0)
  <2>1. HasRow(u.pairs, {}, r, n, k + 1, 0, 0)
    BY <1>5 DEF HasSwapped
  <2> QED  BY <1>8, <2>1 DEF HasRow
<1> QED  BY <1>3, <1>8, <1>10, <1>11, <1>12

\* The fidelity of a route is taken, and its ends are traced.
LEMMA RequestFinishes ==
  ASSUME RouteTypeOK, RequestClocks,
         NEW r \in DOMAIN play.routes, Awaits("finish", r, Links(r)),
         lab.pairs = Row(r, Links(r), Links(r), 0, 0), RouteNext
  PROVE  /\ RouteTypeOK' /\ RequestClocks' /\ play' = play
         /\ results' = results \cup {BellState(r)}
         /\ lab'.pairs = {}
         /\ IF r < Len(play.routes) THEN Awaits("request", r + 1, 1)' ELSE events' = {}
<1> DEFINE n == Links(r)
<1>0. /\ play \in Plays /\ lab \in Labs /\ AllBorn(lab) /\ n \in Nat /\ n > 0 /\ r \in Nat
      /\ issued \in Nat /\ n \in 1 .. n
  BY RouteFacts DEF RouteTypeOK
<1>1. /\ events = {due} /\ due.op = "finish" /\ due.r = r /\ due.k = n /\ time = 0
  BY Awaited DEF AllDue, RequestClocks
<1>2. FinishRequest
  BY <1>1 DEF RouteNext, Runs, Generate, ExecuteSwapStep, ContinueAfterSignal, Evaluate,
         StartRequest, SwapHop, FinishRequest, RelayAct, FinishPath, AfterWait
<1> DEFINE t == Evaluated(lab, r)
           u == EndsTraced(t, r)
           f == Event(0, issued, "request", r + 1, 1)
           new == IF r < Len(play.routes) THEN {f} ELSE {}
<1>3. Runs("finish", u, new) /\ results' = results \cup {Measurement(lab, r)}
  BY <1>1, <1>2 DEF FinishRequest
<1>4. HasRow(lab.pairs, {}, r, n, n, 0, 0)
  BY <1>0 DEF HasRow, Foreign, Bits
<1>5. /\ Measurement(lab, r) = BellState(r)
      /\ Joined(r, n, 0, 0) \in lab.pairs /\ Joined(r, n, 0, 0).ends = Ends(r)
  BY <1>0, <1>4, RouteIsMeasured
<1>6. Ends(r) \subseteq DOMAIN lab.born
  BY <1>0, <1>5 DEF AllBorn
<1>7. /\ t \in Labs /\ AllBorn(t) /\ t.pairs = lab.pairs
      /\ t.memory = Swept(lab).memory /\ t.failed = Swept(lab).failed
  <2>1. time \in Int
    BY <1>1
  <2> QED  BY <1>0, <1>6, <2>1, EvaluatedLab
<1> HIDE DEF t
<1>8. /\ u \in Labs /\ AllBorn(u)
      /\ u.pairs = {p \in t.pairs : p.ends # Ends(r)}
      /\ u.memory = t.memory /\ u.failed = t.failed
  BY <1>7, EndsTracedLab
<1> HIDE DEF u
<1>9. u.pairs = {}
  <2>1. Row(r, n, n, 0, 0) = {Joined(r, n, 0, 0)}
    <3> HIDE DEF n
    <3>1. \A a, b : Row(r, n, n, a, b) = {Joined(r, n, a, b)}
      BY <1>0, RowOfLinks
    <3> QED  BY <3>1
  <2>2. t.pairs = {Joined(r, n, 0, 0)}
    BY <1>7, <2>1
  <2>3. \A p \in t.pairs : p.ends = Ends(r)
    BY <1>5, <2>2
  <2> QED  BY <1>8, <2>3
<1>10. u.failed = "nothing" /\ \A q \in DOMAIN u.memory : u.memory[q] = 0
  <2>1. time \in Int /\ lab.failed = "nothing" /\ \A q \in DOMAIN lab.memory : lab.memory[q] = time
    BY <1>1 DEF RequestClocks
  <2>2. Swept(lab).failed = lab.failed
        /\ \A q \in DOMAIN Swept(lab).memory : Swept(lab).memory[q] = time
    BY <1>0, <2>1, SweptLab
  <2> QED  BY <1>1, <1>7, <1>8, <2>1, <2>2
<1>11. IsEvent(f, 0, issued, "request", r + 1, 1, 0, 0)
  <2>1. r + 1 \in Nat /\ 1 \in Nat /\ 0 \in Nat /\ 0 \in Bits
    BY <1>0 DEF Bits
  <2> QED  BY <1>0, <2>1, EventFields
<1> HIDE DEF f
<1>12. /\ RouteTypeOK' /\ play' = play /\ lab' = u
       /\ events' = IF u.failed = "nothing" THEN (events \ {due}) \cup new ELSE {}
  <2>1. new \subseteq EventType /\ (new = {} \/ \E g : new = {g})
    BY <1>11 DEF IsEvent
  <2> HIDE DEF new
  <2> QED  BY <1>3, <1>8, <2>1, StepTypes
<1>13. events' = new
  BY <1>1, <1>10, <1>12
<1>14. RequestClocks'
  BY <1>10, <1>11, <1>12, <1>13 DEF RequestClocks, AllDue, IsEvent
<1>15. IF r < Len(play.routes) THEN Awaits("request", r + 1, 1)' ELSE events' = {}
  BY <1>11, <1>13 DEF Awaits, IsEvent
<1> QED  BY <1>3, <1>5, <1>9, <1>12, <1>14, <1>15

\* One more route has been reported.
LEMMA ReportsGrow ==
  ASSUME play' = play, NEW R, Reports(R), NEW r, results' = results \cup {BellState(r)}
  PROVE  Reports(R \cup {r})'
<1>1. \A i : Ends(i)' = Ends(i)
  BY SamePlay
<1> DEFINE b(i) == [r |-> i, pair |-> [ends |-> Ends(i), x |-> 0, z |-> 0]]
           c(i) == [r |-> i, pair |-> [ends |-> Ends(i)', x |-> 0, z |-> 0]]
<1>2. \A i : b(i) = c(i)
  BY <1>1
<1>3. results = {b(i) : i \in R} /\ BellState(r) = b(r)
  BY DEF Reports, BellState
<1> HIDE DEF b, c
<1>4. results' = {c(i) : i \in R \cup {r}}
  BY <1>2, <1>3
<1> QED  BY <1>4 DEF Reports, c

\* A step of the requests keeps what they need.
LEMMA RequestStep ==
  ASSUME RouteTypeOK, play.program = "requests", RequestsKept, RouteNext
  PROVE  RouteTypeOK' /\ RequestsKept' /\ play' = play
<1>0. /\ play \in Plays /\ RequestClocks
      /\ Len(play.routes) \in Nat /\ DOMAIN play.routes = 1 .. Len(play.routes)
  BY RouteFacts DEF RouteTypeOK, RequestsKept, RequestClocks
<1>1. events # {}
  BY DEF RouteNext, Runs, Generate, ExecuteSwapStep, ContinueAfterSignal, Evaluate,
         StartRequest, SwapHop, FinishRequest, RelayAct, FinishPath, AfterWait
<1>2. PICK r \in DOMAIN play.routes :
        /\ Reports(1 .. r - 1)
        /\ \/ Awaits("request", r, 1) /\ lab.pairs = {}
           \/ \E k \in 1 .. Links(r) :
                /\ Awaits(IF k < Links(r) THEN "hop" ELSE "finish", r, k)
                /\ lab.pairs = Row(r, Links(r), k, 0, 0)
  BY <1>1, Zenon DEF RequestsKept
<1>3. Links(r) \in Nat /\ Links(r) > 0
  BY <1>0, RouteFacts
<1>4. ASSUME RouteTypeOK', RequestClocks', play' = play, results' = results,
             NEW k \in 1 .. Links(r),
             Awaits(IF k < Links(r) THEN "hop" ELSE "finish", r, k)',
             lab'.pairs = Row(r, Links(r), k, 0, 0)
      PROVE  RouteTypeOK' /\ RequestsKept' /\ play' = play
  <2>1. Links(r)' = Links(r) /\ \A i : Ends(i)' = Ends(i)
    BY <1>4, SamePlay
  <2>2. Reports(1 .. r - 1)'
    BY <1>2, <1>4, <2>1 DEF Reports
  <2>3. k \in 1 .. Links(r)' /\ lab'.pairs = Row(r, Links(r)', k, 0, 0)
    BY <1>4, <2>1
  <2>4. r \in DOMAIN play'.routes
    BY <1>4
  <2> QED  BY <1>4, <2>2, <2>3, <2>4, Zenon DEF RequestsKept, RequestClocks
<1>5. CASE Awaits("request", r, 1) /\ lab.pairs = {}
  <2>1. 1 \in 1 .. Links(r)
    BY <1>3
  <2> QED  BY <1>0, <1>4, <1>5, <2>1, RequestStarts
<1>6. ASSUME NEW k \in 1 .. Links(r),
             Awaits(IF k < Links(r) THEN "hop" ELSE "finish", r, k),
             lab.pairs = Row(r, Links(r), k, 0, 0)
      PROVE  RouteTypeOK' /\ RequestsKept' /\ play' = play
  <2>1. CASE k < Links(r)
    <3>1. Awaits("hop", r, k)
      BY <1>6, <2>1, Zenon
    <3>2. k + 1 \in 1 .. Links(r)
      BY <1>3, <2>1
    <3>3. /\ RouteTypeOK' /\ RequestClocks' /\ play' = play /\ results' = results
          /\ Awaits(IF k + 1 < Links(r) THEN "hop" ELSE "finish", r, k + 1)'
          /\ lab'.pairs = Row(r, Links(r), k + 1, 0, 0)
      BY <1>0, <1>6, <2>1, <3>1, RequestSwaps
    <3> QED  BY <1>4, <3>2, <3>3
  <2>2. CASE ~ k < Links(r)
    <3>1. k = Links(r)
      BY <1>3, <2>2
    <3>2. Awaits("finish", r, Links(r))
      BY <1>6, <2>2, <3>1, Zenon
    <3>3. /\ RouteTypeOK' /\ RequestClocks' /\ play' = play
          /\ results' = results \cup {BellState(r)}
          /\ lab'.pairs = {}
          /\ IF r < Len(play.routes) THEN Awaits("request", r + 1, 1)' ELSE events' = {}
      BY <1>0, <1>6, <3>1, <3>2, RequestFinishes
    <3>4. 1 .. r = (1 .. r - 1) \cup {r} /\ r + 1 - 1 = r
      BY <1>0
    <3>5. Reports(1 .. r)'
      BY <1>2, <3>3, <3>4, ReportsGrow
    <3>6. CASE r < Len(play.routes)
      <4>1. r + 1 \in DOMAIN play'.routes
        BY <1>0, <3>3, <3>6
      <4>3. Awaits("request", r + 1, 1)'
        BY <3>3, <3>6
      <4>4. RouteTypeOK' /\ RequestClocks' /\ play' = play /\ lab'.pairs = {}
        BY <3>3
      <4> DEFINE j == r + 1
      <4>5. j \in DOMAIN play'.routes
        BY <4>1
      <4>6. Reports(1 .. j - 1)'
        <5>1. j - 1 = r
          BY <1>0
        <5> QED  BY <3>5, <5>1 DEF Reports
      <4>7. Awaits("request", j, 1)'
        BY <4>3
      <4> HIDE DEF j
      <4> QED  BY <4>4, <4>5, <4>6, <4>7, Zenon DEF RequestsKept, RequestClocks
    <3>7. CASE ~ r < Len(play.routes)
      <4>1. 1 .. r = DOMAIN play'.routes
        BY <1>0, <3>3, <3>7
      <4>2. Reports(DOMAIN play.routes)'
        BY <3>5, <4>1 DEF Reports
      <4>3. events' = {}
        BY <3>3, <3>7
      <4> QED  BY <3>3, <4>2, <4>3, Zenon DEF RequestsKept, RequestClocks
    <3> QED  BY <3>6, <3>7
  <2> QED  BY <2>1, <2>2
<1> QED  BY <1>2, <1>5, <1>6

(***************************************************************************)
(* The two routes of the mismatch example                                  *)
(***************************************************************************)
\* The row of the other route.
Beside(r, k, x, z) == LET o == 3 - r IN Row(o, Links(o), k[o], x[o], z[o])

\* The pairs of the two routes are those of one and those of the one beside it.
LEMMA MismatchRow ==
  ASSUME play \in Plays, play.program = "mismatch",
         NEW k \in [{1, 2} -> 1 .. 3], NEW x \in [{1, 2} -> Bits], NEW z \in [{1, 2} -> Bits],
         Told(k, x, z), NEW r \in {1, 2}
  PROVE  /\ Links(r) \in {2, 3}
         /\ HasRow(lab.pairs, Beside(r, k, x, z), r, Links(r), k[r], x[r], z[r])
<1> DEFINE R(i) == Row(i, Links(i), k[i], x[i], z[i])
           o == 3 - r
<1>1. \A i \in {1, 2} : Links(i) \in {2, 3}
  BY PlayFields DEF Links
<1>2. o \in {1, 2} /\ {1, 2} = {o, r} /\ o # r
  OBVIOUS
<1>3. /\ lab.pairs = UNION {R(i) : i \in {1, 2}}
      /\ \A i \in {1, 2} : k[i] <= Links(i)
  BY DEF Told
<1>4. \A i \in {1, 2} : k[i] \in 1 .. Links(i) /\ x[i] \in Bits /\ z[i] \in Bits
                        /\ i \in Nat /\ Links(i) \in Nat
  BY <1>1, <1>3
<1>5. \A i \in {1, 2} : \A p \in R(i) : \A q \in p.ends : q[1] = i
  BY <1>4, RowPairs
<1> HIDE DEF R
<1>6. lab.pairs = R(o) \cup R(r)
  BY <1>2, <1>3
<1>7. Foreign(R(o), r)
  BY <1>2, <1>5 DEF Foreign
<1>8. R(o) = Beside(r, k, x, z) /\ R(r) = Row(r, Links(r), k[r], x[r], z[r])
  BY DEF R, Beside
<1> QED  BY <1>1, <1>4, <1>6, <1>7, <1>8 DEF HasRow

\* One route goes on, and the other is as it was.
LEMMA MismatchAdvances ==
  ASSUME RouteTypeOK, play.program = "mismatch", play' = play,
         NEW k \in [{1, 2} -> 1 .. 3], NEW x \in [{1, 2} -> Bits], NEW z \in [{1, 2} -> Bits],
         Told(k, x, z), NEW r \in {1, 2},
         NEW j \in 1 .. 3, j <= Links(r), NEW a \in Bits, NEW b \in Bits,
         HasRow(lab'.pairs, Beside(r, k, x, z), r, Links(r), j, a, b),
         issued' \in Nat, issued' >= issued,
         \A e \in events' : \/ e \in events /\ e.r # r
                            \/ /\ IsEvent(e, e.at, issued, "pivot", r, Links(r) - 1, a, b)
                               /\ issued' = issued + 1 /\ j = Links(r) - 1,
         \A e, f \in events' \ events : e = f
  PROVE  \E K \in [{1, 2} -> 1 .. 3], X \in [{1, 2} -> Bits], Z \in [{1, 2} -> Bits] : Told(K, X, Z)'
<1> DEFINE K == [k EXCEPT ![r] = j]
           X == [x EXCEPT ![r] = a]
           Z == [z EXCEPT ![r] = b]
           R(i) == Row(i, Links(i), K[i], X[i], Z[i])
           o == 3 - r
<1>0. issued \in Nat /\ events \subseteq EventType /\ play \in Plays
  BY DEF RouteTypeOK
<1>1. K \in [{1, 2} -> 1 .. 3] /\ X \in [{1, 2} -> Bits] /\ Z \in [{1, 2} -> Bits]
  OBVIOUS
<1>2. o \in {1, 2} /\ {1, 2} = {o, r} /\ o # r
  OBVIOUS
<1>3. /\ K[r] = j /\ X[r] = a /\ Z[r] = b
      /\ \A i \in {1, 2} : i # r => K[i] = k[i] /\ X[i] = x[i] /\ Z[i] = z[i]
  OBVIOUS
<1> HIDE DEF K, X, Z
<1>4. lab'.pairs = UNION {R(i) : i \in {1, 2}}
  <2>1. lab'.pairs = Beside(r, k, x, z) \cup Row(r, Links(r), j, a, b)
    BY DEF HasRow
  <2>2. R(o) = Beside(r, k, x, z) /\ R(r) = Row(r, Links(r), j, a, b)
    BY <1>2, <1>3 DEF Beside
  <2> HIDE DEF R
  <2> QED  BY <1>2, <2>1, <2>2
<1>5. /\ \A i \in {1, 2} : k[i] <= Links(i)
      /\ \A e \in events :
           /\ e.r \in {1, 2} /\ e.uid < issued
           /\ e.op = "relay" => e.k = 1 /\ k[e.r] = 1 /\ e.x = 0 /\ e.z = 0
           /\ e.op = "pivot" => e.k = Links(e.r) - 1 /\ k[e.r] = e.k
           /\ e.op \in {"relay", "pivot"} /\ e.x = x[e.r] /\ e.z = z[e.r]
      /\ \A e, f \in events : e.uid = f.uid \/ e.r = f.r => e = f
  BY DEF Told
<1>6. \A i \in {1, 2} : K[i] <= Links(i)
  BY <1>3, <1>5
<1>7. \A e \in events : e.uid \in Nat
  BY <1>0 DEF EventType
<1>8. ASSUME NEW e \in events'
      PROVE  /\ e.r \in {1, 2} /\ e.uid < issued'
             /\ e.op = "relay" => e.k = 1 /\ K[e.r] = 1 /\ e.x = 0 /\ e.z = 0
             /\ e.op = "pivot" => e.k = Links(e.r) - 1 /\ K[e.r] = e.k
             /\ e.op \in {"relay", "pivot"} /\ e.x = X[e.r] /\ e.z = Z[e.r]
  <2>1. CASE e \in events /\ e.r # r
    BY <1>0, <1>3, <1>5, <1>7, <2>1
  <2>2. CASE /\ IsEvent(e, e.at, issued, "pivot", r, Links(r) - 1, a, b)
             /\ issued' = issued + 1 /\ j = Links(r) - 1
    <3>1. /\ e.uid = issued /\ e.op = "pivot" /\ e.r = r /\ e.k = Links(r) - 1
          /\ e.x = a /\ e.z = b
      BY <2>2 DEF IsEvent
    <3> QED  BY <1>0, <1>3, <2>2, <3>1
  <2> QED  BY <2>1, <2>2
<1>9. \A e \in events' \ events : e.uid = issued /\ e.r = r
  BY DEF IsEvent
<1>10. \A e \in events' \cap events : e.uid < issued /\ e.r # r
  <2> SUFFICES ASSUME NEW e \in events' \cap events
               PROVE  e.r # r
    BY <1>5
  <2>1. CASE IsEvent(e, e.at, issued, "pivot", r, Links(r) - 1, a, b)
    <3>1. e.uid = issued
      BY <2>1 DEF IsEvent
    <3> QED  BY <1>0, <1>5, <3>1
  <2> QED  BY <2>1
<1>11. \A e, f \in events' : e.uid = f.uid \/ e.r = f.r => e = f
  <2> SUFFICES ASSUME NEW e \in events', NEW f \in events', e.uid = f.uid \/ e.r = f.r
               PROVE  e = f
    OBVIOUS
  <2>1. CASE e \in events /\ f \in events
    BY <1>5, <2>1
  <2>2. CASE e \notin events /\ f \notin events
    BY <2>2
  <2>3. CASE e \in events /\ f \notin events
    BY <1>0, <1>7, <1>9, <1>10, <2>3
  <2>4. CASE e \notin events /\ f \in events
    BY <1>0, <1>7, <1>9, <1>10, <2>4
  <2> QED  BY <2>1, <2>2, <2>3, <2>4
<1>12. \A i : Links(i)' = Links(i)
  BY SamePlay
<1>13. Told(K, X, Z)'
  <2>1. lab'.pairs = UNION {Row(i, Links(i)', K[i], X[i], Z[i]) : i \in {1, 2}}
    BY <1>4, <1>12
  <2>2. \A i \in {1, 2} : K[i] <= Links(i)'
    BY <1>6, <1>12
  <2>3. \A e \in events' :
           /\ e.r \in {1, 2} /\ e.uid < issued'
           /\ e.op = "relay" => e.k = 1 /\ K[e.r] = 1 /\ e.x = 0 /\ e.z = 0
           /\ e.op = "pivot" => e.k = Links(e.r)' - 1 /\ K[e.r] = e.k
           /\ e.op \in {"relay", "pivot"} /\ e.x = X[e.r] /\ e.z = Z[e.r]
    BY <1>8, <1>12
  <2> QED  BY <1>11, <2>1, <2>2, <2>3, Zenon DEF Told
<1> QED  BY <1>1, <1>13

\* The noise of waiting is all that can fail.
LEMMA SweptFails ==
  ASSUME NEW s \in Labs, time \in Int, s.failed = "nothing"
  PROVE  Swept(s).failed \in {"nothing", "stale"}
BY SweptLab

\* The event that runs, and what it leaves.
LEMMA MismatchEvent ==
  ASSUME RouteTypeOK, play.program = "mismatch",
         NEW k \in [{1, 2} -> 1 .. 3], NEW x \in [{1, 2} -> Bits], NEW z \in [{1, 2} -> Bits],
         Told(k, x, z), RouteNext
  PROVE  /\ due \in events /\ due \in EventType /\ time \in Nat /\ due.r \in {1, 2}
         /\ \A e \in events \ {due} : e.r # due.r
         /\ due.x = x[due.r] /\ due.z = z[due.r]
         /\ \/ /\ RelayAct /\ due.op = "relay" /\ due.k = 1 /\ k[due.r] = 1
               /\ due.x = 0 /\ due.z = 0
            \/ /\ FinishPath /\ due.op = "pivot"
               /\ due.k = Links(due.r) - 1 /\ k[due.r] = due.k
<1>1. events # {}
  BY DEF RouteNext, Runs, Generate, ExecuteSwapStep, ContinueAfterSignal, Evaluate,
         StartRequest, SwapHop, FinishRequest, RelayAct, FinishPath, AfterWait
<1>2. /\ \A e \in events :
           /\ e.r \in {1, 2} /\ e.uid < issued
           /\ e.op = "relay" => e.k = 1 /\ k[e.r] = 1 /\ e.x = 0 /\ e.z = 0
           /\ e.op = "pivot" => e.k = Links(e.r) - 1 /\ k[e.r] = e.k
           /\ e.op \in {"relay", "pivot"} /\ e.x = x[e.r] /\ e.z = z[e.r]
      /\ \A e, f \in events : e.uid = f.uid \/ e.r = f.r => e = f
  BY DEF Told
<1>3. due \in events
  BY <1>1, <1>2, DueIsFirst
<1>4. due \in EventType
  BY <1>3 DEF RouteTypeOK
<1>5. time \in Nat
  BY <1>4 DEF time, EventType
<1>6. due.op = "relay" => RelayAct
  BY DEF RouteNext, Runs, Generate, ExecuteSwapStep, ContinueAfterSignal, Evaluate,
         StartRequest, SwapHop, FinishRequest, RelayAct, FinishPath, AfterWait
<1>7. due.op = "pivot" => FinishPath
  BY DEF RouteNext, Runs, Generate, ExecuteSwapStep, ContinueAfterSignal, Evaluate,
         StartRequest, SwapHop, FinishRequest, RelayAct, FinishPath, AfterWait
<1>8. \A e \in events \ {due} : e.r # due.r
  BY <1>2, <1>3
<1>9. /\ due.r \in {1, 2}
      /\ due.op = "relay" => due.k = 1 /\ k[due.r] = 1 /\ due.x = 0 /\ due.z = 0
      /\ due.op = "pivot" => due.k = Links(due.r) - 1 /\ k[due.r] = due.k
      /\ due.op \in {"relay", "pivot"} /\ due.x = x[due.r] /\ due.z = z[due.r]
  BY <1>2, <1>3
<1> QED  BY <1>3, <1>4, <1>5, <1>6, <1>7, <1>8, <1>9

\* The reports as they are stay what they are.
LEMMA ReportsStay ==
  ASSUME play' = play, results' = results, \E routes \in SUBSET {1, 2} : Reports(routes)
  PROVE  (\E routes \in SUBSET {1, 2} : Reports(routes))'
<1>1. PICK routes \in SUBSET {1, 2} : Reports(routes)
  OBVIOUS
<1>2. \A r : Ends(r)' = Ends(r)
  BY SamePlay
<1>3. Reports(routes)'
  BY <1>1, <1>2 DEF Reports
<1> QED  BY <1>3

\* A relay keeps what the mismatch example needs.
LEMMA RelayStep ==
  ASSUME RouteTypeOK, play.program = "mismatch", MismatchKept, lab.failed = "nothing",
         NEW k \in [{1, 2} -> 1 .. 3], NEW x \in [{1, 2} -> Bits], NEW z \in [{1, 2} -> Bits],
         Told(k, x, z), RouteNext, due.op = "relay"
  PROVE  RouteTypeOK' /\ MismatchKept' /\ play' = play
<1> DEFINE r == due.r
           n == Links(r)
<1>0. /\ play \in Plays /\ lab \in Labs /\ AllBorn(lab) /\ issued \in Nat
      /\ play.delays[r] \in Nat /\ play.jitters \subseteq Nat
  <2>1. /\ play \in Plays /\ lab \in Labs /\ AllBorn(lab) /\ issued \in Nat
    BY DEF RouteTypeOK
  <2>2. r \in {1, 2}
    BY MismatchEvent
  <2>3. r \in DOMAIN play.routes
    BY <2>1, <2>2, PlayFields, RouteFacts
  <2> QED  BY <2>1, <2>3, PlayFields, RouteFacts
<1>1. /\ due \in events /\ due \in EventType /\ time \in Nat /\ r \in {1, 2}
      /\ \A e \in events \ {due} : e.r # r
      /\ RelayAct /\ k[r] = 1 /\ x[r] = 0 /\ z[r] = 0
  BY MismatchEvent
<1>2. n \in {2, 3} /\ HasRow(lab.pairs, Beside(r, k, x, z), r, n, 1, 0, 0)
  <2>1. n \in {2, 3} /\ HasRow(lab.pairs, Beside(r, k, x, z), r, n, k[r], x[r], z[r])
    BY <1>0, <1>1, MismatchRow
  <2> HIDE DEF r, n
  <2> QED  BY <1>1, <2>1
<1> DEFINE direct == n = 2
           after(a, b) == IF direct THEN lab ELSE BellMeasured(lab, God, Right(r, 0), Left(r, 1), a, b)
           j == n - 1
           f(a, b, t) == [Event(t, issued, "pivot", r, j) EXCEPT !.x = a, !.z = b]
<1>3. PICK a \in Bits, b \in Bits, jitter \in play.jitters, drops \in play.losses :
        /\ Runs("relay", after(a, b),
                IF drops THEN {} ELSE {f(a, b, time + MilliSeconds(play.delays[r] + jitter))})
        /\ direct => a = 0 /\ b = 0
        /\ results' = results
  <2>1. RelayAct
    BY <1>1
  <2> QED  BY <2>1 DEF RelayAct
<1> DEFINE t == time + MilliSeconds(play.delays[r] + jitter)
           e == f(a, b, t)
           s == after(a, b)
           new == IF drops THEN {} ELSE {e}
<1>4. t \in Nat
  <2>1. jitter \in Nat
    BY <1>0
  <2>2. play.delays[r] + jitter \in Nat
    BY <1>0, <2>1
  <2>3. MilliSeconds(play.delays[r] + jitter) \in Nat
    BY <2>2, Rounding
  <2> QED  BY <1>1, <2>3
<1>5. /\ s \in Labs /\ AllBorn(s) /\ HasRow(s.pairs, Beside(r, k, x, z), r, n, j, a, b)
      /\ s.failed \in {"nothing", "stale"}
  <2>1. CASE direct
    <3>1. s = lab /\ j = 1 /\ a = 0 /\ b = 0
      BY <1>3, <2>1
    <3> HIDE DEF s, j, r, n
    <3> QED  BY <1>0, <1>2, <3>1
  <2>2. CASE ~ direct
    <3>1. n = 3 /\ j = 2
      BY <1>2, <2>2
    <3> DEFINE w == BellMeasured(lab, God, Right(r, 1 - 1), Left(r, 1), a, b)
    <3>2. w = s
      <4>1. 1 - 1 = 0
        OBVIOUS
      <4> QED  BY <2>2, <4>1
    <3>3. w \in Labs /\ AllBorn(w)
          /\ HasMeasured(w, lab, Beside(r, k, x, z), r, n, 1, (0 + a) % 2, (0 + b) % 2, God)
      <4>1. /\ 1 \in 1 .. n /\ 1 < n /\ n \in Nat /\ r \in Nat /\ 0 \in Bits /\ time \in Int
        BY <1>1, <3>1 DEF Bits
      <4> HIDE DEF r, n
      <4> QED  BY <1>0, <1>2, <4>1, BellMeasuredLab
    <3>4. (0 + a) % 2 = a /\ (0 + b) % 2 = b /\ 1 + 1 = 2
      BY Parity
    <3> HIDE DEF w, s, r, n, j
    <3>5. HasMeasured(w, lab, Beside(r, k, x, z), r, n, 1, a, b, God)
      BY <3>3, <3>4
    <3>6. HasRow(w.pairs, Beside(r, k, x, z), r, n, 1 + 1, a, b) /\ w.failed = Swept(lab).failed
      BY <3>5, GodOperates, Zenon DEF HasMeasured
    <3>7. Swept(lab).failed \in {"nothing", "stale"}
      <4>1. time \in Int
        BY <1>1
      <4> QED  BY <1>0, <4>1, SweptFails
    <3> QED  BY <3>1, <3>2, <3>3, <3>4, <3>6, <3>7
  <2> HIDE DEF s
  <2> QED  BY <2>1, <2>2
<1>6. IsEvent(e, t, issued, "pivot", r, j, a, b)
  <2>1. j \in Nat /\ r \in Nat
    BY <1>1, <1>2
  <2> HIDE DEF t, r, j
  <2> QED  BY <1>0, <1>4, <2>1, PacketFields
<1> HIDE DEF s, e, t
<1>7. /\ RouteTypeOK' /\ play' = play /\ lab' = s
      /\ events' = IF s.failed = "nothing" THEN (events \ {due}) \cup new ELSE {}
      /\ issued' = IF new = {} THEN issued ELSE issued + 1
  <2>1. new \subseteq EventType /\ (new = {} \/ \E g : new = {g})
    BY <1>6 DEF IsEvent
  <2>2. Runs("relay", s, new)
    BY <1>3 DEF s, e, t
  <2> HIDE DEF new
  <2> QED  BY <1>5, <2>1, <2>2, StepTypes
<1>8. (\E routes \in SUBSET {1, 2} : Reports(routes))'
  BY <1>3, <1>7, ReportsStay DEF MismatchKept
<1>9. CASE s.failed = "stale"
  BY <1>7, <1>8, <1>9 DEF MismatchKept
<1>10. CASE s.failed = "nothing"
  <2>1. events' = (events \ {due}) \cup new
    BY <1>7, <1>10
  <2>2. issued' \in Nat /\ issued' >= issued
    BY <1>0, <1>7
  <2>3. IsEvent(e, e.at, issued, "pivot", r, j, a, b)
    BY <1>6 DEF IsEvent
  <2>4. \A g \in events' : \/ g \in events /\ g.r # r
                           \/ /\ IsEvent(g, g.at, issued, "pivot", r, j, a, b)
                              /\ issued' = issued + 1
    <3> SUFFICES ASSUME NEW g \in events'
                 PROVE  \/ g \in events /\ g.r # r
                        \/ /\ IsEvent(g, g.at, issued, "pivot", r, j, a, b)
                           /\ issued' = issued + 1
      OBVIOUS
    <3>1. CASE g \in events \ {due}
      BY <1>1, <3>1
    <3>2. CASE g \in new
      <4>1. g = e /\ new # {}
        BY <3>2
      <4> QED  BY <1>7, <2>3, <4>1
    <3> QED  BY <2>1, <3>1, <3>2
  <2>5. \A g, h \in events' \ events : g = h
    BY <2>1
  <2>6. \E K \in [{1, 2} -> 1 .. 3], X \in [{1, 2} -> Bits], Z \in [{1, 2} -> Bits] : Told(K, X, Z)'
    <3>1. j \in 1 .. 3 /\ j <= Links(r) /\ j = Links(r) - 1
      BY <1>2
    <3>2. HasRow(lab'.pairs, Beside(r, k, x, z), r, Links(r), j, a, b)
      BY <1>5, <1>7
    <3>3. \A g \in events' : \/ g \in events /\ g.r # r
                             \/ /\ IsEvent(g, g.at, issued, "pivot", r, Links(r) - 1, a, b)
                                /\ issued' = issued + 1 /\ j = Links(r) - 1
      BY <2>4, <3>1
    <3>4. r \in {1, 2}
      BY <1>1
    <3> HIDE DEF r, j, n, new
    <3> QED  BY <1>7, <2>2, <2>5, <3>1, <3>2, <3>3, <3>4, MismatchAdvances
  <2>7. lab'.failed = "nothing"
    BY <1>7, <1>10
  <2> HIDE DEF new
  <2> QED  BY <1>7, <1>8, <2>6, <2>7, Zenon DEF MismatchKept
<1> QED  BY <1>5, <1>9, <1>10

\* A pivot keeps what the mismatch example needs.
LEMMA PivotStep ==
  ASSUME RouteTypeOK, play.program = "mismatch", MismatchKept, lab.failed = "nothing",
         NEW k \in [{1, 2} -> 1 .. 3], NEW x \in [{1, 2} -> Bits], NEW z \in [{1, 2} -> Bits],
         Told(k, x, z), RouteNext, due.op = "pivot"
  PROVE  RouteTypeOK' /\ MismatchKept' /\ play' = play
<1>0. play \in Plays /\ lab \in Labs /\ AllBorn(lab) /\ issued \in Nat
  BY DEF RouteTypeOK
<1>1. PICK r, j, c, d : r = due.r /\ j = due.k /\ c = x[due.r] /\ d = z[due.r]
  OBVIOUS
<1> DEFINE n == Links(r)
           O == Beside(r, k, x, z)
<1>2. /\ due \in events /\ time \in Nat /\ r \in {1, 2}
      /\ \A e \in events \ {due} : e.r # r
      /\ due.x = c /\ due.z = d
      /\ FinishPath /\ j = n - 1 /\ k[r] = j
  BY <1>1, MismatchEvent
<1>3. n \in {2, 3} /\ HasRow(lab.pairs, O, r, n, j, c, d)
  <2>1. n \in {2, 3} /\ HasRow(lab.pairs, O, r, n, k[r], x[r], z[r])
    BY <1>0, <1>2, MismatchRow
  <2> HIDE DEF n, O
  <2> QED  BY <1>1, <1>2, <2>1
<1>4. /\ j \in 1 .. n /\ j < n /\ j + 1 = n /\ n \in Nat /\ n > 0 /\ r \in Nat /\ time \in Int
      /\ c \in Bits /\ d \in Bits /\ j \in Nat
  <2>1. r \in {1, 2} /\ time \in Nat /\ j = n - 1
    BY <1>2
  <2>2. c \in Bits /\ d \in Bits
    BY <1>1, <1>2
  <2> HIDE DEF n
  <2> QED  BY <1>3, <2>1, <2>2
<1> DEFINE told == Corrected(lab, God, Right(r, j - 1), c, d)
           s(a, b) == Corrected(BellMeasured(told, God, Right(r, j - 1), Left(r, j), a, b),
                                God, Right(r, j), a, b)
<1>5. PICK a \in Bits, b \in Bits :
        /\ Runs("pivot", IF s(a, b).failed = "nothing" THEN Evaluated(s(a, b), r) ELSE s(a, b), {})
        /\ results' = IF s(a, b).failed = "nothing"
                      THEN results \cup {Measurement(s(a, b), r)} ELSE results
  <2>1. FinishPath /\ due.x = c /\ due.z = d /\ due.r = r /\ due.k = j
    BY <1>1, <1>2
  <2> QED  BY <2>1 DEF FinishPath
<1> DEFINE w == s(a, b)
           u == Evaluated(w, r)
<1>6. told \in Labs /\ AllBorn(told) /\ HasRow(told.pairs, O, r, n, j, 0, 0)
      /\ told.failed = "nothing"
  <2>1. told \in Labs /\ AllBorn(told)
        /\ HasCorrected(told, lab, O, r, n, j, (c + c) % 2, (d + d) % 2, God)
    <3>1. /\ c \in Bits /\ d \in Bits /\ HasRow(lab.pairs, O, r, n, j, c, d)
          /\ j \in 1 .. n /\ n \in Nat /\ r \in Nat
      BY <1>3, <1>4
    <3> HIDE DEF n, O
    <3> QED  BY <1>0, <3>1, CorrectedLab
  <2>2. (c + c) % 2 = 0 /\ (d + d) % 2 = 0
    BY <1>4, Parity
  <2> HIDE DEF told, n, O
  <2>3. HasCorrected(told, lab, O, r, n, j, 0, 0, God)
    BY <2>1, <2>2
  <2> QED  BY <2>1, <2>3, GodOperates, Zenon DEF HasCorrected
<1>7. /\ w \in Labs /\ AllBorn(w)
      /\ HasRow(w.pairs, O, r, n, n, 0, 0)
      /\ w.failed = Swept(told).failed
  <2> HIDE DEF told, n, O
  <2>1. w \in Labs /\ AllBorn(w) /\ HasSwapped(w, told, O, r, n, j)
    BY <1>4, <1>6, SwappedAndCorrected
  <2> HIDE DEF w
  <2> QED  BY <1>4, <2>1 DEF HasSwapped
<1>8. w.failed \in {"nothing", "stale"}
  <2> HIDE DEF told, w
  <2> QED  BY <1>4, <1>6, <1>7, SweptFails
<1> HIDE DEF s, w, told
<1>9. /\ Measurement(w, r) = BellState(r)
      /\ Joined(r, n, 0, 0) \in w.pairs /\ Joined(r, n, 0, 0).ends = Ends(r)
  <2>1. n = Links(r)
    OBVIOUS
  <2> HIDE DEF n
  <2> QED  BY <1>4, <1>7, <2>1, RouteIsMeasured
<1>10. Ends(r) \subseteq DOMAIN w.born
  BY <1>7, <1>9 DEF AllBorn
<1>11. /\ u \in Labs /\ AllBorn(u) /\ u.pairs = w.pairs /\ u.failed = Swept(w).failed
  <2> QED  BY <1>4, <1>7, <1>10, EvaluatedLab
<1>12. w.failed = "nothing" => u.failed \in {"nothing", "stale"}
  BY <1>4, <1>7, <1>11, SweptFails
<1> HIDE DEF u
<1>13. PICK routes \in SUBSET {1, 2} : Reports(routes)
  BY DEF MismatchKept
<1>14. CASE w.failed = "stale"
  <2>1. Runs("pivot", w, {}) /\ results' = results
    BY <1>5, <1>14 DEF w
  <2>2. /\ RouteTypeOK' /\ play' = play /\ lab' = w /\ events' = {}
    <3>1. {} \subseteq EventType /\ ({} = {} \/ \E g : {} = {g})
      OBVIOUS
    <3> QED  BY <1>7, <1>14, <2>1, <3>1, StepTypes
  <2>3. (\E R \in SUBSET {1, 2} : Reports(R))'
    BY <1>13, <2>1, <2>2, ReportsStay
  <2> QED  BY <1>14, <2>2, <2>3 DEF MismatchKept
<1>15. CASE w.failed = "nothing"
  <2>1. Runs("pivot", u, {}) /\ results' = results \cup {BellState(r)}
    BY <1>5, <1>9, <1>15 DEF w, u
  <2>2. /\ RouteTypeOK' /\ play' = play /\ lab' = u
        /\ events' = IF u.failed = "nothing" THEN (events \ {due}) \cup {} ELSE {}
        /\ issued' = IF {} = {} THEN issued ELSE issued + 1
    <3>1. {} \subseteq EventType /\ ({} = {} \/ \E g : {} = {g})
      OBVIOUS
    <3> QED  BY <1>11, <2>1, <3>1, StepTypes
  <2>3. Reports(routes \cup {r})'
    BY <1>13, <2>1, <2>2, ReportsGrow
  <2>4. (\E R \in SUBSET {1, 2} : Reports(R))'
    <3>1. routes \cup {r} \in SUBSET {1, 2}
      BY <1>2
    <3> QED  BY <2>3, <3>1
  <2>5. CASE u.failed = "stale"
    BY <2>2, <2>4, <2>5 DEF MismatchKept
  <2>6. CASE u.failed = "nothing"
    <3>1. events' = events \ {due} /\ issued' = issued
      BY <2>2, <2>6
    <3>2. issued' \in Nat /\ issued' >= issued
      BY <1>0, <3>1
    <3>3. \A e \in events' : \/ e \in events /\ e.r # r
                             \/ /\ IsEvent(e, e.at, issued, "pivot", r, Links(r) - 1, 0, 0)
                                /\ issued' = issued + 1 /\ n = Links(r) - 1
      BY <1>2, <3>1
    <3>4. \A e, f \in events' \ events : e = f
      BY <3>1
    <3>5. \E K \in [{1, 2} -> 1 .. 3], X \in [{1, 2} -> Bits], Z \in [{1, 2} -> Bits] : Told(K, X, Z)'
      <4>1. n \in 1 .. 3 /\ n <= Links(r) /\ 0 \in Bits /\ r \in {1, 2}
        BY <1>2, <1>3 DEF Bits
      <4>2. HasRow(lab'.pairs, Beside(r, k, x, z), r, Links(r), n, 0, 0)
        BY <1>7, <1>11, <2>2
      <4> HIDE DEF n, O
      <4> QED  BY <2>2, <3>2, <3>3, <3>4, <4>1, <4>2, MismatchAdvances
    <3>6. lab'.failed = "nothing"
      BY <2>2, <2>6
    <3> QED  BY <2>2, <2>4, <3>5, <3>6, Zenon DEF MismatchKept
  <2> QED  BY <1>12, <1>15, <2>5, <2>6
<1> QED  BY <1>8, <1>14, <1>15

\* A step of the mismatch example keeps what it needs.
LEMMA MismatchStep ==
  ASSUME RouteTypeOK, play.program = "mismatch", MismatchKept, RouteNext
  PROVE  RouteTypeOK' /\ MismatchKept' /\ play' = play
<1>1. events # {}
  BY DEF RouteNext, Runs, Generate, ExecuteSwapStep, ContinueAfterSignal, Evaluate,
         StartRequest, SwapHop, FinishRequest, RelayAct, FinishPath, AfterWait
<1>2. lab.failed = "nothing"
  BY <1>1, Zenon DEF MismatchKept
<1>3. PICK k \in [{1, 2} -> 1 .. 3], x \in [{1, 2} -> Bits], z \in [{1, 2} -> Bits] : Told(k, x, z)
  BY <1>1, Zenon DEF MismatchKept
<1>4. due.op = "relay" \/ due.op = "pivot"
  BY <1>3, MismatchEvent
<1> QED  BY <1>2, <1>3, <1>4, RelayStep, PivotStep

(***************************************************************************)
(* What holds at first                                                     *)
(***************************************************************************)
\* The events that a study starts with are finitely many.
LEMMA FinitelyMany ==
  ASSUME NEW n \in Nat, NEW f
  PROVE  IsFiniteSet({f[i] : i \in 0 .. n - 1})
<1> DEFINE S == 0 .. n - 1
           T == {f[i] : i \in S}
           g == [i \in S |-> f[i]]
<1>1. IsFiniteSet(S)
  BY FS_Interval
<1>2. g \in Surjection(S, T)
  BY DEF Surjection
<1> HIDE DEF S, T, g
<1>3. IsFiniteSet(T)
  BY <1>1, <1>2, FS_Surjection
<1> QED  BY <1>3 DEF T, S

\* The first events are events, and finitely many.
LEMMA FirstEventsTyped ==
  ASSUME play \in Plays
  PROVE  FirstEvents \subseteq EventType /\ IsFiniteSet(FirstEvents)
<1> DEFINE n == Links(1)
<1>0. /\ n \in Nat /\ n > 0 /\ 1 \in DOMAIN play.routes
      /\ 0 \in Nat /\ 1 \in Nat /\ 2 \in Nat /\ 0 \in Bits
      /\ play.program \in {"study", "requests", "mismatch", "test"}
  BY RouteFacts, PlayFields DEF Bits
<1>1. CASE play.program = "study"
  <2> DEFINE g(i) == Event(MilliSeconds(Setup(1, i)), i, "generate", 1, i)
             op == IF n = 1 THEN "evaluate" ELSE "swap"
             start == Event(ChainStart, n, op, 1, 1)
             f == [i \in 0 .. n - 1 |-> g(i)]
  <2>1. ASSUME NEW i \in 0 .. n - 1
        PROVE  g(i) \in EventType
    <3>1. MilliSeconds(Setup(1, i)) \in Nat /\ i \in Nat
      BY <1>0, ChainStartsLast
    <3>2. IsEvent(g(i), MilliSeconds(Setup(1, i)), i, "generate", 1, i, 0, 0)
      BY <1>0, <3>1, EventFields
    <3> QED  BY <3>2, Zenon DEF IsEvent
  <2>2. start \in EventType
    <3>1. ChainStart \in Nat
      BY ChainStartsLast
    <3>2. op \in {"evaluate", "swap"}
      OBVIOUS
    <3> HIDE DEF op
    <3>3. IsEvent(start, ChainStart, n, op, 1, 1, 0, 0)
      BY <1>0, <3>1, <3>2, EventFields
    <3> QED  BY <3>3, Zenon DEF IsEvent
  <2> HIDE DEF g
  <2>3. {g(i) : i \in 0 .. n - 1} = {f[i] : i \in 0 .. n - 1}
    OBVIOUS
  <2> HIDE DEF f, start
  <2>4. IsFiniteSet({g(i) : i \in 0 .. n - 1})
    BY <1>0, <2>3, FinitelyMany
  <2>5. IsFiniteSet({g(i) : i \in 0 .. n - 1} \cup {start})
    BY <2>4, FS_AddElement
  <2>6. FirstEvents = {g(i) : i \in 0 .. n - 1} \cup {start}
    BY <1>1 DEF FirstEvents, g, start
  <2> QED  BY <2>1, <2>2, <2>5, <2>6
<1>2. CASE play.program = "requests"
  <2> DEFINE e == Event(0, 0, "request", 1, 1)
  <2>1. FirstEvents = {e}
    BY <1>2 DEF FirstEvents
  <2>2. IsEvent(e, 0, 0, "request", 1, 1, 0, 0)
    BY <1>0, EventFields
  <2> HIDE DEF e
  <2> QED  BY <2>1, <2>2, FS_Singleton DEF IsEvent
<1>3. CASE play.program = "mismatch"
  <2> DEFINE e == Event(0, 0, "relay", 1, 1)
             f == Event(0, 1, "relay", 2, 1)
  <2>1. FirstEvents = {e, f}
    BY <1>3 DEF FirstEvents
  <2>2. IsEvent(e, 0, 0, "relay", 1, 1, 0, 0) /\ IsEvent(f, 0, 1, "relay", 2, 1, 0, 0)
    BY <1>0, EventFields
  <2> HIDE DEF e, f
  <2>3. IsFiniteSet({e}) /\ {e, f} = {e} \cup {f}
    BY FS_Singleton
  <2>4. IsFiniteSet({e} \cup {f})
    BY <2>3, FS_AddElement
  <2> QED  BY <2>1, <2>2, <2>3, <2>4 DEF IsEvent
<1>4. CASE play.program = "test"
  <2> DEFINE t == MilliSeconds(play.delays[1])
             e == Event(t, 0, "wait", 1, 1)
  <2>1. FirstEvents = {e}
    BY <1>4 DEF FirstEvents
  <2>2. t \in Nat
    BY <1>0, RouteFacts, Rounding
  <2> HIDE DEF t
  <2>3. IsEvent(e, t, 0, "wait", 1, 1, 0, 0)
    BY <1>0, <2>2, EventFields
  <2> HIDE DEF e
  <2> QED  BY <2>1, <2>3, FS_Singleton DEF IsEvent
<1> QED  BY <1>0, <1>1, <1>2, <1>3, <1>4

\* The entity before anything is made.
LEMMA EmptyEntity ==
  /\ EmptyLab \in Labs /\ AllBorn(EmptyLab)
  /\ EmptyLab.pairs = {} /\ EmptyLab.live = {} /\ EmptyLab.failed = "nothing"
  /\ DOMAIN EmptyLab.memory = {} /\ DOMAIN EmptyLab.born = {} /\ DOMAIN EmptyLab.waited = {}
<1> DEFINE c == <<>>
<1>1. DOMAIN c = {} /\ c \in [{} -> Int]
  OBVIOUS
<1>2. {} \in SUBSET RouteQubits
  OBVIOUS
<1>3. c \in Clocks
  BY <1>1, <1>2 DEF Clocks
<1> HIDE DEF c
<1> DEFINE s == [pairs |-> {}, live |-> {}, memory |-> c, born |-> c, waited |-> c,
                 failed |-> "nothing"]
<1>4. s \in Labs
  BY <1>3 DEF Labs
<1>5. /\ s.pairs = {} /\ s.live = {} /\ s.failed = "nothing"
      /\ s.memory = c /\ s.born = c /\ s.waited = c
  OBVIOUS
<1>6. EmptyLab = s
  BY DEF EmptyLab, c
<1> HIDE DEF s
<1>7. AllBorn(s)
  BY <1>5 DEF AllBorn
<1> QED  BY <1>1, <1>4, <1>5, <1>6, <1>7

\* The entity when the simulator starts: the pairs of the routes of R, at time 0.
LEMMA FirstEntity ==
  ASSUME NEW L \in SUBSET (Nat \X Nat), lab = Generated(EmptyLab, L, 0)
  PROVE  /\ lab \in Labs /\ AllBorn(lab) /\ lab.failed = "nothing"
         /\ lab.pairs = {LinkPair(l[1], l[2]) : l \in L} /\ lab.live = QubitsOf(L)
         /\ DOMAIN lab.memory = QubitsOf(L) /\ DOMAIN lab.born = QubitsOf(L)
         /\ DOMAIN lab.waited = {}
<1>1. 0 \in Nat
  OBVIOUS
<1>2. lab \in Labs /\ AllBorn(lab) /\ Adds(lab, EmptyLab, L, 0)
  BY <1>1, EmptyEntity, GeneratedLab
<1>3. /\ lab.pairs = {} \cup {LinkPair(l[1], l[2]) : l \in L}
      /\ lab.live = {} \cup QubitsOf(L)
      /\ DOMAIN lab.memory = {} \cup QubitsOf(L)
      /\ DOMAIN lab.born = {} \cup QubitsOf(L)
      /\ lab.waited = EmptyLab.waited /\ lab.failed = "nothing"
  BY <1>2, EmptyEntity, Zenon DEF Adds
<1> QED  BY <1>2, <1>3, EmptyEntity

\* A study begins with all its links to be set up.
LEMMA StudyBegins ==
  ASSUME RouteInit, play.program = "study"
  PROVE  StudyKept /\ lab \in Labs /\ AllBorn(lab)
<1> DEFINE n == Links(1)
           G == 0 .. n - 1
<1>1. {} \in SUBSET (Nat \X Nat) /\ lab = Generated(EmptyLab, {}, 0)
  BY DEF RouteInit, FirstLab
<1>2. QubitsOf({}) = {} /\ {LinkPair(l[1], l[2]) : l \in {}} = {}
  BY DEF QubitsOf
<1>3. /\ lab \in Labs /\ AllBorn(lab) /\ lab.failed = "nothing"
      /\ lab.pairs = {} /\ lab.live = {}
      /\ DOMAIN lab.memory = {} /\ DOMAIN lab.born = {}
      /\ DOMAIN lab.waited = {}
  <2>1. /\ lab \in Labs /\ AllBorn(lab) /\ lab.failed = "nothing"
        /\ lab.pairs = {LinkPair(l[1], l[2]) : l \in {}} /\ lab.live = QubitsOf({})
        /\ DOMAIN lab.memory = QubitsOf({}) /\ DOMAIN lab.born = QubitsOf({})
        /\ DOMAIN lab.waited = {}
    BY <1>1, FirstEntity
  <2> QED  BY <1>2, <2>1
<1>4. events = {Event(MilliSeconds(Setup(1, i)), i, "generate", 1, i) : i \in G}
               \cup {Event(ChainStart, n, IF n = 1 THEN "evaluate" ELSE "swap", 1, 1)}
  BY DEF RouteInit, FirstEvents
<1>5. Reports({})
  BY DEF RouteInit, Reports
<1> DEFINE up == {1} \X ((0 .. n - 1) \ G)
<1>6. up = {}
  OBVIOUS
<1>7. lab.pairs = {LinkPair(l[1], l[2]) : l \in up} /\ lab.live = QubitsOf(up)
  BY <1>2, <1>3, <1>6
<1>8. SetsUp(G)
  BY <1>3, <1>4, <1>5, <1>7, Zenon DEF SetsUp
<1>9. G \in SUBSET (0 .. Links(1) - 1)
  OBVIOUS
<1> HIDE DEF G
<1> QED  BY <1>3, <1>8, <1>9 DEF StudyKept

\* The requests begin with the first of them.
LEMMA RequestsBegin ==
  ASSUME RouteInit, play.program = "requests"
  PROVE  RequestsKept /\ lab \in Labs /\ AllBorn(lab)
<1>1. {} \in SUBSET (Nat \X Nat) /\ lab = Generated(EmptyLab, {}, 0)
  BY DEF RouteInit, FirstLab
<1>2. QubitsOf({}) = {} /\ {LinkPair(l[1], l[2]) : l \in {}} = {}
  BY DEF QubitsOf
<1>3. /\ lab \in Labs /\ AllBorn(lab) /\ lab.failed = "nothing"
      /\ lab.pairs = {} /\ DOMAIN lab.memory = {}
  <2>1. /\ lab \in Labs /\ AllBorn(lab) /\ lab.failed = "nothing"
        /\ lab.pairs = {LinkPair(l[1], l[2]) : l \in {}}
        /\ DOMAIN lab.memory = QubitsOf({})
    BY <1>1, FirstEntity
  <2> QED  BY <1>2, <2>1
<1> DEFINE e == Event(0, 0, "request", 1, 1)
<1>4. events = {e}
  BY DEF RouteInit, FirstEvents
<1>5. e.at = 0 /\ e.op = "request" /\ e.r = 1 /\ e.k = 1
  BY DEF Event
<1> HIDE DEF e
<1>6. Reports(1 .. 1 - 1)
  <2>1. 1 .. 1 - 1 = {}
    OBVIOUS
  <2> QED  BY <2>1 DEF RouteInit, Reports
<1>7. 1 \in DOMAIN play.routes
  BY RouteFacts DEF RouteInit
<1>8. AllDue(0) /\ Awaits("request", 1, 1)
  BY <1>4, <1>5 DEF AllDue, Awaits
<1> QED  BY <1>3, <1>6, <1>7, <1>8, Zenon DEF RequestsKept

\* The test begins with its two pairs.
LEMMA TestBegins ==
  ASSUME RouteInit, play.program = "test"
  PROVE  TestKept /\ lab \in Labs /\ AllBorn(lab)
<1>0. /\ Links(1) = 2 /\ DOMAIN play.routes = {1}
  <2>1. play \in Plays
    BY DEF RouteInit
  <2>2. /\ Len(play.routes) = 1 /\ Len(play.routes[1]) = 2
    BY <2>1, PlayFields
  <2>3. DOMAIN play.routes = 1 .. 1
    BY <2>1, <2>2, RouteFacts
  <2> QED  BY <2>2, <2>3 DEF Links
<1> DEFINE L == {1} \X (0 .. 2 - 1)
<1>1. L \in SUBSET (Nat \X Nat) /\ lab = Generated(EmptyLab, L, 0)
  <2>1. UNION {LinksOf(r) : r \in DOMAIN play.routes} = L
    BY <1>0 DEF LinksOf
  <2>2. lab = Generated(EmptyLab, UNION {LinksOf(r) : r \in DOMAIN play.routes}, 0)
    BY DEF RouteInit, FirstLab
  <2>3. L \subseteq Nat \X Nat
    OBVIOUS
  <2> HIDE DEF L
  <2> QED  BY <2>1, <2>2, <2>3, Zenon
<1>2. /\ lab \in Labs /\ AllBorn(lab) /\ lab.failed = "nothing"
      /\ lab.pairs = {LinkPair(l[1], l[2]) : l \in L} /\ lab.live = QubitsOf(L)
      /\ DOMAIN lab.memory = QubitsOf(L)
  <2> HIDE DEF L
  <2> QED  BY <1>1, FirstEntity
<1>3. lab.pairs = Row(1, 2, 1, 0, 0) /\ lab.live = RowQubits(1, 2, 1)
  <2>1. 1 \in Nat /\ 2 \in Nat /\ 2 > 0
    OBVIOUS
  <2> QED  BY <1>2, <2>1, RowOfLinks
<1> DEFINE e == Event(MilliSeconds(play.delays[1]), 0, "wait", 1, 1)
<1>4. events = {e}
  BY DEF RouteInit, FirstEvents
<1>5. e.op = "wait" /\ e.r = 1 /\ e.k = 1
  BY DEF Event
<1> HIDE DEF e, L
<1>6. Reports({})
  BY DEF RouteInit, Reports
<1>7. Awaits("wait", 1, 1)
  BY <1>4, <1>5 DEF Awaits
<1> QED  BY <1>2, <1>3, <1>6, <1>7, Zenon DEF TestKept

\* The mismatch example begins with all its pairs and two relays to act.
LEMMA MismatchBegins ==
  ASSUME RouteInit, play.program = "mismatch"
  PROVE  MismatchKept /\ lab \in Labs /\ AllBorn(lab)
<1>0. /\ \A r \in {1, 2} : Links(r) \in {2, 3}
      /\ DOMAIN play.routes = {1, 2}
  <2>1. play \in Plays
    BY DEF RouteInit
  <2>2. /\ Len(play.routes) = 2 /\ \A r \in {1, 2} : Links(r) \in {2, 3}
    BY <2>1, PlayFields DEF Links
  <2>3. DOMAIN play.routes = 1 .. 2
    BY <2>1, <2>2, RouteFacts
  <2> QED  BY <2>2, <2>3
<1> DEFINE M(r) == {r} \X (0 .. Links(r) - 1)
           L == M(1) \cup M(2)
<1>1. L \in SUBSET (Nat \X Nat) /\ lab = Generated(EmptyLab, L, 0)
  <2>1. UNION {LinksOf(r) : r \in DOMAIN play.routes} = L
    BY <1>0 DEF LinksOf
  <2>2. lab = Generated(EmptyLab, UNION {LinksOf(r) : r \in DOMAIN play.routes}, 0)
    BY DEF RouteInit, FirstLab
  <2>3. M(1) \subseteq Nat \X Nat /\ M(2) \subseteq Nat \X Nat
    <3>1. \A r \in {1, 2} : \A i \in 0 .. Links(r) - 1 : i \in Nat /\ r \in Nat
      OBVIOUS
    <3> QED  BY <3>1
  <2>4. lab = Generated(EmptyLab, L, 0)
    <3> HIDE DEF L
    <3> QED  BY <2>1, <2>2, Zenon
  <2> HIDE DEF M
  <2> QED  BY <2>3, <2>4
<1> HIDE DEF M
<1>2. /\ lab \in Labs /\ AllBorn(lab) /\ lab.failed = "nothing"
      /\ lab.pairs = {LinkPair(l[1], l[2]) : l \in L}
  <2> HIDE DEF L
  <2> QED  BY <1>1, FirstEntity
<1> DEFINE k == [r \in {1, 2} |-> 1]
           x == [r \in {1, 2} |-> 0]
<1>3. k \in [{1, 2} -> 1 .. 3] /\ x \in [{1, 2} -> Bits]
  BY DEF Bits
<1>4. k[1] = 1 /\ k[2] = 1 /\ x[1] = 0 /\ x[2] = 0
  OBVIOUS
<1> HIDE DEF k, x
<1>5. \A r \in {1, 2} : {LinkPair(l[1], l[2]) : l \in M(r)} = Row(r, Links(r), k[r], x[r], x[r])
  <2> SUFFICES ASSUME NEW r \in {1, 2}
               PROVE  {LinkPair(l[1], l[2]) : l \in M(r)} = Row(r, Links(r), k[r], x[r], x[r])
    OBVIOUS
  <2>1. k[r] = 1 /\ x[r] = 0
    BY <1>4
  <2> DEFINE n == Links(r)
  <2>2. n \in Nat /\ n > 0 /\ r \in Nat
    BY <1>0
  <2>3. {LinkPair(l[1], l[2]) : l \in M(r)} = Row(r, n, 1, 0, 0)
    <3> HIDE DEF n
    <3>1. M(r) = {r} \X (0 .. n - 1)
      BY DEF M, n
    <3> QED  BY <2>2, <3>1, RowOfLinks
  <2> QED  BY <2>1, <2>3
<1>6. lab.pairs = UNION {Row(r, Links(r), k[r], x[r], x[r]) : r \in {1, 2}}
  <2> DEFINE P(r) == {LinkPair(l[1], l[2]) : l \in M(r)}
             R(r) == Row(r, Links(r), k[r], x[r], x[r])
  <2>1. lab.pairs = P(1) \cup P(2)
    BY <1>2
  <2>2. P(1) = R(1) /\ P(2) = R(2)
    BY <1>5
  <2> HIDE DEF P, R
  <2>3. lab.pairs = UNION {R(r) : r \in {1, 2}}
    BY <2>1, <2>2
  <2> QED  BY <2>3 DEF R
<1> DEFINE e == Event(0, 0, "relay", 1, 1)
           f == Event(0, 1, "relay", 2, 1)
<1>7. events = {e, f} /\ issued = Cardinality({e, f})
  BY DEF RouteInit, FirstEvents
<1>8. /\ e.uid = 0 /\ e.op = "relay" /\ e.r = 1 /\ e.k = 1 /\ e.x = 0 /\ e.z = 0
      /\ f.uid = 1 /\ f.op = "relay" /\ f.r = 2 /\ f.k = 1 /\ f.x = 0 /\ f.z = 0
  BY DEF Event
<1> HIDE DEF e, f
<1>9. issued = 2
  <2>1. IsFiniteSet({e}) /\ Cardinality({e}) = 1 /\ f \notin {e}
    <3>1. IsFiniteSet({e}) /\ Cardinality({e}) = 1
      BY FS_Singleton, Zenon
    <3>2. f \notin {e}
      BY <1>8
    <3> QED  BY <3>1, <3>2
  <2>2. Cardinality({e} \cup {f}) = 1 + 1
    BY <2>1, FS_AddElement
  <2>3. {e, f} = {e} \cup {f}
    OBVIOUS
  <2> QED  BY <1>7, <2>2, <2>3
<1>10. \A g \in events :
         /\ g.r \in {1, 2} /\ g.uid < issued
         /\ g.op = "relay" => g.k = 1 /\ k[g.r] = 1 /\ g.x = 0 /\ g.z = 0
         /\ g.op = "pivot" => g.k = Links(g.r) - 1 /\ k[g.r] = g.k
         /\ g.op \in {"relay", "pivot"} /\ g.x = x[g.r] /\ g.z = x[g.r]
  BY <1>4, <1>7, <1>8, <1>9
<1>11. \A g, h \in events : g.uid = h.uid \/ g.r = h.r => g = h
  BY <1>7, <1>8
<1>12. \A r \in {1, 2} : k[r] <= Links(r)
  BY <1>0, <1>4
<1>13. Told(k, x, x)
  BY <1>6, <1>10, <1>11, <1>12, Zenon DEF Told
<1>14. \E routes \in SUBSET {1, 2} : Reports(routes)
  <2>1. Reports({}) /\ {} \in SUBSET {1, 2}
    BY DEF RouteInit, Reports
  <2> QED  BY <2>1
<1> QED  BY <1>2, <1>3, <1>13, <1>14, Zenon DEF MismatchKept

\* The initial states satisfy the invariant.
LEMMA RouteBegins ==
  ASSUME RouteInit
  PROVE  RouteIInv
<1>1. play \in Plays /\ events = FirstEvents /\ issued = Cardinality(FirstEvents)
  BY DEF RouteInit
<1>2. events \subseteq EventType /\ issued \in Nat
  BY <1>1, FirstEventsTyped, FS_CardinalityType
<1>3. play.program \in {"study", "requests", "mismatch", "test"}
  BY <1>1, PlayFields
<1>4. lab \in Labs /\ AllBorn(lab)
  BY <1>3, StudyBegins, RequestsBegin, TestBegins, MismatchBegins
<1>5. RouteTypeOK
  BY <1>1, <1>2, <1>4 DEF RouteTypeOK
<1> QED  BY <1>5, StudyBegins, RequestsBegin, TestBegins, MismatchBegins DEF RouteIInv

(***************************************************************************)
(* The theorems                                                            *)
(***************************************************************************)
\* A step that changes nothing changes none of what the invariant is made of.
LEMMA RouteStutters ==
  ASSUME RouteIInv, UNCHANGED routeVars
  PROVE  RouteIInv'
<1>1. play' = play /\ events' = events /\ issued' = issued /\ lab' = lab /\ results' = results
  BY DEF routeVars
<1>2. /\ \A r : Links(r)' = Links(r) /\ Ends(r)' = Ends(r)
      /\ \A r, i : Setup(r, i)' = Setup(r, i)
      /\ ChainStart' = ChainStart /\ \A k : SwapTime(k)' = SwapTime(k)
      /\ \A q : SwapsBefore(q)' = SwapsBefore(q)
      /\ \A r, i : MilliSeconds(Setup(r, i))' = MilliSeconds(Setup(r, i))
  BY <1>1, SamePlay DEF MilliSeconds
<1>3. RouteTypeOK'
  BY <1>1 DEF RouteIInv, RouteTypeOK, AllBorn
<1>4. ASSUME play.program = "study"
      PROVE  StudyKept'
  <2>1. /\ StudyClocks
        /\ \/ \E G \in SUBSET (0 .. Links(1) - 1) : SetsUp(G)
           \/ \E k \in 1 .. Links(1) : Swaps(k)
           \/ \E k \in 1 .. Links(1) - 1 : Signals(k)
           \/ EndIsReached
    BY <1>4, Zenon DEF RouteIInv, StudyKept, StudyClocks
  <2>2. StudyClocks'
    <3>1. \A q : (SwapTime(SwapsBefore(q) + 1))' = SwapTime(SwapsBefore(q) + 1)
      BY <1>2
    <3> QED  BY <1>1, <1>2, <2>1, <3>1 DEF StudyClocks
  <2>3. ASSUME NEW G \in SUBSET (0 .. Links(1) - 1), SetsUp(G)
        PROVE  SetsUp(G)'
    <3>1. \A i : Event(MilliSeconds(Setup(1, i)), i, "generate", 1, i)'
                  = Event(MilliSeconds(Setup(1, i)), i, "generate", 1, i)
      BY <1>2 DEF Event
    <3>2. {Event(MilliSeconds(Setup(1, i)), i, "generate", 1, i)' : i \in G}
            = {Event(MilliSeconds(Setup(1, i)), i, "generate", 1, i) : i \in G}
      BY <3>1
    <3>3. Event(ChainStart, Links(1), IF Links(1) = 1 THEN "evaluate" ELSE "swap", 1, 1)'
            = Event(ChainStart, Links(1), IF Links(1) = 1 THEN "evaluate" ELSE "swap", 1, 1)
      BY <1>2 DEF Event
    <3> QED  BY <1>1, <1>2, <2>3, <3>2, <3>3, Zenon DEF SetsUp, Reports
  <2>4. \A k : Swaps(k) => Swaps(k)'
    BY <1>1, <1>2 DEF Swaps, Awaits, AllDue, Reports, Swapped
  <2>5. \A k : Signals(k) => Signals(k)'
    <3>1. \A k : (SwapTime(k + 1))' = SwapTime(k + 1)
      BY <1>2
    <3> QED  BY <1>1, <1>2, <3>1 DEF Signals, Awaits, AllDue, Reports, Swapped
  <2>6. EndIsReached => EndIsReached'
    BY <1>1, <1>2 DEF EndIsReached, Reports, Swapped
  <2>7. \/ \E G \in SUBSET (0 .. Links(1)' - 1) : SetsUp(G)'
        \/ \E k \in 1 .. Links(1)' : Swaps(k)'
        \/ \E k \in 1 .. Links(1)' - 1 : Signals(k)'
        \/ EndIsReached'
    BY <1>2, <2>1, <2>3, <2>4, <2>5, <2>6
  <2> QED  BY <2>2, <2>7, Zenon DEF StudyKept, StudyClocks
<1>5. ASSUME play.program = "requests"
      PROVE  RequestsKept'
  <2>1. RequestsKept
    BY <1>5 DEF RouteIInv
  <2>2. \A R : Reports(R) => Reports(R)'
    BY <1>1, <1>2 DEF Reports
  <2>3. \A op, r, k : Awaits(op, r, k) => Awaits(op, r, k)'
    BY <1>1 DEF Awaits
  <2>4. \A r, k : Awaits(IF k < Links(r) THEN "hop" ELSE "finish", r, k)
                 => Awaits(IF k < Links(r) THEN "hop" ELSE "finish", r, k)'
    BY <1>1, <1>2 DEF Awaits
  <2>5. AllDue(0) => AllDue(0)'
    BY <1>1 DEF AllDue
  <2>6. Reports(DOMAIN play.routes) => Reports(DOMAIN play.routes)'
    BY <1>1, <1>2 DEF Reports
  <2> QED  BY <1>1, <1>2, <2>1, <2>2, <2>3, <2>4, <2>5, <2>6 DEF RequestsKept
<1>6. ASSUME play.program = "test"
      PROVE  TestKept'
  BY <1>1, <1>2, <1>6 DEF RouteIInv, TestKept, Reports, Awaits
<1>7. ASSUME play.program = "mismatch"
      PROVE  MismatchKept'
  <2>1. MismatchKept
    BY <1>7 DEF RouteIInv
  <2>2. \A R : Reports(R) => Reports(R)'
    BY <1>1, <1>2 DEF Reports
  <2>3. \A k, x, z : Told(k, x, z) => Told(k, x, z)'
    BY <1>1, <1>2 DEF Told
  <2> QED  BY <1>1, <2>1, <2>2, <2>3 DEF MismatchKept
<1> QED  BY <1>1, <1>3, <1>4, <1>5, <1>6, <1>7 DEF RouteIInv

\* Every step keeps the invariant.
LEMMA RouteSteps ==
  ASSUME RouteIInv, [RouteNext]_routeVars
  PROVE  RouteIInv'
<1>1. CASE RouteNext
  <2>1. play.program \in {"study", "requests", "mismatch", "test"}
    BY PlayFields DEF RouteIInv, RouteTypeOK
  <2>2. CASE play.program = "study"
    <3>1. RouteTypeOK' /\ StudyKept' /\ play' = play
      BY <1>1, <2>2, StudyStep DEF RouteIInv
    <3> QED  BY <2>2, <3>1 DEF RouteIInv
  <2>3. CASE play.program = "requests"
    <3>1. RouteTypeOK' /\ RequestsKept' /\ play' = play
      BY <1>1, <2>3, RequestStep DEF RouteIInv
    <3> QED  BY <2>3, <3>1 DEF RouteIInv
  <2>4. CASE play.program = "mismatch"
    <3>1. RouteTypeOK' /\ MismatchKept' /\ play' = play
      BY <1>1, <2>4, MismatchStep DEF RouteIInv
    <3> QED  BY <2>4, <3>1 DEF RouteIInv
  <2>5. CASE play.program = "test"
    <3>1. RouteTypeOK' /\ TestKept' /\ play' = play
      BY <1>1, <2>5, TestStep DEF RouteIInv
    <3> QED  BY <2>5, <3>1 DEF RouteIInv
  <2> QED  BY <2>1, <2>2, <2>3, <2>4, <2>5
<1>2. CASE UNCHANGED routeVars
  BY <1>2, RouteStutters
<1> QED  BY <1>1, <1>2

\* What was asked about a route, when the routes of R have been reported.
LEMMA ReportsSay ==
  ASSUME NEW R, Reports(R)
  PROVE  /\ {m.r : m \in results} = R
         /\ \A m \in results : m.pair = [ends |-> Ends(m.r), x |-> 0, z |-> 0]
<1> DEFINE b(r) == [r |-> r, pair |-> [ends |-> Ends(r), x |-> 0, z |-> 0]]
<1>1. results = {b(r) : r \in R}
  BY DEF Reports
<1>2. \A r : b(r).r = r /\ b(r).pair = [ends |-> Ends(r), x |-> 0, z |-> 0]
  OBVIOUS
<1> HIDE DEF b
<1> QED  BY <1>1, <1>2

\* The invariant leaves the ends alone.
LEMMA EndsLeft ==
  ASSUME RouteIInv
  PROVE  EndsLeftAlone
<1>0. play \in Plays /\ play.program \in {"study", "requests", "mismatch", "test"}
  BY PlayFields DEF RouteIInv, RouteTypeOK
<1> DEFINE Said == \A m \in results : m.pair = [ends |-> Ends(m.r), x |-> 0, z |-> 0]
           All == {m.r : m \in results} = DOMAIN play.routes
<1>1. play.program \in {"study", "test"} => DOMAIN play.routes = {1}
  <2> SUFFICES ASSUME play.program \in {"study", "test"}
               PROVE  DOMAIN play.routes = {1}
    OBVIOUS
  <2>1. Len(play.routes) = 1 /\ DOMAIN play.routes = 1 .. Len(play.routes)
    BY <1>0, PlayFields, RouteFacts
  <2> QED  BY <2>1
<1>2. ASSUME play.program = "study"
      PROVE  /\ Said /\ lab.failed = "nothing"
             /\ events = {} => All /\ lab.live = Ends(1) /\ DOMAIN lab.memory = Ends(1)
  <2>1. /\ lab.failed = "nothing" /\ DOMAIN lab.memory = lab.live
        /\ \/ \E G \in SUBSET (0 .. Links(1) - 1) : SetsUp(G)
           \/ \E k \in 1 .. Links(1) : Swaps(k)
           \/ \E k \in 1 .. Links(1) - 1 : Signals(k)
           \/ EndIsReached
    BY <1>2, Zenon DEF RouteIInv, StudyKept
  <2>2. CASE EndIsReached
    <3>1. Reports({1}) /\ lab.live = Ends(1)
      BY <2>2 DEF EndIsReached
    <3> QED  BY <1>1, <1>2, <2>1, <3>1, ReportsSay
  <2>3. CASE ~ EndIsReached
    <3>1. Reports({}) /\ events # {}
      BY <2>1, <2>3, Zenon DEF SetsUp, Swaps, Signals, Awaits
    <3> QED  BY <2>1, <3>1, ReportsSay
  <2> QED  BY <2>2, <2>3
<1>3. ASSUME play.program = "requests"
      PROVE  Said /\ lab.failed = "nothing" /\ (events = {} => All)
  <2>1. /\ lab.failed = "nothing"
        /\ \/ \E r \in DOMAIN play.routes :
                /\ Reports(1 .. r - 1)
                /\ \/ Awaits("request", r, 1)
                   \/ \E k \in 1 .. Links(r) :
                        Awaits(IF k < Links(r) THEN "hop" ELSE "finish", r, k)
           \/ events = {} /\ Reports(DOMAIN play.routes)
    BY <1>3, Zenon DEF RouteIInv, RequestsKept
  <2>2. CASE events = {} /\ Reports(DOMAIN play.routes)
    BY <2>1, <2>2, ReportsSay
  <2>3. CASE ~ (events = {} /\ Reports(DOMAIN play.routes))
    <3>1. PICK r \in DOMAIN play.routes : Reports(1 .. r - 1) /\ events # {}
      BY <2>1, <2>3, Zenon DEF Awaits
    <3> QED  BY <2>1, <3>1, ReportsSay
  <2> QED  BY <2>2, <2>3
<1>4. ASSUME play.program = "test"
      PROVE  Said /\ lab.failed = "nothing" /\ (events = {} => All /\ lab.live = Ends(1))
  <2>1. /\ lab.failed = "nothing"
        /\ \/ events # {} /\ Reports({})
           \/ events = {} /\ lab.live = Ends(1) /\ Reports({1})
    BY <1>4, Zenon DEF RouteIInv, TestKept, Awaits
  <2> QED  BY <1>1, <1>4, <2>1, ReportsSay
<1>5. ASSUME play.program = "mismatch"
      PROVE  Said /\ lab.failed \in {"nothing", "stale"}
  <2>1. /\ \E routes \in SUBSET {1, 2} : Reports(routes)
        /\ lab.failed = "stale" \/ lab.failed = "nothing"
    BY <1>5, Zenon DEF RouteIInv, MismatchKept
  <2> QED  BY <2>1, ReportsSay
<1> HIDE DEF Said, All
<1>6. Said
  BY <1>0, <1>2, <1>3, <1>4, <1>5
<1>7. events = {} /\ lab.failed = "nothing" =>
        /\ play.program # "mismatch" => All
        /\ play.program \in {"study", "test"} => lab.live = Ends(1)
        /\ play.program = "study" => DOMAIN lab.memory = Ends(1)
  BY <1>0, <1>2, <1>3, <1>4
<1>8. lab.failed # "nothing" => lab.failed = "stale" /\ play.program = "mismatch"
  BY <1>0, <1>2, <1>3, <1>4, <1>5
<1> QED  BY <1>6, <1>7, <1>8, Zenon DEF EndsLeftAlone, Said, All

\* A product with a sum of three.
LEMMA Distribution ==
  ASSUME NEW p \in Int, NEW e \in Int, NEW q \in Int, NEW u \in Int
  PROVE  ((p + e) - q) * u = (p * u + e * u) - q * u
<1>1. (p + e) * u = p * u + e * u
  OBVIOUS
<1>2. \A c \in Int : (c - q) * u = c * u - q * u
  OBVIOUS
<1>3. p + e \in Int
  OBVIOUS
<1> QED  BY <1>1, <1>2, <1>3

\* A difference of two rounded times is off by less than a unit.
LEMMA RoundedWait ==
  ASSUME NEW a \in Nat, NEW b \in Nat, NEW m \in Int, NEW d \in Nat, NEW w,
         w = (MilliSeconds(a) + m * d) - MilliSeconds(b)
  PROVE  LET waits == w * Unit - m * d * Unit
         IN waits < (a - b) + Unit /\ a - b < waits + Unit
<1> DEFINE p == MilliSeconds(a)
           q == MilliSeconds(b)
           e == m * d
<1>1. /\ p \in Nat /\ q \in Nat /\ e \in Int /\ Unit \in Nat
      /\ p * Unit <= a /\ a < p * Unit + Unit
      /\ q * Unit <= b /\ b < q * Unit + Unit
  BY Rounding, RouteAssumption
<1>2. w = (p + e) - q
  OBVIOUS
<1> HIDE DEF p, q, e
<1>3. w * Unit = (p * Unit + e * Unit) - q * Unit
  <2>1. p \in Int /\ q \in Int /\ e \in Int /\ Unit \in Int
    BY <1>1
  <2>2. ((p + e) - q) * Unit = (p * Unit + e * Unit) - q * Unit
    BY <2>1, Distribution
  <2> QED  BY <1>2, <2>2
<1>4. p * Unit \in Nat /\ q * Unit \in Nat /\ e * Unit \in Int
  BY <1>1
<1>5. w * Unit - e * Unit = p * Unit - q * Unit
  BY <1>3, <1>4
<1>6. /\ w * Unit - e * Unit < (a - b) + Unit
      /\ a - b < w * Unit - e * Unit + Unit
  BY <1>1, <1>4, <1>5
<1> QED  BY <1>6 DEF e

\* The swaps are a signal delay apart.
LEMMA TimeAfterSwaps ==
  ASSUME NEW m \in Int
  PROVE  SwapTime(m + 1) = ChainStart + m * MilliSeconds(play.delays[1])
<1>1. (m + 1) - 1 = m
  OBVIOUS
<1> QED  BY <1>1 DEF SwapTime

\* The invariant predicts the waits.
LEMMA WaitsAre ==
  ASSUME RouteIInv
  PROVE  WaitsAsPredicted
<1> SUFFICES ASSUME play.program = "study", NEW q \in DOMAIN lab.waited
             PROVE  LET predicted == TMax(1) - Setup(1, q[2])
                        signals == SwapsBefore(q) * MilliSeconds(play.delays[1]) * Unit
                        waits == lab.waited[q] * Unit - signals
                    IN /\ waits < predicted + Unit
                       /\ predicted < waits + Unit
  BY DEF WaitsAsPredicted
<1> DEFINE m == SwapsBefore(q)
           d == MilliSeconds(play.delays[1])
           n == Links(1)
           i == q[2]
           a == TMax(1)
           b == Setup(1, i)
<1>1. play \in Plays /\ lab \in Labs /\ n \in Nat /\ n > 0
  BY RouteFacts DEF RouteIInv, RouteTypeOK
<1>2. /\ i < n
      /\ lab.waited[q] = SwapTime(m + 1) - MilliSeconds(b)
  BY DEF RouteIInv, StudyKept
<1>3. i \in Nat
  <2>1. lab.waited \in Clocks
    BY <1>1 DEF Labs
  <2>2. q \in RouteQubits
    BY <2>1, ClockFields
  <2> QED  BY <2>2 DEF RouteQubits
<1>4. m \in Int
  <2>1. m = n - 1 \/ m = i - 1 \/ m = i
    BY DEF SwapsBefore
  <2> HIDE DEF m, n, i
  <2> QED  BY <1>1, <1>3, <2>1
<1>5. a \in Nat /\ b \in Nat /\ d \in Nat
  <2>1. a \in Nat
    BY <1>1, ChainStartsLast
  <2>2. b \in Nat
    <3>1. i \in 0 .. n - 1
      BY <1>1, <1>2, <1>3
    <3>2. \A j \in 0 .. n - 1 : Setup(1, j) \in Nat
      BY <1>1, RouteFacts
    <3> HIDE DEF i, n
    <3> QED  BY <3>1, <3>2
  <2>3. play.delays[1] \in Nat
    BY <1>1, RouteFacts
  <2>4. d \in Nat
    BY <2>3, Rounding
  <2> QED  BY <2>1, <2>2, <2>4
<1>6. SwapTime(m + 1) = MilliSeconds(a) + m * d
  <2> HIDE DEF m
  <2>1. SwapTime(m + 1) = ChainStart + m * MilliSeconds(play.delays[1])
    BY <1>4, TimeAfterSwaps
  <2> QED  BY <2>1 DEF ChainStart
<1> DEFINE w == lab.waited[q]
<1>7. w = (MilliSeconds(a) + m * d) - MilliSeconds(b)
  BY <1>2, <1>6
<1> HIDE DEF a, b, m, d, w
<1>8. LET waits == w * Unit - m * d * Unit
      IN waits < (a - b) + Unit /\ a - b < waits + Unit
  BY <1>4, <1>5, <1>7, RoundedWait
<1> QED  BY <1>8 DEF a, b, m, d, w

\* The routes keep what they need.
THEOREM RouteInvariance == RouteSpec => []RouteIInv
<1>1. RouteInit => RouteIInv
  BY RouteBegins
<1>2. RouteIInv /\ [RouteNext]_routeVars => RouteIInv'
  BY RouteSteps
<1> QED  BY <1>1, <1>2, PTL DEF RouteSpec

\* The fidelity is asked of the two ends of a route in the Bell state, and only the
\* mismatch example can fail before (EndsLeftAlone).
THEOREM EndsAreLeftAlone == RouteSpec => []EndsLeftAlone
<1>1. RouteIInv => EndsLeftAlone
  BY EndsLeft
<1> QED  BY <1>1, RouteInvariance, PTL

\* Each qubit of a study waits as the routing metric predicts (WaitsAsPredicted).
THEOREM WaitsFollowPrediction == RouteSpec => []WaitsAsPredicted
<1>1. RouteIInv => WaitsAsPredicted
  BY WaitsAre
<1> QED  BY <1>1, RouteInvariance, PTL
=============================================================================
