----------------------------- MODULE DelayModel -----------------------------
(***************************************************************************)
(* QuantumDelayModel and its subclasses BurstDelayModel and                *)
(* StaticDelayModel: a delay that a chain of update events keeps changing, *)
(* bursts of high delay with an end event of their own, and a bounded      *)
(* history of samples.                                                     *)
(*                                                                         *)
(* Random numbers are chosen from the ends and the middle of their ranges. *)
(* Delays are integers; a product with a fraction is rounded down.         *)
(***************************************************************************)
EXTENDS Integers, Sequences, FiniteSets, EventAgenda

CONSTANTS
  BaseDelays, MaxDeviations, UpdateIntervals,  \* values given to the setters
  BurstMultiplier, BurstDurations,             \* m_burstMultiplier; drawn durations
  MinBurst, MaxBurst,                          \* the limits of StartBurst
  MaxHistorySize,                              \* m_maxHistorySize
  MaxTime                                      \* bound on the simulated time

\* What the constants must be.
ASSUME DelayAssumption ==
  /\ BaseDelays \subseteq Nat /\ MaxDeviations \subseteq Nat
  /\ UpdateIntervals \subseteq Nat \ {0} /\ BurstDurations \subseteq Nat
  /\ BurstMultiplier \in Nat \ {0} /\ MaxHistorySize \in Nat /\ MaxTime \in Nat
  /\ MinBurst \in Nat \ {0} /\ MaxBurst \in Nat /\ MinBurst <= MaxBurst

VARIABLES
  subclass,       \* "burst" or "static"
  now, agenda, uid,
  baseDelay, maxDeviation, updateInterval,  \* settings
  currentDelay,   \* m_currentDelay
  history,        \* m_delayHistory
  initialized,    \* m_initialized
  inBurst, burstEndTime, totalBurstDuration,
  disposed,       \* DoDispose was called
  spentInBursts   \* time that has passed in bursts (history variable)

settingVars == <<subclass, baseDelay, maxDeviation, updateInterval>>
burstVars == <<inBurst, burstEndTime, totalBurstDuration>>
vars == <<settingVars, now, agenda, uid, currentDelay, history, initialized,
          burstVars, disposed, spentInBursts>>

Variations == {-1, 0, 1}

Records == [at : Nat, delay : Int, isBurst : BOOLEAN]

Init ==
  /\ subclass \in {"burst", "static"}
  /\ now = 0 /\ agenda = {} /\ uid = 0
  /\ baseDelay \in BaseDelays /\ maxDeviation \in MaxDeviations
  /\ updateInterval \in UpdateIntervals
  /\ currentDelay = baseDelay
  /\ history = <<>>
  /\ initialized = FALSE
  /\ inBurst = FALSE /\ burstEndTime = 0 /\ totalBurstDuration = 0
  /\ disposed = FALSE
  /\ spentInBursts = 0

AtLeast(low, d) == IF d < low THEN low ELSE d
AtMost(high, d) == IF d > high THEN high ELSE d

Sample(at, delay, isBurst) == [at |-> at, delay |-> delay, isBurst |-> isBurst]

\* RecordDelay: the oldest samples make room.
RecordDelay(samples, at, delay, isBurst) ==
  LET all == Append(samples, Sample(at, delay, isBurst))
  IN SubSeq(all, AtLeast(1, Len(all) - MaxHistorySize + 1), Len(all))

\* A delay outside bursts: up to 30 % of the maximum deviation around the base
\* delay, one microsecond at least.
NormalDelay(v) == AtLeast(1, baseDelay + (3 * v * maxDeviation) \div 10)

BurstDelay == baseDelay + maxDeviation * BurstMultiplier

\* A delay in a burst after its first sample: 10 % around BurstDelay, within
\* limits.
ContinuedDelay(v) ==
  AtLeast(baseDelay,
          AtMost(baseDelay + (3 * maxDeviation * BurstMultiplier) \div 2,
                 (BurstDelay * (10 + v)) \div 10))

EventAt(at, id, kind) == [at |-> at, uid |-> id, kind |-> kind]

(***************************************************************************)
(* Set-up and settings                                                     *)
(***************************************************************************)
\* Initialize; later calls return at once.
Initialize(interval) ==
  /\ ~disposed /\ ~initialized
  /\ initialized' = TRUE
  /\ updateInterval' = interval
  /\ currentDelay' = baseDelay
  /\ history' = RecordDelay(history, now, baseDelay, FALSE)
  /\ agenda' = agenda \cup {EventAt(now + interval, uid, "UpdateDelay")}
  /\ uid' = uid + 1
  /\ UNCHANGED <<subclass, baseDelay, maxDeviation, now, burstVars, disposed,
                 spentInBursts>>

SetBaseDelay(d) ==
  /\ baseDelay' = d
  /\ currentDelay' = IF initialized THEN currentDelay ELSE d
  /\ UNCHANGED <<subclass, maxDeviation, updateInterval, now, agenda, uid, history,
                 initialized, burstVars, disposed, spentInBursts>>

\* SetFixedDelay of StaticDelayModel takes effect at once and is not recorded.
SetFixedDelay(d) ==
  /\ subclass = "static"
  /\ baseDelay' = d
  /\ currentDelay' = d
  /\ UNCHANGED <<subclass, maxDeviation, updateInterval, now, agenda, uid, history,
                 initialized, burstVars, disposed, spentInBursts>>

SetMaxDeviation(d) ==
  /\ maxDeviation' = d
  /\ UNCHANGED <<subclass, baseDelay, updateInterval, now, agenda, uid, currentDelay,
                 history, initialized, burstVars, disposed, spentInBursts>>

SetUpdateInterval(i) ==
  /\ updateInterval' = i
  /\ UNCHANGED <<subclass, baseDelay, maxDeviation, now, agenda, uid, currentDelay,
                 history, initialized, burstVars, disposed, spentInBursts>>

ClearHistory ==
  /\ history' = <<>>
  /\ UNCHANGED <<settingVars, now, agenda, uid, currentDelay, initialized, burstVars,
                 disposed, spentInBursts>>

\* Both events are cancelled; a burst is left as it is.
DoDispose ==
  /\ ~disposed
  /\ disposed' = TRUE
  /\ agenda' = {}
  /\ history' = <<>>
  /\ UNCHANGED <<settingVars, now, uid, currentDelay, initialized, burstVars,
                 spentInBursts>>

(***************************************************************************)
(* Events                                                                  *)
(***************************************************************************)
BurstEnds(events) == {e \in events : e.kind = "EndBurst"}

\* A drawn duration as StartBurst uses it.
BurstLength(drawn) == AtLeast(MinBurst, AtMost(MaxBurst, drawn))

\* Mutant: the end event is scheduled after the duration that was drawn.
EndsAfterDrawn(drawn) == drawn

\* How long after the start of a burst its end event runs.
EndsAfter(drawn) == BurstLength(drawn)

\* Mutant: the statistics add the duration that was drawn.
AddDrawn(drawn) == totalBurstDuration + drawn

\* m_totalBurstDuration after a burst starts.
AddBurst(drawn) == totalBurstDuration + BurstLength(drawn)

\* The samples after an EndBurst at time t that draws variation v.
EndBurstSamples(t, v) == RecordDelay(history, t, NormalDelay(v), FALSE)

\* The event EndBurst.
EndBurst(e) ==
  /\ \E v \in Variations :
       /\ currentDelay' = NormalDelay(v)
       /\ history' = EndBurstSamples(e.at, v)
  /\ inBurst' = FALSE
  /\ agenda' = (agenda \ {e}) \ BurstEnds(agenda)
  /\ UNCHANGED <<uid, burstEndTime, totalBurstDuration>>

\* The order in which an update that starts a burst schedules its two events.
UidsOfUpdate == [update |-> uid + 1, end |-> uid]

\* The event UpdateDelay: DoUpdateDelay of the subclass, then the next update.
\* An update that finds its burst over ends it and goes on as usual.
UpdateDelay(e) ==
  LET over == inBurst /\ e.at >= burstEndTime
      next == EventAt(e.at + updateInterval, UidsOfUpdate.update, "UpdateDelay")
      rest == IF over THEN (agenda \ {e}) \ BurstEnds(agenda) ELSE agenda \ {e}
  IN /\ uid' = uid + 2
     /\ \E w \in Variations :
          LET samples == IF over THEN EndBurstSamples(e.at, w) ELSE history
          IN \/ /\ subclass = "static"
                /\ currentDelay' = baseDelay
                /\ history' = RecordDelay(history, e.at, baseDelay, FALSE)
                /\ agenda' = rest \cup {next}
                /\ UNCHANGED burstVars
             \/ /\ subclass = "burst" /\ inBurst /\ ~over
                /\ currentDelay' = ContinuedDelay(w)
                /\ history' = RecordDelay(history, e.at, ContinuedDelay(w), TRUE)
                /\ agenda' = rest \cup {next}
                /\ UNCHANGED burstVars
             \/ /\ subclass = "burst" /\ (~inBurst \/ over)
                /\ \E v \in Variations :
                     /\ currentDelay' = NormalDelay(v)
                     /\ history' = RecordDelay(samples, e.at, NormalDelay(v), FALSE)
                /\ inBurst' = FALSE
                /\ agenda' = rest \cup {next}
                /\ UNCHANGED <<burstEndTime, totalBurstDuration>>
             \/ /\ subclass = "burst" /\ (~inBurst \/ over)
                /\ \E drawn \in BurstDurations :
                     /\ burstEndTime' = e.at + BurstLength(drawn)
                     /\ totalBurstDuration' = AddBurst(drawn)
                     /\ agenda' = rest \cup
                          {next, EventAt(e.at + EndsAfter(drawn), UidsOfUpdate.end, "EndBurst")}
                /\ inBurst' = TRUE
                /\ currentDelay' = BurstDelay
                /\ history' = RecordDelay(samples, e.at, BurstDelay, TRUE)

RunEvent ==
  \E e \in agenda :
    /\ IsNext(e, agenda)
    /\ e.at <= MaxTime
    /\ now' = e.at
    /\ spentInBursts' = IF inBurst THEN spentInBursts + (e.at - now) ELSE spentInBursts
    /\ \/ e.kind = "UpdateDelay" /\ UpdateDelay(e)
       \/ e.kind = "EndBurst" /\ EndBurst(e)
    /\ UNCHANGED <<settingVars, initialized, disposed>>

\* The simulator runs an event of someone else, when the model has none.
OtherEvent ==
  /\ now < MaxTime
  /\ \A e \in agenda : now < e.at
  /\ now' = now + 1
  /\ spentInBursts' = IF inBurst THEN spentInBursts + 1 ELSE spentInBursts
  /\ UNCHANGED <<settingVars, agenda, uid, currentDelay, history, initialized, burstVars,
                 disposed>>

Next ==
  \/ RunEvent
  \/ OtherEvent
  \/ \E i \in UpdateIntervals : Initialize(i) \/ SetUpdateInterval(i)
  \/ \E d \in BaseDelays : SetBaseDelay(d) \/ SetFixedDelay(d)
  \/ \E d \in MaxDeviations : SetMaxDeviation(d)
  \/ ClearHistory
  \/ DoDispose

Spec == Init /\ [][Next]_vars

(***************************************************************************)
(* What every state keeps                                                  *)
(***************************************************************************)
\* Every variable has values of its kind.
TypeOK ==
  /\ now \in Nat /\ uid \in Nat
  /\ agenda \subseteq [at : Nat, uid : Nat, kind : {"UpdateDelay", "EndBurst"}]
  /\ baseDelay \in BaseDelays /\ maxDeviation \in MaxDeviations
  /\ updateInterval \in UpdateIntervals
  /\ currentDelay \in Int
  /\ history \in Seq(Records) /\ Len(history) <= MaxHistorySize
  /\ initialized \in BOOLEAN /\ inBurst \in BOOLEAN /\ disposed \in BOOLEAN
  /\ burstEndTime \in Nat /\ totalBurstDuration \in Nat /\ spentInBursts \in Nat

UpdatesToCome == {e \in agenda : e.kind = "UpdateDelay"}

\* From Initialize to DoDispose each update schedules the next one.
UpdatesChained ==
  IF initialized /\ ~disposed THEN \E e \in agenda : UpdatesToCome = {e}
  ELSE UpdatesToCome = {}

\* A burst has an end event, unless the model is disposed of.
BurstsEnd ==
  IF inBurst /\ ~disposed
  THEN \E e \in agenda : BurstEnds(agenda) = {e} /\ e.at = burstEndTime
  ELSE BurstEnds(agenda) = {}

\* No event on the agenda is in the past.
NothingOverdue == \A e \in agenda : e.at >= now

\* The duration GetBurstStatistics reports is the time that passed in bursts,
\* plus what is left of the present one.
BurstTimeAccounted ==
  ~disposed =>
    totalBurstDuration = spentInBursts + IF inBurst THEN burstEndTime - now ELSE 0

\* The inductive invariant.
IInv ==
  /\ TypeOK
  /\ UpdatesChained
  /\ BurstsEnd
  /\ NothingOverdue
  /\ subclass = "static" => ~inBurst
  /\ BurstTimeAccounted

(***************************************************************************)
(* Properties                                                              *)
(***************************************************************************)
\* From Initialize to DoDispose there is exactly one update to come (Initialize,
\* UpdateDelay). A burst has exactly one end event, at m_burstEndTime, and without a
\* burst there is none: a burst is never cut short by the end of an earlier one, and
\* never stays for ever (StartBurst, EndBurst, DoUpdateDelay).
OneEventOfAKind ==
  /\ Cardinality({e \in agenda : e.kind = "UpdateDelay"})
       = IF initialized /\ ~disposed THEN 1 ELSE 0
  /\ ~disposed =>
       /\ inBurst <=> BurstEnds(agenda) # {}
       /\ \A e \in BurstEnds(agenda) : e.at = burstEndTime /\ e.at >= now
       /\ Cardinality(BurstEnds(agenda)) <= 1
=============================================================================
