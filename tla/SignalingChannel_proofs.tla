------------------------ MODULE SignalingChannel_proofs ------------------------
(***************************************************************************)
(* Proofs about SignalingChannel, for every number of messages, every set  *)
(* of links, delays and timeouts, and every reconfiguration on the way:    *)
(* the invariant IInv, and with it that a timeout never wins, that a       *)
(* message is reported once, and that the channel implements               *)
(* SignalingService.                                                       *)
(***************************************************************************)
EXTENDS SignalingChannel, FiniteSetTheorems, TLAPS

USE ChannelAssumption

\* The handlers of the three kinds of events, as they run in RunEvent.
Handled(e) ==
  \/ e.kind = "DoSendMessage" /\ DoSendMessage(e)
  \/ e.kind = "DeliverMessage" /\ DeliverMessage(e)
  \/ e.kind = "HandleTimeout" /\ HandleTimeout(e)

\* A delay is a number, whichever model it comes from.
LEMMA DelayIsNat ==
  ASSUME TypeOK, NEW l \in Links
  PROVE  GetLinkDelay(l) \in Nat
BY DEF TypeOK, GetLinkDelay

\* What is scheduled for a message is of the right type, and the timer comes
\* after the delivery.
LEMMA ScheduledFacts ==
  ASSUME TypeOK, NEW e \in agenda, NEW d \in Nat
  PROVE  /\ DeliveryOf(e, d) \in Events
         /\ TimeoutOf(e, d) \in Events
         /\ Precedes(DeliveryOf(e, d), TimeoutOf(e, d))
<1>1. /\ e.at \in Nat /\ e.id \in MessageIds /\ uid \in Nat /\ timeoutDuration \in Nat
  BY DEF TypeOK, Events
<1>2. TimeoutAfter(d) \in Nat /\ TimeoutAfter(d) >= d
  BY <1>1 DEF TimeoutAfter
<1>3. DeliveryOf(e, d) \in Events /\ TimeoutOf(e, d) \in Events
  BY <1>1, <1>2 DEF DeliveryOf, TimeoutOf, Events, Kinds
<1>4. Precedes(DeliveryOf(e, d), TimeoutOf(e, d))
  BY <1>1, <1>2 DEF DeliveryOf, TimeoutOf, Precedes
<1> QED
  BY <1>3, <1>4

\* The number of pending messages is a number.
LEMMA PendingFinite == Cardinality(InState("PENDING")) \in Nat
<1>1. IsFiniteSet(MessageIds)
  BY FS_Interval DEF MessageIds
<1> QED
  BY <1>1, FS_Subset, FS_CardinalityType DEF InState

\* The initial state satisfies the invariant.
LEMMA InitIInv == Init => IInv
<1> SUFFICES ASSUME Init PROVE IInv
  OBVIOUS
<1>1. TypeOK
  <2>1. stats \in Statistics /\ statsAtStart \in Statistics
    BY DEF Init, Statistics
  <2>2. heard \in [MessageIds -> Seq(Settled)]
    BY DEF Init
  <2>3. nextMessageId \in 1..(MaxMessages + 1)
    BY DEF Init
  <2> QED
    BY <2>1, <2>2, <2>3 DEF Init, TypeOK
<1>2. /\ TimeMovesForward /\ OnlyIssuedScheduled /\ UnsentUntouched /\ OneTransmission
      /\ TimerAfterDelivery /\ ReportedOnce
  BY DEF Init, TimeMovesForward, InState, NoMessage, OnlyIssuedScheduled, UnsentUntouched, OneTransmission, Transmissions,
     TimerAfterDelivery, ReportedOnce
<1>3. TimeoutNeverWins
  BY DEF Init, TimeoutNeverWins, InState, NoMessage
<1> QED
  BY <1>1, <1>2, <1>3 DEF IInv

\* Sending a message keeps the invariant: its id is fresh.
LEMMA SendMessageStep ==
  ASSUME IInv, NEW l \in Links, NEW requiresAck \in BOOLEAN, SendMessage(l, requiresAck)
  PROVE  IInv'
<1>id. PICK id \in MessageIds : id = nextMessageId
  BY DEF SendMessage
<1> DEFINE msg == [state |-> "PENDING", requiresAck |-> requiresAck, link |-> l,
                   sendTime |-> now, deliveryTime |-> 0]
           ev == [at |-> now, uid |-> uid, kind |-> "DoSendMessage", id |-> id]
<1>0. /\ TypeOK /\ id \in MessageIds
      /\ messages' = [messages EXCEPT ![id] = msg]
      /\ agenda' = agenda \cup {ev}
      /\ uid' = uid + 1
      /\ nextMessageId' = id + 1
      /\ stats' = [stats EXCEPT !.sent = @ + 1]
      /\ UNCHANGED <<now, callbacks, timeoutEvents, loss, timeoutDuration, delayModel,
                     linkDelayModels, disposed, heard, forgotten, statsAtStart>>
  BY <1>id DEF IInv, SendMessage, settingVars
<1>1. msg \in Messages /\ ev \in Events
  BY <1>0 DEF TypeOK, Messages, Events, Kinds
<1> HIDE DEF msg, ev
<1>2. TypeOK'
  <2>1. stats' \in Statistics
    <3>1. stats \in Statistics
      BY <1>0 DEF TypeOK
    <3> QED
      BY <1>0, <3>1 DEF Statistics
  <2>2. nextMessageId' \in 1..(MaxMessages + 1)
    BY <1>0 DEF MessageIds
  <2>3. messages' \in [MessageIds -> Messages \cup {NoMessage}] /\ agenda' \subseteq Events
    BY <1>0, <1>1 DEF TypeOK
  <2> QED
    BY <1>0, <2>1, <2>2, <2>3 DEF TypeOK
<1>3. /\ ~Issued(id) /\ Issued(id)'
      /\ \A i \in MessageIds \ {id} : Issued(i)' <=> Issued(i)
  <2>1. id \in Nat
    BY <1>0 DEF MessageIds
  <2>2. nextMessageId = id
    BY <1>id
  <2> QED
    BY <1>0, <2>1, <2>2 DEF Issued, MessageIds
<1>4. /\ messages'[id] = msg
      /\ \A i \in MessageIds \ {id} : messages'[i] = messages[i]
  BY <1>0 DEF TypeOK
<1>b. TimeMovesForward'
  <2>1. ev.at = now /\ msg.sendTime = now /\ now \in Nat
    BY <1>0 DEF ev, msg, TypeOK
  <2> QED
    BY <1>0, <1>4, <2>1 DEF IInv, TimeMovesForward, InState
<1>a. /\ ev.kind = "DoSendMessage" /\ ev.id = id /\ msg.state = "PENDING"
      /\ msg # NoMessage
  BY DEF ev, msg, NoMessage
<1>5. \A e \in agenda : e.id \in MessageIds /\ e.id # id
  BY <1>0, <1>3 DEF IInv, OnlyIssuedScheduled, TypeOK, Events
<1>6. messages[id] = NoMessage /\ heard[id] = <<>> /\ id \notin callbacks
  BY <1>0, <1>3 DEF IInv, UnsentUntouched
<1>7. OnlyIssuedScheduled' /\ UnsentUntouched'
  BY <1>0, <1>3, <1>4, <1>5, <1>a DEF IInv, OnlyIssuedScheduled, UnsentUntouched
<1>8. OneTransmission'
  BY <1>0, <1>4, <1>5, <1>a DEF IInv, OneTransmission, Transmissions
<1>9. TimerAfterDelivery'
  BY <1>0, <1>4, <1>5, <1>a DEF IInv, TimerAfterDelivery
<1>10. TimeoutNeverWins'
  BY <1>0, <1>4, <1>a DEF IInv, TimeoutNeverWins, InState, TypeOK, Statistics
<1>11. ReportedOnce'
  BY <1>0, <1>4, <1>6 DEF IInv, ReportedOnce
<1> QED
  BY <1>2, <1>b, <1>7, <1>8, <1>9, <1>10, <1>11 DEF IInv

\* Erasing the history keeps the invariant, with all events or without timers.
LEMMA EraseStep ==
  ASSUME IInv, EraseHistory, agenda' \subseteq agenda, TypeOK',
         \A e \in agenda : e.kind # "HandleTimeout" => e \in agenda',
         UNCHANGED <<now, nextMessageId, heard, stats, statsAtStart>>
  PROVE  IInv'
<1>1. \A id \in MessageIds : messages'[id] = NoMessage /\ messages'[id].state = "NONE"
  BY DEF EraseHistory, NoMessage
<1>2. \A e \in agenda : e.id \in MessageIds
  BY DEF IInv, TypeOK, Events
<1>3. OnlyIssuedScheduled' /\ UnsentUntouched'
  BY <1>1, <1>2 DEF IInv, OnlyIssuedScheduled, UnsentUntouched, Issued, EraseHistory
<1>4. OneTransmission'
  BY <1>1, <1>2 DEF IInv, OneTransmission, Transmissions
<1>5. TimerAfterDelivery'
  BY <1>1, <1>2 DEF TimerAfterDelivery
<1>6. TimeoutNeverWins' /\ ReportedOnce' /\ TimeMovesForward'
  BY <1>1 DEF IInv, TimeoutNeverWins, InState, ReportedOnce, TimeMovesForward
<1> QED
  BY <1>3, <1>4, <1>5, <1>6 DEF IInv

\* The calls that change neither messages nor events keep the invariant.
LEMMA SettingStep ==
  ASSUME IInv, TypeOK', callbacks \subseteq callbacks',
         \A id \in MessageIds : ~Issued(id) => id \notin callbacks',
         UNCHANGED <<now, agenda, messages, nextMessageId, heard, stats, statsAtStart>>
  PROVE  IInv'
BY DEF IInv, TimeMovesForward, OnlyIssuedScheduled, UnsentUntouched, OneTransmission, Transmissions,
   TimerAfterDelivery, TimeoutNeverWins, InState, ReportedOnce, Issued

\* Running the next event, which schedules nothing in the past, keeps time
\* moving forward.
LEMMA TimeStep ==
  ASSUME IInv, NEW e \in agenda, IsNext(e, agenda), now' = e.at,
         \A f \in agenda' : f \in agenda \ {e} \/ (f.at \in Nat /\ f.at >= e.at),
         \A i \in MessageIds : messages'[i].state = "PENDING" => messages'[i] = messages[i]
  PROVE  TimeMovesForward'
<1>1. /\ now \in Nat /\ \A f \in agenda : f.at \in Nat
      /\ \A m \in Messages : m.sendTime \in Nat
  BY DEF IInv, TypeOK, Events, Messages
<1>2. now <= e.at /\ \A f \in agenda \ {e} : e.at <= f.at
  BY <1>1 DEF IInv, TimeMovesForward, IsNext, Precedes
<1>3. \A f \in agenda' : now' <= f.at
  BY <1>1, <1>2
<1>4. ASSUME NEW i \in MessageIds, messages'[i].state = "PENDING"
      PROVE  messages'[i].sendTime <= now'
  <2>1. messages[i].state = "PENDING" /\ messages[i].sendTime <= now
    BY <1>4 DEF IInv, TimeMovesForward, InState
  <2>2. messages[i] \in Messages
    BY <2>1 DEF IInv, TypeOK, NoMessage
  <2> QED
    BY <1>1, <1>2, <1>4, <2>1, <2>2
<1> QED
  BY <1>3, <1>4 DEF TimeMovesForward, InState

\* Settling message e.id while its last event e runs keeps the invariant:
\* e is no timer, and the message is reported with the state it gets.
LEMMA SettleStep ==
  ASSUME IInv, TypeOK', NEW e \in agenda, NEW fate \in {"DELIVERED", "LOST"},
         e.kind \in {"DoSendMessage", "DeliverMessage"}, IsNext(e, agenda), now' = e.at,
         messages[e.id].state = "PENDING",
         messages'[e.id] # NoMessage, messages'[e.id].state = fate,
         \A i \in MessageIds \ {e.id} : messages'[i] = messages[i],
         Report(e.id, fate),
         agenda' = WithoutTimer(agenda \ {e}, e.id),
         stats'.timedOut = stats.timedOut,
         UNCHANGED <<nextMessageId, callbacks, statsAtStart>>
  PROVE  IInv'
<1>1. /\ e.id \in MessageIds /\ Issued(e.id)
      /\ \A f \in agenda : f.id \in MessageIds
  BY DEF IInv, OnlyIssuedScheduled, TypeOK, Events
<1>2. /\ agenda' \subseteq agenda \ {e}
      /\ \A f \in agenda : f # e /\ f.kind # "HandleTimeout" => f \in agenda'
  BY DEF WithoutTimer
<1>3. /\ heard[e.id] = <<>>
      /\ heard'[e.id] \in {<<>>, <<fate>>}
      /\ \A i \in MessageIds \ {e.id} : heard'[i] = heard[i]
  <2>1. heard[e.id] = <<>>
    BY <1>1 DEF IInv, ReportedOnce, NoMessage
  <2>2. heard \in [MessageIds -> Seq(Settled)]
    BY DEF IInv, TypeOK
  <2>3. Append(<<>>, fate) = <<fate>>
    OBVIOUS
  <2> QED
    BY <1>1, <2>1, <2>2, <2>3 DEF Report
<1>b. TimeMovesForward'
  BY <1>2, TimeStep
<1>4. OnlyIssuedScheduled'
  BY <1>2 DEF IInv, OnlyIssuedScheduled, Issued
<1>5. UnsentUntouched'
  BY <1>1, <1>3 DEF IInv, UnsentUntouched, Issued
<1>6. OneTransmission'
  <2>1. \A f \in agenda' : f.kind = "DoSendMessage" => f.id # e.id
    BY <1>2 DEF IInv, OneTransmission, Transmissions
  <2> QED
    BY <1>1, <1>2, <2>1 DEF IInv, OneTransmission, Transmissions
<1>7. TimerAfterDelivery'
  <2> SUFFICES ASSUME NEW t \in agenda', t.kind = "HandleTimeout",
                      messages'[t.id].state = "PENDING"
               PROVE  \E d \in agenda' : d.kind = "DeliverMessage" /\ d.id = t.id /\ Precedes(d, t)
    BY DEF TimerAfterDelivery
  <2>1. t.id # e.id /\ t \in agenda /\ messages[t.id].state = "PENDING"
    BY <1>1, <1>2
  <2>2. PICK d \in agenda : d.kind = "DeliverMessage" /\ d.id = t.id /\ Precedes(d, t)
    BY <2>1 DEF IInv, TimerAfterDelivery
  <2> QED
    BY <1>2, <2>1, <2>2
<1>8. TimeoutNeverWins'
  <2>1. \A i \in MessageIds : messages'[i].state # "TIMEOUT"
    BY DEF IInv, TimeoutNeverWins, InState
  <2>2. \A i \in MessageIds : heard'[i] # <<"TIMEOUT">>
    BY <1>3 DEF IInv, TimeoutNeverWins
  <2> QED
    BY <2>1, <2>2 DEF IInv, TimeoutNeverWins, InState
<1>9. ReportedOnce'
  BY <1>3 DEF IInv, ReportedOnce
<1> QED
  BY <1>b, <1>4, <1>5, <1>6, <1>7, <1>8, <1>9 DEF IInv

\* Dropping events, and nothing else, keeps the invariant if the deliveries of
\* pending messages stay.
LEMMA SkipStep ==
  ASSUME IInv, TypeOK', NEW e \in agenda,
         IsNext(e, agenda), now' = e.at, agenda' = agenda \ {e},
         messages[e.id].state # "PENDING",
         UNCHANGED <<messages, nextMessageId, heard, stats, statsAtStart, callbacks>>
  PROVE  IInv'
<1>1. OnlyIssuedScheduled' /\ UnsentUntouched' /\ OneTransmission'
  BY DEF IInv, OnlyIssuedScheduled, UnsentUntouched, OneTransmission, Transmissions, Issued
<1>2. TimerAfterDelivery'
  BY DEF IInv, TimerAfterDelivery
<1>3. TimeoutNeverWins' /\ ReportedOnce' /\ TimeMovesForward'
  BY TimeStep DEF IInv, TimeoutNeverWins, InState, ReportedOnce
<1> QED
  BY <1>1, <1>2, <1>3 DEF IInv

\* The event that runs has a message of the state its kind allows; a timer that
\* runs finds its message settled or gone.
LEMMA RunningEvent ==
  ASSUME IInv, NEW e \in agenda, IsNext(e, agenda)
  PROVE  /\ e.id \in MessageIds
         /\ e.kind \in Kinds
         /\ e.kind = "DoSendMessage" => messages[e.id].state \in {"PENDING", "NONE"}
         /\ e.kind = "HandleTimeout" => messages[e.id].state # "PENDING"
         /\ messages[e.id] = NoMessage \/ messages[e.id] \in Messages
<1>1. e \in Events /\ messages \in [MessageIds -> Messages \cup {NoMessage}]
  BY DEF IInv, TypeOK
<1>2. /\ e.id \in MessageIds /\ e.kind \in Kinds
      /\ messages[e.id] = NoMessage \/ messages[e.id] \in Messages
  BY <1>1 DEF Events
<1>3. e.kind = "DoSendMessage" => messages[e.id].state \in {"PENDING", "NONE"}
  BY DEF IInv, OneTransmission
<1>4. ASSUME e.kind = "HandleTimeout", messages[e.id].state = "PENDING"
      PROVE  FALSE
  <2>1. PICK d \in agenda : d.kind = "DeliverMessage" /\ d.id = e.id /\ Precedes(d, e)
    BY <1>4 DEF IInv, TimerAfterDelivery
  <2>2. Precedes(e, d)
    BY <1>4, <2>1 DEF IsNext
  <2>3. e.at \in Nat /\ e.uid \in Nat /\ d.at \in Nat /\ d.uid \in Nat
    BY DEF IInv, TypeOK, Events
  <2> QED
    BY <2>1, <2>2, <2>3 DEF Precedes
<1> QED
  BY <1>2, <1>3, <1>4

\* What every event leaves alone.
Untouched ==
  UNCHANGED <<callbacks, nextMessageId, settingVars, disposed, forgotten, statsAtStart>>

\* The statistics stay numbers when a handler counts.
LEMMA StatsFacts ==
  ASSUME TypeOK, NEW d \in Nat
  PROVE  /\ CountDelivery(d) \in Statistics
         /\ CountDelivery(d).timedOut = stats.timedOut
         /\ [stats EXCEPT !.lost = @ + 1] \in Statistics
         /\ [stats EXCEPT !.lost = @ + 1].timedOut = stats.timedOut
<1>1. stats \in Statistics
  BY DEF TypeOK
<1>2. /\ [stats EXCEPT !.lost = @ + 1] \in Statistics
      /\ [stats EXCEPT !.lost = @ + 1].timedOut = stats.timedOut
  BY <1>1 DEF Statistics
<1>3. /\ stats.delivered + 1 \in Nat /\ stats.totalDelay + d \in Nat
      /\ (IF d > stats.maxDelay THEN d ELSE stats.maxDelay) \in Nat
      /\ (IF stats.minDelay = 0 \/ d < stats.minDelay THEN d ELSE stats.minDelay) \in Nat
  BY <1>1 DEF Statistics
<1>4. /\ CountDelivery(d) \in Statistics
      /\ CountDelivery(d).timedOut = stats.timedOut
  BY <1>1, <1>3 DEF Statistics, CountDelivery
<1> QED
  BY <1>2, <1>4

\* Reporting keeps what callbacks heard a sequence of settled states.
LEMMA ReportType ==
  ASSUME TypeOK, NEW id \in MessageIds, NEW s \in Settled, Report(id, s)
  PROVE  heard' \in [MessageIds -> Seq(Settled)]
<1>1. heard \in [MessageIds -> Seq(Settled)]
  BY DEF TypeOK
<1>2. Append(heard[id], s) \in Seq(Settled)
  BY <1>1
<1> QED
  BY <1>1, <1>2 DEF Report

\* Changing the state of a message, and its delivery time, keeps it a message.
LEMMA MessageUpdate ==
  ASSUME TypeOK, NEW id \in MessageIds, messages[id] # NoMessage,
         NEW s \in Settled, NEW at \in Nat,
         \/ messages' = [messages EXCEPT ![id].state = s]
         \/ messages' = [messages EXCEPT ![id].state = s, ![id].deliveryTime = at]
  PROVE  /\ messages' \in [MessageIds -> Messages \cup {NoMessage}]
         /\ messages'[id] # NoMessage /\ messages'[id].state = s
         /\ \A i \in MessageIds \ {id} : messages'[i] = messages[i]
<1>1. messages \in [MessageIds -> Messages \cup {NoMessage}]
  BY DEF TypeOK
<1>2. messages[id] \in Messages
  BY <1>1
<1>3. \A m \in Messages : m # NoMessage
  BY DEF Messages, NoMessage
<1>4. [messages[id] EXCEPT !.state = s] \in Messages
  BY <1>2 DEF Messages
<1>5. [messages[id] EXCEPT !.state = s, !.deliveryTime = at] \in Messages
  BY <1>2 DEF Messages
<1>6. messages'[id] \in Messages /\ messages'[id].state = s
  BY <1>1, <1>2, <1>4, <1>5 DEF Messages
<1>7. /\ messages' \in [MessageIds -> Messages \cup {NoMessage}]
      /\ \A i \in MessageIds \ {id} : messages'[i] = messages[i]
  BY <1>1, <1>6
<1> QED
  BY <1>3, <1>6, <1>7

\* An event that finds no message keeps the invariant.
LEMMA EntryGoneStep ==
  ASSUME IInv, NEW e \in agenda, IsNext(e, agenda), now' = e.at, EntryGone(e), Untouched
  PROVE  IInv'
<1>1. messages[e.id].state # "PENDING"
  BY DEF EntryGone, NoMessage
<1>2. TypeOK'
  BY DEF IInv, TypeOK, EntryGone, Untouched, settingVars, Events
<1> QED
  BY <1>1, <1>2, SkipStep DEF EntryGone, Untouched

\* DropMessage of a pending message with reason LOST keeps the invariant.
LEMMA LossStep ==
  ASSUME IInv, NEW e \in agenda, IsNext(e, agenda), now' = e.at,
         e.kind = "DoSendMessage", messages[e.id] # NoMessage,
         DropMessage(e, "LOST"), uid' = uid, Untouched
  PROVE  IInv'
<1>1. TypeOK /\ e.id \in MessageIds /\ messages[e.id].state = "PENDING"
  <2>1. messages[e.id] \in Messages
    BY RunningEvent
  <2>2. messages[e.id].state # "NONE"
    BY <2>1 DEF Messages, Settled
  <2> QED
    BY <2>2, RunningEvent DEF IInv
<1>2. /\ messages' \in [MessageIds -> Messages \cup {NoMessage}]
      /\ messages'[e.id] # NoMessage /\ messages'[e.id].state = "LOST"
      /\ \A i \in MessageIds \ {e.id} : messages'[i] = messages[i]
  BY <1>1, MessageUpdate, 0 \in Nat DEF DropMessage, Settled
<1>3. stats' \in Statistics /\ stats'.timedOut = stats.timedOut
  BY <1>1, StatsFacts, 0 \in Nat DEF DropMessage
<1>4. /\ Report(e.id, "LOST")
      /\ agenda' = WithoutTimer(agenda \ {e}, e.id)
      /\ timeoutEvents' = timeoutEvents \ {e.id}
  BY DEF DropMessage
<1>5. heard' \in [MessageIds -> Seq(Settled)]
  BY <1>1, <1>4, ReportType DEF Settled
<1>6. agenda' \subseteq Events /\ now' \in Nat
  BY <1>1, <1>4 DEF WithoutTimer, TypeOK, Events
<1>7. TypeOK'
  BY <1>1, <1>2, <1>3, <1>4, <1>5, <1>6 DEF TypeOK, Untouched, settingVars
<1> QED
  BY <1>1, <1>2, <1>3, <1>4, <1>7, SettleStep DEF Untouched

\* Scheduling the delivery of a message, and its timer after that, keeps the
\* invariant.
LEMMA TransmitStep ==
  ASSUME IInv, NEW e \in agenda, IsNext(e, agenda), now' = e.at,
         e.kind = "DoSendMessage", messages[e.id] # NoMessage,
         agenda' = (agenda \ {e}) \cup Scheduled(e, GetLinkDelay(messages[e.id].link)),
         uid' = uid + 2,
         timeoutEvents' \in {timeoutEvents, timeoutEvents \cup {e.id}},
         UNCHANGED <<messages, stats, heard>>, Untouched
  PROVE  IInv'
<1>1. /\ TypeOK /\ e.id \in MessageIds /\ messages[e.id].state = "PENDING"
      /\ messages[e.id].link \in Links
  <2>1. messages[e.id] \in Messages
    BY RunningEvent
  <2>2. messages[e.id].state # "NONE"
    BY <2>1 DEF Messages, Settled
  <2> QED
    BY <2>1, <2>2, RunningEvent DEF IInv, Messages
<1> DEFINE d == GetLinkDelay(messages[e.id].link)
<1>2. d \in Nat
  BY <1>1, DelayIsNat
<1>a. PICK del, tim : del = DeliveryOf(e, d) /\ tim = TimeoutOf(e, d)
  OBVIOUS
<1>3. del \in Events /\ tim \in Events /\ Precedes(del, tim)
  BY <1>1, <1>2, <1>a, ScheduledFacts
<1>4. /\ del.id = e.id /\ del.kind = "DeliverMessage"
      /\ tim.id = e.id /\ tim.kind = "HandleTimeout"
  BY <1>a DEF DeliveryOf, TimeoutOf
<1>5. \/ agenda' = (agenda \ {e}) \cup {del, tim}
      \/ agenda' = (agenda \ {e}) \cup {del}
  BY <1>a DEF Scheduled
<1>b. del.at \in Nat /\ tim.at \in Nat /\ del.at >= e.at /\ tim.at >= e.at
  <2>1. e.at \in Nat /\ TimeoutAfter(d) \in Nat
    BY <1>1, <1>2 DEF TypeOK, Events, TimeoutAfter
  <2> QED
    BY <1>2, <1>a, <2>1 DEF DeliveryOf, TimeoutOf
<1>c. TimeMovesForward'
  BY <1>5, <1>b, TimeStep
<1> HIDE DEF d
<1>6. TypeOK'
  <2>1. agenda' \subseteq Events
    BY <1>1, <1>3, <1>5 DEF TypeOK
  <2>2. uid' \in Nat /\ now' \in Nat
    BY <1>1 DEF TypeOK, Events
  <2>3. timeoutEvents' \subseteq MessageIds
    BY <1>1 DEF TypeOK
  <2> QED
    BY <1>1, <2>1, <2>2, <2>3 DEF TypeOK, Untouched, settingVars
<1>7. Issued(e.id) /\ OnlyIssuedScheduled' /\ UnsentUntouched'
  BY <1>4, <1>5 DEF IInv, OnlyIssuedScheduled, UnsentUntouched, Issued, Untouched
<1>8. OneTransmission'
  BY <1>4, <1>5 DEF IInv, OneTransmission, Transmissions
<1>9. TimerAfterDelivery'
  <2> SUFFICES ASSUME NEW t \in agenda', t.kind = "HandleTimeout",
                      messages[t.id].state = "PENDING"
               PROVE  \E f \in agenda' : f.kind = "DeliverMessage" /\ f.id = t.id /\ Precedes(f, t)
    BY DEF TimerAfterDelivery
  <2>1. CASE t = tim
    BY <1>3, <1>4, <1>5, <2>1
  <2>2. CASE t \in agenda
    <3>1. PICK f \in agenda : f.kind = "DeliverMessage" /\ f.id = t.id /\ Precedes(f, t)
      BY <2>2 DEF IInv, TimerAfterDelivery
    <3> QED
      BY <1>5, <3>1
  <2> QED
    BY <1>4, <1>5, <2>1, <2>2
<1>10. TimeoutNeverWins' /\ ReportedOnce'
  BY DEF IInv, TimeoutNeverWins, InState, ReportedOnce, Untouched
<1> QED
  BY <1>6, <1>c, <1>7, <1>8, <1>9, <1>10 DEF IInv

\* Delivering a pending message keeps the invariant.
LEMMA DeliverStep ==
  ASSUME IInv, NEW e \in agenda, IsNext(e, agenda), now' = e.at,
         e.kind = "DeliverMessage", DeliverMessage(e), Untouched,
         messages[e.id].state = "PENDING"
  PROVE  IInv'
<1>1. TypeOK /\ e.id \in MessageIds /\ messages[e.id] # NoMessage /\ e.at \in Nat
  BY RunningEvent DEF IInv, NoMessage, TypeOK, Events
<1>a. e.at - messages[e.id].sendTime \in Nat
  <2>1. messages[e.id].sendTime \in Nat
    BY <1>1, RunningEvent DEF Messages
  <2>2. now \in Nat /\ now <= e.at /\ messages[e.id].sendTime <= now
    BY <1>1 DEF IInv, TypeOK, TimeMovesForward, InState
  <2> QED
    BY <1>1, <2>1, <2>2
<1>2. /\ messages' = [messages EXCEPT ![e.id].state = "DELIVERED",
                                      ![e.id].deliveryTime = e.at]
      /\ stats' = CountDelivery(e.at - messages[e.id].sendTime)
      /\ Report(e.id, "DELIVERED")
      /\ agenda' = WithoutTimer(agenda \ {e}, e.id)
      /\ timeoutEvents' = timeoutEvents \ {e.id}
      /\ uid' = uid
  BY <1>1 DEF DeliverMessage, EntryGone, Settled
<1>3. /\ messages' \in [MessageIds -> Messages \cup {NoMessage}]
      /\ messages'[e.id] # NoMessage /\ messages'[e.id].state = "DELIVERED"
      /\ \A i \in MessageIds \ {e.id} : messages'[i] = messages[i]
  BY <1>1, <1>2, MessageUpdate DEF Settled
<1>4. stats' \in Statistics /\ stats'.timedOut = stats.timedOut
  BY <1>1, <1>2, <1>a, StatsFacts
<1>5. heard' \in [MessageIds -> Seq(Settled)]
  BY <1>1, <1>2, ReportType DEF Settled
<1>6. agenda' \subseteq Events
  BY <1>1, <1>2 DEF WithoutTimer, TypeOK
<1>7. TypeOK'
  BY <1>1, <1>2, <1>3, <1>4, <1>5, <1>6 DEF TypeOK, Untouched, settingVars
<1> QED
  BY <1>1, <1>2, <1>3, <1>4, <1>7, SettleStep DEF Untouched

\* Running the next event keeps the invariant.
LEMMA RunEventStep ==
  ASSUME IInv, RunEvent
  PROVE  IInv'
<1>1. PICK e \in agenda : IsNext(e, agenda) /\ now' = e.at /\ Handled(e) /\ Untouched
  BY DEF RunEvent, Handled, Untouched
<1>2. CASE EntryGone(e)
  BY <1>1, <1>2, EntryGoneStep
<1>3. CASE e.kind = "DoSendMessage" /\ ~EntryGone(e)
  <2>1. DoSendMessage(e) /\ messages[e.id] # NoMessage
    BY <1>1, <1>3 DEF Handled, DoSendMessage
  <2>2. \/ DropMessage(e, "LOST") /\ uid' = uid
        \/ /\ agenda' = (agenda \ {e}) \cup Scheduled(e, GetLinkDelay(messages[e.id].link))
           /\ uid' = uid + 2
           /\ timeoutEvents' \in {timeoutEvents, timeoutEvents \cup {e.id}}
           /\ UNCHANGED <<messages, stats, heard>>
    BY <1>3, <2>1 DEF DoSendMessage
  <2> QED
    BY <1>1, <1>3, <2>1, <2>2, LossStep, TransmitStep
<1>4. CASE e.kind = "DeliverMessage" /\ ~EntryGone(e)
  <2>1. DeliverMessage(e)
    BY <1>1, <1>4 DEF Handled
  <2>2. CASE messages[e.id].state = "PENDING"
    BY <1>1, <1>4, <2>1, <2>2, DeliverStep
  <2>3. CASE messages[e.id].state # "PENDING"
    <3>1. /\ agenda' = agenda \ {e}
          /\ UNCHANGED <<uid, messages, stats, heard, timeoutEvents>>
      BY <1>4, <2>1, <2>3 DEF DeliverMessage
    <3>2. TypeOK'
      BY <1>1, <3>1 DEF IInv, TypeOK, Untouched, settingVars, Events
    <3> QED
      BY <1>1, <2>3, <3>1, <3>2, SkipStep DEF Untouched
  <2> QED
    BY <2>2, <2>3
<1>5. CASE e.kind = "HandleTimeout" /\ ~EntryGone(e)
  <2>1. messages[e.id].state # "PENDING"
    BY <1>1, <1>5, RunningEvent
  <2>2. /\ agenda' = agenda \ {e} /\ timeoutEvents' = timeoutEvents \ {e.id}
        /\ UNCHANGED <<uid, messages, stats, heard>>
    BY <1>1, <1>5, <2>1 DEF Handled, HandleTimeout
  <2>3. TypeOK'
    BY <1>1, <2>2 DEF IInv, TypeOK, Untouched, settingVars, Events
  <2> QED
    BY <1>1, <2>1, <2>2, <2>3, SkipStep DEF Untouched
<1> QED
  BY <1>1, <1>2, <1>3, <1>4, <1>5 DEF Handled

\* Every step keeps the invariant.
LEMMA NextIInv == IInv /\ [Next]_vars => IInv'
<1> SUFFICES ASSUME IInv, [Next]_vars PROVE IInv'
  OBVIOUS
<1>0. TypeOK
  BY DEF IInv
<1>1. CASE RunEvent
  BY <1>1, RunEventStep
<1>2. ASSUME NEW l \in Links, NEW requiresAck \in BOOLEAN, SendMessage(l, requiresAck)
      PROVE  IInv'
  BY <1>2, SendMessageStep
<1>3. ASSUME NEW id \in MessageIds, RegisterCallback(id)
      PROVE  IInv'
  <2>1. TypeOK'
    BY <1>0, <1>3 DEF RegisterCallback, TypeOK, eventVars, settingVars
  <2>2. \A i \in MessageIds : ~Issued(i) => i \notin callbacks'
    BY <1>3 DEF RegisterCallback, IInv, UnsentUntouched
  <2> QED
    BY <1>3, <2>1, <2>2, SettingStep DEF RegisterCallback, eventVars
<1>4. CASE ClearHistory
  <2>1. EraseHistory /\ UNCHANGED <<now, agenda, uid, timeoutEvents, nextMessageId, stats,
          loss, timeoutDuration, delayModel, linkDelayModels, disposed, heard, statsAtStart>>
    BY <1>4 DEF ClearHistory, eventVars, settingVars
  <2>2. TypeOK'
    BY <1>0, <2>1, PendingFinite DEF TypeOK, EraseHistory
  <2> QED
    BY <2>1, <2>2, EraseStep
<1>5. CASE DoDispose
  <2>1. /\ EraseHistory /\ disposed' = TRUE /\ timeoutEvents' = {}
        /\ UNCHANGED <<now, uid, nextMessageId, stats, loss, timeoutDuration, delayModel,
                       linkDelayModels, heard, statsAtStart>>
    BY <1>5 DEF DoDispose, settingVars
  <2>2. /\ agenda' \subseteq agenda
        /\ \A e \in agenda : e.kind # "HandleTimeout" => e \in agenda'
    BY <1>5 DEF DoDispose
  <2>3. TypeOK'
    BY <1>0, <2>1, <2>2, PendingFinite DEF TypeOK, EraseHistory
  <2> QED
    BY <2>1, <2>2, <2>3, EraseStep
<1>6. CASE SetPacketLossProbability
  <2>1. TypeOK'
    BY <1>0, <1>6 DEF SetPacketLossProbability, TypeOK, eventVars
  <2> QED
    BY <1>6, <2>1, SettingStep DEF SetPacketLossProbability, eventVars, IInv, UnsentUntouched
<1>7. CASE SetTimeoutDuration
  <2>1. TypeOK'
    BY <1>0, <1>7 DEF SetTimeoutDuration, TypeOK, eventVars
  <2> QED
    BY <1>7, <2>1, SettingStep DEF SetTimeoutDuration, eventVars, IInv, UnsentUntouched
<1>8. CASE SetDelayModel
  <2>1. TypeOK'
    BY <1>0, <1>8 DEF SetDelayModel, TypeOK, eventVars
  <2> QED
    BY <1>8, <2>1, SettingStep DEF SetDelayModel, eventVars, IInv, UnsentUntouched
<1>9. ASSUME NEW l \in Links, SetLinkDelayModel(l)
      PROVE  IInv'
  <2>1. TypeOK'
    BY <1>0, <1>9 DEF SetLinkDelayModel, TypeOK, eventVars
  <2> QED
    BY <1>9, <2>1, SettingStep DEF SetLinkDelayModel, eventVars, IInv, UnsentUntouched
<1>11. CASE OtherEvent
  <2>1. TypeOK'
    BY <1>0, <1>11 DEF OtherEvent, TypeOK, settingVars
  <2>2. /\ now \in Nat /\ \A e \in agenda : e.at \in Nat
        /\ \A m \in Messages : m.sendTime \in Nat
    BY <1>0 DEF TypeOK, Events, Messages
  <2>3. \A e \in agenda : now' <= e.at
    BY <1>11, <2>2 DEF OtherEvent
  <2>4. ASSUME NEW id \in MessageIds, messages[id].state = "PENDING"
        PROVE  messages[id].sendTime <= now'
    <3>1. messages[id].sendTime <= now
      BY <2>4 DEF IInv, TimeMovesForward, InState
    <3>2. messages[id] \in Messages
      BY <1>0, <2>4 DEF TypeOK, NoMessage
    <3> QED
      BY <1>11, <2>2, <3>1, <3>2 DEF OtherEvent
  <2>5. TimeMovesForward'
    BY <1>11, <2>3, <2>4 DEF OtherEvent, TimeMovesForward, InState
  <2> QED
    BY <1>11, <2>1, <2>5 DEF OtherEvent, settingVars, IInv, OnlyIssuedScheduled, UnsentUntouched,
       OneTransmission, Transmissions, TimerAfterDelivery, TimeoutNeverWins, InState,
       ReportedOnce, Issued
<1>10. CASE UNCHANGED vars
  <2>1. TypeOK'
    BY <1>0, <1>10 DEF vars, TypeOK, eventVars, settingVars
  <2> QED
    BY <1>10, <2>1, SettingStep DEF vars, eventVars, IInv, UnsentUntouched
<1> QED
  BY <1>1, <1>2, <1>3, <1>4, <1>5, <1>6, <1>7, <1>8, <1>9, <1>10, <1>11
     DEF Next

\* IInv is an invariant.
THEOREM Invariance == Spec => []IInv
  BY InitIInv, NextIInv, PTL DEF Spec

\* Type correctness, for every number of messages, set of links and range of
\* delays and timeouts.
THEOREM TypeCorrect == Spec => []TypeOK
<1>1. IInv => TypeOK
  BY DEF IInv
<1> QED
  BY <1>1, Invariance, PTL

\* No message times out and no callback hears TIMEOUT, whatever the delays, the
\* timeout and their changes: the timer of DoSendMessage always runs after the
\* delivery that cancels it.
THEOREM NoTimeout == Spec => []TimeoutNeverWins
<1>1. IInv => TimeoutNeverWins
  BY DEF IInv
<1> QED
  BY <1>1, Invariance, PTL

\* A callback is called at most once, with the state of its message.
THEOREM OneReport == Spec => []ReportedOnce
<1>1. IInv => ReportedOnce
  BY DEF IInv
<1> QED
  BY <1>1, Invariance, PTL

(***************************************************************************)
(* Balance of the statistics                                               *)
(***************************************************************************)
Pending == InState("PENDING")

Settlements(s) == s.delivered + s.lost + s.timedOut

\* There are finitely many pending messages.
LEMMA PendingIsFinite == IsFiniteSet(Pending)
<1>1. IsFiniteSet(MessageIds)
  BY FS_Interval DEF MessageIds
<1> QED
  BY <1>1, FS_Subset DEF Pending, InState

\* The counters are numbers.
LEMMA CountersAreNumbers ==
  ASSUME TypeOK
  PROVE  /\ stats.sent \in Nat /\ statsAtStart.sent \in Nat /\ forgotten \in Nat
         /\ Settlements(stats) \in Nat /\ Settlements(statsAtStart) \in Nat
<1>1. stats \in Statistics /\ statsAtStart \in Statistics /\ forgotten \in Nat
  BY DEF TypeOK
<1>2. \A s \in Statistics : s.sent \in Nat /\ Settlements(s) \in Nat
  <2> SUFFICES ASSUME NEW s \in Statistics PROVE s.sent \in Nat /\ Settlements(s) \in Nat
    OBVIOUS
  <2>1. s.sent \in Nat /\ s.delivered \in Nat /\ s.lost \in Nat /\ s.timedOut \in Nat
    BY DEF Statistics
  <2> QED
    BY <2>1 DEF Settlements
<1> QED
  BY <1>1, <1>2

\* A message that is settled is one fewer pending.
LEMMA PendingShrinks ==
  ASSUME NEW id \in MessageIds, messages[id].state = "PENDING",
         messages'[id].state # "PENDING",
         \A i \in MessageIds \ {id} : messages'[i] = messages[i]
  PROVE  Cardinality(Pending') = Cardinality(Pending) - 1
<1>1. id \in Pending /\ Pending' = Pending \ {id}
  BY DEF Pending, InState
<1> QED
  BY <1>1, PendingIsFinite, FS_RemoveElement

\* A message that is sent is one more.
LEMMA PendingGrows ==
  ASSUME NEW id \in MessageIds, messages[id].state # "PENDING",
         messages'[id].state = "PENDING",
         \A i \in MessageIds \ {id} : messages'[i] = messages[i]
  PROVE  Cardinality(Pending') = Cardinality(Pending) + 1
<1>1. id \notin Pending /\ Pending' = Pending \cup {id}
  BY DEF Pending, InState
<1> QED
  BY <1>1, PendingIsFinite, FS_AddElement

\* A handler that counts one settlement for one message keeps the balance.
LEMMA SettledKeepsBalance ==
  ASSUME TypeOK, TypeOK', StatsBalance, NEW id \in MessageIds,
         messages[id].state = "PENDING", messages'[id].state # "PENDING",
         \A i \in MessageIds \ {id} : messages'[i] = messages[i],
         stats'.sent = stats.sent, Settlements(stats') = Settlements(stats) + 1,
         UNCHANGED <<forgotten, statsAtStart>>
  PROVE  StatsBalance'
<1>1. Cardinality(Pending) \in Nat /\ Cardinality(Pending') = Cardinality(Pending) - 1
  BY PendingShrinks, PendingFinite DEF Pending
<1>2. /\ stats.sent \in Nat /\ statsAtStart.sent \in Nat /\ forgotten \in Nat
      /\ Settlements(stats) \in Nat /\ Settlements(statsAtStart) \in Nat
  BY CountersAreNumbers
<1> QED
  BY <1>1, <1>2 DEF StatsBalance, Settlements, Pending

\* A step that leaves the counters and the messages alone keeps the balance.
LEMMA UntouchedKeepsBalance ==
  ASSUME StatsBalance, UNCHANGED <<messages, stats, forgotten, statsAtStart>>
  PROVE  StatsBalance'
BY DEF StatsBalance, InState

\* What is erased on its way is counted as forgotten.
LEMMA EraseKeepsBalance ==
  ASSUME TypeOK, StatsBalance, EraseHistory, UNCHANGED <<stats, statsAtStart>>
  PROVE  StatsBalance'
<1>1. Pending' = {}
  BY DEF Pending, InState, EraseHistory, NoMessage
<1>2. Cardinality(Pending') = 0
  BY <1>1, FS_EmptySet
<1>3. forgotten' = forgotten + Cardinality(Pending)
  BY DEF EraseHistory, Pending
<1>4. Cardinality(Pending) \in Nat
  BY PendingFinite DEF Pending
<1>5. /\ stats.sent \in Nat /\ statsAtStart.sent \in Nat /\ forgotten \in Nat
      /\ Settlements(stats) \in Nat /\ Settlements(statsAtStart) \in Nat
  BY CountersAreNumbers
<1> QED
  BY <1>2, <1>3, <1>4, <1>5 DEF StatsBalance, Settlements, Pending

\* The event that runs counts what it settles.
LEMMA RunEventKeepsBalance ==
  ASSUME IInv, TypeOK', StatsBalance, RunEvent
  PROVE  StatsBalance'
<1>1. PICK e \in agenda : IsNext(e, agenda) /\ now' = e.at /\ Handled(e) /\ Untouched
  BY DEF RunEvent, Handled, Untouched
<1>2. TypeOK /\ e.id \in MessageIds /\ stats \in Statistics /\ UNCHANGED <<forgotten, statsAtStart>>
  BY <1>1, RunningEvent DEF IInv, TypeOK, Untouched
<1>3. CASE UNCHANGED <<messages, stats>>
  BY <1>2, <1>3, UntouchedKeepsBalance
<1>4. CASE e.kind = "DoSendMessage" /\ messages[e.id] # NoMessage /\ DropMessage(e, "LOST")
  <2>1. messages[e.id].state = "PENDING"
    <3>1. messages[e.id].state # "NONE"
      BY <1>1, <1>4, RunningEvent DEF Messages, Settled
    <3> QED
      BY <1>1, <1>4, <3>1, RunningEvent
  <2>2. /\ messages'[e.id].state = "LOST"
        /\ \A i \in MessageIds \ {e.id} : messages'[i] = messages[i]
    BY <1>2, <1>4, MessageUpdate, 0 \in Nat DEF DropMessage, Settled
  <2>3. stats' = [stats EXCEPT !.lost = @ + 1]
    BY <1>4 DEF DropMessage
  <2>4. stats'.sent = stats.sent /\ Settlements(stats') = Settlements(stats) + 1
    BY <1>2, <2>3 DEF Settlements, Statistics
  <2> QED
    BY <1>2, <2>1, <2>2, <2>4, SettledKeepsBalance
<1>5. CASE /\ messages[e.id].state = "PENDING"
           /\ messages' = [messages EXCEPT ![e.id].state = "DELIVERED",
                                           ![e.id].deliveryTime = e.at]
           /\ stats' = CountDelivery(e.at - messages[e.id].sendTime)
  <2>1. messages[e.id] # NoMessage /\ e.at \in Nat
    <3>1. messages[e.id] # NoMessage
      BY <1>5 DEF NoMessage
    <3>2. e.at \in Nat
      BY <1>2 DEF TypeOK, Events
    <3> QED
      BY <3>1, <3>2
  <2>2. /\ messages'[e.id].state = "DELIVERED"
        /\ \A i \in MessageIds \ {e.id} : messages'[i] = messages[i]
    BY <1>2, <1>5, <2>1, MessageUpdate DEF Settled
  <2>3. /\ stats'.sent = stats.sent /\ stats'.delivered = stats.delivered + 1
        /\ stats'.lost = stats.lost /\ stats'.timedOut = stats.timedOut
    BY <1>2, <1>5 DEF CountDelivery, Statistics
  <2>4. Settlements(stats') = Settlements(stats) + 1
    BY <1>2, <2>3 DEF Settlements, Statistics
  <2> QED
    BY <1>2, <1>5, <2>2, <2>3, <2>4, SettledKeepsBalance
<1>6. CASE e.kind = "DoSendMessage"
  <2>1. DoSendMessage(e)
    BY <1>1, <1>6 DEF Handled
  <2> QED
    BY <1>3, <1>4, <1>6, <2>1 DEF DoSendMessage, EntryGone
<1>7. CASE e.kind = "DeliverMessage"
  <2>1. DeliverMessage(e)
    BY <1>1, <1>7 DEF Handled
  <2> QED
    BY <1>3, <1>5, <2>1 DEF DeliverMessage, EntryGone
<1>8. CASE e.kind = "HandleTimeout"
  <2>1. HandleTimeout(e) /\ messages[e.id].state # "PENDING"
    BY <1>1, <1>8, RunningEvent DEF Handled
  <2> QED
    BY <1>3, <2>1 DEF HandleTimeout, EntryGone
<1> QED
  BY <1>1, <1>6, <1>7, <1>8 DEF Handled

\* Every step keeps the balance.
LEMMA NextKeepsBalance ==
  ASSUME IInv, IInv', StatsBalance, [Next]_vars
  PROVE  StatsBalance'
<1>0. TypeOK /\ TypeOK'
  BY DEF IInv
<1>1. CASE RunEvent
  BY <1>0, <1>1, RunEventKeepsBalance
<1>2. ASSUME NEW l \in Links, NEW requiresAck \in BOOLEAN, SendMessage(l, requiresAck)
      PROVE  StatsBalance'
  <2>1. PICK id \in MessageIds : id = nextMessageId
    BY <1>2 DEF SendMessage
  <2>2. /\ \A i \in MessageIds \ {id} : messages'[i] = messages[i]
        /\ messages'[id].state = "PENDING"
        /\ UNCHANGED <<forgotten, statsAtStart>>
    BY <1>0, <1>2, <2>1 DEF SendMessage, TypeOK
  <2>3. messages[id].state # "PENDING"
    <3>1. ~Issued(id)
      BY <2>1 DEF Issued, MessageIds
    <3> QED
      BY <3>1 DEF IInv, UnsentUntouched, NoMessage
  <2>4. Cardinality(Pending) \in Nat /\ Cardinality(Pending') = Cardinality(Pending) + 1
    BY <2>2, <2>3, PendingGrows, PendingFinite DEF Pending
  <2>5. /\ stats.sent \in Nat /\ statsAtStart.sent \in Nat /\ forgotten \in Nat
        /\ Settlements(stats) \in Nat /\ Settlements(statsAtStart) \in Nat
    BY <1>0, CountersAreNumbers
  <2>6. stats'.sent = stats.sent + 1 /\ Settlements(stats') = Settlements(stats)
    BY <1>0, <1>2 DEF SendMessage, TypeOK, Statistics, Settlements
  <2> QED
    BY <2>2, <2>4, <2>5, <2>6 DEF StatsBalance, Settlements, Pending
<1>3. CASE ClearHistory
  BY <1>0, <1>3, EraseKeepsBalance DEF ClearHistory
<1>4. CASE DoDispose
  BY <1>0, <1>4, EraseKeepsBalance DEF DoDispose
<1>5. CASE UNCHANGED <<messages, stats, forgotten, statsAtStart>>
  BY <1>5, UntouchedKeepsBalance
<1> QED
  BY <1>1, <1>2, <1>3, <1>4, <1>5
     DEF Next, vars, RegisterCallback, SetPacketLossProbability, SetTimeoutDuration,
         SetDelayModel, SetLinkDelayModel, OtherEvent

\* The counters of m_stats account for every message sent: it was delivered, lost,
\* is on its way, or was erased on its way (SendMessage, DropMessage,
\* DeliverMessage, HandleTimeout, ClearHistory, DoDispose).
THEOREM StatsAlwaysBalance == Spec => []StatsBalance
<1>1. Init => StatsBalance
  <2> SUFFICES ASSUME Init PROVE StatsBalance
    OBVIOUS
  <2>1. Pending = {}
    BY DEF Init, Pending, InState, NoMessage
  <2>2. Cardinality(Pending) = 0
    BY <2>1, FS_EmptySet
  <2>3. stats \in Statistics /\ statsAtStart = stats /\ forgotten = 0
    BY InitIInv DEF Init, IInv, TypeOK
  <2> QED
    BY <2>2, <2>3 DEF StatsBalance, Pending, Statistics
<1>2. IInv /\ IInv' /\ StatsBalance /\ [Next]_vars => StatsBalance'
  BY NextKeepsBalance
<1> QED
  BY <1>1, <1>2, Invariance, PTL DEF Spec

(***************************************************************************)
(* Refinement of SignalingService                                          *)
(***************************************************************************)
\* The fate of a message that was sent is FORGOTTEN or its state.
LEMMA StatusFacts ==
  ASSUME TypeOK, NEW id \in MessageIds
  PROVE  /\ Status[id] = "UNSENT" <=> ~Issued(id)
         /\ Issued(id) /\ messages[id] = NoMessage => Status[id] = "FORGOTTEN"
         /\ Issued(id) /\ messages[id] # NoMessage =>
              Status[id] = messages[id].state /\ messages[id] \in Messages
<1>1. messages[id] = NoMessage \/ messages[id] \in Messages
  BY DEF TypeOK
<1>2. \A m \in Messages : m.state # "UNSENT"
  BY DEF Messages, Settled
<1> QED
  BY <1>1, <1>2 DEF Status

\* A step that changes neither a message nor the issued ids leaves every fate.
LEMMA StatusKept ==
  ASSUME messages' = messages, nextMessageId' = nextMessageId
  PROVE  Status' = Status
BY DEF Status, Issued

\* Settling a pending message is Settle of the service, whatever the callback.
LEMMA SettleRefines ==
  ASSUME TypeOK, TypeOK', NEW id \in MessageIds, NEW fate \in {"DELIVERED", "LOST"},
         Issued(id), messages[id].state = "PENDING",
         messages'[id] # NoMessage, messages'[id].state = fate,
         \A i \in MessageIds \ {id} : messages'[i] = messages[i],
         Report(id, fate), UNCHANGED <<nextMessageId, callbacks>>
  PROVE  Service!Settle(id)
<1>1. messages[id] # NoMessage
  BY DEF NoMessage
<1>2. Status[id] = "PENDING"
  BY <1>1, StatusFacts
<1>3. Status' = [Status EXCEPT ![id] = fate]
  <2>1. \A i \in MessageIds \ {id} : Status'[i] = Status[i]
    BY DEF Status, Issued
  <2>2. Status'[id] = fate
    BY DEF Status, Issued
  <2> QED
    BY <2>1, <2>2 DEF Status
<1> QED
  BY <1>2, <1>3 DEF Service!Settle, Report

\* An event that runs settles a message or changes no fate.
LEMMA RunEventRefines ==
  ASSUME IInv, IInv', RunEvent
  PROVE  Service!Next \/ UNCHANGED Service!vars
<1>1. PICK e \in agenda : IsNext(e, agenda) /\ now' = e.at /\ Handled(e) /\ Untouched
  BY DEF RunEvent, Handled, Untouched
<1>2. /\ TypeOK /\ TypeOK' /\ e.id \in MessageIds /\ Issued(e.id)
      /\ UNCHANGED <<nextMessageId, callbacks>>
  BY <1>1, RunningEvent DEF IInv, OnlyIssuedScheduled, Untouched
<1>3. CASE UNCHANGED <<messages, heard>>
  BY <1>2, <1>3, StatusKept DEF Service!vars
<1>4. CASE e.kind = "DoSendMessage" /\ messages[e.id] # NoMessage /\ DropMessage(e, "LOST")
  <2>1. messages[e.id].state = "PENDING"
    <3>1. messages[e.id] \in Messages
      BY <1>1, <1>4, RunningEvent
    <3>2. messages[e.id].state # "NONE"
      BY <3>1 DEF Messages, Settled
    <3> QED
      BY <1>1, <1>4, <3>2, RunningEvent
  <2>2. /\ messages'[e.id] # NoMessage /\ messages'[e.id].state = "LOST"
        /\ \A i \in MessageIds \ {e.id} : messages'[i] = messages[i]
    BY <1>2, <1>4, MessageUpdate, 0 \in Nat DEF DropMessage, Settled
  <2>3. Service!Settle(e.id)
    BY <1>2, <1>4, <2>1, <2>2, SettleRefines DEF DropMessage
  <2> QED
    BY <1>2, <2>3 DEF Service!Next
<1>5. CASE /\ messages[e.id].state = "PENDING" /\ Report(e.id, "DELIVERED")
           /\ messages' = [messages EXCEPT ![e.id].state = "DELIVERED",
                                           ![e.id].deliveryTime = e.at]
  <2>1. messages[e.id] # NoMessage /\ e.at \in Nat
    <3>1. messages[e.id] # NoMessage
      BY <1>5 DEF NoMessage
    <3>2. e.at \in Nat
      BY <1>2 DEF TypeOK, Events
    <3> QED
      BY <3>1, <3>2
  <2>2. /\ messages'[e.id] # NoMessage /\ messages'[e.id].state = "DELIVERED"
        /\ \A i \in MessageIds \ {e.id} : messages'[i] = messages[i]
    BY <1>2, <1>5, <2>1, MessageUpdate DEF Settled
  <2>3. Service!Settle(e.id)
    BY <1>2, <1>5, <2>2, SettleRefines
  <2> QED
    BY <1>2, <2>3 DEF Service!Next
<1>6. CASE e.kind = "DoSendMessage"
  <2>1. DoSendMessage(e)
    BY <1>1, <1>6 DEF Handled
  <2> QED
    BY <1>3, <1>4, <1>6, <2>1 DEF DoSendMessage, EntryGone
<1>7. CASE e.kind = "DeliverMessage"
  <2>1. DeliverMessage(e)
    BY <1>1, <1>7 DEF Handled
  <2> QED
    BY <1>3, <1>5, <2>1 DEF DeliverMessage, EntryGone
<1>8. CASE e.kind = "HandleTimeout"
  <2>1. HandleTimeout(e) /\ messages[e.id].state # "PENDING"
    BY <1>1, <1>8, RunningEvent DEF Handled
  <2> QED
    BY <1>3, <2>1 DEF HandleTimeout, EntryGone
<1> QED
  BY <1>1, <1>6, <1>7, <1>8 DEF Handled

\* Erasing the history is Forget.
LEMMA EraseRefines ==
  ASSUME TypeOK, EraseHistory, UNCHANGED <<nextMessageId, heard>>
  PROVE  Service!Next
<1>1. Status' = [id \in MessageIds |->
                   IF Status[id] = "UNSENT" THEN "UNSENT" ELSE "FORGOTTEN"]
  BY StatusFacts DEF Status, EraseHistory, Issued
<1>2. Service!Forget
  BY <1>1 DEF Service!Forget, EraseHistory
<1> QED
  BY <1>2 DEF Service!Next

\* Every step of the channel is a step of the service or changes nothing of it.
LEMMA NextRefines ==
  ASSUME IInv, IInv', [Next]_vars
  PROVE  Service!Next \/ UNCHANGED Service!vars
<1>0. TypeOK /\ TypeOK'
  BY DEF IInv
<1>1. CASE RunEvent
  BY <1>1, RunEventRefines
<1>2. ASSUME NEW l \in Links, NEW requiresAck \in BOOLEAN, SendMessage(l, requiresAck)
      PROVE  Service!Next
  <2>1. PICK id \in MessageIds : id = nextMessageId
    BY <1>2 DEF SendMessage
  <2>2. /\ nextMessageId' = id + 1 /\ UNCHANGED <<callbacks, heard>>
        /\ \A i \in MessageIds \ {id} : messages'[i] = messages[i]
        /\ messages'[id].state = "PENDING"
    BY <1>0, <1>2, <2>1 DEF SendMessage, TypeOK
  <2>3. messages'[id] # NoMessage
    BY <2>2 DEF NoMessage
  <2>4. /\ ~Issued(id) /\ Issued(id)'
        /\ \A i \in MessageIds \ {id} : Issued(i)' <=> Issued(i)
    <3>1. id \in Nat /\ \A i \in MessageIds : i \in Nat
      BY DEF MessageIds
    <3> QED
      BY <2>1, <2>2, <3>1 DEF Issued
  <2>5. Status' = [Status EXCEPT ![id] = "PENDING"]
    <3>1. \A i \in MessageIds \ {id} : Status'[i] = Status[i]
      BY <2>2, <2>4 DEF Status
    <3>2. Status'[id] = "PENDING"
      BY <2>2, <2>3, <2>4 DEF Status
    <3> QED
      BY <3>1, <3>2 DEF Status
  <2>6. Service!Send(id)
    BY <1>0, <2>2, <2>4, <2>5, StatusFacts DEF Service!Send
  <2> QED
    BY <2>6 DEF Service!Next
<1>3. ASSUME NEW id \in MessageIds, RegisterCallback(id)
      PROVE  Service!Next
  <2>1. Status' = Status
    BY <1>3, StatusKept DEF RegisterCallback
  <2>2. Service!Register(id)
    BY <1>0, <1>3, <2>1, StatusFacts DEF RegisterCallback, Service!Register
  <2> QED
    BY <2>2 DEF Service!Next
<1>4. CASE ClearHistory
  BY <1>0, <1>4, EraseRefines DEF ClearHistory
<1>5. CASE DoDispose
  BY <1>0, <1>5, EraseRefines DEF DoDispose
<1>6. CASE UNCHANGED <<messages, nextMessageId, callbacks, heard>>
  BY <1>6, StatusKept DEF Service!vars
<1> QED
  BY <1>1, <1>2, <1>3, <1>4, <1>5, <1>6
     DEF Next, vars, SetPacketLossProbability, SetTimeoutDuration, SetDelayModel,
         SetLinkDelayModel, OtherEvent

\* The channel implements SignalingService: a message is settled once, as
\* delivered or lost, and its callback told once, on every schedule of events.
THEOREM Refinement == Spec => ImplementsSignalingService
<1>1. Init => Service!Init
  BY DEF Init, Service!Init, Status, Issued, MessageIds
<1>2. IInv /\ IInv' /\ [Next]_vars => [Service!Next]_Service!vars
  BY NextRefines
<1> QED
  BY <1>1, <1>2, Invariance, PTL DEF Spec, Service!Spec, ImplementsSignalingService
=============================================================================
