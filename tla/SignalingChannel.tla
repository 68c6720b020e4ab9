--------------------------- MODULE SignalingChannel ---------------------------
(***************************************************************************)
(* QuantumSignalingChannel: messages with a delay, losses, timeouts for    *)
(* messages that ask for an acknowledgement, callbacks, statistics, and    *)
(* the history that can be cleared while messages are on their way.        *)
(*                                                                         *)
(* Unlike NetworkLayer this module keeps the clock: whether a timeout can  *)
(* beat a delivery is a matter of times and of the order of events at one  *)
(* instant. The payload of a message plays no role in the channel; its     *)
(* source and destination are the link it travels on.                      *)
(***************************************************************************)
EXTENDS Naturals, Sequences, FiniteSets, EventAgenda

CONSTANTS
  MaxMessages,   \* bound on the number of SendMessage calls
  MaxTime,       \* bound on the time at which others' events run
  Links,         \* (srcNode, dstNode) pairs
  Delays,        \* values a delay model returns
  DefaultDelay,  \* MilliSeconds (10) in GetLinkDelay
  Timeouts,      \* values of the attribute TimeoutDuration
  Leftovers,     \* values the counters of m_stats can hold before first use
  NoModel        \* nullptr for a delay model

ASSUME ChannelAssumption ==
  /\ MaxMessages \in Nat /\ MaxTime \in Nat
  /\ Delays \subseteq Nat
  /\ DefaultDelay \in Nat
  /\ Timeouts \subseteq Nat
  /\ Leftovers \subseteq Nat
  /\ NoModel \notin Nat

MessageIds == 1..MaxMessages

\* Outcomes of SetPacketLossProbability: 0, strictly between 0 and 1, 1.
Losses == {"never", "sometimes", "always"}

VARIABLES
  now,              \* Simulator::Now ()
  agenda,           \* events scheduled by the channel
  uid,              \* of the next event
  messages,         \* m_messages; NoMessage where the map has no entry
  callbacks,        \* domain of m_callbacks
  timeoutEvents,    \* domain of m_timeoutEvents
  nextMessageId,    \* m_nextMessageId
  stats,            \* m_stats
  loss,             \* m_packetLossProbability
  timeoutDuration,  \* m_timeoutDuration
  delayModel,       \* what m_delayModel returns at present, or NoModel
  linkDelayModels,  \* the same for m_linkDelayModels
  disposed,         \* DoDispose was called
  \* history
  heard,            \* states each message's callback was given
  forgotten,        \* number of messages erased while PENDING
  statsAtStart      \* m_stats as the constructor left it

eventVars == <<now, agenda, uid>>
settingVars == <<loss, timeoutDuration, delayModel, linkDelayModels>>
vars == <<eventVars, messages, callbacks, timeoutEvents, nextMessageId, stats,
          settingVars, disposed, heard, forgotten, statsAtStart>>

NoMessage == [state |-> "NONE"]

Settled == {"DELIVERED", "LOST", "TIMEOUT"}

Messages == [state : {"PENDING"} \cup Settled, requiresAck : BOOLEAN, link : Links,
             sendTime : Nat, deliveryTime : Nat]

Kinds == {"DoSendMessage", "DeliverMessage", "HandleTimeout"}

Events == [at : Nat, uid : Nat, kind : Kinds, id : MessageIds]

Statistics == [sent : Nat, delivered : Nat, lost : Nat, timedOut : Nat,
               totalDelay : Nat, maxDelay : Nat, minDelay : Nat]

\* SendMessage handed out id.
Issued(id) == id < nextMessageId

InState(s) == {id \in MessageIds : messages[id].state = s}

(***************************************************************************)
(* The constructor initialises no member of m_stats: its Times are zero by *)
(* their own constructors, its four counters keep what the memory holds.   *)
(***************************************************************************)
Init ==
  /\ now = 0 /\ agenda = {} /\ uid = 0
  /\ messages = [id \in MessageIds |-> NoMessage]
  /\ callbacks = {}
  /\ timeoutEvents = {}
  /\ nextMessageId = 1
  /\ \E s, d, l, t \in Leftovers :
       stats = [sent |-> s, delivered |-> d, lost |-> l, timedOut |-> t,
                totalDelay |-> 0, maxDelay |-> 0, minDelay |-> 0]
  /\ loss \in Losses
  /\ timeoutDuration \in Timeouts
  /\ delayModel = NoModel
  /\ linkDelayModels = [l \in Links |-> NoModel]
  /\ disposed = FALSE
  /\ heard = [id \in MessageIds |-> <<>>]
  /\ forgotten = 0
  /\ statsAtStart = stats

(***************************************************************************)
(* Parts of the handlers                                                   *)
(***************************************************************************)
GetLinkDelay(l) ==
  IF linkDelayModels[l] # NoModel THEN linkDelayModels[l]
  ELSE IF delayModel # NoModel THEN delayModel
  ELSE DefaultDelay

\* The callback of id, if one is registered, is given state s.
Report(id, s) ==
  heard' = IF id \in callbacks THEN [heard EXCEPT ![id] = Append(@, s)] ELSE heard

\* What an agenda keeps when the timer of id is cancelled: the map knows the
\* timer only while it has an entry for id.
WithoutTimer(events, id) ==
  IF id \in timeoutEvents
  THEN {e \in events : ~(e.kind = "HandleTimeout" /\ e.id = id)}
  ELSE events

\* Mutant: the statistics forget the loss.
DropMessageUncounted(e, reason) ==
  /\ messages' = [messages EXCEPT ![e.id].state = reason]
  /\ Report(e.id, reason)
  /\ agenda' = WithoutTimer(agenda \ {e}, e.id)
  /\ timeoutEvents' = timeoutEvents \ {e.id}
  /\ UNCHANGED stats

\* DropMessage (id, reason), called while event e runs. HandleTimeout counts
\* the timeouts itself; it is the only caller with that reason.
DropMessage(e, reason) ==
  /\ messages' = [messages EXCEPT ![e.id].state = reason]
  /\ stats' = IF reason = "LOST" THEN [stats EXCEPT !.lost = @ + 1]
                                 ELSE [stats EXCEPT !.timedOut = @ + 1]
  /\ Report(e.id, reason)
  /\ agenda' = WithoutTimer(agenda \ {e}, e.id)
  /\ timeoutEvents' = timeoutEvents \ {e.id}

\* The statistics after a delivery that took d.
CountDelivery(d) ==
  [stats EXCEPT !.delivered = @ + 1,
                !.totalDelay = @ + d,
                !.maxDelay = IF d > @ THEN d ELSE @,
                !.minDelay = IF @ = 0 \/ d < @ THEN d ELSE @]

\* Mutant: the timeout counts from the send.
TimeoutFromSend(d) == timeoutDuration

\* How long after the send the timeout of a message with delay d is due.
TimeoutAfter(d) == d + timeoutDuration

DeliveryOf(e, d) ==
  [at |-> e.at + d, uid |-> uid, kind |-> "DeliverMessage", id |-> e.id]

TimeoutOf(e, d) ==
  [at |-> e.at + TimeoutAfter(d), uid |-> uid + 1, kind |-> "HandleTimeout", id |-> e.id]

\* Mutant: only messages that ask for an acknowledgement are delivered.
OnlyAcknowledged(e, d) ==
  IF messages[e.id].requiresAck THEN {DeliveryOf(e, d), TimeoutOf(e, d)} ELSE {}

\* The events that sending the message of e with delay d schedules, in the
\* order of their uids.
Scheduled(e, d) ==
  IF messages[e.id].requiresAck THEN {DeliveryOf(e, d), TimeoutOf(e, d)}
  ELSE {DeliveryOf(e, d)}

\* e runs and finds no entry for its message.
EntryGone(e) ==
  /\ messages[e.id] = NoMessage
  /\ agenda' = agenda \ {e}
  /\ UNCHANGED <<uid, messages, stats, heard, timeoutEvents>>

(***************************************************************************)
(* Calls by the channel's users                                            *)
(***************************************************************************)
SendMessage(l, requiresAck) ==
  /\ ~disposed
  /\ nextMessageId \in MessageIds
  /\ messages' = [messages EXCEPT ![nextMessageId] =
                    [state |-> "PENDING", requiresAck |-> requiresAck, link |-> l,
                     sendTime |-> now, deliveryTime |-> 0]]
  /\ agenda' = agenda \cup {[at |-> now, uid |-> uid, kind |-> "DoSendMessage",
                             id |-> nextMessageId]}
  /\ uid' = uid + 1
  /\ nextMessageId' = nextMessageId + 1
  /\ stats' = [stats EXCEPT !.sent = @ + 1]
  /\ UNCHANGED <<now, callbacks, timeoutEvents, settingVars, disposed, heard,
                 forgotten, statsAtStart>>

RegisterCallback(id) ==
  /\ Issued(id)
  /\ callbacks' = callbacks \cup {id}
  /\ UNCHANGED <<eventVars, messages, timeoutEvents, nextMessageId, stats,
                 settingVars, disposed, heard, forgotten, statsAtStart>>

\* What ClearHistory and DoDispose erase.
EraseHistory ==
  /\ messages' = [id \in MessageIds |-> NoMessage]
  /\ callbacks' = {}
  /\ forgotten' = forgotten + Cardinality(InState("PENDING"))

\* The events of the messages stay on the agenda.
ClearHistory ==
  /\ EraseHistory
  /\ UNCHANGED <<eventVars, timeoutEvents, nextMessageId, stats, settingVars,
                 disposed, heard, statsAtStart>>

DoDispose ==
  /\ ~disposed
  /\ disposed' = TRUE
  /\ EraseHistory
  /\ agenda' = {e \in agenda : ~(e.kind = "HandleTimeout" /\ e.id \in timeoutEvents)}
  /\ timeoutEvents' = {}
  /\ UNCHANGED <<now, uid, nextMessageId, stats, settingVars, heard, statsAtStart>>

SetPacketLossProbability ==
  /\ loss' \in Losses
  /\ UNCHANGED <<eventVars, messages, callbacks, timeoutEvents, nextMessageId, stats,
                 timeoutDuration, delayModel, linkDelayModels, disposed, heard,
                 forgotten, statsAtStart>>

SetTimeoutDuration ==
  /\ timeoutDuration' \in Timeouts
  /\ UNCHANGED <<eventVars, messages, callbacks, timeoutEvents, nextMessageId, stats,
                 loss, delayModel, linkDelayModels, disposed, heard, forgotten,
                 statsAtStart>>

\* A model is set, or the one that is set moves on to another delay.
SetDelayModel ==
  /\ delayModel' \in Delays \cup {NoModel}
  /\ UNCHANGED <<eventVars, messages, callbacks, timeoutEvents, nextMessageId, stats,
                 loss, timeoutDuration, linkDelayModels, disposed, heard, forgotten,
                 statsAtStart>>

SetLinkDelayModel(l) ==
  /\ \E d \in Delays \cup {NoModel} :
       linkDelayModels' = [linkDelayModels EXCEPT ![l] = d]
  /\ UNCHANGED <<eventVars, messages, callbacks, timeoutEvents, nextMessageId, stats,
                 loss, timeoutDuration, delayModel, disposed, heard, forgotten,
                 statsAtStart>>

(***************************************************************************)
(* Events                                                                  *)
(***************************************************************************)
\* The message is lost on the spot, or its delivery is scheduled and, if it
\* asks for an acknowledgement, its timeout after that.
DoSendMessage(e) ==
  \/ EntryGone(e)
  \/ /\ messages[e.id] # NoMessage
     /\ loss # "never"
     /\ DropMessage(e, "LOST")
     /\ UNCHANGED uid
  \/ /\ messages[e.id] # NoMessage
     /\ loss # "always"
     /\ agenda' = (agenda \ {e}) \cup
                  Scheduled(e, GetLinkDelay(messages[e.id].link))
     /\ uid' = uid + 2
     /\ timeoutEvents' = IF messages[e.id].requiresAck
                         THEN timeoutEvents \cup {e.id} ELSE timeoutEvents
     /\ UNCHANGED <<messages, stats, heard>>

DeliverMessage(e) ==
  \/ EntryGone(e)
  \/ /\ messages[e.id].state \in Settled
     /\ agenda' = agenda \ {e}
     /\ UNCHANGED <<uid, messages, stats, heard, timeoutEvents>>
  \/ /\ messages[e.id].state = "PENDING"
     /\ messages' = [messages EXCEPT ![e.id].state = "DELIVERED",
                                     ![e.id].deliveryTime = e.at]
     /\ stats' = CountDelivery(e.at - messages[e.id].sendTime)
     /\ Report(e.id, "DELIVERED")
     /\ agenda' = WithoutTimer(agenda \ {e}, e.id)
     /\ timeoutEvents' = timeoutEvents \ {e.id}
     /\ UNCHANGED uid

HandleTimeout(e) ==
  \/ EntryGone(e)
  \/ /\ messages[e.id].state = "PENDING"
     /\ DropMessage(e, "TIMEOUT")
     /\ UNCHANGED uid
  \/ /\ messages[e.id].state \in Settled
     /\ agenda' = agenda \ {e}
     /\ timeoutEvents' = timeoutEvents \ {e.id}
     /\ UNCHANGED <<uid, messages, stats, heard>>

\* The simulator runs the next event.
RunEvent ==
  \E e \in agenda :
    /\ IsNext(e, agenda)
    /\ now' = e.at
    /\ \/ e.kind = "DoSendMessage" /\ DoSendMessage(e)
       \/ e.kind = "DeliverMessage" /\ DeliverMessage(e)
       \/ e.kind = "HandleTimeout" /\ HandleTimeout(e)
    /\ UNCHANGED <<callbacks, nextMessageId, settingVars, disposed, forgotten,
                   statsAtStart>>

\* It runs an event of someone else, at a time when the channel has none.
OtherEvent ==
  /\ now < MaxTime
  /\ \A e \in agenda : now < e.at
  /\ now' = now + 1
  /\ UNCHANGED <<agenda, uid, messages, callbacks, timeoutEvents, nextMessageId, stats,
                 settingVars, disposed, heard, forgotten, statsAtStart>>

Next ==
  \/ RunEvent
  \/ OtherEvent
  \/ \E l \in Links, requiresAck \in BOOLEAN : SendMessage(l, requiresAck)
  \/ \E id \in MessageIds : RegisterCallback(id)
  \/ ClearHistory
  \/ DoDispose
  \/ SetPacketLossProbability
  \/ SetTimeoutDuration
  \/ SetDelayModel
  \/ \E l \in Links : SetLinkDelayModel(l)

Spec == Init /\ [][Next]_vars

\* The simulation is run: its next event is not put off for ever. Users call
\* the channel when they please.
FairSpec == Spec /\ WF_vars(RunEvent)

(***************************************************************************)
(* Properties                                                              *)
(***************************************************************************)
\* Every variable has values of its kind.
TypeOK ==
  /\ now \in Nat /\ uid \in Nat
  /\ agenda \subseteq Events
  /\ messages \in [MessageIds -> Messages \cup {NoMessage}]
  /\ callbacks \subseteq MessageIds
  /\ timeoutEvents \subseteq MessageIds
  /\ nextMessageId \in 1..(MaxMessages + 1)
  /\ stats \in Statistics
  /\ loss \in Losses
  /\ timeoutDuration \in Timeouts
  /\ delayModel \in Delays \cup {NoModel}
  /\ linkDelayModels \in [Links -> Delays \cup {NoModel}]
  /\ disposed \in BOOLEAN
  /\ heard \in [MessageIds -> Seq(Settled)]
  /\ forgotten \in Nat
  /\ statsAtStart \in Statistics

Transmissions == {e \in agenda : e.kind \in {"DoSendMessage", "DeliverMessage"}}

\* Nothing is scheduled for a message that was not sent.
OnlyIssuedScheduled == \A e \in agenda : Issued(e.id)

\* A message that was not sent left no trace.
UnsentUntouched ==
  \A id \in MessageIds :
    ~Issued(id) => messages[id] = NoMessage /\ heard[id] = <<>> /\ id \notin callbacks

\* A message is carried by one event at a time, and a message that waits to be
\* sent has no fate yet.
OneTransmission ==
  /\ \A e, f \in Transmissions : e.id = f.id => e = f
  /\ \A e \in agenda :
       e.kind = "DoSendMessage" => messages[e.id].state \in {"PENDING", "NONE"}

\* The timer of a pending message runs after its delivery, also when both
\* fall on one instant (DoSendMessage schedules the timer last).
TimerAfterDelivery ==
  \A t \in agenda :
    t.kind = "HandleTimeout" /\ messages[t.id].state = "PENDING" =>
      \E d \in agenda : d.kind = "DeliverMessage" /\ d.id = t.id /\ Precedes(d, t)

\* No message ends as TIMEOUT and no callback hears of one: with the timer
\* armed at the delay plus TimeoutDuration a delivery always comes first, and a
\* lost message has no timer.
TimeoutNeverWins ==
  /\ InState("TIMEOUT") = {}
  /\ \A id \in MessageIds : heard[id] # <<"TIMEOUT">>
  /\ stats.timedOut = statsAtStart.timedOut

\* A callback is called at most once, with the state its message then has for
\* as long as the history is kept (DeliverMessage, DropMessage).
ReportedOnce ==
  \A id \in MessageIds :
    \/ heard[id] = <<>>
    \/ /\ heard[id] \in {<<"DELIVERED">>, <<"LOST">>, <<"TIMEOUT">>}
       /\ messages[id] # NoMessage => heard[id] = <<messages[id].state>>

\* No event is overdue and no pending message comes from the future.
TimeMovesForward ==
  /\ \A e \in agenda : now <= e.at
  /\ \A id \in InState("PENDING") : messages[id].sendTime <= now

\* The strengthening that makes TimeoutNeverWins and ReportedOnce inductive.
IInv ==
  /\ TypeOK
  /\ TimeMovesForward
  /\ OnlyIssuedScheduled
  /\ UnsentUntouched
  /\ OneTransmission
  /\ TimerAfterDelivery
  /\ TimeoutNeverWins
  /\ ReportedOnce

\* Every message sent is accounted for: delivered, lost, timed out, on its way,
\* or erased on its way by ClearHistory or DoDispose.
StatsBalance ==
  LET Settlements(s) == s.delivered + s.lost + s.timedOut
  IN stats.sent + Settlements(statsAtStart) =
       statsAtStart.sent + Settlements(stats)
         + Cardinality(InState("PENDING")) + forgotten

(***************************************************************************)
(* The channel implements SignalingService                                 *)
(***************************************************************************)
Status ==
  [id \in MessageIds |->
     IF ~Issued(id) THEN "UNSENT"
     ELSE IF messages[id] = NoMessage THEN "FORGOTTEN"
     ELSE messages[id].state]

Service == INSTANCE SignalingService WITH status <- Status, registered <- callbacks

\* Each message is settled once and reported once, never as TIMEOUT, whatever
\* the clock and the timers do.
ImplementsSignalingService == Service!Spec

\* Each message is settled in the end, unless the history is cleared.
ImplementsSignalingServiceLive == Service!FairSpec
=============================================================================
