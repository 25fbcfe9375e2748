-------------------------- MODULE Signaling_proofs --------------------------
(***************************************************************************)
(* Proofs about Signaling, for both kinds of instances and for any number  *)
(* of channels, offers, pings and candidates.                              *)
(***************************************************************************)
EXTENDS Signaling, QueueFacts

----------------------------------------------------------------------------
(* Types.                                                                   *)

\* What push_event makes of the queue and of the counter.
LEMMA PushedIsOutgoing ==
    ASSUME TypeOK, NEW type \in {"connect", "pong", "answer", "candidate"},
           push_event(type)
    PROVE  /\ Message(type, pushed + 1) \in Outgoing
           /\ toWebsockets' \in Seq(Outgoing) /\ pushed' \in Nat
<1>1. Message(type, pushed + 1) \in Outgoing
  BY DEF TypeOK, Message, Outgoing
<1> QED
  BY <1>1, PushFacts DEF TypeOK, push_event

\* The first element of a queue and the others are of its type.
LEMMA PoppedIsTyped ==
    ASSUME NEW S, NEW q \in Seq(S), q # <<>>
    PROVE  Head(q) \in S /\ Tail(q) \in Seq(S)
  BY PopFacts

\* A queue of the instance is well typed after what the observers ask for.
LEMMA TasksTyped ==
    ASSUME TypeOK, tasks # <<>>
    PROVE  LET Task == {"remote_set", "answer_created", "local_set"}
           IN  /\ Tail(tasks) \in Seq(Task)
               /\ \A t \in Task : Append(Tail(tasks), t) \in Seq(Task)
  BY PoppedIsTyped, PushFacts DEF TypeOK

\* One answer more, for whatever offer.
LEMMA AnswersTyped ==
    ASSUME NEW f \in [1..MaxOffers -> Nat], NEW o
    PROVE  [f EXCEPT ![o] = @ + 1] \in [1..MaxOffers -> Nat]
<1> DEFINE g == [f EXCEPT ![o] = @ + 1]
<1>1. g = [x \in 1..MaxOffers |-> IF x = o THEN f[o] + 1 ELSE f[x]]
  OBVIOUS
<1>2. \A x \in 1..MaxOffers : (IF x = o THEN f[o] + 1 ELSE f[x]) \in Nat
  OBVIOUS
<1> QED
  BY <1>1, <1>2

LEMMA TypedInit == Init => TypeOK
<1> SUFFICES ASSUME Init PROVE TypeOK
  OBVIOUS
<1>1. Empty \in Outgoing
  BY BoundAssumption DEF Empty, Outgoing
<1>2. answers \in [1..MaxOffers -> Nat]
  BY DEF Init
<1>3. /\ toWebrtc \in Seq(1..MaxOffers) /\ toWebsockets \in Seq(Outgoing)
      /\ tasks \in Seq({"remote_set", "answer_created", "local_set"})
      /\ sent \in Seq(Outgoing)
  BY EmptySeq DEF Init
<1>4. /\ order_ \in Orders /\ session \in 0..MaxSessions /\ peer \in 0..MaxOffers
      /\ pushed \in Nat /\ offers \in 0..MaxOffers /\ pings \in 0..MaxPings
      /\ candidates \in 0..MaxCandidates
  BY BoundAssumption DEF Init
<1>5. sending \in Outgoing /\ sendTarget \in Outgoing
  BY <1>1 DEF Init
<1>6. /\ quit \in BOOLEAN /\ writable \in BOOLEAN /\ websocket \in BOOLEAN
      /\ tracks \in BOOLEAN /\ gathering \in BOOLEAN /\ alive \in BOOLEAN
  BY DEF Init
<1>7. /\ dispatch = "none" /\ service = "none" /\ wire = "down"
      /\ signaling_state = "stable"
  BY DEF Init
<1> QED
  BY <1>2, <1>3, <1>4, <1>5, <1>6, <1>7 DEF TypeOK

\* No step of main(), of a thread of the instance or of libwebrtc breaks the types.
LEMMA TypedStep == TypeOK /\ [Next]_vars => TypeOK'
<1> SUFFICES ASSUME TypeOK, [Next]_vars PROVE TypeOK'
  OBVIOUS
<1> USE BoundAssumption
        DEF TypeOK, channel, threads, queues, outgoing, socket, webrtc, counters, external
<1>1. CASE Main
  <2>1. CASE AddChannel
    <3>1. sent' \in Seq(Outgoing)
      BY <2>1, EmptySeq DEF AddChannel
    <3>2. session' \in 0..MaxSessions
      BY <2>1 DEF AddChannel
    <3>3. /\ dispatch' = "top" /\ service' = "running" /\ quit' = FALSE
          /\ writable' = FALSE /\ websocket' \in BOOLEAN
          /\ wire' \in {"down", "connecting", "up"}
      BY <2>1 DEF AddChannel
    <3> QED
      BY <2>1, <3>1, <3>2, <3>3 DEF AddChannel
  <2>2. CASE DeleteChannelBegin
    BY <2>2 DEF DeleteChannelBegin
  <2>3. CASE DeleteChannelEnd
    <3>1. tasks' \in Seq({"remote_set", "answer_created", "local_set"})
      BY <2>3, EmptySeq DEF DeleteChannelEnd
    <3>2. peer' \in 0..MaxOffers
      BY <2>3 DEF DeleteChannelEnd
    <3>3. /\ dispatch' = "none" /\ service' = "none" /\ wire' = "down"
          /\ signaling_state' = "stable" /\ websocket' \in BOOLEAN
          /\ writable' \in BOOLEAN /\ tracks' \in BOOLEAN /\ gathering' \in BOOLEAN
      BY <2>3 DEF DeleteChannelEnd
    <3> QED
      BY <2>3, <3>1, <3>2, <3>3 DEF DeleteChannelEnd
  <2> QED
    BY <1>1, <2>1, <2>2, <2>3 DEF Main
<1>2. CASE websockets_thread
  <2>1. CASE Established
    <3>1. toWebsockets' \in Seq(Outgoing) /\ pushed' \in Nat
      BY <2>1, PushedIsOutgoing DEF Established
    <3> QED
      BY <2>1, <3>1 DEF Established
  <2>2. CASE ReceiveOffer
    <3>1. offers + 1 \in 1..MaxOffers
      BY <2>2 DEF ReceiveOffer
    <3>2. toWebrtc' \in Seq(1..MaxOffers)
      BY <2>2, <3>1, PushFacts DEF ReceiveOffer
    <3> QED
      BY <2>2, <3>1, <3>2 DEF ReceiveOffer
  <2>3. CASE ReceivePing
    <3>1. toWebsockets' \in Seq(Outgoing) /\ pushed' \in Nat
      BY <2>3, PushedIsOutgoing DEF ReceivePing
    <3> QED
      BY <2>3, <3>1 DEF ReceivePing
  <2>4. CASE Writeable
    <3>1. sent' \in Seq(Outgoing)
      <4>1. sent' = Append(sent, sendTarget)
        BY <2>4 DEF Writeable
      <4>2. sent \in Seq(Outgoing) /\ sendTarget \in Outgoing
        OBVIOUS
      <4> HIDE DEF TypeOK
      <4> QED
        BY <4>1, <4>2, PushFacts
    <3>2. /\ UNCHANGED <<order_, session, quit, dispatch, service, toWebrtc, toWebsockets>>
          /\ UNCHANGED <<sending, sendTarget, websocket, wire, peer, signaling_state>>
          /\ UNCHANGED <<tracks, gathering, tasks, alive, pushed, answers>>
          /\ UNCHANGED <<offers, pings, candidates>> /\ writable' = FALSE
      BY <2>4 DEF Writeable
    <3> QED
      BY <2>4, <3>1, <3>2 DEF Writeable
  <2>5. CASE Closed
    BY <2>5 DEF Closed
  <2>6. CASE ServiceExit
    BY <2>6 DEF ServiceExit
  <2> QED
    BY <1>2, <2>1, <2>2, <2>3, <2>4, <2>5, <2>6 DEF websockets_thread
<1>3. CASE event_dispatch_thread
  <2>1. CASE DispatchLoop
    BY <2>1 DEF DispatchLoop
  <2>2. CASE NoOffer
    BY <2>2 DEF NoOffer
  <2>3. CASE OfferBegin
    <3>1. peer' \in 1..MaxOffers /\ toWebrtc' \in Seq(1..MaxOffers)
      BY <2>3, PoppedIsTyped DEF OfferBegin
    <3>2. tasks' \in Seq({"remote_set", "answer_created", "local_set"})
      BY <2>3, EmptySeq DEF OfferBegin
    <3>3. signaling_state' \in {"stable", "have_remote_offer"} /\ dispatch' = "offer"
      BY <2>3 DEF OfferBegin
    <3>4. peer' \in 0..MaxOffers
      BY <3>1
    <3> HIDE DEF Outgoing
    <3> QED
      BY <2>3, <3>1, <3>2, <3>3, <3>4 DEF OfferBegin
  <2>4. CASE OfferEnd
    <3>1. tasks' \in Seq({"remote_set", "answer_created", "local_set"})
      <4>1. Append(tasks, "remote_set") \in Seq({"remote_set", "answer_created", "local_set"})
        BY PushFacts
      <4> QED
        BY <2>4, <4>1 DEF OfferEnd
    <3> QED
      BY <2>4, <3>1 DEF OfferEnd
  <2>5. CASE NoMessage
    BY <2>5 DEF NoMessage
  <2>6. CASE SendBegin
    <3>1. sending' \in Outgoing /\ toWebsockets' \in Seq(Outgoing)
      BY <2>6, PoppedIsTyped DEF SendBegin
    <3>2. Torn \in Outgoing
      BY DEF Torn, Outgoing
    <3> QED
      BY <2>6, <3>1, <3>2 DEF SendBegin
  <2>7. CASE SendAssigned
    BY <2>7 DEF SendAssigned
  <2>8. CASE SendEnd
    BY <2>8 DEF SendEnd
  <2> QED
    BY <1>3, <2>1, <2>2, <2>3, <2>4, <2>5, <2>6, <2>7, <2>8 DEF event_dispatch_thread
<1>4. CASE signaling_thread
  <2>1. CASE SetRemoteDescription_OnSuccess
    <3>1. tasks' \in Seq({"remote_set", "answer_created", "local_set"})
      BY <2>1, TasksTyped DEF SetRemoteDescription_OnSuccess, Report, CreateAnswer,
                              SetSessionDescriptionObserverImpl_OnSuccess
    <3>2. tracks' \in BOOLEAN /\ alive' \in BOOLEAN
      BY <2>1, Zenon DEF SetRemoteDescription_OnSuccess, AddTracks,
                         SetSessionDescriptionObserverImpl_OnSuccess
    <3> QED
      BY <2>1, <3>1, <3>2 DEF SetRemoteDescription_OnSuccess,
                              SetSessionDescriptionObserverImpl_OnSuccess
  <2>2. CASE SetLocalDescription_OnSuccess
    <3>1. tasks' \in Seq({"remote_set", "answer_created", "local_set"})
      BY <2>2, TasksTyped DEF SetLocalDescription_OnSuccess, Report, CreateAnswer,
                              SetSessionDescriptionObserverImpl_OnSuccess,
                              SetSessionDescriptionObserverLocalImpl_OnSuccess
    <3>2. tracks' \in BOOLEAN /\ alive' \in BOOLEAN
      BY <2>2, Zenon DEF SetLocalDescription_OnSuccess, AddTracks,
                         SetSessionDescriptionObserverImpl_OnSuccess,
                         SetSessionDescriptionObserverLocalImpl_OnSuccess
    <3>3. UNCHANGED <<channel, threads, queues, outgoing, socket, peer, signaling_state,
                      gathering, counters, sent, external>>
      BY <2>2 DEF SetLocalDescription_OnSuccess,
                  SetSessionDescriptionObserverImpl_OnSuccess,
                  SetSessionDescriptionObserverLocalImpl_OnSuccess
    <3> QED
      BY <3>1, <3>2, <3>3
  <2>3. CASE CreateSessionDescriptionObserverImpl_OnSuccess
    <3>1. tasks' \in Seq({"remote_set", "answer_created", "local_set"})
      BY <2>3, TasksTyped DEF CreateSessionDescriptionObserverImpl_OnSuccess, Report
    <3>2. toWebsockets' \in Seq(Outgoing) /\ pushed' \in Nat
      BY <2>3, PushedIsOutgoing DEF CreateSessionDescriptionObserverImpl_OnSuccess
    <3>3. answers' \in [1..MaxOffers -> Nat]
      BY <2>3, AnswersTyped DEF CreateSessionDescriptionObserverImpl_OnSuccess
    <3>4. /\ signaling_state' \in {"stable", "have_remote_offer"}
          /\ gathering' \in BOOLEAN
          /\ UNCHANGED <<channel, threads, toWebrtc, outgoing, socket, peer, tracks, alive,
                         sent, external>>
      BY <2>3 DEF CreateSessionDescriptionObserverImpl_OnSuccess
    <3> QED
      BY <3>1, <3>2, <3>3, <3>4
  <2>4. CASE OnIceCandidate
    <3>1. toWebsockets' \in Seq(Outgoing) /\ pushed' \in Nat
      BY <2>4, PushedIsOutgoing DEF OnIceCandidate
    <3> QED
      BY <2>4, <3>1 DEF OnIceCandidate
  <2> QED
    BY <1>4, <2>1, <2>2, <2>3, <2>4 DEF signaling_thread
<1>5. CASE UNCHANGED vars
  BY <1>5 DEF vars
<1> QED
  BY <1>1, <1>2, <1>3, <1>4, <1>5 DEF Next

\* Every variable of an instance keeps its type.
THEOREM TypeCorrect == Spec => []TypeOK
<1>1. Init => TypeOK
  BY TypedInit
<1>2. TypeOK /\ [Next]_vars => TypeOK'
  BY TypedStep
<1> QED
  BY <1>1, <1>2, PTL DEF Spec

----------------------------------------------------------------------------
(* The order of the messages.                                               *)

mailbox == <<session, toWebsockets, pushed, sending, sendTarget, sent>>

\* The queue is numbered upwards, from above the message in hand to pushed.
QueueNumbered ==
    /\ \A i \in DOMAIN toWebsockets : /\ sending.no < toWebsockets[i].no
                                      /\ toWebsockets[i].no <= pushed
                                      /\ toWebsockets[i].session <= session
    /\ \A i, j \in DOMAIN toWebsockets : i < j => toWebsockets[i].no < toWebsockets[j].no

\* sendTarget is the message in hand or being assigned, and nothing newer than it
\* was written.
HandNumbered ==
    /\ sending.no <= pushed /\ sending.session <= session
    /\ sendTarget \in {Torn, sending}
    /\ \A i \in DOMAIN sent : sent[i] = Torn \/ sent[i].no <= sending.no

Ordered == QueueNumbered /\ HandNumbered /\ WireInOrder

LEMMA OrderedInit == Init => Ordered
<1> SUFFICES ASSUME Init PROVE Ordered
  OBVIOUS
<1>1. DOMAIN toWebsockets = {} /\ DOMAIN sent = {}
  BY DEF Init
<1>2. sending = sendTarget /\ sending.no = 0 /\ sending.session = 0
  BY DEF Init, Empty
<1>3. session = 0 /\ pushed = 0
  BY DEF Init
<1> QED
  BY <1>1, <1>2, <1>3 DEF Ordered, QueueNumbered, HandNumbered, WireInOrder

\* What the steps are to the messages: one is queued, taken, handed over or written,
\* or the channel is a new one.
LEMMA MailboxSteps ==
    ASSUME [Next]_vars
    PROVE  \/ AddChannel
           \/ /\ \E type \in {"connect", "pong", "answer", "candidate"} : push_event(type)
              /\ UNCHANGED <<session, sending, sendTarget, sent>>
           \/ SendBegin
           \/ SendAssigned
           \/ Writeable
           \/ UNCHANGED mailbox
<1> USE DEF mailbox, channel, threads, queues, outgoing, socket, webrtc, counters, external
<1>1. CASE DeleteChannelBegin \/ DeleteChannelEnd \/ Closed \/ ServiceExit \/ ReceiveOffer
  BY <1>1 DEF DeleteChannelBegin, DeleteChannelEnd, Closed, ServiceExit, ReceiveOffer
<1>2. CASE DispatchLoop \/ NoOffer \/ OfferBegin \/ OfferEnd \/ NoMessage \/ SendEnd
  BY <1>2 DEF DispatchLoop, NoOffer, OfferBegin, OfferEnd, NoMessage, SendEnd
<1>3. CASE SetRemoteDescription_OnSuccess \/ SetLocalDescription_OnSuccess
  BY <1>3 DEF SetRemoteDescription_OnSuccess, SetLocalDescription_OnSuccess,
              SetSessionDescriptionObserverImpl_OnSuccess,
              SetSessionDescriptionObserverLocalImpl_OnSuccess
<1>4. CASE Established
  BY <1>4 DEF Established
<1>5. CASE ReceivePing
  BY <1>5 DEF ReceivePing
<1>6. CASE CreateSessionDescriptionObserverImpl_OnSuccess
  BY <1>6 DEF CreateSessionDescriptionObserverImpl_OnSuccess
<1>7. CASE OnIceCandidate
  BY <1>7 DEF OnIceCandidate
<1>8. CASE UNCHANGED vars
  BY <1>8 DEF vars
<1> QED
  BY <1>1, <1>2, <1>3, <1>4, <1>5, <1>6, <1>7, <1>8
     DEF Next, Main, websockets_thread, event_dispatch_thread, signaling_thread

\* No step brings messages out of order.
LEMMA OrderedStep == TypeOK /\ Ordered /\ [Next]_vars => Ordered'
<1> SUFFICES ASSUME TypeOK, Ordered, [Next]_vars PROVE Ordered'
  OBVIOUS
<1>0. /\ toWebsockets \in Seq(Outgoing) /\ sent \in Seq(Outgoing)
      /\ sending \in Outgoing /\ sendTarget \in Outgoing
      /\ session \in Nat /\ pushed \in Nat
      /\ sending.no \in Nat /\ sending.session \in Nat
  BY BoundAssumption DEF TypeOK, Outgoing
<1>a. /\ Len(toWebsockets) \in Nat /\ DOMAIN toWebsockets = 1..Len(toWebsockets)
      /\ Len(sent) \in Nat /\ DOMAIN sent = 1..Len(sent)
      /\ \A i \in DOMAIN toWebsockets : /\ toWebsockets[i].no \in Nat
                                        /\ toWebsockets[i].session \in Nat
      /\ \A i \in DOMAIN sent : sent[i].no \in Nat
  <2>1. \A m \in Outgoing : m.no \in Nat /\ m.session \in Nat
    BY BoundAssumption DEF Outgoing
  <2> QED
    BY <1>0, <2>1, RangeFacts
<1>1. CASE AddChannel
  <2>1. DOMAIN sent' = {} /\ session' = session + 1
        /\ UNCHANGED <<toWebsockets, pushed, sending, sendTarget>>
    BY <1>1 DEF AddChannel, queues, counters
  <2> QED
    BY <1>0, <1>a, <2>1 DEF Ordered, QueueNumbered, HandNumbered, WireInOrder
<1>2. ASSUME NEW type \in {"connect", "pong", "answer", "candidate"}, push_event(type),
             UNCHANGED <<session, sending, sendTarget, sent>>
      PROVE  Ordered'
  <2> DEFINE m == Message(type, pushed + 1)
  <2>1. m.no = pushed + 1 /\ m.session = session /\ m \in Outgoing
    BY PushedIsOutgoing, <1>2 DEF Message
  <2>2. /\ DOMAIN toWebsockets' = 1..(Len(toWebsockets) + 1)
        /\ \A i \in 1..Len(toWebsockets) : toWebsockets'[i] = toWebsockets[i]
        /\ toWebsockets'[Len(toWebsockets) + 1] = m
        /\ pushed' = pushed + 1
    BY <1>0, <1>2, <2>1, PushFacts DEF push_event
  <2> HIDE DEF m
  <2>3. QueueNumbered'
    <3>1. /\ sending'.no < m.no /\ m.no <= pushed' /\ m.session <= session'
          /\ \A i \in DOMAIN toWebsockets : toWebsockets[i].no < m.no
      BY <1>0, <1>2, <1>a, <2>1, <2>2 DEF Ordered, QueueNumbered, HandNumbered
    <3>2. ASSUME NEW i \in DOMAIN toWebsockets'
          PROVE  i \in DOMAIN toWebsockets \/ i = Len(toWebsockets) + 1
      BY <1>a, <2>2
    <3>3. ASSUME NEW i \in DOMAIN toWebsockets'
          PROVE  /\ sending'.no < toWebsockets'[i].no
                 /\ toWebsockets'[i].no <= pushed'
                 /\ toWebsockets'[i].session <= session'
      <4>1. CASE i \in DOMAIN toWebsockets
        BY <1>0, <1>2, <1>a, <2>2, <4>1 DEF Ordered, QueueNumbered
      <4>2. CASE i = Len(toWebsockets) + 1
        BY <2>2, <3>1, <4>2
      <4> QED
        BY <3>2, <4>1, <4>2
    <3>4. ASSUME NEW i \in DOMAIN toWebsockets', NEW j \in DOMAIN toWebsockets', i < j
          PROVE  toWebsockets'[i].no < toWebsockets'[j].no
      <4>1. i \in DOMAIN toWebsockets
        BY <1>a, <2>2, <3>2, <3>4
      <4>2. CASE j \in DOMAIN toWebsockets
        BY <1>a, <2>2, <3>4, <4>1, <4>2 DEF Ordered, QueueNumbered
      <4>3. CASE j = Len(toWebsockets) + 1
        BY <1>a, <2>2, <3>1, <4>1, <4>3
      <4> QED
        BY <3>2, <4>2, <4>3
    <3> QED
      BY <3>3, <3>4 DEF QueueNumbered
  <2>4. HandNumbered' /\ WireInOrder'
    BY <1>0, <1>2, <2>2 DEF Ordered, HandNumbered, WireInOrder
  <2> QED
    BY <2>3, <2>4 DEF Ordered
<1>3. CASE SendBegin
  <2>1. /\ toWebsockets # <<>> /\ sending' = Head(toWebsockets)
        /\ toWebsockets' = Tail(toWebsockets) /\ sendTarget' = Torn
        /\ UNCHANGED <<session, pushed, sent>>
    BY <1>3 DEF SendBegin, channel, counters
  <2>2. /\ Len(toWebsockets) \in Nat \ {0} /\ sending' = toWebsockets[1]
        /\ DOMAIN toWebsockets' = 1..(Len(toWebsockets) - 1)
        /\ \A i \in 1..(Len(toWebsockets) - 1) : toWebsockets'[i] = toWebsockets[i + 1]
    BY <1>0, <2>1, PopFacts, LenProperties
  <2>3. QueueNumbered'
    <3>1. ASSUME NEW i \in DOMAIN toWebsockets'
          PROVE  i + 1 \in DOMAIN toWebsockets /\ 1 \in DOMAIN toWebsockets /\ 1 < i + 1
      BY <1>a, <2>2
    <3>2. ASSUME NEW i \in DOMAIN toWebsockets'
          PROVE  /\ sending'.no < toWebsockets'[i].no
                 /\ toWebsockets'[i].no <= pushed'
                 /\ toWebsockets'[i].session <= session'
      BY <2>1, <2>2, <3>1 DEF Ordered, QueueNumbered
    <3>3. ASSUME NEW i \in DOMAIN toWebsockets', NEW j \in DOMAIN toWebsockets', i < j
          PROVE  toWebsockets'[i].no < toWebsockets'[j].no
      <4>1. i + 1 < j + 1
        BY <2>2, <3>3
      <4> QED
        BY <2>2, <3>1, <4>1 DEF Ordered, QueueNumbered
    <3> QED
      BY <3>2, <3>3 DEF QueueNumbered
  <2>4. sending.no < sending'.no /\ sending'.no <= pushed /\ sending'.session <= session
        /\ sending'.no \in Nat
    BY <1>a, <2>2 DEF Ordered, QueueNumbered
  <2>5. HandNumbered'
    <3>1. ASSUME NEW i \in DOMAIN sent PROVE sent[i] = Torn \/ sent[i].no <= sending'.no
      BY <1>0, <1>a, <2>4 DEF Ordered, HandNumbered
    <3> QED
      BY <2>1, <2>4, <3>1 DEF HandNumbered
  <2> QED
    BY <2>1, <2>3, <2>5 DEF Ordered, WireInOrder
<1>4. CASE SendAssigned
  <2>1. sendTarget' = sending
        /\ UNCHANGED <<session, toWebsockets, pushed, sending, sent>>
    BY <1>4 DEF SendAssigned, channel, queues, counters
  <2> QED
    BY <2>1 DEF Ordered, QueueNumbered, HandNumbered, WireInOrder
<1>5. CASE Writeable
  <2>1. sent' = Append(sent, sendTarget)
        /\ UNCHANGED <<session, toWebsockets, pushed, sending, sendTarget>>
    BY <1>5 DEF Writeable, channel, queues, counters
  <2>2. /\ DOMAIN sent' = 1..(Len(sent) + 1)
        /\ \A i \in 1..Len(sent) : sent'[i] = sent[i]
        /\ sent'[Len(sent) + 1] = sendTarget
    BY <1>0, <2>1, PushFacts
  <2>3. sendTarget = Torn \/ sendTarget.no = sending.no
    BY DEF Ordered, HandNumbered
  <2>4. QueueNumbered'
    BY <2>1 DEF Ordered, QueueNumbered
  <2>5. HandNumbered'
    BY <1>0, <1>a, <2>1, <2>2, <2>3 DEF Ordered, HandNumbered
  <2>6. WireInOrder'
    <3> SUFFICES ASSUME NEW i \in DOMAIN sent', NEW j \in DOMAIN sent', i < j,
                        sent'[i] # Torn, sent'[j] # Torn
                 PROVE  sent'[i].no <= sent'[j].no
      BY DEF WireInOrder
    <3>1. i \in DOMAIN sent /\ sent'[i] = sent[i]
      BY <1>a, <2>2
    <3>2. CASE j \in DOMAIN sent
      BY <1>a, <2>2, <3>1, <3>2 DEF Ordered, WireInOrder
    <3>3. CASE j \notin DOMAIN sent
      <4>1. sent'[j] = sendTarget
        BY <1>a, <2>2, <3>3
      <4> QED
        BY <2>3, <3>1, <4>1 DEF Ordered, HandNumbered
    <3> QED
      BY <3>2, <3>3
  <2> QED
    BY <2>4, <2>5, <2>6 DEF Ordered
<1>6. CASE UNCHANGED mailbox
  BY <1>6 DEF mailbox, Ordered, QueueNumbered, HandNumbered, WireInOrder
<1> QED
  BY <1>1, <1>2, <1>3, <1>4, <1>5, <1>6, MailboxSteps

\* Messages reach the wire in the order in which they were queued, over any number
\* of channels, offers and pings, wherever the two threads meet in sendTarget.
THEOREM WireOrderKept == Spec => []WireInOrder
<1>1. Init => TypeOK /\ Ordered
  BY TypedInit, OrderedInit
<1>2. (TypeOK /\ Ordered) /\ [Next]_vars => (TypeOK /\ Ordered)'
  BY TypedStep, OrderedStep
<1>3. TypeOK /\ Ordered => WireInOrder
  BY DEF Ordered
<1> QED
  BY <1>1, <1>2, <1>3, PTL DEF Spec

----------------------------------------------------------------------------
(* Wakeups.                                                                 *)

\* The dispatcher is between the assignment of sendTarget and the wakeup it asks for.
Handing == dispatch \in {"assign", "request"}

\* A wire needs a websocket; and whatever was handed over since it was asked for is
\* written or will be, on a wire that is still connecting too.
Awake ==
    /\ wire # "down" => websocket /\ session > 0
    /\ wire # "down" /\ ~Handing /\ sendTarget.session = session
        => writable \/ \E i \in DOMAIN sent : sent[i].no >= sendTarget.no

LEMMA AwakeInit == Init => Awake
  BY DEF Init, Awake

\* No step of a thread puts a message to sleep.
LEMMA AwakeStep == TypeOK /\ Ordered /\ Awake /\ [Next]_vars => Awake'
<1> SUFFICES ASSUME TypeOK, Ordered, Awake, [Next]_vars PROVE Awake'
  OBVIOUS
<1> USE DEF channel, threads, queues, outgoing, socket, webrtc, counters, external,
            Handing
<1>0. /\ session \in Nat /\ sendTarget.session \in Nat /\ sendTarget.session <= session
      /\ sendTarget.no \in Nat
  <2>1. \A m \in Outgoing : m.no \in Nat /\ m.session \in Nat
    BY BoundAssumption DEF Outgoing
  <2>2. session \in Nat /\ sendTarget \in Outgoing /\ sendTarget \in {Torn, sending}
    BY BoundAssumption DEF TypeOK, Ordered, HandNumbered
  <2>3. Torn.session <= session
    BY <2>2 DEF Torn
  <2> QED
    BY <2>1, <2>2, <2>3 DEF Ordered, HandNumbered
<1>1. CASE AddChannel
  <2>1. /\ session' = session + 1 /\ sendTarget' = sendTarget
        /\ wire' # "down" => websocket'
    BY <1>1 DEF AddChannel
  <2> QED
    BY <1>0, <2>1 DEF Awake
<1>2. CASE DeleteChannelEnd \/ Closed
  BY <1>2 DEF DeleteChannelEnd, Closed, Awake
<1>3. CASE Established
  BY <1>3 DEF Established, Awake
<1>4. CASE Writeable
  <2>1. /\ sent' = Append(sent, sendTarget)
        /\ UNCHANGED <<session, wire, websocket, dispatch, sendTarget>>
    BY <1>4 DEF Writeable
  <2>2. sent \in Seq(Outgoing) /\ sendTarget \in Outgoing
    BY DEF TypeOK
  <2>3. \E i \in DOMAIN sent' : sent'[i] = sendTarget
    <3>1. /\ DOMAIN sent' = 1..(Len(sent) + 1) /\ Len(sent) + 1 \in 1..(Len(sent) + 1)
          /\ sent'[Len(sent) + 1] = sendTarget
      BY <2>1, <2>2, PushFacts, RangeFacts
    <3> QED
      BY <3>1
  <2> QED
    BY <1>0, <2>1, <2>3 DEF Awake
<1>5. CASE DispatchLoop \/ NoOffer \/ OfferBegin \/ OfferEnd \/ NoMessage
  <2>1. ~Handing /\ UNCHANGED <<session, wire, websocket, sendTarget, writable, sent>>
    BY <1>5 DEF DispatchLoop, NoOffer, OfferBegin, OfferEnd, NoMessage, Handing
  <2> QED
    BY <2>1 DEF Awake
<1>6. CASE SendBegin \/ SendAssigned
  <2>1. Handing' /\ UNCHANGED <<session, wire, websocket>>
    BY <1>6 DEF SendBegin, SendAssigned
  <2> QED
    BY <2>1 DEF Awake
<1>7. CASE SendEnd
  <2>1. writable' = websocket /\ UNCHANGED <<session, wire, websocket>>
    BY <1>7 DEF SendEnd
  <2> QED
    BY <2>1 DEF Awake
<1>8. CASE DeleteChannelBegin \/ ReceiveOffer \/ ReceivePing \/ ServiceExit
           \/ signaling_thread \/ UNCHANGED vars
  <2>1. UNCHANGED <<session, wire, websocket, dispatch, sendTarget, writable, sent>>
    <3>1. CASE DeleteChannelBegin \/ ReceiveOffer \/ ReceivePing \/ ServiceExit
      BY <3>1 DEF DeleteChannelBegin, ReceiveOffer, ReceivePing, ServiceExit
    <3>2. CASE SetRemoteDescription_OnSuccess \/ SetLocalDescription_OnSuccess
      BY <3>2 DEF SetRemoteDescription_OnSuccess, SetLocalDescription_OnSuccess,
                  SetSessionDescriptionObserverImpl_OnSuccess,
                  SetSessionDescriptionObserverLocalImpl_OnSuccess
    <3>3. CASE CreateSessionDescriptionObserverImpl_OnSuccess \/ OnIceCandidate
      BY <3>3 DEF CreateSessionDescriptionObserverImpl_OnSuccess, OnIceCandidate
    <3>4. CASE UNCHANGED vars
      BY <3>4 DEF vars
    <3> QED
      BY <1>8, <3>1, <3>2, <3>3, <3>4 DEF signaling_thread
  <2> QED
    BY <2>1 DEF Awake
<1> QED
  BY <1>1, <1>2, <1>3, <1>4, <1>5, <1>6, <1>7, <1>8
     DEF Next, Main, websockets_thread, event_dispatch_thread

Safe == TypeOK /\ Ordered /\ Awake

LEMMA SafeCorrect == Spec => []Safe
<1>1. Init => Safe
  BY TypedInit, OrderedInit, AwakeInit DEF Safe
<1>2. Safe /\ [Next]_vars => Safe'
  BY TypedStep, OrderedStep, AwakeStep DEF Safe
<1> QED
  BY <1>1, <1>2, PTL DEF Spec

\* A message dispatched on a channel with a wire is written, has been overtaken by a
\* newer one, or will be written by the next callback.
THEOREM WakeupsKept == Spec => []NoWakeupLost
<1>1. Safe => NoWakeupLost
  BY DEF Safe, Awake, NoWakeupLost, Handing
<1> QED
  BY <1>1, SafeCorrect, PTL

----------------------------------------------------------------------------
(* The first offer of an instance.                                          *)

Unanswered == \A o \in 1..MaxOffers : answers[o] = 0

\* Where the first offer is: in the queue, with the dispatcher, or with libwebrtc,
\* which has at most one thing to report of it; and what was done for it by then.
OfferTracked ==
    offers <= 1 =>
        /\ toWebrtc \in {<<>>, <<1>>}
        /\ tasks \in {<<>>, <<"remote_set">>, <<"answer_created">>, <<"local_set">>}
        /\ offers = 0 => toWebrtc = <<>> /\ dispatch # "offer"
        /\ toWebrtc # <<>> => dispatch # "offer"
        /\ offers = 0 \/ toWebrtc # <<>> \/ dispatch = "offer" => tasks = <<>> /\ Unanswered
        /\ dispatch = "offer" => ~tracks
        /\ tasks \in {<<"remote_set">>, <<"answer_created">>}
              => signaling_state = "have_remote_offer" /\ Unanswered
        /\ tasks = <<"remote_set">> => ~tracks
        /\ tasks = <<"local_set">> => signaling_state = "stable"

Answered == OfferTracked /\ OneAnswerPerOffer /\ OnlyLossKills

\* Queues of one element.
LEMMA Singleton ==
    ASSUME NEW x, NEW y
    PROVE  /\ Head(<<x>>) = x /\ Tail(<<x>>) = <<>> /\ Append(<<>>, y) = <<y>>
           /\ <<x>> # <<>> /\ (<<x>> = <<y>> => x = y)
  OBVIOUS

LEMMA AnsweredInit == Init => Answered
<1> SUFFICES ASSUME Init PROVE Answered
  OBVIOUS
<1>1. \A o \in 1..MaxOffers : answers[o] = 0
  BY DEF Init
<1>2. /\ offers = 0 /\ toWebrtc = <<>> /\ tasks = <<>> /\ dispatch = "none" /\ alive
  BY DEF Init
<1>3. \A t : <<t>> # <<>>
  BY Singleton
<1>4. OfferTracked
  BY <1>1, <1>2, <1>3 DEF OfferTracked, Unanswered
<1>5. OneAnswerPerOffer /\ OnlyLossKills
  BY <1>1, <1>2 DEF OneAnswerPerOffer, OnlyLossKills
<1> QED
  BY <1>4, <1>5 DEF Answered

\* No step answers the first offer twice or adds its tracks twice.
LEMMA AnsweredStep == TypeOK /\ Awake /\ Answered /\ [Next]_vars => Answered'
<1> SUFFICES ASSUME TypeOK, Awake, Answered, [Next]_vars PROVE Answered'
  OBVIOUS
<1> USE DEF channel, threads, queues, outgoing, socket, webrtc, counters, external
<1>0. offers \in Nat
  BY BoundAssumption DEF TypeOK
<1>a. ASSUME UNCHANGED <<offers, toWebrtc, tasks, signaling_state, tracks, answers>>,
             dispatch' = "offer" => dispatch = "offer",
             alive' \/ ~websocket'
      PROVE  Answered'
  BY <1>a DEF Answered, OfferTracked, Unanswered, OneAnswerPerOffer, OnlyLossKills
<1>1. CASE AddChannel \/ DeleteChannelBegin
  <2>1. /\ UNCHANGED <<offers, toWebrtc, tasks, signaling_state, tracks, answers>>
        /\ dispatch' = "offer" => dispatch = "offer"
        /\ alive'
    BY <1>1 DEF AddChannel, DeleteChannelBegin
  <2> QED
    BY <1>a, <2>1
<1>2. CASE DeleteChannelEnd
  <2>1. /\ UNCHANGED <<offers, toWebrtc, answers>> /\ tasks' = <<>> /\ ~tracks'
        /\ dispatch' = "none" /\ ~websocket'
    BY <1>2 DEF DeleteChannelEnd
  <2>2. \A t : <<t>> # <<>>
    BY Singleton
  <2> QED
    BY <2>1, <2>2 DEF Answered, OfferTracked, Unanswered, OneAnswerPerOffer, OnlyLossKills
<1>3. CASE Established \/ ReceivePing \/ Writeable \/ Closed \/ ServiceExit
  <2>1. /\ UNCHANGED <<offers, toWebrtc, tasks, signaling_state, tracks, answers, dispatch>>
        /\ alive'
    BY <1>3 DEF Established, ReceivePing, Writeable, Closed, ServiceExit, Serving
  <2> QED
    BY <1>a, <2>1
<1>4. CASE ReceiveOffer
  <2>1. /\ offers' = offers + 1 /\ toWebrtc' = Append(toWebrtc, offers + 1) /\ alive'
        /\ UNCHANGED <<tasks, signaling_state, tracks, answers, dispatch>>
    BY <1>4 DEF ReceiveOffer, Serving
  <2>2. ASSUME offers' <= 1
        PROVE  /\ offers = 0 /\ toWebrtc' = <<1>> /\ dispatch' # "offer" /\ tasks' = <<>>
               /\ Unanswered
    <3>1. offers = 0
      BY <1>0, <2>1, <2>2
    <3>2. toWebrtc = <<>> /\ dispatch # "offer" /\ tasks = <<>> /\ Unanswered
      BY <3>1 DEF Answered, OfferTracked
    <3> QED
      BY <2>1, <3>1, <3>2, Singleton
  <2>3. \A t : <<t>> # <<>>
    BY Singleton
  <2>4. OfferTracked'
    BY <2>1, <2>2, <2>3 DEF OfferTracked, Unanswered
  <2>5. OneAnswerPerOffer' /\ OnlyLossKills'
    BY <2>1, <2>2 DEF OneAnswerPerOffer, OnlyLossKills, Unanswered
  <2> QED
    BY <2>4, <2>5 DEF Answered
<1>5. CASE DispatchLoop \/ NoOffer \/ NoMessage \/ SendBegin \/ SendAssigned
  <2>1. /\ UNCHANGED <<offers, toWebrtc, tasks, signaling_state, tracks, answers>>
        /\ dispatch' # "offer" /\ alive'
    BY <1>5 DEF DispatchLoop, NoOffer, NoMessage, SendBegin, SendAssigned
  <2> QED
    BY <1>a, <2>1
<1>6. CASE SendEnd
  <2>1. /\ UNCHANGED <<offers, toWebrtc, tasks, signaling_state, tracks, answers>>
        /\ dispatch' # "offer" /\ (alive' \/ ~websocket')
    BY <1>6 DEF SendEnd
  <2> QED
    BY <1>a, <2>1
<1>7. CASE OfferBegin
  <2>1. /\ toWebrtc # <<>> /\ toWebrtc' = Tail(toWebrtc) /\ dispatch' = "offer" /\ ~tracks'
        /\ tasks' \in {tasks, <<>>} /\ UNCHANGED <<offers, answers>> /\ alive'
    BY <1>7 DEF OfferBegin
  <2>2. ASSUME offers <= 1
        PROVE  offers # 0 /\ toWebrtc' = <<>> /\ tasks' = <<>> /\ Unanswered
    BY <2>1, <2>2, Singleton DEF Answered, OfferTracked
  <2>3. \A t : <<t>> # <<>>
    BY Singleton
  <2>4. OfferTracked'
    BY <2>1, <2>2, <2>3 DEF OfferTracked, Unanswered
  <2>5. OneAnswerPerOffer' /\ OnlyLossKills'
    BY <2>1 DEF Answered, OneAnswerPerOffer, OnlyLossKills
  <2> QED
    BY <2>4, <2>5 DEF Answered
<1>8. CASE OfferEnd
  <2>1. /\ dispatch = "offer" /\ dispatch' = "websockets" /\ alive'
        /\ UNCHANGED <<offers, toWebrtc, tracks, answers>>
        /\ \/ signaling_state' = "have_remote_offer" /\ tasks' = Append(tasks, "remote_set")
           \/ UNCHANGED <<signaling_state, tasks>>
    BY <1>8 DEF OfferEnd
  <2>2. ASSUME offers <= 1
        PROVE  /\ offers # 0 /\ toWebrtc = <<>> /\ tasks = <<>> /\ Unanswered /\ ~tracks
               /\ \/ tasks' = <<>>
                  \/ tasks' = <<"remote_set">> /\ signaling_state' = "have_remote_offer"
    <3>1. offers # 0 /\ toWebrtc = <<>> /\ tasks = <<>> /\ Unanswered /\ ~tracks
      BY <2>1, <2>2 DEF Answered, OfferTracked
    <3> QED
      BY <2>1, <3>1, Singleton
  <2>3. /\ \A t : <<t>> # <<>>
        /\ <<"remote_set">> # <<"local_set">>
    BY Singleton, "remote_set" # "local_set"
  <2>4. OfferTracked'
    BY <2>1, <2>2, <2>3 DEF OfferTracked, Unanswered
  <2>5. OneAnswerPerOffer' /\ OnlyLossKills'
    BY <2>1 DEF Answered, OneAnswerPerOffer, OnlyLossKills
  <2> QED
    BY <2>4, <2>5 DEF Answered
<1>9. CASE SetRemoteDescription_OnSuccess
  <2>1. /\ tasks # <<>> /\ Head(tasks) = "remote_set" /\ alive
        /\ UNCHANGED <<offers, toWebrtc, signaling_state, dispatch, answers>>
        /\ tasks' = IF signaling_state = "have_remote_offer"
                    THEN Append(Tail(tasks), "answer_created") ELSE Tail(tasks)
        /\ alive' = ~tracks \/ alive' = alive
    BY <1>9, Zenon DEF SetRemoteDescription_OnSuccess, CreateAnswer, Report, AddTracks,
                       SetSessionDescriptionObserverImpl_OnSuccess
  <2>2. ASSUME offers <= 1
        PROVE  /\ tasks = <<"remote_set">> /\ signaling_state = "have_remote_offer"
               /\ Unanswered /\ ~tracks
    <3>1. tasks \in {<<"remote_set">>, <<"answer_created">>, <<"local_set">>}
      BY <2>1, <2>2 DEF Answered, OfferTracked
    <3>2. tasks = <<"remote_set">>
      BY <2>1, <3>1, Singleton
    <3> QED
      BY <2>2, <3>2 DEF Answered, OfferTracked
  <2>3. ASSUME offers <= 1
        PROVE  tasks' = <<"answer_created">> /\ alive'
    BY <2>1, <2>2, <2>3, Singleton
  <2>4. /\ \A t : <<t>> # <<>>
        /\ <<"answer_created">> # <<"local_set">> /\ <<"answer_created">> # <<"remote_set">>
    BY Singleton, "answer_created" # "local_set", "answer_created" # "remote_set"
  <2>5. ASSUME offers <= 1
        PROVE  offers # 0 /\ toWebrtc = <<>> /\ dispatch # "offer"
    BY <2>1, <2>5 DEF Answered, OfferTracked
  <2>6. OfferTracked'
    BY <2>1, <2>2, <2>3, <2>4, <2>5 DEF OfferTracked, Unanswered
  <2>7. OneAnswerPerOffer' /\ OnlyLossKills'
    BY <2>1, <2>3 DEF Answered, OneAnswerPerOffer, OnlyLossKills
  <2> QED
    BY <2>6, <2>7 DEF Answered
<1>10. CASE SetLocalDescription_OnSuccess
  <2>1. /\ tasks # <<>> /\ Head(tasks) = "local_set" /\ alive
        /\ UNCHANGED <<offers, toWebrtc, signaling_state, dispatch, tracks, answers, alive>>
        /\ tasks' = IF signaling_state = "have_remote_offer"
                    THEN Append(Tail(tasks), "answer_created") ELSE Tail(tasks)
    <3>1. CASE order_ = "SUBSCRIBE"
      <4>1. order_ # "PUBLISH"
        BY <3>1
      <4> QED
        BY <1>10, <3>1, <4>1, Zenon
           DEF SetLocalDescription_OnSuccess, CreateAnswer, Report,
               SetSessionDescriptionObserverImpl_OnSuccess
    <3>2. CASE order_ # "SUBSCRIBE"
      BY <1>10, <3>2, Zenon
         DEF SetLocalDescription_OnSuccess, CreateAnswer, Report,
             SetSessionDescriptionObserverLocalImpl_OnSuccess
    <3> QED
      BY <3>1, <3>2
  <2>2. ASSUME offers <= 1
        PROVE  tasks = <<"local_set">> /\ signaling_state = "stable"
    <3>1. tasks \in {<<"remote_set">>, <<"answer_created">>, <<"local_set">>}
      BY <2>1, <2>2 DEF Answered, OfferTracked
    <3>2. tasks = <<"local_set">>
      BY <2>1, <3>1, Singleton
    <3> QED
      BY <2>2, <3>2 DEF Answered, OfferTracked
  <2>3. ASSUME offers <= 1 PROVE tasks' = <<>>
    BY <2>1, <2>2, <2>3, Singleton
  <2>4. \A t : <<t>> # <<>>
    BY Singleton
  <2>5. ASSUME offers <= 1
        PROVE  offers # 0 /\ toWebrtc = <<>> /\ dispatch # "offer"
    BY <2>1, <2>5 DEF Answered, OfferTracked
  <2>6. OfferTracked'
    BY <2>1, <2>3, <2>4, <2>5 DEF OfferTracked, Unanswered
  <2>7. OneAnswerPerOffer' /\ OnlyLossKills'
    BY <2>1 DEF Answered, OneAnswerPerOffer, OnlyLossKills
  <2> QED
    BY <2>6, <2>7 DEF Answered
<1>11. CASE CreateSessionDescriptionObserverImpl_OnSuccess
  <2>1. /\ tasks # <<>> /\ Head(tasks) = "answer_created" /\ alive'
        /\ UNCHANGED <<offers, toWebrtc, dispatch, tracks>>
        /\ answers' = [answers EXCEPT ![peer] = @ + 1]
        /\ signaling_state = "have_remote_offer" =>
              signaling_state' = "stable" /\ tasks' = Append(Tail(tasks), "local_set")
    BY <1>11 DEF CreateSessionDescriptionObserverImpl_OnSuccess, Report
  <2>2. ASSUME offers <= 1
        PROVE  tasks = <<"answer_created">> /\ signaling_state = "have_remote_offer" /\ Unanswered
    <3>1. tasks \in {<<"remote_set">>, <<"answer_created">>, <<"local_set">>}
      BY <2>1, <2>2 DEF Answered, OfferTracked
    <3>2. tasks = <<"answer_created">>
      BY <2>1, <3>1, Singleton
    <3> QED
      BY <2>2, <3>2 DEF Answered, OfferTracked
  <2>3. ASSUME offers <= 1 PROVE tasks' = <<"local_set">> /\ signaling_state' = "stable"
    BY <2>1, <2>2, <2>3, Singleton
  <2>4. /\ \A t : <<t>> # <<>>
        /\ <<"local_set">> # <<"answer_created">> /\ <<"local_set">> # <<"remote_set">>
    BY Singleton, "answer_created" # "local_set", "local_set" # "remote_set"
  <2>5. ASSUME offers <= 1
        PROVE  offers # 0 /\ toWebrtc = <<>> /\ dispatch # "offer"
    BY <2>1, <2>5 DEF Answered, OfferTracked
  <2>6. OfferTracked'
    BY <2>1, <2>3, <2>4, <2>5 DEF OfferTracked, Unanswered
  <2>7. ASSUME offers <= 1, NEW o \in 1..MaxOffers
        PROVE  answers'[o] <= 1
    <3>1. answers[o] = 0 /\ answers \in [1..MaxOffers -> Nat]
      BY <2>2, <2>7 DEF Unanswered, TypeOK
    <3>2. answers'[o] = IF o = peer THEN answers[o] + 1 ELSE answers[o]
      BY <2>1, <3>1
    <3> QED
      BY <3>1, <3>2
  <2>8. OneAnswerPerOffer' /\ OnlyLossKills'
    BY <2>1, <2>7 DEF OneAnswerPerOffer, OnlyLossKills
  <2> QED
    BY <2>6, <2>8 DEF Answered
<1>12. CASE OnIceCandidate
  <2>1. /\ UNCHANGED <<offers, toWebrtc, tasks, signaling_state, tracks, answers, dispatch>>
        /\ alive'
    BY <1>12 DEF OnIceCandidate
  <2> QED
    BY <1>a, <2>1
<1>13. CASE UNCHANGED vars
  BY <1>13 DEF vars, Answered, OfferTracked, Unanswered, OneAnswerPerOffer, OnlyLossKills
<1> QED
  BY <1>1, <1>2, <1>3, <1>4, <1>5, <1>6, <1>7, <1>8, <1>9, <1>10, <1>11, <1>12, <1>13
     DEF Next, Main, websockets_thread, event_dispatch_thread, signaling_thread

LEMMA AnsweredCorrect == Spec => []Answered
<1>1. Init => Safe /\ Answered
  BY TypedInit, OrderedInit, AwakeInit, AnsweredInit DEF Safe
<1>2. (Safe /\ Answered) /\ [Next]_vars => (Safe /\ Answered)'
  BY TypedStep, OrderedStep, AwakeStep, AnsweredStep DEF Safe
<1> QED
  BY <1>1, <1>2, PTL DEF Spec

\* The first offer is answered at most once, although two observers ask for answers.
THEOREM FirstOfferAnsweredOnce == Spec => []OneAnswerPerOffer
<1>1. Answered => OneAnswerPerOffer
  BY DEF Answered
<1> QED
  BY <1>1, AnsweredCorrect, PTL

\* Until a second offer, the process dies only because it sends on a lost connection.
THEOREM DeathByLossOnly == Spec => []OnlyLossKills
<1>1. Answered => OnlyLossKills
  BY DEF Answered
<1> QED
  BY <1>1, AnsweredCorrect, PTL

----------------------------------------------------------------------------
(* The first message of an instance.                                        *)

\* Until the connect message is written on the first channel, nothing else exists:
\* it is in the queue, in the hand of the dispatcher, or waits in sendTarget.
Silent ==
    /\ offers = 0 /\ toWebrtc = <<>> /\ tasks = <<>> /\ ~gathering /\ dispatch # "offer"
    /\ wire = "connecting" \/ session = 0
          => toWebsockets = <<>> /\ ~Handing /\ ~writable
    /\ Len(toWebsockets) <= 1
    /\ \A i \in DOMAIN toWebsockets : toWebsockets[i].type = "connect"
    /\ Handing => sending.type = "connect"
    /\ dispatch = "request" \/ writable => sendTarget.type = "connect"
    /\ Handing \/ writable => toWebsockets = <<>>
    /\ ~(Handing /\ writable)

First ==
    /\ session = 0 => sent = <<>>
    /\ session <= 1 /\ sent = <<>> => Silent
    /\ ConnectFirst

LEMMA FirstInit == Init => First
<1> SUFFICES ASSUME Init PROVE First
  OBVIOUS
<1>1. Len(toWebsockets) = 0 /\ DOMAIN toWebsockets = {} /\ sent = <<>>
  BY DEF Init
<1> QED
  BY <1>1 DEF Init, First, Silent, ConnectFirst, Handing

\* No step writes anything before the connect message.
LEMMA FirstStep == TypeOK /\ Awake /\ First /\ [Next]_vars => First'
<1> SUFFICES ASSUME TypeOK, Awake, First, [Next]_vars PROVE First'
  OBVIOUS
<1> USE DEF channel, threads, queues, outgoing, socket, webrtc, counters, external,
            Handing
<1>0. /\ session \in Nat /\ toWebsockets \in Seq(Outgoing) /\ sent \in Seq(Outgoing)
      /\ Len(toWebsockets) \in Nat
  BY BoundAssumption, RangeFacts DEF TypeOK
<1>a. ASSUME UNCHANGED <<session, sent>>, session <= 1 /\ sent = <<>> => Silent'
      PROVE  First'
  BY <1>a DEF First, ConnectFirst
<1>1. CASE AddChannel
  <2>1. /\ session' = session + 1 /\ sent' = <<>> /\ ~writable' /\ dispatch' = "top"
        /\ UNCHANGED <<offers, toWebrtc, tasks, gathering, toWebsockets, sending>>
    BY <1>1 DEF AddChannel
  <2>2. ASSUME session' <= 1
        PROVE  Silent /\ session = 0
    BY <1>0, <2>1, <2>2 DEF First
  <2>3. session' # 0
    BY <1>0, <2>1
  <2> QED
    BY <2>1, <2>2, <2>3 DEF First, Silent, ConnectFirst
<1>2. CASE DeleteChannelBegin \/ ServiceExit
  <2>1. /\ UNCHANGED <<session, sent, offers, toWebrtc, tasks, gathering, dispatch, wire,
                       toWebsockets, sending, sendTarget, writable>>
    BY <1>2 DEF DeleteChannelBegin, ServiceExit
  <2> QED
    BY <1>a, <2>1 DEF First, Silent
<1>3. CASE DeleteChannelEnd
  <2>1. /\ UNCHANGED <<session, sent, offers, toWebrtc, toWebsockets, sending>>
        /\ tasks' = <<>> /\ ~gathering' /\ dispatch' = "none" /\ wire' = "down" /\ ~writable'
    BY <1>3 DEF DeleteChannelEnd
  <2> QED
    BY <1>a, <2>1 DEF First, Silent
<1>4. CASE Closed
  <2>1. /\ UNCHANGED <<session, sent, offers, toWebrtc, tasks, gathering, dispatch,
                       toWebsockets, sending, sendTarget>>
        /\ wire' = "down" /\ ~writable'
    BY <1>4 DEF Closed
  <2> QED
    BY <1>a, <2>1 DEF First, Silent
<1>5. CASE Established
  <2>1. /\ wire = "connecting" /\ wire' = "up" /\ push_event("connect")
        /\ UNCHANGED <<session, sent, offers, toWebrtc, tasks, gathering, dispatch,
                       sending, sendTarget, writable>>
    BY <1>5 DEF Established
  <2>2. ASSUME session <= 1, sent = <<>>
        PROVE  Silent'
    <3>1. /\ Silent /\ toWebsockets = <<>> /\ ~Handing /\ ~writable /\ session # 0
      BY <2>1, <2>2 DEF First, Silent, Awake
    <3>2. /\ toWebsockets' = <<Message("connect", pushed + 1)>>
          /\ Message("connect", pushed + 1).type = "connect"
      BY <2>1, <3>1 DEF push_event, Message
    <3>3. /\ Len(toWebsockets') = 1 /\ DOMAIN toWebsockets' = 1..1
          /\ toWebsockets'[1].type = "connect"
      BY <3>2
    <3> QED
      BY <2>1, <3>1, <3>3 DEF Silent
  <2> QED
    BY <1>a, <2>1, <2>2
<1>6. CASE ReceiveOffer \/ ReceivePing
  <2>1. sent # <<>> /\ UNCHANGED <<session, sent>>
    BY <1>6 DEF ReceiveOffer, ReceivePing, Connected
  <2> QED
    BY <1>a, <2>1
<1>7. CASE Writeable
  <2>1. /\ writable /\ sent' = Append(sent, sendTarget) /\ session' = session
        /\ wire # "down" /\ sendTarget \in Outgoing
    BY <1>7 DEF Writeable, TypeOK
  <2>2. /\ sent' # <<>> /\ sent'[Len(sent) + 1] = sendTarget
        /\ \A i \in 1..Len(sent) : sent'[i] = sent[i]
        /\ Len(sent) \in Nat /\ (Len(sent) = 0 => sent = <<>>)
    BY <1>0, <2>1, PushFacts, RangeFacts
  <2>3. session # 0
    BY <2>1 DEF Awake
  <2>4. ASSUME session = 1
        PROVE  sent'[1].type = "connect"
    <3>1. CASE sent = <<>>
      <4>1. sendTarget.type = "connect"
        BY <2>1, <2>4, <3>1 DEF First, Silent
      <4>2. Len(sent) = 0
        BY <3>1
      <4> QED
        BY <2>2, <4>1, <4>2
    <3>2. CASE sent # <<>>
      <4>1. 1 \in 1..Len(sent)
        BY <2>2, <3>2
      <4> QED
        BY <2>2, <2>4, <3>2, <4>1 DEF First, ConnectFirst
    <3> QED
      BY <3>1, <3>2
  <2> QED
    BY <2>1, <2>2, <2>3, <2>4 DEF First, ConnectFirst
<1>8. CASE DispatchLoop \/ NoOffer \/ NoMessage
  <2>1. /\ UNCHANGED <<session, sent, offers, toWebrtc, tasks, gathering, wire,
                       toWebsockets, sending, sendTarget, writable>>
        /\ dispatch' # "offer" /\ ~Handing'
    BY <1>8 DEF DispatchLoop, NoOffer, NoMessage
  <2> QED
    BY <1>a, <2>1 DEF First, Silent
<1>9. CASE OfferBegin \/ OfferEnd
  <2>1. /\ toWebrtc # <<>> \/ dispatch = "offer"
        /\ UNCHANGED <<session, sent>>
    BY <1>9 DEF OfferBegin, OfferEnd
  <2> QED
    BY <1>a, <2>1 DEF First, Silent
<1>10. CASE SendBegin
  <2>1. /\ toWebsockets # <<>> /\ sending' = Head(toWebsockets) /\ dispatch' = "assign"
        /\ toWebsockets' = Tail(toWebsockets)
        /\ UNCHANGED <<session, sent, offers, toWebrtc, tasks, gathering, wire, writable>>
    BY <1>10 DEF SendBegin
  <2>2. ASSUME session <= 1, sent = <<>>
        PROVE  Silent'
    <3>0. Silent
      BY <2>2 DEF First
    <3>a. Len(toWebsockets) \in Nat \ {0} /\ DOMAIN toWebsockets = 1..Len(toWebsockets)
      BY <1>0, <2>1, PopFacts, RangeFacts
    <3>b. Len(toWebsockets) = 1 /\ ~writable /\ wire # "connecting" /\ session # 0
      BY <2>1, <3>0, <3>a DEF Silent
    <3>1. toWebsockets[1].type = "connect"
      BY <3>0, <3>a, <3>b DEF Silent
    <3>2. /\ sending'.type = "connect" /\ toWebsockets' \in Seq(Outgoing)
          /\ Len(toWebsockets') = 0
      BY <1>0, <2>1, <3>1, <3>b, PopFacts
    <3>3. toWebsockets' = <<>> /\ DOMAIN toWebsockets' = {}
      BY <3>2, EmptySeq
    <3>4. /\ UNCHANGED <<offers, toWebrtc, tasks, gathering, wire, writable>>
          /\ dispatch' = "assign" /\ session' = session
      BY <2>1
    <3>5. /\ offers = 0 /\ toWebrtc = <<>> /\ tasks = <<>> /\ ~gathering
          /\ ~writable /\ wire # "connecting" /\ session # 0
      BY <3>0, <3>b DEF Silent
    <3>6. Len(toWebsockets') <= 1 /\ \A i \in DOMAIN toWebsockets' : FALSE
      BY <3>2, <3>3
    <3> QED
      BY <3>2, <3>3, <3>4, <3>5, <3>6 DEF Silent
  <2> QED
    BY <1>a, <2>1, <2>2
<1>11. CASE SendAssigned \/ SendEnd
  <2>1. /\ UNCHANGED <<session, sent, offers, toWebrtc, tasks, gathering, wire,
                       toWebsockets, sending>>
        /\ \/ /\ dispatch = "assign" /\ dispatch' = "request" /\ sendTarget' = sending
              /\ writable' = writable
           \/ /\ dispatch = "request" /\ dispatch' = "top" /\ sendTarget' = sendTarget
    BY <1>11 DEF SendAssigned, SendEnd
  <2> QED
    BY <1>a, <2>1 DEF First, Silent
<1>12. CASE signaling_thread
  <2>1. /\ tasks # <<>> \/ gathering
        /\ UNCHANGED <<session, sent>>
    BY <1>12 DEF signaling_thread, SetRemoteDescription_OnSuccess,
                 SetLocalDescription_OnSuccess, Report, OnIceCandidate,
                 SetSessionDescriptionObserverImpl_OnSuccess,
                 SetSessionDescriptionObserverLocalImpl_OnSuccess,
                 CreateSessionDescriptionObserverImpl_OnSuccess
  <2> QED
    BY <1>a, <2>1 DEF First, Silent
<1>13. CASE UNCHANGED vars
  BY <1>a, <1>13 DEF vars, First, Silent
<1> QED
  BY <1>1, <1>2, <1>3, <1>4, <1>5, <1>6, <1>7, <1>8, <1>9, <1>10, <1>11, <1>12, <1>13
     DEF Next, Main, websockets_thread, event_dispatch_thread

\* Nothing is written on the first connection of an instance before its connect
\* message, whatever the SFU and libwebrtc do.
THEOREM ConnectComesFirst == Spec => []ConnectFirst
<1>1. Init => Safe /\ First
  BY TypedInit, OrderedInit, AwakeInit, FirstInit DEF Safe
<1>2. (Safe /\ First) /\ [Next]_vars => (Safe /\ First)'
  BY TypedStep, OrderedStep, AwakeStep, FirstStep DEF Safe
<1>3. Safe /\ First => ConnectFirst
  BY DEF First
<1> QED
  BY <1>1, <1>2, <1>3, PTL DEF Spec
=============================================================================
