------------------------- MODULE ExampleClient_proofs -------------------------
(***************************************************************************)
(* Proofs about ExampleClient and MovieIterate, for every file, decoder,   *)
(* length of a sound and number of messages.                               *)
(***************************************************************************)
EXTENDS ExampleClient, QueueFacts

Kind == {"video", "other", "bad"}
Event == Outgoing \cup {"offer"}
Written == Outgoing \cup {"empty", "torn"}
Task == {"remote_set", "answer_created", "local_set"}

----------------------------------------------------------------------------
(* Types.                                                                   *)

LEMMA FileFacts ==
    ASSUME file \in Files
    PROVE  /\ Len(file) \in Nat /\ DOMAIN file = 1..Len(file)
           /\ \A n \in 1..Len(file) : file[n] \in Kind
<1>1. PICK n \in 0..MaxPackets : file \in [1..n -> Kind]
  BY DEF Files, Kind
<1>2. n \in Nat
  BY PacketsAssumption
<1>3. file \in Seq(Kind) /\ Len(file) = n /\ DOMAIN file = 1..n
  BY <1>1, <1>2, FunctionIsQueue
<1> QED
  BY <1>1, <1>2, <1>3

MovieTyped ==
    /\ file \in Files /\ read \in 0..Len(file)
    /\ status \in {"READ_FRAME", "STREAM_IDX", "SEND_PACKET", "RECEIVE_FRAME"}
    /\ decoder \in Seq(1..Len(file)) /\ rendered \in Seq(1..Len(file))

\* A packet is in hand whenever a call does not start by reading one.
PacketInHand ==
    /\ status # "READ_FRAME" => read > 0
    /\ status \in {"SEND_PACKET", "RECEIVE_FRAME"} => file[read] # "other"
    /\ status = "RECEIVE_FRAME" => file[read] = "video"

LEMMA MovieTypedInit == MovieInit => MovieTyped /\ PacketInHand
<1> SUFFICES ASSUME MovieInit PROVE MovieTyped /\ PacketInHand
  OBVIOUS
<1>1. file \in Files /\ Len(file) \in Nat
  BY FileFacts DEF MovieInit
<1>2. decoder \in Seq(1..Len(file)) /\ rendered \in Seq(1..Len(file))
  BY EmptySeq DEF MovieInit
<1> QED
  BY <1>1, <1>2 DEF MovieInit, MovieTyped, PacketInHand

LEMMA MovieTypedStep ==
    ASSUME MovieTyped, PacketInHand, iterate
    PROVE  MovieTyped' /\ PacketInHand'
<1>1. /\ file' = file /\ Len(file) \in Nat
      /\ \A n \in 1..Len(file) : file[n] \in Kind
  BY FileFacts DEF MovieTyped, iterate, ReadFrame, StreamIdx, SendPacket, ReceiveFrame
<1>2. CASE ReadFrame
  BY <1>1, <1>2 DEF ReadFrame, MovieTyped, PacketInHand
<1>3. CASE StreamIdx
  BY <1>1, <1>3 DEF StreamIdx, MovieTyped, PacketInHand
<1>4. CASE SendPacket
  <2>1. read \in 1..Len(file) /\ file[read] \in Kind /\ file[read] # "other"
    BY <1>1, <1>4 DEF SendPacket, MovieTyped, PacketInHand
  <2>2. Append(decoder, read) \in Seq(1..Len(file))
    BY <2>1, PushFacts DEF MovieTyped
  <2> QED
    BY <1>1, <1>4, <2>1, <2>2 DEF SendPacket, MovieTyped, PacketInHand, Kind
<1>5. CASE ReceiveFrame
  <2>1. CASE Len(decoder) > Delay
    <3>1. decoder # <<>>
      BY <2>1, DelayAssumption, EmptySeq
    <3>2. Head(decoder) \in 1..Len(file) /\ Tail(decoder) \in Seq(1..Len(file))
      BY <3>1, PopFacts DEF MovieTyped
    <3>3. Append(rendered, Head(decoder)) \in Seq(1..Len(file))
      BY <3>2, PushFacts DEF MovieTyped
    <3> QED
      BY <1>1, <1>5, <2>1, <3>2, <3>3 DEF ReceiveFrame, MovieTyped, PacketInHand
  <2>2. CASE ~(Len(decoder) > Delay)
    BY <1>1, <1>5, <2>2 DEF ReceiveFrame, MovieTyped, PacketInHand
  <2> QED
    BY <2>1, <2>2
<1> QED
  BY <1>2, <1>3, <1>4, <1>5 DEF iterate

\* The types of everything else, the Boolean variables apart.
ClientTyped ==
    /\ example \in {"movie", "audio"} /\ metadata \in {"documented", "comma"}
    /\ main \in {"event", "assign", "request", "play", "join", "stop", "ended"}
    /\ service \in {"running", "exited"}
    /\ events_ \in Seq(Event)
    /\ sending \in Outgoing \cup {"empty"}
    /\ sendTarget \in Written
    /\ wire \in {"down", "connecting", "up"}
    /\ sent \in Seq(Written)
    /\ signaling_state \in {"none", "stable", "have_remote_offer"}
    /\ tasks \in Seq(Task)
    /\ offers \in 0..MaxOffers /\ pings \in 0..MaxPings /\ candidates \in 0..MaxCandidates
    /\ played \in 0..Blocks

Flags ==
    /\ quit_ \in BOOLEAN /\ alive \in BOOLEAN /\ writable \in BOOLEAN
    /\ websocket \in BOOLEAN /\ tracks \in BOOLEAN /\ gathering \in BOOLEAN
    /\ unparsable \in BOOLEAN /\ is_done \in BOOLEAN

LEMMA TypesSplit == TypeOK <=> ClientTyped /\ MovieTyped /\ Flags
  BY Zenon DEF TypeOK, ClientTyped, MovieTyped, Flags, Event, Written, Task

LEMMA ClientTypedInit == Init => ClientTyped
<1> SUFFICES ASSUME Init PROVE ClientTyped
  OBVIOUS
<1>1. events_ \in Seq(Event) /\ sent \in Seq(Written) /\ tasks \in Seq(Task)
  BY EmptySeq DEF Init
<1>2. offers \in 0..MaxOffers /\ pings \in 0..MaxPings /\ candidates \in 0..MaxCandidates
      /\ played \in 0..Blocks
  BY BoundAssumption DEF Init
<1> QED
  BY <1>1, <1>2 DEF Init, ClientTyped, Written

LEMMA FlagsInit == Init => Flags
  BY Zenon DEF Init, MovieInit, Flags

\* A flag is set, reset or copied from another.
LEMMA FlagsStep == Flags /\ [Next]_vars => Flags'
<1> SUFFICES ASSUME Flags, [Next]_vars PROVE Flags'
  OBVIOUS
<1> USE DEF Flags, settings, process, outgoing, socket, webrtc, external, movie
<1>1. CASE websockets_thread
  BY <1>1, Zenon DEF websockets_thread, Established, ReceiveOffer, ReceivePing, Writeable,
                     Closed, ServiceExit
<1>2. CASE webrtcEvent
  <2>1. CASE NoEvent \/ EventInvalid \/ SendBegin \/ SendAssigned
    BY <2>1, Zenon DEF NoEvent, EventInvalid, SendBegin, SendAssigned
  <2>2. CASE SendEnd
    BY <2>2, Zenon DEF SendEnd
  <2>3. CASE Offer
    BY <2>3, Zenon DEF Offer
  <2> QED
    BY <1>2, <2>1, <2>2, <2>3 DEF webrtcEvent
<1>3. CASE MovieStep
  BY <1>3, Zenon DEF MovieStep, iterate, ReadFrame, StreamIdx, SendPacket, ReceiveFrame
<1>4. CASE MovieStepped \/ PlayBlock \/ EndOfFile \/ webrtcStop \/ webSocketsStop
  BY <1>4, Zenon DEF MovieStepped, PlayBlock, EndOfFile, webrtcStop, webSocketsStop
<1>5. CASE signaling_thread
  <2>1. CASE SetRemoteDescription_OnSuccess
    <3>1. (~tracks) \in BOOLEAN
      OBVIOUS
    <3> QED
      BY <2>1, <3>1, Zenon
         DEF SetRemoteDescription_OnSuccess, SetSessionDescriptionObserverImpl_OnSuccess
  <2>2. CASE SetLocalDescription_OnSuccess
    BY <2>2, Zenon DEF SetLocalDescription_OnSuccess
  <2>3. CASE CreateSessionDescriptionObserverImpl_OnSuccess
    BY <2>3, Zenon DEF CreateSessionDescriptionObserverImpl_OnSuccess
  <2>4. CASE OnIceCandidate
    BY <2>4, Zenon DEF OnIceCandidate
  <2> QED
    BY <1>5, <2>1, <2>2, <2>3, <2>4 DEF signaling_thread
<1>6. CASE UNCHANGED vars
  BY <1>6, Zenon DEF vars
<1> QED
  BY <1>1, <1>2, <1>3, <1>4, <1>5, <1>6 DEF Next, Main

LEMMA PushTyped ==
    ASSUME ClientTyped, NEW type \in Event, push(type)
    PROVE  events_' \in Seq(Event)
  BY PushFacts DEF ClientTyped, push

LEMMA CreateAnswerTyped ==
    ASSUME ClientTyped, tasks # <<>>, CreateAnswer
    PROVE  tasks' \in Seq(Task)
<1>1. Tail(tasks) \in Seq(Task)
  BY PopFacts DEF ClientTyped
<1>2. Append(Tail(tasks), "answer_created") \in Seq(Task)
  BY <1>1, PushFacts DEF Task
<1> QED
  BY <1>1, <1>2 DEF CreateAnswer

LEMMA ClientTypedStep == ClientTyped /\ [Next]_vars => ClientTyped'
<1> SUFFICES ASSUME ClientTyped, [Next]_vars PROVE ClientTyped'
  OBVIOUS
<1> USE BoundAssumption
        DEF ClientTyped, settings, process, outgoing, socket, webrtc, external
<1>1. CASE websockets_thread
  <2>1. CASE Established
    <3>1. events_' \in Seq(Event)
      BY <2>1, PushTyped DEF Established, Event, Outgoing
    <3> QED
      BY <2>1, <3>1 DEF Established
  <2>2. CASE ReceiveOffer
    <3>1. events_' \in Seq(Event)
      BY <2>2, PushTyped DEF ReceiveOffer, Event, Outgoing
    <3> QED
      BY <2>2, <3>1 DEF ReceiveOffer
  <2>3. CASE ReceivePing
    <3>1. events_' \in Seq(Event)
      BY <2>3, PushTyped DEF ReceivePing, Event, Outgoing
    <3> QED
      BY <2>3, <3>1 DEF ReceivePing
  <2>4. CASE Writeable
    <3>1. sent' \in Seq(Written)
      BY <2>4, PushFacts DEF Writeable
    <3> QED
      BY <2>4, <3>1 DEF Writeable
  <2>5. CASE Closed
    BY <2>5 DEF Closed
  <2>6. CASE ServiceExit
    BY <2>6 DEF ServiceExit
  <2> QED
    BY <1>1, <2>1, <2>2, <2>3, <2>4, <2>5, <2>6 DEF websockets_thread
<1>2. CASE webrtcEvent
  <2>1. CASE NoEvent
    BY <2>1 DEF NoEvent
  <2>2. ASSUME Pop
        PROVE  events_' \in Seq(Event) /\ Head(events_) \in Event
    BY <2>2, PopFacts DEF Pop
  <2>3. CASE EventInvalid
    BY <2>2, <2>3 DEF EventInvalid
  <2>4. CASE SendBegin
    BY <2>2, <2>4 DEF SendBegin, Written
  <2>5. CASE SendAssigned \/ SendEnd
    BY <2>5 DEF SendAssigned, SendEnd, Written
  <2>6. CASE Offer
    <3>1. tasks' \in Seq(Task)
      <4>1. \A old \in {tasks, <<>>} : Append(old, "remote_set") \in Seq(Task)
        BY EmptySeq, PushFacts DEF Task
      <4> QED
        BY <2>6, <4>1 DEF Offer
    <3>2. events_' \in Seq(Event)
      BY <2>2, <2>6 DEF Offer
    <3> QED
      BY <2>6, <3>1, <3>2 DEF Offer
  <2> QED
    BY <1>2, <2>1, <2>3, <2>4, <2>5, <2>6 DEF webrtcEvent
<1>3. CASE MovieStep \/ MovieStepped
  BY <1>3 DEF MovieStep, MovieStepped
<1>4. CASE PlayBlock \/ EndOfFile
  BY <1>4 DEF PlayBlock, EndOfFile
<1>5. CASE webrtcStop
  <2>1. <<>> \in Seq(Task)
    BY EmptySeq
  <2> QED
    BY <1>5, <2>1 DEF webrtcStop
<1>6. CASE webSocketsStop
  BY <1>6 DEF webSocketsStop
<1>7. CASE signaling_thread
  <2>1. CASE SetRemoteDescription_OnSuccess
    <3>1. tasks' \in Seq(Task)
      BY <2>1, CreateAnswerTyped
         DEF SetRemoteDescription_OnSuccess, SetSessionDescriptionObserverImpl_OnSuccess, Report
    <3> QED
      BY <2>1, <3>1
         DEF SetRemoteDescription_OnSuccess, SetSessionDescriptionObserverImpl_OnSuccess
  <2>2. CASE SetLocalDescription_OnSuccess
    <3>1. tasks' \in Seq(Task)
      BY <2>2, CreateAnswerTyped DEF SetLocalDescription_OnSuccess, Report
    <3> QED
      BY <2>2, <3>1 DEF SetLocalDescription_OnSuccess
  <2>3. CASE CreateSessionDescriptionObserverImpl_OnSuccess
    <3>1. events_' \in Seq(Event)
      BY <2>3, PushTyped DEF CreateSessionDescriptionObserverImpl_OnSuccess, Event, Outgoing
    <3>2. Tail(tasks) \in Seq(Task)
      BY <2>3, PopFacts DEF CreateSessionDescriptionObserverImpl_OnSuccess, Report
    <3>3. Append(Tail(tasks), "local_set") \in Seq(Task)
      BY <3>2, PushFacts DEF Task
    <3> QED
      BY <2>3, <3>1, <3>2, <3>3 DEF CreateSessionDescriptionObserverImpl_OnSuccess
  <2>4. CASE OnIceCandidate
    <3>1. events_' \in Seq(Event)
      BY <2>4, PushTyped DEF OnIceCandidate, Event, Outgoing
    <3> QED
      BY <2>4, <3>1 DEF OnIceCandidate
  <2> QED
    BY <1>7, <2>1, <2>2, <2>3, <2>4 DEF signaling_thread
<1>8. CASE UNCHANGED vars
  BY <1>8 DEF vars
<1> QED
  BY <1>1, <1>2, <1>3, <1>4, <1>5, <1>6, <1>7, <1>8 DEF Next, Main

\* The movie only moves in iterate.
LEMMA MovieMoves ==
    ASSUME [Next]_vars
    PROVE  iterate \/ UNCHANGED <<file, status, read, decoder, rendered>>
<1> USE DEF movie
<1>1. CASE websockets_thread
  BY <1>1 DEF websockets_thread, Established, ReceiveOffer, ReceivePing, Writeable,
              Closed, ServiceExit
<1>2. CASE webrtcEvent
  BY <1>2 DEF webrtcEvent, NoEvent, EventInvalid, SendBegin, SendAssigned, SendEnd, Offer
<1>3. CASE MovieStep
  BY <1>3 DEF MovieStep
<1>4. CASE MovieStepped \/ PlayBlock \/ EndOfFile \/ webrtcStop \/ webSocketsStop
  BY <1>4 DEF MovieStepped, PlayBlock, EndOfFile, webrtcStop, webSocketsStop
<1>5. CASE signaling_thread
  BY <1>5 DEF signaling_thread, SetRemoteDescription_OnSuccess,
              SetSessionDescriptionObserverImpl_OnSuccess, SetLocalDescription_OnSuccess,
              CreateSessionDescriptionObserverImpl_OnSuccess, OnIceCandidate
<1>6. CASE UNCHANGED vars
  BY <1>6 DEF vars
<1> QED
  BY <1>1, <1>2, <1>3, <1>4, <1>5, <1>6 DEF Next, Main

Typed == ClientTyped /\ MovieTyped /\ Flags /\ PacketInHand

LEMMA TypedInit == Init => Typed
  BY ClientTypedInit, MovieTypedInit, FlagsInit DEF Typed, Init

LEMMA TypedStep == Typed /\ [Next]_vars => Typed'
<1> SUFFICES ASSUME Typed, [Next]_vars PROVE Typed'
  OBVIOUS
<1>1. ClientTyped' /\ Flags'
  BY ClientTypedStep, FlagsStep DEF Typed
<1>2. CASE iterate
  BY <1>1, <1>2, MovieTypedStep DEF Typed
<1>3. CASE UNCHANGED <<file, status, read, decoder, rendered>>
  BY <1>1, <1>3 DEF Typed, MovieTyped, PacketInHand
<1> QED
  BY <1>2, <1>3, MovieMoves

\* Every variable keeps its type.
THEOREM TypeCorrect == Spec => []TypeOK
<1>1. Typed => TypeOK
  BY TypesSplit DEF Typed
<1> QED
  BY <1>1, TypedInit, TypedStep, PTL DEF Spec

----------------------------------------------------------------------------
(* The frames of the movie.                                                 *)

Shown == rendered \o decoder
Accepted == {n \in 1..read : file[n] = "video"
                             /\ (n < read \/ status \in {"RECEIVE_FRAME", "READ_FRAME"})}

Increasing(q) == \A i, j \in DOMAIN q : i < j => q[i] < q[j]

FramesKept == Increasing(Shown) /\ Range(Shown) = Accepted

LEMMA FramesKeptInOrder == FramesKept => FramesInOrder
<1> SUFFICES ASSUME FramesKept PROVE FramesInOrder
  OBVIOUS
<1>1. Range(Shown) = {Shown[i] : i \in DOMAIN Shown}
  BY DEF Range
<1> QED
  BY <1>1 DEF FramesKept, FramesInOrder, Shown, Accepted, Increasing

\* A later packet may follow on what is shown already.
LEMMA IncreasingPush ==
    ASSUME NEW n \in Nat, NEW q \in Seq(1..n), Increasing(q), NEW x \in 1..n,
           \A y \in Range(q) : y < x
    PROVE  Increasing(Append(q, x)) /\ Range(Append(q, x)) = Range(q) \cup {x}
<1>1. /\ Len(q) \in Nat /\ DOMAIN q = 1..Len(q) /\ \A i \in 1..Len(q) : q[i] \in Range(q)
  BY RangeFacts
<1>2. /\ DOMAIN Append(q, x) = 1..(Len(q) + 1) /\ Append(q, x)[Len(q) + 1] = x
      /\ \A i \in 1..Len(q) : Append(q, x)[i] = q[i]
      /\ Range(Append(q, x)) = Range(q) \cup {x}
  BY PushFacts
<1>3. ASSUME NEW i \in 1..(Len(q) + 1), NEW j \in 1..(Len(q) + 1), i < j
      PROVE  Append(q, x)[i] < Append(q, x)[j]
  <2>1. i \in 1..Len(q)
    BY <1>1, <1>3
  <2>2. CASE j = Len(q) + 1
    BY <1>1, <1>2, <2>1, <2>2
  <2>3. CASE j # Len(q) + 1
    <3>1. j \in 1..Len(q)
      BY <1>1, <2>3
    <3> QED
      BY <1>1, <1>2, <1>3, <2>1, <3>1 DEF Increasing
  <2> QED
    BY <2>2, <2>3
<1> QED
  BY <1>2, <1>3 DEF Increasing

LEMMA FramesInit == MovieInit => FramesKept
<1> SUFFICES ASSUME MovieInit PROVE FramesKept
  OBVIOUS
<1>1. Shown = <<>>
  BY DEF MovieInit, Shown
<1>2. DOMAIN Shown = {} /\ Range(Shown) = {}
  BY <1>1 DEF Range
<1>3. Accepted = {}
  BY DEF MovieInit, Accepted
<1> QED
  BY <1>2, <1>3 DEF FramesKept, Increasing

\* What was accepted is shown or in the decoder, in its order, after every step.
LEMMA FramesStep ==
    ASSUME MovieTyped, PacketInHand, FramesKept, iterate
    PROVE  FramesKept'
<1> DEFINE n == Len(file)
<1>1. /\ n \in Nat /\ \A i \in 1..n : file[i] \in Kind
      /\ read \in 0..n /\ read \in Nat
      /\ rendered \in Seq(1..n) /\ decoder \in Seq(1..n)
  BY FileFacts DEF MovieTyped
<1> HIDE DEF n
<1>2. CASE ReadFrame \/ StreamIdx
  <2>1. Shown' = Shown
    BY <1>2 DEF ReadFrame, StreamIdx, Shown
  <2>2. CASE ReadFrame
    <3>1. CASE read < Len(file)
      <4>1. /\ status = "READ_FRAME" /\ status' = "STREAM_IDX" /\ read' = read + 1
            /\ file' = file
        BY <2>2, <3>1 DEF ReadFrame
      <4>2. Accepted' = {i \in 1..(read + 1) : file[i] = "video" /\ i < read + 1}
        BY <4>1 DEF Accepted
      <4>3. Accepted = {i \in 1..read : file[i] = "video"}
        BY <4>1 DEF Accepted
      <4>4. Accepted' = Accepted
        BY <1>1, <4>2, <4>3
      <4> QED
        BY <2>1, <4>4 DEF FramesKept
    <3>2. CASE ~(read < Len(file))
      BY <2>1, <2>2, <3>2 DEF ReadFrame, FramesKept, Accepted
    <3> QED
      BY <3>1, <3>2
  <2>3. CASE StreamIdx
    <3>1. /\ status = "STREAM_IDX" /\ read' = read /\ file' = file
          /\ \/ file[read] = "other" /\ status' = "READ_FRAME"
             \/ status' = "SEND_PACKET"
      BY <2>3 DEF StreamIdx
    <3>2. Accepted = {i \in 1..read : file[i] = "video" /\ i < read}
      BY <3>1 DEF Accepted
    <3>3. CASE file[read] = "other" /\ status' = "READ_FRAME"
      <4>1. Accepted' = {i \in 1..read : file[i] = "video"}
        BY <3>1, <3>3 DEF Accepted
      <4>2. \A i \in 1..read : file[i] = "video" => i < read
        BY <1>1, <3>3
      <4> QED
        BY <2>1, <3>2, <4>1, <4>2 DEF FramesKept
    <3>4. CASE status' = "SEND_PACKET"
      <4>1. Accepted' = {i \in 1..read : file[i] = "video" /\ i < read}
        BY <3>1, <3>4 DEF Accepted
      <4> QED
        BY <2>1, <3>2, <4>1 DEF FramesKept
    <3> QED
      BY <3>1, <3>3, <3>4
  <2> QED
    BY <1>2, <2>2, <2>3
<1>3. CASE SendPacket
  <2>1. CASE file[read] = "bad"
    <3>1. Shown' = Shown /\ Accepted' = Accepted
      BY <1>3, <2>1 DEF SendPacket, Shown, Accepted
    <3> QED
      BY <3>1 DEF FramesKept
  <2>2. CASE file[read] # "bad"
    <3>1. /\ status = "SEND_PACKET" /\ status' = "RECEIVE_FRAME"
          /\ decoder' = Append(decoder, read) /\ UNCHANGED <<file, read, rendered>>
      BY <1>3, <2>2 DEF SendPacket
    <3>2. read \in 1..n /\ file[read] = "video"
      BY <1>1, <2>2, <3>1 DEF PacketInHand, Kind
    <3>3. Shown' = Append(Shown, read) /\ Shown \in Seq(1..n)
      BY <1>1, <3>1, <3>2, ConcatPush, ConcatProperties DEF Shown
    <3>4. Accepted = {i \in 1..read : file[i] = "video" /\ i < read}
      BY <3>1 DEF Accepted
    <3>5. Accepted' = {i \in 1..read : file[i] = "video"}
      BY <3>1 DEF Accepted
    <3>6. Accepted' = Accepted \cup {read}
      BY <1>1, <3>2, <3>4, <3>5
    <3>7. \A y \in Range(Shown) : y < read
      BY <3>4 DEF FramesKept
    <3>8. Increasing(Append(Shown, read)) /\ Range(Append(Shown, read)) = Range(Shown) \cup {read}
      BY <1>1, <3>2, <3>3, <3>7, IncreasingPush DEF FramesKept
    <3> QED
      BY <3>3, <3>6, <3>8 DEF FramesKept
  <2> QED
    BY <2>1, <2>2
<1>4. CASE ReceiveFrame
  <2>1. Accepted' = Accepted
    BY <1>4 DEF ReceiveFrame, Accepted
  <2>2. Shown' = Shown
    <3>1. CASE Len(decoder) > Delay
      <4>1. /\ rendered' = Append(rendered, Head(decoder)) /\ decoder' = Tail(decoder)
        BY <1>4, <3>1 DEF ReceiveFrame
      <4>2. decoder # <<>>
        BY <3>1, DelayAssumption, EmptySeq
      <4>3. Append(rendered, Head(decoder)) \o Tail(decoder) = rendered \o decoder
        <5>1. Head(decoder) \in 1..n /\ Tail(decoder) \in Seq(1..n)
          BY <1>1, <4>2, PopFacts
        <5>2. Append(rendered, Head(decoder)) = rendered \o <<Head(decoder)>>
          BY <1>1, <5>1, AppendIsConcat
        <5>3. <<Head(decoder)>> \in Seq(1..n)
          BY <5>1
        <5>4. (rendered \o <<Head(decoder)>>) \o Tail(decoder)
              = rendered \o (<<Head(decoder)>> \o Tail(decoder))
          BY <1>1, <5>1, <5>3, ConcatAssociative
        <5>5. <<Head(decoder)>> \o Tail(decoder) = decoder
          BY <1>1, <4>2, HeadConsTail
        <5> QED
          BY <5>2, <5>4, <5>5
      <4> QED
        BY <4>1, <4>3 DEF Shown
    <3>2. CASE ~(Len(decoder) > Delay)
      BY <1>4, <3>2 DEF ReceiveFrame, Shown
    <3> QED
      BY <3>1, <3>2
  <2> QED
    BY <2>1, <2>2 DEF FramesKept
<1> QED
  BY <1>2, <1>3, <1>4 DEF iterate

\* No frame of the movie is skipped, repeated or overtaken, for every file and every
\* delay of the decoder.
THEOREM FramesCorrect == Spec => []FramesInOrder
<1>1. Init => FramesKept
  BY FramesInit DEF Init
<1>2. Typed /\ FramesKept /\ [Next]_vars => FramesKept'
  <2> SUFFICES ASSUME Typed, FramesKept, [Next]_vars PROVE FramesKept'
    OBVIOUS
  <2>1. CASE iterate
    BY <2>1, FramesStep DEF Typed
  <2>2. CASE UNCHANGED <<file, status, read, decoder, rendered>>
    BY <2>2 DEF FramesKept, Shown, Accepted
  <2> QED
    BY <2>1, <2>2, MovieMoves
<1> QED
  BY <1>1, <1>2, TypedInit, TypedStep, FramesKeptInOrder, PTL DEF Spec

----------------------------------------------------------------------------
(* The first offer.                                                         *)

Once(q, x) == \A i, j \in DOMAIN q : q[i] = x /\ q[j] = x => i = j

\* The first offer is not there yet, waits, is being set, or was set; only after that
\* the tracks are added.
FirstOffer ==
    /\ offers = 0 => "offer" \notin Range(events_) /\ tasks = <<>> /\ ~tracks
    /\ offers = 1 =>
        \/ Once(events_, "offer") /\ tasks = <<>> /\ ~tracks
        \/ "offer" \notin Range(events_) /\ tasks = <<"remote_set">> /\ ~tracks
        \/ "offer" \notin Range(events_) /\ "remote_set" \notin Range(tasks)

LEMMA FirstOfferInit == Init => FirstOffer
  BY DEF Init, FirstOffer, Range

LEMMA OncePush ==
    ASSUME NEW S, NEW q \in Seq(S), NEW x, NEW y \in S
    PROVE  /\ x \notin Range(q) => Once(Append(q, y), x)
           /\ Once(q, x) /\ y # x => Once(Append(q, y), x)
           /\ x \notin Range(q) /\ y # x => x \notin Range(Append(q, y))
<1>1. /\ Len(q) \in Nat /\ DOMAIN q = 1..Len(q) /\ \A i \in 1..Len(q) : q[i] \in Range(q)
  BY RangeFacts
<1>2. /\ DOMAIN Append(q, y) = 1..(Len(q) + 1) /\ Append(q, y)[Len(q) + 1] = y
      /\ \A i \in 1..Len(q) : Append(q, y)[i] = q[i]
      /\ Range(Append(q, y)) = Range(q) \cup {y}
  BY PushFacts
<1>3. ASSUME x \notin Range(q)
      PROVE  Once(Append(q, y), x)
  BY <1>1, <1>2, <1>3 DEF Once
<1>4. ASSUME Once(q, x), y # x
      PROVE  Once(Append(q, y), x)
  BY <1>1, <1>2, <1>4 DEF Once
<1> QED
  BY <1>2, <1>3, <1>4

LEMMA OncePop ==
    ASSUME NEW S, NEW q \in Seq(S), q # <<>>, NEW x
    PROVE  /\ Once(q, x) => Once(Tail(q), x)
           /\ Once(q, x) /\ Head(q) = x => x \notin Range(Tail(q))
           /\ x \notin Range(q) => x \notin Range(Tail(q)) /\ Head(q) # x
<1>1. /\ Len(q) \in Nat \ {0} /\ DOMAIN q = 1..Len(q)
      /\ Head(q) = q[1] /\ Head(q) \in Range(q) /\ Tail(q) \in Seq(S)
      /\ Len(Tail(q)) = Len(q) - 1 /\ Range(Tail(q)) \subseteq Range(q)
      /\ \A i \in 1..(Len(q) - 1) : Tail(q)[i] = q[i + 1]
  BY PopFacts, RangeFacts
<1>2. DOMAIN Tail(q) = 1..(Len(q) - 1)
  BY <1>1, RangeFacts
<1>3. ASSUME Once(q, x)
      PROVE  Once(Tail(q), x)
  <2> SUFFICES ASSUME NEW i \in DOMAIN Tail(q), NEW j \in DOMAIN Tail(q),
                      Tail(q)[i] = x, Tail(q)[j] = x
      PROVE  i = j
    BY DEF Once
  <2>1. i + 1 \in DOMAIN q /\ j + 1 \in DOMAIN q /\ q[i + 1] = x /\ q[j + 1] = x
    BY <1>1, <1>2
  <2>2. i + 1 = j + 1
    BY <1>3, <2>1 DEF Once
  <2> QED
    BY <1>2, <2>2
<1>4. ASSUME Once(q, x), Head(q) = x
      PROVE  x \notin Range(Tail(q))
  <2> SUFFICES ASSUME x \in Range(Tail(q)) PROVE FALSE
    OBVIOUS
  <2>1. PICK i \in DOMAIN Tail(q) : Tail(q)[i] = x
    BY DEF Range
  <2>2. i + 1 \in DOMAIN q /\ 1 \in DOMAIN q /\ q[i + 1] = x /\ q[1] = x
    BY <1>1, <1>2, <1>4, <2>1
  <2>3. i + 1 = 1
    BY <1>4, <2>2 DEF Once
  <2> QED
    BY <1>2, <2>1, <2>3
<1> QED
  BY <1>1, <1>3, <1>4

\* Messages that are no offer come and go.
LEMMA OthersPass ==
    ASSUME Typed, FirstOffer, UNCHANGED <<offers, tasks, tracks>>,
           \/ UNCHANGED events_
           \/ \E type \in Outgoing : push(type)
           \/ events_ # <<>> /\ events_' = Tail(events_)
    PROVE  FirstOffer'
<1>1. events_ \in Seq(Event) /\ "offer" \notin Outgoing /\ Outgoing \subseteq Event
  BY DEF Typed, ClientTyped, Event, Outgoing
<1>2. CASE UNCHANGED events_
  BY <1>2 DEF FirstOffer
<1>3. CASE \E type \in Outgoing : push(type)
  <2>1. PICK type \in Outgoing : events_' = Append(events_, type)
    BY <1>3 DEF push
  <2>2. /\ Once(events_, "offer") => Once(events_', "offer")
        /\ "offer" \notin Range(events_) => "offer" \notin Range(events_')
    BY <1>1, <2>1, OncePush
  <2> QED
    BY <2>2 DEF FirstOffer
<1>4. CASE events_ # <<>> /\ events_' = Tail(events_)
  <2>1. /\ Once(events_, "offer") => Once(events_', "offer")
        /\ "offer" \notin Range(events_) => "offer" \notin Range(events_')
    BY <1>1, <1>4, OncePop
  <2> QED
    BY <2>1 DEF FirstOffer
<1> QED
  BY <1>2, <1>3, <1>4

LEMMA FirstOfferStep == Typed /\ FirstOffer /\ [Next]_vars => FirstOffer'
<1> SUFFICES ASSUME Typed, FirstOffer, [Next]_vars PROVE FirstOffer'
  OBVIOUS
<1>0. /\ events_ \in Seq(Event) /\ tasks \in Seq(Task) /\ offers \in Nat
      /\ "offer" \in Event
  BY BoundAssumption DEF Typed, ClientTyped, Event
<1> USE DEF webrtc, external
<1>1. CASE websockets_thread
  <2>1. CASE Established
    <3>1. push("connect") /\ UNCHANGED <<offers, tasks, tracks>> /\ "connect" \in Outgoing
      BY <2>1 DEF Established, Outgoing
    <3> QED
      BY <3>1, OthersPass
  <2>2. CASE ReceiveOffer
    <3>1. events_' = Append(events_, "offer") /\ offers' = offers + 1 /\ UNCHANGED <<tasks, tracks>>
      BY <2>2 DEF ReceiveOffer, push
    <3>2. "offer" \notin Range(events_) => Once(events_', "offer")
      BY <1>0, <3>1, OncePush
    <3>3. offers' # 0 /\ (offers' = 1 => offers = 0)
      BY <1>0, <3>1
    <3> QED
      BY <3>1, <3>2, <3>3 DEF FirstOffer
  <2>3. CASE ReceivePing
    <3>1. push("pong") /\ UNCHANGED <<offers, tasks, tracks>> /\ "pong" \in Outgoing
      BY <2>3 DEF ReceivePing, Outgoing
    <3> QED
      BY <3>1, OthersPass
  <2>4. CASE Writeable \/ Closed \/ ServiceExit
    BY <2>4, OthersPass DEF Writeable, Closed, ServiceExit
  <2> QED
    BY <1>1, <2>1, <2>2, <2>3, <2>4 DEF websockets_thread
<1>2. CASE NoEvent \/ SendAssigned \/ SendEnd \/ MovieStep \/ MovieStepped \/ PlayBlock
           \/ EndOfFile \/ webSocketsStop
  BY <1>2, OthersPass DEF NoEvent, SendAssigned, SendEnd, MovieStep, MovieStepped, PlayBlock,
                          EndOfFile, webSocketsStop
<1>3. CASE EventInvalid \/ SendBegin
  BY <1>3, OthersPass DEF EventInvalid, SendBegin, Pop
<1>4. CASE Offer
  <2>1. /\ events_ # <<>> /\ Head(events_) = "offer" /\ events_' = Tail(events_)
        /\ offers' = offers
        /\ \/ tracks' = FALSE /\ \E old \in {tasks, <<>>} : tasks' = Append(old, "remote_set")
           \/ UNCHANGED <<tracks, tasks>>
    BY <1>4 DEF Offer, Pop
  <2>2. "offer" \in Range(events_)
    BY <1>0, <2>1, PopFacts
  <2>3. ASSUME offers = 1
        PROVE  /\ "offer" \notin Range(events_') /\ ~tracks'
               /\ tasks' = <<"remote_set">> \/ tasks' = <<>>
    <3>1. Once(events_, "offer") /\ tasks = <<>> /\ ~tracks
      BY <2>2, <2>3 DEF FirstOffer
    <3>2. "offer" \notin Range(events_')
      BY <1>0, <2>1, <3>1, OncePop
    <3>3. Append(<<>>, "remote_set") = <<"remote_set">>
      OBVIOUS
    <3> QED
      BY <2>1, <3>1, <3>2, <3>3
  <2>4. "remote_set" \notin Range(<<>>)
    BY DEF Range
  <2>5. offers # 0
    BY <2>2 DEF FirstOffer
  <2> QED
    BY <2>1, <2>3, <2>4, <2>5 DEF FirstOffer
<1>5. CASE webrtcStop
  <2>1. tasks' = <<>> /\ tracks' = FALSE /\ UNCHANGED <<events_, offers>>
    BY <1>5 DEF webrtcStop
  <2>2. "remote_set" \notin Range(<<>>)
    BY DEF Range
  <2> QED
    BY <2>1, <2>2 DEF FirstOffer
<1>6. CASE signaling_thread
  <2>1. ASSUME NEW task \in Task, Report(task), NEW next \in Task \ {"remote_set"},
               tasks' = Tail(tasks) \/ tasks' = Append(Tail(tasks), next),
               offers' = offers, task # "remote_set" => tracks' = tracks,
               events_' = events_ \/ events_' = Append(events_, "answer")
        PROVE  FirstOffer'
    <3>1. tasks # <<>> /\ Head(tasks) = task
      BY <2>1 DEF Report
    <3>2. Tail(tasks) \in Seq(Task) /\ Range(tasks) # {} /\ Head(tasks) \in Range(tasks)
      BY <1>0, <3>1, PopFacts
    <3>3. "offer" \notin Range(events_) => "offer" \notin Range(events_')
      <4>1. "answer" \in Event /\ "answer" # "offer"
        BY DEF Event, Outgoing
      <4> QED
        BY <1>0, <2>1, <4>1, OncePush
    <3>4. offers = 1 => "offer" \notin Range(events_) /\ "remote_set" \notin Range(Tail(tasks))
      <4>1. "remote_set" \notin Range(tasks) => "remote_set" \notin Range(Tail(tasks))
        BY <1>0, <3>1, OncePop
      <4>2. tasks = <<"remote_set">> => Tail(tasks) = <<>>
        OBVIOUS
      <4>3. "remote_set" \notin Range(<<>>)
        BY DEF Range
      <4> QED
        BY <3>1, <4>1, <4>2, <4>3 DEF FirstOffer
    <3>5. "remote_set" \notin Range(Tail(tasks)) => "remote_set" \notin Range(tasks')
      BY <2>1, <3>2, OncePush
    <3>6. offers # 0
      BY <3>1 DEF FirstOffer
    <3> QED
      BY <2>1, <3>3, <3>4, <3>5, <3>6 DEF FirstOffer
  <2>2. CASE SetRemoteDescription_OnSuccess
    <3>1. /\ Report("remote_set") /\ UNCHANGED <<offers, events_>>
          /\ tasks' = Tail(tasks) \/ tasks' = Append(Tail(tasks), "answer_created")
      BY <2>2 DEF SetRemoteDescription_OnSuccess,
                  SetSessionDescriptionObserverImpl_OnSuccess, CreateAnswer
    <3>2. "remote_set" \in Task /\ "answer_created" \in Task \ {"remote_set"}
      BY DEF Task
    <3> QED
      BY <2>1, <3>1, <3>2
  <2>3. CASE SetLocalDescription_OnSuccess
    <3>1. /\ Report("local_set") /\ UNCHANGED <<offers, events_, tracks>>
          /\ tasks' = Tail(tasks) \/ tasks' = Append(Tail(tasks), "answer_created")
      BY <2>3 DEF SetLocalDescription_OnSuccess, CreateAnswer
    <3>2. "local_set" \in Task /\ "answer_created" \in Task \ {"remote_set"}
      BY DEF Task
    <3> QED
      BY <2>1, <3>1, <3>2
  <2>4. CASE CreateSessionDescriptionObserverImpl_OnSuccess
    <3>1. /\ Report("answer_created") /\ UNCHANGED <<offers, tracks>>
          /\ events_' = Append(events_, "answer")
          /\ tasks' = Tail(tasks) \/ tasks' = Append(Tail(tasks), "local_set")
      BY <2>4 DEF CreateSessionDescriptionObserverImpl_OnSuccess, push
    <3>2. "answer_created" \in Task /\ "local_set" \in Task \ {"remote_set"}
      BY DEF Task
    <3> QED
      BY <2>1, <3>1, <3>2
  <2>5. CASE OnIceCandidate
    <3>1. push("candidate") /\ UNCHANGED <<offers, tasks, tracks>> /\ "candidate" \in Outgoing
      BY <2>5 DEF OnIceCandidate, Outgoing
    <3> QED
      BY <3>1, OthersPass
  <2> QED
    BY <1>6, <2>2, <2>3, <2>4, <2>5 DEF signaling_thread
<1>7. CASE UNCHANGED vars
  BY <1>7, OthersPass DEF vars
<1> QED
  BY <1>1, <1>2, <1>3, <1>4, <1>5, <1>6, <1>7 DEF Next, Main, webrtcEvent

\* Every PANIC, exception and wild pointer that the first offer can lead to is one of
\* those named.
LEMMA DeathStep == Typed /\ FirstOffer /\ DeathHasACause /\ [Next]_vars => DeathHasACause'
<1> SUFFICES ASSUME Typed, FirstOffer, DeathHasACause, [Next]_vars PROVE DeathHasACause'
  OBVIOUS
<1> USE DEF settings, process, outgoing, socket, webrtc, external
<1>0. offers \in Nat
  BY BoundAssumption DEF Typed, ClientTyped
<1>1. CASE websockets_thread
  BY <1>1 DEF DeathHasACause, websockets_thread, Established, ReceiveOffer, ReceivePing,
              Writeable, Closed, ServiceExit, Serving
<1>2. CASE EventInvalid
  <2>1. Head(events_) = "connect" /\ metadata # "comma" /\ metadata' = metadata
    BY <1>2 DEF EventInvalid, IsJson
  <2> QED
    BY <2>1 DEF DeathHasACause, Typed, ClientTyped
<1>3. CASE NoEvent \/ SendBegin \/ SendAssigned \/ Offer
  BY <1>3 DEF DeathHasACause, NoEvent, SendBegin, SendAssigned, Offer, Pop
<1>4. CASE SendEnd
  BY <1>4 DEF DeathHasACause, SendEnd
<1>5. CASE MovieStep \/ MovieStepped \/ PlayBlock \/ EndOfFile \/ webrtcStop \/ webSocketsStop
  BY <1>5 DEF DeathHasACause, MovieStep, MovieStepped, PlayBlock, EndOfFile, webrtcStop,
              webSocketsStop
<1>6. CASE SetRemoteDescription_OnSuccess
  <2>1. alive' = ~tracks /\ tasks # <<>> /\ Head(tasks) = "remote_set" /\ offers' = offers
    BY <1>6 DEF SetRemoteDescription_OnSuccess,
                SetSessionDescriptionObserverImpl_OnSuccess, Report
  <2>2. "remote_set" \in Range(tasks)
    BY <2>1, PopFacts DEF Typed, ClientTyped
  <2>3. offers <= 1 => ~tracks
    BY <1>0, <2>1, <2>2 DEF FirstOffer
  <2> QED
    BY <2>1, <2>3 DEF DeathHasACause
<1>7. CASE SetLocalDescription_OnSuccess \/ CreateSessionDescriptionObserverImpl_OnSuccess
           \/ OnIceCandidate
  BY <1>7 DEF DeathHasACause, SetLocalDescription_OnSuccess, OnIceCandidate, Report,
              CreateSessionDescriptionObserverImpl_OnSuccess
<1>8. CASE UNCHANGED vars
  BY <1>8 DEF vars, DeathHasACause
<1> QED
  BY <1>1, <1>2, <1>3, <1>4, <1>5, <1>6, <1>7, <1>8
     DEF Next, Main, webrtcEvent, signaling_thread

\* Until a second offer comes, the process only dies of an offer it cannot use, in its
\* last step, without a connection, or when metadata is what the README tells to set.
THEOREM DeathExplained == Spec => []DeathHasACause
<1>1. Init => DeathHasACause
  BY DEF Init, DeathHasACause
<1> QED
  BY <1>1, TypedInit, TypedStep, FirstOfferInit, FirstOfferStep, DeathStep, PTL DEF Spec

----------------------------------------------------------------------------
(* What the decoder holds back.                                             *)

\* Frames are only shown while the decoder holds more than Delay of them, and all of
\* those are shown before the next packet is read.
DelayKept ==
    /\ Len(rendered) = 0 \/ Len(decoder) >= Delay
    /\ status # "RECEIVE_FRAME" => Len(decoder) <= Delay

LEMMA DelayStep ==
    ASSUME MovieTyped, DelayKept, iterate
    PROVE  DelayKept'
<1> USE DelayAssumption DEF DelayKept
<1>1. Len(decoder) \in Nat /\ Len(rendered) \in Nat
  BY LenProperties DEF MovieTyped
<1>2. CASE ReadFrame \/ StreamIdx
  BY <1>1, <1>2 DEF ReadFrame, StreamIdx
<1>3. CASE SendPacket
  <2>1. CASE file[read] = "bad"
    BY <1>1, <1>3, <2>1 DEF SendPacket
  <2>2. CASE file[read] # "bad"
    <3>1. /\ decoder' = Append(decoder, read) /\ status' = "RECEIVE_FRAME"
          /\ rendered' = rendered /\ read \in Nat
      BY <1>3, <2>2, FileFacts DEF SendPacket, MovieTyped
    <3>2. Len(Append(decoder, read)) = Len(decoder) + 1
      OBVIOUS
    <3> QED
      BY <1>1, <3>1, <3>2
  <2> QED
    BY <2>1, <2>2
<1>4. CASE ReceiveFrame
  <2>1. CASE Len(decoder) > Delay
    <3>1. decoder' = Tail(decoder) /\ status' = "RECEIVE_FRAME" /\ decoder # <<>>
      BY <1>1, <1>4, <2>1, EmptySeq DEF ReceiveFrame
    <3>2. Len(decoder') = Len(decoder) - 1
      BY <3>1, PopFacts DEF MovieTyped
    <3> QED
      BY <1>1, <2>1, <3>1, <3>2
  <2>2. CASE ~(Len(decoder) > Delay)
    BY <1>1, <1>4, <2>2 DEF ReceiveFrame
  <2> QED
    BY <2>1, <2>2
<1> QED
  BY <1>2, <1>3, <1>4 DEF iterate

\* The frames accepted are as many as those shown and those in the decoder.
LEMMA AcceptedCount ==
    ASSUME MovieTyped, FramesKept
    PROVE  Cardinality(Accepted) = Len(rendered) + Len(decoder)
<1>1. /\ Shown \in Seq(1..Len(file)) /\ Len(Shown) = Len(rendered) + Len(decoder)
  BY ConcatProperties DEF MovieTyped, Shown
<1>2. Len(file) \in Nat
  BY FileFacts DEF MovieTyped
<1>3. Len(Shown) \in Nat /\ DOMAIN Shown = 1..Len(Shown) /\ \A i \in DOMAIN Shown : Shown[i] \in Nat
  <2>1. /\ Len(Shown) \in Nat /\ DOMAIN Shown = 1..Len(Shown)
        /\ \A i \in 1..Len(Shown) : Shown[i] \in 1..Len(file)
    BY <1>1, RangeFacts
  <2> QED
    BY <1>2, <2>1
<1>4. IsInjective(Shown)
  <2> SUFFICES ASSUME NEW i \in DOMAIN Shown, NEW j \in DOMAIN Shown, Shown[i] = Shown[j]
               PROVE  i = j
    BY DEF IsInjective
  <2>1. i < j \/ j < i \/ i = j
    BY <1>3
  <2>2. i < j => Shown[i] < Shown[j]
    BY DEF FramesKept, Increasing
  <2>3. j < i => Shown[j] < Shown[i]
    BY DEF FramesKept, Increasing
  <2> QED
    BY <1>3, <2>1, <2>2, <2>3
<1> QED
  BY <1>1, <1>4, RangeCount DEF FramesKept

\* However often iterate is left and entered again, at each packet all frames were
\* shown but the last Delay.
THEOREM ShowsAllButTheDelay == Spec => []AllShownButTheDelay
<1>1. Init => FramesKept /\ DelayKept
  BY FramesInit, DelayAssumption DEF Init, MovieInit, DelayKept
<1>2. Typed /\ FramesKept /\ DelayKept /\ [Next]_vars => FramesKept' /\ DelayKept'
  <2> SUFFICES ASSUME Typed, FramesKept, DelayKept, [Next]_vars
               PROVE  FramesKept' /\ DelayKept'
    OBVIOUS
  <2>1. CASE iterate
    BY <2>1, FramesStep, DelayStep DEF Typed
  <2>2. CASE UNCHANGED <<file, status, read, decoder, rendered>>
    BY <2>2 DEF FramesKept, Shown, Accepted, DelayKept
  <2> QED
    BY <2>1, <2>2, MovieMoves
<1>3. Typed /\ FramesKept /\ DelayKept => AllShownButTheDelay
  <2> SUFFICES ASSUME Typed, FramesKept, DelayKept, status = "READ_FRAME"
               PROVE  LET videos == Cardinality({n \in 1..read : file[n] = "video"})
                      IN  Len(rendered) = IF videos > Delay THEN videos - Delay ELSE 0
    BY DEF AllShownButTheDelay
  <2>1. Accepted = {n \in 1..read : file[n] = "video"}
    BY DEF Accepted
  <2>2. Cardinality(Accepted) = Len(rendered) + Len(decoder)
    BY AcceptedCount DEF Typed
  <2>3. Len(decoder) \in Nat /\ Len(rendered) \in Nat
    BY LenProperties DEF Typed, MovieTyped
  <2> QED
    BY <2>1, <2>2, <2>3, DelayAssumption DEF DelayKept
<1> QED
  BY <1>1, <1>2, <1>3, TypedInit, TypedStep, PTL DEF Spec

----------------------------------------------------------------------------
(* The end of a sound.                                                      *)

\* main() leaves its loop at the end of the sound, and webrtcStop leaves nothing that
\* could report.
EndKept ==
    /\ main = "join" => example = "audio" /\ played = Blocks
    /\ SoundEndsClean

LEMMA EndStep == Typed /\ EndKept /\ [Next]_vars => EndKept'
<1> SUFFICES ASSUME Typed, EndKept, [Next]_vars PROVE EndKept'
  OBVIOUS
<1> USE DEF EndKept, SoundEndsClean, settings, process, webrtc
<1>1. CASE websockets_thread
  BY <1>1 DEF websockets_thread, Established, ReceiveOffer, ReceivePing, Writeable, Closed,
              ServiceExit, Serving
<1>2. CASE webrtcEvent
  BY <1>2 DEF webrtcEvent, NoEvent, EventInvalid, SendBegin, SendAssigned, SendEnd, Offer,
              Pop
<1>3. CASE MovieStep \/ MovieStepped
  BY <1>3 DEF MovieStep, MovieStepped
<1>4. CASE PlayBlock \/ EndOfFile
  BY <1>4 DEF PlayBlock, EndOfFile
<1>5. CASE webrtcStop \/ webSocketsStop
  BY <1>5 DEF webrtcStop, webSocketsStop
<1>6. CASE signaling_thread
  BY <1>6 DEF signaling_thread, SetRemoteDescription_OnSuccess, OnIceCandidate, Report,
              SetSessionDescriptionObserverImpl_OnSuccess, SetLocalDescription_OnSuccess,
              CreateSessionDescriptionObserverImpl_OnSuccess
<1>7. CASE UNCHANGED vars
  BY <1>7 DEF vars
<1> QED
  BY <1>1, <1>2, <1>3, <1>4, <1>5, <1>6, <1>7 DEF Next, Main

\* The process ends after the whole sound, with its thread joined and with no
\* completion to come.
THEOREM EndIsClean == Spec => []SoundEndsClean
<1>1. Init => EndKept
  BY DEF Init, EndKept, SoundEndsClean
<1>2. EndKept => SoundEndsClean
  BY DEF EndKept
<1> QED
  BY <1>1, <1>2, TypedInit, TypedStep, EndStep, PTL DEF Spec

----------------------------------------------------------------------------
(* The first message on the wire.                                           *)

\* Before anything is written, the connect message is the only one there can be: not
\* queued yet, queued, being assigned, or assigned.
Sending == main \in {"assign", "request"}
OnlyConnect ==
    \/ events_ = <<>> /\ ~Sending /\ ~writable
    \/ events_ = <<"connect">> /\ ~Sending /\ ~writable /\ wire # "connecting"
    \/ /\ events_ = <<>> /\ main = "assign" /\ sending = "connect" /\ ~writable
       /\ wire # "connecting"
    \/ /\ events_ = <<>> /\ main # "assign" /\ sendTarget = "connect"
       /\ wire # "connecting"

Quiet == sent = <<>> => OnlyConnect /\ tasks = <<>> /\ ~gathering

ConnectInv == Quiet /\ ConnectFirst

LEMMA ConnectStep == Typed /\ ConnectInv /\ [Next]_vars => ConnectInv'
<1> SUFFICES ASSUME Typed, ConnectInv, [Next]_vars PROVE ConnectInv'
  OBVIOUS
<1> USE DEF ConnectInv, Sending, settings, process, outgoing, socket, webrtc
<1>0. sent \in Seq(Written) /\ events_ \in Seq(Event)
  BY DEF Typed, ClientTyped
<1>a. ASSUME sent # <<>>, sent' = sent
      PROVE  ConnectInv'
  BY <1>a DEF Quiet, ConnectFirst
<1>b. ASSUME sent = <<>>, sent' = sent, OnlyConnect', tasks' = <<>>, ~gathering'
      PROVE  ConnectInv'
  BY <1>b DEF Quiet, ConnectFirst
<1>c. sent = <<>> => ~Connected /\ OnlyConnect /\ tasks = <<>> /\ ~gathering
  BY DEF Connected, Quiet
<1>1. CASE Writeable
  <2>1. sent' = Append(sent, sendTarget) /\ writable
    BY <1>1 DEF Writeable
  <2>2. CASE sent = <<>>
    <3>1. sendTarget = "connect"
      BY <1>c, <2>1, <2>2 DEF OnlyConnect
    <3>2. sent' = <<"connect">>
      BY <2>1, <2>2, <3>1
    <3> QED
      BY <3>2 DEF Quiet, ConnectFirst
  <2>3. CASE sent # <<>>
    <3>1. sent[1] = "connect" /\ sendTarget \in Written
      BY <2>3 DEF ConnectFirst, Typed, ClientTyped
    <3>2. Len(sent) \in Nat /\ Len(sent) # 0
      BY <1>0, <2>3, EmptySeq, LenProperties
    <3>3. sent' # <<>> /\ sent'[1] = sent[1]
      BY <1>0, <2>1, <3>1, <3>2, PushFacts
    <3> QED
      BY <3>1, <3>3 DEF Quiet, ConnectFirst
  <2> QED
    BY <2>2, <2>3
<1>2. ASSUME UNCHANGED sent, sent = <<>>
      PROVE  OnlyConnect' /\ tasks' = <<>> /\ ~gathering'
  <2> USE <1>c, <1>2
  <2>1. CASE Established
    <3>1. /\ events_ = <<>> /\ events_' = Append(events_, "connect") /\ wire' = "up"
          /\ ~Sending /\ ~writable /\ UNCHANGED <<main, writable, tasks, gathering>>
      BY <2>1 DEF Established, push, OnlyConnect
    <3>2. events_' = <<"connect">>
      BY <3>1
    <3> QED
      BY <3>1, <3>2 DEF OnlyConnect
  <2>2. CASE ReceiveOffer \/ ReceivePing \/ Writeable
    <3>1. sent' # <<>> \/ Connected
      BY <1>0, <2>2 DEF ReceiveOffer, ReceivePing, Writeable
    <3> QED
      BY <3>1
  <2>3. CASE Closed \/ ServiceExit
    BY <2>3 DEF Closed, ServiceExit, OnlyConnect
  <2>4. CASE NoEvent
    BY <2>4 DEF NoEvent, OnlyConnect
  <2>5. CASE EventInvalid \/ SendBegin \/ Offer
    <3>1. /\ events_ = <<"connect">> /\ events_' = Tail(events_) /\ Head(events_) = "connect"
          /\ ~Sending /\ ~writable /\ wire # "connecting"
      BY <2>5 DEF EventInvalid, SendBegin, Offer, Pop, OnlyConnect
    <3>2. events_' = <<>>
      BY <3>1
    <3> QED
      BY <2>5, <3>1, <3>2 DEF EventInvalid, SendBegin, Offer, OnlyConnect
  <2>6. CASE SendAssigned \/ SendEnd
    BY <2>6 DEF SendAssigned, SendEnd, OnlyConnect
  <2>7. CASE MovieStep \/ MovieStepped \/ PlayBlock \/ EndOfFile \/ webSocketsStop
    BY <2>7 DEF MovieStep, MovieStepped, PlayBlock, EndOfFile, webSocketsStop, OnlyConnect
  <2>8. CASE webrtcStop
    BY <2>8 DEF webrtcStop, OnlyConnect
  <2>9. CASE signaling_thread
    BY <2>9 DEF signaling_thread, SetRemoteDescription_OnSuccess, SetLocalDescription_OnSuccess,
                CreateSessionDescriptionObserverImpl_OnSuccess, OnIceCandidate, Report
  <2>10. CASE UNCHANGED vars
    BY <2>10 DEF vars, OnlyConnect
  <2> QED
    BY <2>1, <2>2, <2>3, <2>4, <2>5, <2>6, <2>7, <2>8, <2>9, <2>10
       DEF Next, Main, websockets_thread, webrtcEvent
<1>3. ASSUME ~Writeable
      PROVE  UNCHANGED sent
  <2>1. CASE websockets_thread
    BY <1>3, <2>1 DEF websockets_thread, Established, ReceiveOffer, ReceivePing, Closed,
                      ServiceExit
  <2>2. CASE Main
    BY <2>2 DEF Main, webrtcEvent, NoEvent, EventInvalid, SendBegin, SendAssigned, SendEnd,
                Offer, MovieStep, MovieStepped, PlayBlock, EndOfFile, webrtcStop,
                webSocketsStop
  <2>3. CASE signaling_thread
    BY <2>3 DEF signaling_thread, SetRemoteDescription_OnSuccess, OnIceCandidate,
                SetSessionDescriptionObserverImpl_OnSuccess, SetLocalDescription_OnSuccess,
                CreateSessionDescriptionObserverImpl_OnSuccess
  <2>4. CASE UNCHANGED vars
    BY <2>4 DEF vars
  <2> QED
    BY <2>1, <2>2, <2>3, <2>4 DEF Next
<1> QED
  BY <1>1, <1>2, <1>3, <1>a, <1>b

\* Nothing reaches the SFU before the connect message, neither an empty string nor one
\* that is being assigned.
THEOREM ConnectComesFirst == Spec => []ConnectFirst
<1>1. Init => ConnectInv
  BY DEF Init, ConnectInv, Quiet, OnlyConnect, Sending, ConnectFirst
<1>2. ConnectInv => ConnectFirst
  BY DEF ConnectInv
<1> QED
  BY <1>1, <1>2, TypedInit, TypedStep, ConnectStep, PTL DEF Spec

----------------------------------------------------------------------------
(* The answer to the first offer.                                           *)

InHand == main = "assign" /\ sending = "answer"
Held == sendTarget = "answer"

\* The answers on the wire are the last k messages ...
Last(k) == \A i \in DOMAIN sent : sent[i] = "answer" <=> i > Len(sent) - k

\* ... while the string holds the answer: no more than a callback asked for earlier and
\* the one asked for next write, or have written.
Few == \/ Last(0)
       \/ Last(1) /\ ~(writable /\ main = "request")
       \/ Last(2) /\ ~writable /\ main # "request"

\* All answers on the wire are two in a row, at most.
InARow == \A i, j \in DOMAIN sent :
              sent[i] = "answer" /\ sent[j] = "answer" => i <= j + 1 /\ j <= i + 1

\* There is no answer yet ...
NoneYet ==
    /\ "answer" \notin Range(events_) /\ ~InHand /\ ~Held /\ "answer" \notin Range(sent)
    /\ tasks \in {<<>>, <<"remote_set">>, <<"answer_created">>}

\* ... or it was made, libwebrtc makes no other, and it is queued, in the hand of main(),
\* assigned, or was overwritten.
OneMade ==
    /\ offers # 0 /\ "offer" \notin Range(events_) /\ signaling_state # "have_remote_offer"
    /\ tasks \in {<<>>, <<"local_set">>}
    /\ \/ Once(events_, "answer") /\ ~InHand /\ ~Held /\ "answer" \notin Range(sent)
       \/ "answer" \notin Range(events_) /\ ~Held /\ "answer" \notin Range(sent)
       \/ "answer" \notin Range(events_) /\ ~InHand /\ Held /\ Few
       \/ "answer" \notin Range(events_) /\ ~InHand /\ ~Held /\ InARow

Answered == offers <= 1 => NoneYet \/ OneMade

LEMMA AnsweredInit == Init => Answered
  BY DEF Init, Answered, NoneYet, InHand, Held, Range

\* The wire as the string of the answer is written or overwritten.
LEMMA AnswerWritten ==
    ASSUME sent \in Seq(Written), sendTarget \in Written, sent' = Append(sent, sendTarget)
    PROVE  /\ "answer" \notin Range(sent) /\ ~Held => "answer" \notin Range(sent')
           /\ InARow /\ ~Held => InARow'
           /\ Held /\ Last(0) => Last(1)'
           /\ Held /\ Last(1) => Last(2)'
<1>1. /\ Len(sent) \in Nat /\ DOMAIN sent = 1..Len(sent)
      /\ Len(sent') = Len(sent) + 1 /\ DOMAIN sent' = 1..(Len(sent) + 1)
      /\ \A i \in 1..Len(sent) : sent'[i] = sent[i]
      /\ sent'[Len(sent) + 1] = sendTarget
      /\ Range(sent') = Range(sent) \cup {sendTarget}
  BY PushFacts, RangeFacts
<1>2. \A i \in DOMAIN sent' : i \in DOMAIN sent \/ i = Len(sent) + 1
  BY <1>1
<1>3. "answer" \notin Range(sent) /\ ~Held => "answer" \notin Range(sent')
  BY <1>1 DEF Held
<1>4. InARow /\ ~Held => InARow'
  BY <1>1, <1>2 DEF InARow, Held
<1>5. Held /\ Last(0) => Last(1)'
  BY <1>1, <1>2 DEF Last, Held
<1>6. Held /\ Last(1) => Last(2)'
  BY <1>1, <1>2 DEF Last, Held
<1> QED
  BY <1>3, <1>4, <1>5, <1>6

LEMMA AnswersInARow ==
    ASSUME sent \in Seq(Written)
    PROVE  /\ "answer" \notin Range(sent) <=> Last(0)
           /\ Few => InARow
<1>1. Len(sent) \in Nat /\ DOMAIN sent = 1..Len(sent)
  BY RangeFacts
<1>2. "answer" \notin Range(sent) <=> Last(0)
  BY <1>1 DEF Range, Last
<1>3. ASSUME Few PROVE InARow
  BY <1>1, <1>3 DEF Few, Last, InARow
<1> QED
  BY <1>2, <1>3

\* No step makes a second answer, and none makes two of one.
LEMMA AnsweredStep == Typed /\ FirstOffer /\ Answered /\ [Next]_vars => Answered'
<1> SUFFICES ASSUME Typed, FirstOffer, Answered, [Next]_vars, offers' <= 1
             PROVE  NoneYet' \/ OneMade'
  BY DEF Answered
<1> USE DEF settings, process, outgoing, socket, webrtc, external
<1>0. /\ events_ \in Seq(Event) /\ tasks \in Seq(Task) /\ sent \in Seq(Written)
      /\ sendTarget \in Written /\ offers \in Nat
  BY BoundAssumption DEF Typed, ClientTyped, Event, Task, Written
<1>1. "answer" \in Event /\ "offer" \in Event /\ Outgoing \subseteq Event
      /\ "offer" \notin Outgoing
  BY DEF Event, Outgoing
<1>2. \A t, u : Head(<<t>>) = t /\ Tail(<<t>>) = <<>> /\ <<t>> # <<>>
                /\ Append(<<>>, u) = <<u>> /\ (<<t>> = <<u>> => t = u)
  OBVIOUS
<1>p. ASSUME NEW type \in Event, events_' = Append(events_, type)
      PROVE  /\ type # "offer" /\ "offer" \notin Range(events_) => "offer" \notin Range(events_')
             /\ type # "answer" /\ "answer" \notin Range(events_)
                  => "answer" \notin Range(events_')
             /\ type # "answer" /\ Once(events_, "answer") => Once(events_', "answer")
             /\ "answer" \notin Range(events_) => Once(events_', "answer")
  BY <1>0, <1>1, <1>p, OncePush
<1>t. ASSUME events_ # <<>>, events_' = Tail(events_)
      PROVE  /\ "offer" \notin Range(events_)
                  => "offer" \notin Range(events_') /\ Head(events_) # "offer"
             /\ "answer" \notin Range(events_)
                  => "answer" \notin Range(events_') /\ Head(events_) # "answer"
             /\ Once(events_, "answer") => Once(events_', "answer")
             /\ Once(events_, "answer") /\ Head(events_) = "answer"
                  => "answer" \notin Range(events_')
  BY <1>0, <1>1, <1>t, OncePop
<1>a. ASSUME UNCHANGED <<offers, events_, sent, sendTarget>>, InHand' => InHand,
             writable' => writable, main' = "request" => main = "request",
             tasks' = tasks \/ tasks' = <<>>,
             signaling_state' = "have_remote_offer" => signaling_state = "have_remote_offer"
      PROVE  NoneYet' \/ OneMade'
  <2>1. (Held' <=> Held) /\ (Few => Few') /\ (InARow => InARow')
    BY <1>a DEF Held, Few, Last, InARow
  <2>2. NoneYet \/ OneMade
    BY <1>a DEF Answered
  <2>3. NoneYet => NoneYet'
    BY <1>a, <2>1 DEF NoneYet
  <2>4. OneMade => OneMade'
    BY <1>a, <2>1 DEF OneMade
  <2> QED
    BY <2>2, <2>3, <2>4
<1>b. ASSUME UNCHANGED <<offers, tasks, signaling_state, main, sending, sendTarget, writable,
                         sent>>,
             NEW type \in Outgoing \ {"answer"}, push(type)
      PROVE  NoneYet' \/ OneMade'
  <2>1. UNCHANGED <<InHand, Held, Few, InARow>>
    BY <1>b DEF InHand, Held, Few, Last, InARow
  <2>2. NoneYet \/ OneMade
    BY <1>b DEF Answered
  <2>3. /\ "offer" \notin Range(events_) => "offer" \notin Range(events_')
        /\ "answer" \notin Range(events_) => "answer" \notin Range(events_')
        /\ Once(events_, "answer") => Once(events_', "answer")
    BY <1>1, <1>b, <1>p DEF push
  <2>4. NoneYet => NoneYet'
    BY <1>b, <2>1, <2>3 DEF NoneYet
  <2>5. OneMade => OneMade'
    BY <1>b, <2>1, <2>3 DEF OneMade
  <2> QED
    BY <2>2, <2>4, <2>5
<1>3. CASE Established \/ ReceivePing \/ OnIceCandidate
  <2>1. /\ UNCHANGED <<offers, tasks, signaling_state, main, sending, sendTarget, writable, sent>>
        /\ \E type \in {"connect", "pong", "candidate"} : push(type)
    BY <1>3 DEF Established, ReceivePing, OnIceCandidate
  <2>2. {"connect", "pong", "candidate"} \subseteq Outgoing \ {"answer"}
    BY DEF Outgoing
  <2> QED
    BY <1>b, <2>1, <2>2
<1>4. CASE ReceiveOffer
  <2>1. /\ offers' = offers + 1 /\ events_' = Append(events_, "offer")
        /\ UNCHANGED <<tasks, main, sending, sendTarget, writable, sent>>
    BY <1>4 DEF ReceiveOffer, push
  <2>2. offers = 0
    BY <1>0, <2>1
  <2>3. NoneYet
    BY <2>2 DEF Answered, OneMade
  <2>4. "answer" \notin Range(events_')
    BY <1>1, <1>p, <2>1, <2>3 DEF NoneYet
  <2> QED
    BY <2>1, <2>3, <2>4 DEF NoneYet, InHand, Held
<1>5. CASE Writeable
  <2>1. /\ sent' = Append(sent, sendTarget) /\ writable /\ writable' = FALSE
        /\ UNCHANGED <<offers, events_, tasks, signaling_state, main, sending, sendTarget>>
    BY <1>5 DEF Writeable
  <2>2. (InHand' <=> InHand) /\ (Held' <=> Held)
    BY <2>1 DEF InHand, Held
  <2>3. /\ "answer" \notin Range(sent) /\ ~Held => "answer" \notin Range(sent')
        /\ InARow /\ ~Held => InARow'
    BY <1>0, <2>1, AnswerWritten
  <2>4. Held /\ Few => Few'
    <3>1. /\ Held /\ Last(0) => Last(1)'
          /\ Held /\ Last(1) => Last(2)'
      BY <1>0, <2>1, AnswerWritten
    <3> QED
      BY <2>1, <3>1 DEF Few
  <2>5. NoneYet \/ OneMade
    BY <2>1 DEF Answered
  <2>6. NoneYet => NoneYet'
    BY <2>1, <2>2, <2>3 DEF NoneYet
  <2>7. OneMade => OneMade'
    BY <2>1, <2>2, <2>3, <2>4 DEF OneMade
  <2> QED
    BY <2>5, <2>6, <2>7
<1>6. CASE Closed \/ ServiceExit \/ NoEvent \/ MovieStep \/ MovieStepped \/ PlayBlock
           \/ EndOfFile \/ webrtcStop \/ webSocketsStop \/ UNCHANGED vars
  <2>1. /\ UNCHANGED <<offers, events_, sent, sending, sendTarget>>
        /\ main' \in {"assign", "request"} => main' = main
        /\ writable' => writable
        /\ tasks' = tasks \/ tasks' = <<>>
        /\ signaling_state' \in {signaling_state, "none"}
    BY <1>6 DEF Closed, ServiceExit, NoEvent, MovieStep, MovieStepped, PlayBlock, EndOfFile,
                webrtcStop, webSocketsStop, vars
  <2> QED
    BY <1>a, <2>1 DEF InHand
<1>7. CASE EventInvalid \/ SendBegin
  <2>1. /\ events_ # <<>> /\ events_' = Tail(events_) /\ main = "event"
        /\ UNCHANGED <<offers, tasks, signaling_state, writable, sent>>
        /\ \/ UNCHANGED <<main, sending, sendTarget>> /\ Head(events_) = "connect"
           \/ sending' = Head(events_) /\ sendTarget' = "torn"
    BY <1>7 DEF EventInvalid, SendBegin, Pop, IsJson
  <2>2. /\ ~InHand /\ (InHand' => Head(events_) = "answer") /\ (Held' => Held)
        /\ (InARow => InARow') /\ (Few => InARow) /\ (Held' /\ Few => Few')
    <3>1. Few => InARow
      BY <1>0, AnswersInARow
    <3> QED
      BY <2>1, <3>1 DEF InHand, Held, InARow, Few, Last
  <2>3. NoneYet \/ OneMade
    BY <2>1 DEF Answered
  <2>4. NoneYet => NoneYet'
    BY <1>t, <2>1, <2>2 DEF NoneYet
  <2>5. OneMade => OneMade'
    BY <1>t, <2>1, <2>2 DEF OneMade
  <2> QED
    BY <2>3, <2>4, <2>5
<1>8. CASE SendAssigned
  <2>1. /\ UNCHANGED <<offers, events_, tasks, signaling_state, sent>> /\ main = "assign"
        /\ sendTarget' = sending /\ main' = "request"
    BY <1>8 DEF SendAssigned
  <2>2. ~InHand' /\ (Held' <=> InHand)
    BY <2>1 DEF InHand, Held
  <2>3. /\ "answer" \notin Range(sent) => Few'
        /\ "answer" \notin Range(sent) => InARow
        /\ Few => InARow
        /\ InARow => InARow'
    <3>1. ("answer" \notin Range(sent) => Last(0)) /\ (Few => InARow)
      BY <1>0, AnswersInARow
    <3> QED
      BY <2>1, <3>1 DEF Few, Last, InARow
  <2>4. NoneYet \/ OneMade
    BY <2>1 DEF Answered
  <2>5. NoneYet => NoneYet'
    BY <2>1, <2>2 DEF NoneYet
  <2>6. OneMade => OneMade'
    BY <2>1, <2>2, <2>3 DEF OneMade
  <2> QED
    BY <2>4, <2>5, <2>6
<1>13. CASE SendEnd
  <2>1. /\ UNCHANGED <<offers, events_, tasks, signaling_state, sent, sendTarget>>
        /\ main = "request" /\ main' = "play"
    BY <1>13 DEF SendEnd
  <2>2. ~InHand' /\ (Held' <=> Held) /\ (Few => Few') /\ (InARow => InARow')
    BY <2>1 DEF InHand, Held, Few, Last, InARow
  <2>3. NoneYet \/ OneMade
    BY <2>1 DEF Answered
  <2>4. NoneYet => NoneYet'
    BY <2>1, <2>2 DEF NoneYet
  <2>5. OneMade => OneMade'
    BY <2>1, <2>2 DEF OneMade
  <2> QED
    BY <2>3, <2>4, <2>5
<1>9. CASE Offer
  <2>1. /\ events_ # <<>> /\ events_' = Tail(events_) /\ Head(events_) = "offer"
        /\ main = "event" /\ main' \in {"play", "event"}
        /\ tasks' = tasks \/ \E old \in {tasks, <<>>} : tasks' = Append(old, "remote_set")
        /\ UNCHANGED <<offers, sending, sendTarget, writable, sent>>
    BY <1>9 DEF Offer, Pop
  <2>2. "offer" \in Range(events_) /\ offers = 1
    <3>1. "offer" \in Range(events_)
      BY <1>t, <2>1
    <3> QED
      BY <1>0, <2>1, <3>1 DEF FirstOffer
  <2>3. tasks = <<>>
    BY <2>2 DEF FirstOffer
  <2>4. tasks' \in {<<>>, <<"remote_set">>}
    BY <1>2, <2>1, <2>3
  <2>5. NoneYet
    BY <2>1, <2>2 DEF Answered, OneMade
  <2>6. "answer" \notin Range(events_')
    BY <1>t, <2>1, <2>5 DEF NoneYet
  <2> QED
    BY <2>1, <2>4, <2>5, <2>6 DEF NoneYet, InHand, Held
<1>10. CASE SetRemoteDescription_OnSuccess
  <2>1. /\ tasks # <<>> /\ Head(tasks) = "remote_set"
        /\ tasks' \in {Tail(tasks), Append(Tail(tasks), "answer_created")}
        /\ UNCHANGED <<offers, events_, main, sending, sendTarget, writable, sent>>
    BY <1>10 DEF SetRemoteDescription_OnSuccess, Report, CreateAnswer,
                 SetSessionDescriptionObserverImpl_OnSuccess
  <2>2. NoneYet /\ tasks = <<"remote_set">>
    BY <1>2, <2>1 DEF Answered, NoneYet, OneMade
  <2>3. tasks' \in {<<>>, <<"answer_created">>}
    BY <1>2, <2>1, <2>2
  <2> QED
    BY <2>1, <2>2, <2>3 DEF NoneYet, InHand, Held
<1>11. CASE CreateSessionDescriptionObserverImpl_OnSuccess
  <2>1. /\ tasks # <<>> /\ Head(tasks) = "answer_created"
        /\ \/ signaling_state' = "stable" /\ tasks' = Append(Tail(tasks), "local_set")
           \/ /\ signaling_state # "have_remote_offer" /\ signaling_state' = signaling_state
              /\ tasks' = Tail(tasks)
        /\ events_' = Append(events_, "answer")
        /\ UNCHANGED <<offers, main, sending, sendTarget, writable, sent>>
    BY <1>11 DEF CreateSessionDescriptionObserverImpl_OnSuccess, Report, push
  <2>2. NoneYet /\ tasks = <<"answer_created">>
    BY <1>2, <2>1 DEF Answered, NoneYet, OneMade
  <2>3. offers # 0 /\ "offer" \notin Range(events_)
    <3>1. tasks # <<>> /\ tasks # <<"remote_set">>
      BY <1>2, <2>2
    <3>2. offers = 0 \/ offers = 1
      BY <1>0, <2>1
    <3> QED
      BY <3>1, <3>2 DEF FirstOffer
  <2>4. "offer" \notin Range(events_') /\ Once(events_', "answer")
    BY <1>1, <1>p, <2>1, <2>2, <2>3 DEF NoneYet
  <2>5. tasks' \in {<<>>, <<"local_set">>} /\ signaling_state' # "have_remote_offer"
    BY <1>2, <2>1, <2>2
  <2>6. ~InHand' /\ ~Held' /\ "answer" \notin Range(sent')
    BY <2>1, <2>2 DEF NoneYet, InHand, Held
  <2> QED
    BY <2>1, <2>3, <2>4, <2>5, <2>6 DEF OneMade
<1>12. CASE SetLocalDescription_OnSuccess
  <2>1. /\ tasks # <<>> /\ Head(tasks) = "local_set"
        /\ signaling_state # "have_remote_offer" => tasks' = Tail(tasks)
        /\ UNCHANGED <<offers, events_, main, sending, sendTarget, writable, sent,
                       signaling_state>>
    BY <1>12 DEF SetLocalDescription_OnSuccess, Report, CreateAnswer
  <2>2. OneMade /\ tasks = <<"local_set">>
    BY <1>2, <2>1 DEF Answered, NoneYet, OneMade
  <2>3. tasks' = <<>>
    BY <1>2, <2>1, <2>2 DEF OneMade
  <2> QED
    BY <1>a, <2>1, <2>3 DEF InHand
<1> QED
  BY <1>3, <1>4, <1>5, <1>6, <1>7, <1>8, <1>13, <1>9, <1>10, <1>11, <1>12
     DEF Next, Main, websockets_thread, webrtcEvent, signaling_thread

\* As long as no second offer came, the answer reaches the SFU twice at most, and then
\* in a row.
THEOREM FirstOfferAnswered == Spec => []OneAnswer
<1>1. Typed /\ Answered => OneAnswer
  <2> SUFFICES ASSUME Typed, Answered, offers <= 1 PROVE InARow
    BY DEF OneAnswer, InARow
  <2>1. sent \in Seq(Written)
    BY DEF Typed, ClientTyped
  <2>2. "answer" \notin Range(sent) \/ Few \/ InARow
    BY DEF Answered, NoneYet, OneMade
  <2>3. "answer" \notin Range(sent) => InARow
    BY DEF InARow, Range
  <2> QED
    BY <2>1, <2>2, <2>3, AnswersInARow
<1> QED
  BY <1>1, TypedInit, TypedStep, FirstOfferInit, FirstOfferStep, AnsweredInit, AnsweredStep,
     PTL DEF Spec
=============================================================================
