------------------------ MODULE DeckLinkOutput_proofs ------------------------
(***************************************************************************)
(* Proofs about DeckLinkOutput, for every number of buffers and every even *)
(* number of frames, whatever the driver does.                             *)
(***************************************************************************)
EXTENDS DeckLinkOutput, QueueFacts

----------------------------------------------------------------------------
(* Types.                                                                   *)

Scheduling == [frame : Frame, time : Nat]

\* Half of the frames are scheduled in advance, the other half is free.
LEMMA HalfFacts == Half \in Nat /\ Half > 0 /\ Frames = Half + Half
  BY FramesAssumption DEF Half

\* The frames of the constructor of Output.
LEMMA OutputTyped ==
    /\ [i \in 1..Half |-> [frame |-> i, time |-> i - 1]] \in Seq(Scheduling)
    /\ [i \in 1..(Frames - Half) |-> Half + i] \in Seq(Frame)
<1>1. \A i \in 1..Half : [frame |-> i, time |-> i - 1] \in Scheduling
  BY HalfFacts, FramesAssumption DEF Scheduling, Frame
<1>2. [i \in 1..Half |-> [frame |-> i, time |-> i - 1]] \in [1..Half -> Scheduling]
  BY <1>1
<1>3. \A i \in 1..(Frames - Half) : Half + i \in Frame
  BY HalfFacts, FramesAssumption DEF Frame
<1>4. [i \in 1..(Frames - Half) |-> Half + i] \in [1..(Frames - Half) -> Frame]
  BY <1>3
<1>5. Half \in Nat /\ Frames - Half \in Nat
  BY HalfFacts
<1> QED
  BY <1>2, <1>4, <1>5, FunctionIsQueue

\* A buffer keeps its type when one of its pictures is replaced.
LEMMA PicturesTyped ==
    ASSUME NEW D, NEW V, NEW f \in [D -> V], NEW d \in D, NEW v \in V
    PROVE  [f EXCEPT ![d] = v] \in [D -> V]
  OBVIOUS

LEMMA TypedInit == Init => TypeOK
<1> SUFFICES ASSUME Init PROVE TypeOK
  OBVIOUS
<1>1. /\ _pipelineIngress \in Seq(Buffer) /\ _pipelineEgress \in Seq(Buffer)
      /\ _outputFrames \in Seq(Frame) /\ _completedFrames \in Seq(Frame)
      /\ card \in Seq([frame : Frame, time : Nat])
  BY EmptySeq DEF Init
<1>2. pixels \in [Buffer -> 0..MaxPictures] /\ bytes \in [Frame -> 0..MaxPictures]
  BY BoundAssumption DEF Init, White
<1>3. /\ composed \in 0..MaxPictures /\ filling \in 0..Buffers /\ pframe \in 0..Buffers
      /\ outputs \in 0..1 /\ _cnt \in 0..MaxDevices /\ _lastFrame \in 0..MaxPictures
      /\ _totalFramesScheduled \in Nat
  BY BoundAssumption, BuffersAssumption DEF Init, White, NoBuffer
<1>4. service = "none" /\ built = FALSE /\ main = "wait" /\ alive = TRUE /\ torn = FALSE
  BY DEF Init
<1> QED
  BY <1>1, <1>2, <1>3, <1>4 DEF TypeOK

\* setFrame keeps the types of the output.
LEMMA setFrameTyped ==
    ASSUME TypeOK, service = "set", setFrame
    PROVE  /\ _outputFrames' \in Seq(Frame) /\ _completedFrames' \in Seq(Frame)
           /\ bytes' \in [Frame -> 0..MaxPictures]
           /\ UNCHANGED <<card, _lastFrame, _totalFramesScheduled>>
<1>1. CASE _completedFrames = <<>>
  BY <1>1 DEF setFrame, output, TypeOK
<1>2. CASE _completedFrames # <<>>
  <2>1. Head(_completedFrames) \in Frame /\ Tail(_completedFrames) \in Seq(Frame)
    BY <1>2, PopFacts DEF TypeOK
  <2>2. pixels[pframe] \in 0..MaxPictures
    <3>1. pframe \in Buffer
      BY BuffersAssumption DEF TypeOK, NoBuffer, Buffer
    <3> QED
      BY <3>1 DEF TypeOK
  <2>3. [bytes EXCEPT ![Head(_completedFrames)] = pixels[pframe]] \in [Frame -> 0..MaxPictures]
    BY <2>1, <2>2, PicturesTyped DEF TypeOK
  <2>4. Append(_outputFrames, Head(_completedFrames)) \in Seq(Frame)
    BY <2>1, PushFacts DEF TypeOK
  <2> QED
    BY <1>2, <2>1, <2>3, <2>4 DEF setFrame
<1> QED
  BY <1>1, <1>2

\* The time of a frame, late or not.
LEMMA TimeTyped ==
    ASSUME TypeOK, NEW late \in BOOLEAN
    PROVE  Time(late) \in Nat /\ Time(late) >= _totalFramesScheduled
  BY DEF TypeOK, Time

\* Scheduling keeps the type of the card.
LEMMA ScheduleTyped ==
    ASSUME TypeOK, card # <<>>, NEW f \in Frame, NEW t \in Nat, Schedule(f, t)
    PROVE  card' \in Seq([frame : Frame, time : Nat])
<1>1. Tail(card) \in Seq([frame : Frame, time : Nat])
  BY PopFacts DEF TypeOK
<1>2. [frame |-> f, time |-> t] \in [frame : Frame, time : Nat]
  OBVIOUS
<1> QED
  BY <1>1, <1>2, PushFacts DEF Schedule

\* No step of main(), of the pipeline thread or of the driver breaks the types.
LEMMA TypedStep == TypeOK /\ [Next]_vars => TypeOK'
<1> SUFFICES ASSUME TypeOK, [Next]_vars PROVE TypeOK'
  OBVIOUS
<1> USE BoundAssumption, BuffersAssumption
        DEF TypeOK, pipeline, device, output, process, NoBuffer
<1>1. CASE DeckLinkDeviceArrived
  <2>1. CASE _cnt = 0
    <3>1. card' \in Seq([frame : Frame, time : Nat]) /\ _completedFrames' \in Seq(Frame)
      BY <1>1, <2>1, OutputTyped DEF DeckLinkDeviceArrived, Output, Scheduling
    <3>2. _cnt' \in 0..MaxDevices /\ _totalFramesScheduled' \in Nat /\ outputs' \in 0..1
      BY <1>1, <2>1, FramesAssumption DEF DeckLinkDeviceArrived, Output
    <3>3. built' \in BOOLEAN /\ UNCHANGED <<pipeline, process, _outputFrames, bytes, _lastFrame>>
      BY <1>1, <2>1 DEF DeckLinkDeviceArrived, Output
    <3> QED
      BY <3>1, <3>2, <3>3
  <2>2. CASE _cnt # 0
    BY <1>1, <2>2 DEF DeckLinkDeviceArrived
  <2> QED
    BY <2>1, <2>2
<1>2. CASE DeckLinkDeviceRemoved
  BY <1>2 DEF DeckLinkDeviceRemoved
<1>3. CASE StartPipeline
  BY <1>3 DEF StartPipeline
<1>4. CASE audioInit
  BY <1>4 DEF audioInit
<1>5. CASE AddFrame
  <2>1. CASE AddFrameTorn
    <3>1. _pipelineIngress' \in Seq(Buffer)
      <4>1. \/ UNCHANGED _pipelineIngress
            \/ _pipelineIngress # <<>> /\ _pipelineIngress' = Tail(_pipelineIngress)
            \/ _pipelineIngress' = <<>>
        BY <2>1 DEF AddFrameTorn
      <4>2. _pipelineIngress \in Seq(Buffer) /\ <<>> \in Seq(Buffer)
        BY EmptySeq
      <4> HIDE DEF TypeOK
      <4>3. _pipelineIngress # <<>> => Tail(_pipelineIngress) \in Seq(Buffer)
        BY <4>2, PopFacts
      <4> QED
        BY <4>1, <4>2, <4>3
    <3>2. filling' \in 0..Buffers /\ composed' \in 0..MaxPictures
      BY <2>1 DEF AddFrameTorn, Buffer
    <3>3. pixels' \in [Buffer -> 0..MaxPictures]
      BY <2>1, <3>2 DEF AddFrameTorn
    <3> QED
      BY <2>1, <3>1, <3>2, <3>3 DEF AddFrameTorn
  <2>2. CASE AddFrameDrop
    BY <2>2 DEF AddFrameDrop
  <2>3. CASE AddFrameBegin
    <3>1. Head(_pipelineIngress) \in Buffer /\ _pipelineIngress' \in Seq(Buffer)
      BY <2>3, PopFacts DEF AddFrameBegin
    <3>2. composed + 1 \in 0..MaxPictures
      BY <2>3 DEF AddFrameBegin
    <3>3. pixels' \in [Buffer -> 0..MaxPictures]
      BY <2>3, <3>1, <3>2, PicturesTyped DEF AddFrameBegin
    <3>4. filling' \in 0..Buffers /\ composed' \in 0..MaxPictures
      BY <2>3, <3>1, <3>2 DEF AddFrameBegin, Buffer
    <3> QED
      BY <2>3, <3>1, <3>3, <3>4 DEF AddFrameBegin
  <2>4. CASE AddFrameEnd
    <3>1. filling \in Buffer
      BY <2>4 DEF AddFrameEnd, Buffer
    <3>2. _pipelineEgress' \in Seq(Buffer) /\ filling' \in 0..Buffers
      BY <2>4, <3>1, PushFacts DEF AddFrameEnd
    <3> QED
      BY <2>4, <3>2 DEF AddFrameEnd
  <2> QED
    BY <1>5, <2>1, <2>2, <2>3, <2>4 DEF AddFrame
<1>6. CASE Service
  <2>1. CASE ServiceStart
    <3>1. [i \in 1..Buffers |-> i] \in [1..Buffers -> Buffer]
      BY DEF Buffer
    <3>2. _pipelineIngress' \in Seq(Buffer) /\ _pipelineEgress' \in Seq(Buffer)
      BY <2>1, <3>1, EmptySeq DEF ServiceStart
    <3> QED
      BY <2>1, <3>2 DEF ServiceStart
  <2>2. CASE ServiceTake
    <3>1. Head(_pipelineEgress) \in Buffer /\ _pipelineEgress' \in Seq(Buffer)
      BY <2>2, PopFacts DEF ServiceTake
    <3>2. pframe' \in 0..Buffers /\ pframe' # NoBuffer /\ service' = "set"
      <4>1. pframe' = Head(_pipelineEgress) /\ service' = "set"
        BY <2>2 DEF ServiceTake
      <4>2. pframe' \in Buffer
        BY <3>1, <4>1
      <4>3. \A b \in Buffer : b \in 0..Buffers /\ b # NoBuffer
        BY DEF Buffer
      <4> QED
        BY <4>1, <4>2, <4>3
    <3> QED
      BY <2>2, <3>1, <3>2 DEF ServiceTake
  <2>3. CASE ServiceSet
    <3>1. /\ _outputFrames' \in Seq(Frame) /\ _completedFrames' \in Seq(Frame)
          /\ bytes' \in [Frame -> 0..MaxPictures]
          /\ UNCHANGED <<card, _lastFrame, _totalFramesScheduled>>
      BY <2>3, setFrameTyped DEF ServiceSet
    <3>2. alive' \in BOOLEAN /\ service' = "push" /\ pframe' # NoBuffer
          /\ UNCHANGED <<_pipelineIngress, _pipelineEgress, pixels, composed, filling, pframe,
                         device, main, torn>>
      BY <2>3 DEF ServiceSet
    <3> QED
      BY <3>1, <3>2
  <2>4. CASE ServicePushBegin
    BY <2>4 DEF ServicePushBegin
  <2>5. CASE ServicePushEnd
    <3>1. pframe \in Buffer
      BY <2>5 DEF ServicePushEnd, Buffer
    <3>2. _pipelineIngress' \in Seq(Buffer) /\ pframe' \in 0..Buffers
      <4>1. /\ \/ _pipelineIngress' = Append(_pipelineIngress, pframe)
               \/ UNCHANGED _pipelineIngress
            /\ pframe' \in 0..Buffers
        BY <2>5 DEF ServicePushEnd
      <4>2. Append(_pipelineIngress, pframe) \in Seq(Buffer)
        BY <3>1, PushFacts
      <4> QED
        BY <4>1, <4>2
    <3> QED
      BY <2>5, <3>2 DEF ServicePushEnd
  <2> QED
    BY <1>6, <2>1, <2>2, <2>3, <2>4, <2>5 DEF Service
<1>7. ASSUME NEW late \in BOOLEAN, ScheduledFrameCompleted(late)
      PROVE  TypeOK'
  <2>1. Head(card).frame \in Frame /\ card # <<>> /\ Time(late) \in Nat
    <3>1. card # <<>>
      BY <1>7 DEF ScheduledFrameCompleted, CompletedRepeat, CompletedNext
    <3>2. Head(card) \in [frame : Frame, time : Nat]
      BY <3>1, PopFacts
    <3>3. Time(late) \in Nat
      BY <1>7, TimeTyped
    <3> QED
      BY <3>1, <3>2, <3>3
  <2>2. CASE CompletedRepeat(late)
    <3> DEFINE played == Head(card).frame
               free == Append(_completedFrames, played)
    <3>0. played \in Frame /\ _completedFrames \in Seq(Frame)
      BY <2>1
    <3>1. free \in Seq(Frame) /\ free # <<>>
      <4> HIDE DEF played, TypeOK
      <4>1. Append(_completedFrames, played) \in Seq(Frame)
        BY <3>0, PushFacts
      <4>2. Append(_completedFrames, played) # <<>>
        BY <3>0, PushFacts
      <4> QED
        BY <4>1, <4>2
    <3>2. Head(free) \in Frame /\ Tail(free) \in Seq(Frame)
      BY <3>1, PopFacts
    <3>3. bytes' \in [Frame -> 0..MaxPictures]
      BY <2>2, <3>2, PicturesTyped DEF CompletedRepeat
    <3>4. card' \in Seq([frame : Frame, time : Nat])
      BY <2>1, <2>2, <3>2, ScheduleTyped DEF CompletedRepeat
    <3>5. _completedFrames' \in Seq(Frame)
      BY <2>2, <3>2 DEF CompletedRepeat
    <3>6. _totalFramesScheduled' \in Nat
      <4>1. _totalFramesScheduled' = Time(late) + 1
        BY <2>2 DEF CompletedRepeat
      <4> QED
        BY <1>7, <4>1 DEF Time
    <3>7. UNCHANGED <<pipeline, device, _outputFrames, _lastFrame, process>>
      BY <2>2 DEF CompletedRepeat
    <3> QED
      BY <3>3, <3>4, <3>5, <3>6, <3>7
  <2>3. CASE CompletedNext(late)
    <3>1. Head(_outputFrames) \in Frame /\ _outputFrames' \in Seq(Frame)
      BY <2>3, PopFacts DEF CompletedNext
    <3>2. _completedFrames' \in Seq(Frame)
      BY <2>1, <2>3, PushFacts DEF CompletedNext
    <3>3. card' \in Seq([frame : Frame, time : Nat])
      BY <2>1, <2>3, <3>1, ScheduleTyped DEF CompletedNext
    <3>4. _totalFramesScheduled' \in Nat
      <4>1. _totalFramesScheduled' = Time(late) + 1
        BY <2>3 DEF CompletedNext
      <4> QED
        BY <1>7, <4>1 DEF Time
    <3>5. _lastFrame' \in 0..MaxPictures
      BY <2>3, <3>1 DEF CompletedNext
    <3>6. UNCHANGED <<pipeline, device, bytes, process>>
      BY <2>3 DEF CompletedNext
    <3> QED
      BY <3>1, <3>2, <3>3, <3>4, <3>5, <3>6
  <2> QED
    BY <1>7, <2>2, <2>3 DEF ScheduledFrameCompleted
<1>8. CASE UNCHANGED vars
  BY <1>8 DEF vars
<1> QED
  BY <1>1, <1>2, <1>3, <1>4, <1>5, <1>6, <1>7, <1>8 DEF Next

\* Every variable of the SDI output keeps its type.
THEOREM TypeCorrect == Spec => []TypeOK
<1>1. Init => TypeOK
  BY TypedInit
<1>2. TypeOK /\ [Next]_vars => TypeOK'
  BY TypedStep
<1> QED
  BY <1>1, <1>2, PTL DEF Spec

----------------------------------------------------------------------------
(* The buffers of the pipeline.                                             *)

Queued == Range(_pipelineIngress) \cup Range(_pipelineEgress)

\* While no queue is torn, a buffer is in one of the two queues or in the hands of one
\* thread; before the
\* pipeline thread starts there is none.
BuffersApart ==
    /\ IsInjective(_pipelineIngress) /\ IsInjective(_pipelineEgress)
    /\ Range(_pipelineIngress) \cap Range(_pipelineEgress) = {}
    /\ Queued \cap Held = {}
    /\ filling # NoBuffer => filling # pframe
    /\ service # "none" => Queued \cup Held = Buffer
    /\ service = "none" => /\ _pipelineIngress = <<>> /\ _pipelineEgress = <<>>
                           /\ filling = NoBuffer /\ pframe = NoBuffer
    /\ service = "take" => pframe = NoBuffer

LEMMA ApartIsConserved == TypeOK /\ BuffersApart => BuffersConserved
<1> SUFFICES ASSUME TypeOK, BuffersApart PROVE BuffersConserved
  OBVIOUS
<1>1. /\ Range(_pipelineIngress \o _pipelineEgress) = Queued
      /\ IsInjective(_pipelineIngress \o _pipelineEgress)
  BY ConcatFacts DEF TypeOK, BuffersApart, Queued
<1> QED
  BY <1>1 DEF BuffersApart, BuffersConserved

LEMMA EmptyQueue == Range(<<>>) = {} /\ IsInjective(<<>>)
  BY DEF Range, IsInjective

LEMMA ApartInit == Init => BuffersApart
  BY EmptyQueue DEF Init, BuffersApart, Queued, Held, NoBuffer

\* A torn queue stays torn.
LEMMA TornStays == torn /\ [Next]_vars => torn'
<1> SUFFICES ASSUME torn, [Next]_vars PROVE torn'
  OBVIOUS
<1> USE DEF process
<1>1. CASE DeckLinkDeviceArrived \/ DeckLinkDeviceRemoved \/ StartPipeline \/ audioInit
  BY <1>1 DEF DeckLinkDeviceArrived, DeckLinkDeviceRemoved, StartPipeline, audioInit
<1>2. CASE AddFrame
  BY <1>2 DEF AddFrame, AddFrameTorn, AddFrameDrop, AddFrameBegin, AddFrameEnd
<1>3. CASE Service
  BY <1>3 DEF Service, ServiceStart, ServiceTake, ServiceSet, ServicePushBegin, ServicePushEnd
<1>4. CASE (\E late \in BOOLEAN : ScheduledFrameCompleted(late)) \/ UNCHANGED vars
  BY <1>4 DEF ScheduledFrameCompleted, CompletedRepeat, CompletedNext, vars
<1> QED
  BY <1>1, <1>2, <1>3, <1>4 DEF Next

\* No step loses a buffer or puts it into two hands, but for a pop that meets the push.
LEMMA ApartStep == TypeOK /\ BuffersApart /\ [Next]_vars /\ ~torn' => BuffersApart'
<1> SUFFICES ASSUME TypeOK, BuffersApart, [Next]_vars, ~torn' PROVE BuffersApart'
  OBVIOUS
<1> USE DEF pipeline, device, output, process, Held, Queued
<1>0. _pipelineIngress \in Seq(Buffer) /\ _pipelineEgress \in Seq(Buffer) /\ NoBuffer \notin Buffer
  BY DEF TypeOK, Buffer, NoBuffer
<1>a. ASSUME UNCHANGED <<_pipelineIngress, _pipelineEgress, filling, pframe>>,
             service' = "none" <=> service = "none",
             service' = "take" => service = "take"
      PROVE  BuffersApart'
  BY <1>a DEF BuffersApart
<1>1. CASE DeckLinkDeviceArrived \/ DeckLinkDeviceRemoved \/ StartPipeline \/ audioInit
  <2>1. UNCHANGED <<_pipelineIngress, _pipelineEgress, filling, pframe, service>>
    BY <1>1 DEF DeckLinkDeviceArrived, DeckLinkDeviceRemoved, StartPipeline, audioInit
  <2> QED
    BY <1>a, <2>1
<1>b. ~torn
  BY TornStays
<1>2. CASE AddFrameDrop
  <2>1. UNCHANGED <<_pipelineIngress, _pipelineEgress, filling, pframe, service>>
    BY <1>2 DEF AddFrameDrop
  <2> QED
    BY <1>a, <2>1
<1>3. CASE AddFrameBegin
  <2>1. /\ filling = NoBuffer /\ _pipelineIngress # <<>> /\ filling' = Head(_pipelineIngress)
        /\ _pipelineIngress' = Tail(_pipelineIngress)
        /\ UNCHANGED <<_pipelineEgress, pframe, service>>
    BY <1>3 DEF AddFrameBegin
  <2>2. /\ Head(_pipelineIngress) \in Range(_pipelineIngress)
        /\ Range(_pipelineIngress') = Range(_pipelineIngress) \ {Head(_pipelineIngress)}
        /\ IsInjective(_pipelineIngress')
    BY <1>0, <2>1, PopRange DEF BuffersApart
  <2>3. Head(_pipelineIngress) \in Buffer /\ service # "none"
    BY <1>0, <2>1, PopFacts DEF BuffersApart
  <2> QED
    BY <1>0, <2>1, <2>2, <2>3 DEF BuffersApart
<1>4. CASE AddFrameEnd
  <2>1. /\ filling # NoBuffer /\ filling' = NoBuffer
        /\ _pipelineEgress' = Append(_pipelineEgress, filling)
        /\ UNCHANGED <<_pipelineIngress, pframe, service>>
    BY <1>4 DEF AddFrameEnd
  <2>2. filling \in Buffer /\ filling \notin Range(_pipelineEgress)
    BY <2>1 DEF TypeOK, BuffersApart, Buffer, NoBuffer
  <2>3. /\ Range(_pipelineEgress') = Range(_pipelineEgress) \cup {filling}
        /\ IsInjective(_pipelineEgress')
    BY <1>0, <2>1, <2>2, PushFacts DEF BuffersApart
  <2> QED
    BY <1>0, <2>1, <2>2, <2>3 DEF BuffersApart
<1>5. CASE ServiceStart
  <2>1. /\ service = "none" /\ service' = "take" /\ _pipelineEgress' = <<>>
        /\ _pipelineIngress' = [i \in 1..Buffers |-> i]
        /\ UNCHANGED <<filling, pframe>>
    BY <1>5 DEF ServiceStart
  <2>2. Range(_pipelineIngress') = Buffer /\ IsInjective(_pipelineIngress')
    BY <2>1 DEF Range, IsInjective, Buffer
  <2> QED
    BY <1>0, <2>1, <2>2, EmptyQueue DEF BuffersApart
<1>6. CASE ServiceTake
  <2>1. /\ service = "take" /\ service' = "set" /\ _pipelineEgress # <<>>
        /\ pframe' = Head(_pipelineEgress) /\ _pipelineEgress' = Tail(_pipelineEgress)
        /\ UNCHANGED <<_pipelineIngress, filling>>
    BY <1>6 DEF ServiceTake
  <2>2. /\ Head(_pipelineEgress) \in Range(_pipelineEgress)
        /\ Range(_pipelineEgress') = Range(_pipelineEgress) \ {Head(_pipelineEgress)}
        /\ IsInjective(_pipelineEgress')
    BY <1>0, <2>1, PopRange DEF BuffersApart
  <2>3. Head(_pipelineEgress) \in Buffer
    BY <1>0, <2>1, PopFacts
  <2> QED
    BY <1>0, <2>1, <2>2, <2>3 DEF BuffersApart
<1>7. CASE ServiceSet \/ ServicePushBegin
  <2>1. /\ UNCHANGED <<_pipelineIngress, _pipelineEgress, filling, pframe>>
        /\ service # "none" /\ service' # "none" /\ service' # "take"
    BY <1>7 DEF ServiceSet, ServicePushBegin
  <2> QED
    BY <1>a, <2>1
<1>8. CASE ServicePushEnd
  <2>1. /\ service = "pushing" /\ service' = "take" /\ pframe' = NoBuffer
        /\ _pipelineIngress' = Append(_pipelineIngress, pframe)
        /\ UNCHANGED <<_pipelineEgress, filling>>
    BY <1>8, <1>b DEF ServicePushEnd
  <2>2. pframe \in Buffer /\ pframe # NoBuffer
    BY <2>1, BuffersAssumption DEF TypeOK, Buffer, NoBuffer
  <2>3. pframe \notin Range(_pipelineIngress) /\ pframe \notin Range(_pipelineEgress)
    BY <2>2 DEF BuffersApart
  <2>4. /\ Range(_pipelineIngress') = Range(_pipelineIngress) \cup {pframe}
        /\ IsInjective(_pipelineIngress')
    BY <1>0, <2>1, <2>2, <2>3, PushFacts DEF BuffersApart
  <2> QED
    BY <1>0, <2>1, <2>2, <2>3, <2>4 DEF BuffersApart
<1>9. ASSUME NEW late \in BOOLEAN, ScheduledFrameCompleted(late)
      PROVE  BuffersApart'
  <2>1. UNCHANGED <<_pipelineIngress, _pipelineEgress, filling, pframe, service>>
    BY <1>9 DEF ScheduledFrameCompleted, CompletedRepeat, CompletedNext
  <2> QED
    BY <1>a, <2>1
<1>10. CASE UNCHANGED vars
  BY <1>a, <1>10 DEF vars
<1>11. ~AddFrameTorn
  BY DEF AddFrameTorn
<1> QED
  BY <1>11, <1>1, <1>2, <1>3, <1>4, <1>5, <1>6, <1>7, <1>8, <1>9, <1>10 DEF Next, AddFrame, Service

Intact == ~torn => BuffersApart

LEMMA IntactStep == TypeOK /\ Intact /\ [Next]_vars => Intact'
  BY TornStays, ApartStep DEF Intact

\* Nothing the threads do loses a buffer of the pipeline or puts it into two hands, but
\* for a pop that meets the push made without the mutex.
THEOREM BuffersCorrect == Spec => []BuffersConserved
<1>1. Init => TypeOK /\ Intact
  BY TypedInit, ApartInit DEF Intact
<1>2. (TypeOK /\ Intact) /\ [Next]_vars => (TypeOK /\ Intact)'
  BY TypedStep, IntactStep
<1>3. TypeOK /\ Intact => BuffersConserved
  BY ApartIsConserved DEF Intact, BuffersConserved
<1> QED
  BY <1>1, <1>2, <1>3, PTL DEF Spec

\* main() holds no buffer when it looks for one, so the pipeline thread holds the only
\* one that may be missing from the backlog.
THEOREM DropsExplained == Spec => DropsMeanBacklog
<1>1. ASSUME TypeOK, BuffersApart, AddFrameDrop, service # "none"
      PROVE  Len(_pipelineEgress) + 1 >= Buffers
  <2>1. _pipelineIngress = <<>> /\ filling = NoBuffer
    BY <1>1 DEF AddFrameDrop
  <2>2. Range(_pipelineIngress) = {}
    BY <2>1, EmptyQueue
  <2>3. Buffer \in SUBSET (Range(_pipelineEgress) \cup {pframe})
    BY <1>1, <2>1, <2>2 DEF BuffersApart, Queued, Held
  <2>4. /\ IsFiniteSet(Range(_pipelineEgress))
        /\ Cardinality(Range(_pipelineEgress)) = Len(_pipelineEgress)
        /\ Len(_pipelineEgress) \in Nat
    BY <1>1, RangeCount, RangeFacts DEF TypeOK, BuffersApart
  <2>5. /\ IsFiniteSet(Range(_pipelineEgress) \cup {pframe})
        /\ Cardinality(Range(_pipelineEgress) \cup {pframe}) <= Len(_pipelineEgress) + 1
        /\ Cardinality(Range(_pipelineEgress) \cup {pframe}) \in Nat
    BY <2>4, FS_AddElement, FS_CardinalityType
  <2>6. Cardinality(Buffer) = Buffers /\ Buffers \in Nat
    BY BuffersAssumption, FS_Interval DEF Buffer
  <2>7. Cardinality(Buffer) <= Cardinality(Range(_pipelineEgress) \cup {pframe})
    BY <2>3, <2>5, FS_Subset
  <2> QED
    BY <2>4, <2>5, <2>6, <2>7
<1>2. TypeOK /\ Intact
        => [AddFrameDrop /\ service # "none" /\ ~torn
                => Len(_pipelineEgress) + 1 >= Buffers]_vars
  BY <1>1 DEF Intact
<1>3. Init => TypeOK /\ Intact
  BY TypedInit, ApartInit DEF Intact
<1>4. (TypeOK /\ Intact) /\ [Next]_vars => (TypeOK /\ Intact)'
  BY TypedStep, IntactStep
<1> QED
  BY <1>2, <1>3, <1>4, PTL DEF Spec, DropsMeanBacklog

----------------------------------------------------------------------------
(* The frames of the card.                                                  *)

\* A frame is scheduled, waits with a picture, or is free; before the Output is
\* built there is none.
FramesApart ==
    /\ built => /\ IsInjective(Scheduled) /\ IsInjective(_outputFrames)
                /\ IsInjective(_completedFrames)
                /\ Range(Scheduled) \cap Range(_outputFrames) = {}
                /\ Range(Scheduled) \cap Range(_completedFrames) = {}
                /\ Range(_outputFrames) \cap Range(_completedFrames) = {}
                /\ Range(Scheduled) \cup Range(_outputFrames) \cup Range(_completedFrames) = Frame
                /\ Len(card) = Half
                /\ Len(_outputFrames) + Len(_completedFrames) = Half
    /\ ~built => /\ card = <<>> /\ _outputFrames = <<>> /\ _completedFrames = <<>>
                 /\ outputs = 0
    /\ built <=> _cnt # 0

\* The frames on the card are a queue.
LEMMA ScheduledIsQueue ==
    ASSUME TypeOK
    PROVE  /\ Scheduled \in Seq(Frame) /\ Len(Scheduled) = Len(card)
           /\ Len(card) \in Nat /\ DOMAIN card = 1..Len(card)
           /\ \A i \in 1..Len(card) : Scheduled[i] = card[i].frame /\ card[i] \in Scheduling
<1>1. /\ Len(card) \in Nat /\ DOMAIN card = 1..Len(card)
      /\ \A i \in 1..Len(card) : card[i] \in [frame : Frame, time : Nat]
  BY RangeFacts DEF TypeOK
<1>2. \A i \in 1..Len(card) : card[i].frame \in Frame
  BY <1>1
<1>3. Scheduled \in [1..Len(card) -> Frame]
  BY <1>1, <1>2 DEF Scheduled
<1> QED
  BY <1>1, <1>3, FunctionIsQueue DEF Scheduled, Scheduling

\* Scheduling takes the frame played off the card and puts another at its end.
LEMMA ScheduleFacts ==
    ASSUME TypeOK, TypeOK', card # <<>>, NEW f \in Frame, NEW t \in Nat, Schedule(f, t)
    PROVE  /\ Scheduled' = Append(Tail(Scheduled), f)
           /\ Scheduled # <<>> /\ Head(Scheduled) = Head(card).frame
           /\ Len(card') = Len(card) /\ Len(card) > 0
           /\ \A i \in 1..(Len(card) - 1) : card'[i] = card[i + 1]
           /\ card'[Len(card)] = [frame |-> f, time |-> t]
<1> DEFINE e == [frame |-> f, time |-> t]
<1>1. /\ Scheduled \in Seq(Frame) /\ Len(Scheduled) = Len(card)
      /\ Len(card) \in Nat /\ \A i \in 1..Len(card) : Scheduled[i] = card[i].frame
  BY ScheduledIsQueue
<1>2. card \in Seq(Scheduling) /\ e \in Scheduling
  BY DEF TypeOK, Scheduling
<1>3. /\ Len(card) > 0 /\ Tail(card) \in Seq(Scheduling) /\ Len(Tail(card)) = Len(card) - 1
      /\ \A i \in 1..(Len(card) - 1) : Tail(card)[i] = card[i + 1]
      /\ Head(card) = card[1]
  BY <1>2, PopFacts
<1> HIDE DEF e
<1>4. card' = Append(Tail(card), e)
  BY DEF Schedule, e
<1>5. /\ Len(card') = Len(card)
      /\ \A i \in 1..(Len(card) - 1) : card'[i] = card[i + 1]
      /\ card'[Len(card)] = e
  BY <1>1, <1>2, <1>3, <1>4, PushFacts
<1>6. Scheduled # <<>> /\ Head(Scheduled) = Scheduled[1] /\ Scheduled[1] = card[1].frame
  BY <1>1, <1>3, PopFacts, EmptySeq
<1>7. /\ Tail(Scheduled) \in Seq(Frame) /\ Len(Tail(Scheduled)) = Len(card) - 1
      /\ \A i \in 1..(Len(card) - 1) : Tail(Scheduled)[i] = Scheduled[i + 1]
  BY <1>1, <1>6, PopFacts
<1>8. /\ Append(Tail(Scheduled), f) \in Seq(Frame)
      /\ Len(Append(Tail(Scheduled), f)) = Len(card)
      /\ \A i \in 1..(Len(card) - 1) : Append(Tail(Scheduled), f)[i] = Scheduled[i + 1]
      /\ Append(Tail(Scheduled), f)[Len(card)] = f
  BY <1>1, <1>3, <1>7, PushFacts
<1>9. /\ Scheduled' \in Seq(Frame) /\ Len(Scheduled') = Len(card)
      /\ \A i \in 1..Len(card) : Scheduled'[i] = card'[i].frame
  <2>1. /\ (Scheduled)' \in Seq(Frame) /\ Len((Scheduled)') = Len(card')
        /\ \A i \in 1..Len(card') : (Scheduled)'[i] = card'[i].frame
    <3>1. /\ Len(card') \in Nat /\ DOMAIN card' = 1..Len(card')
          /\ \A i \in 1..Len(card') : card'[i] \in [frame : Frame, time : Nat]
      BY RangeFacts DEF TypeOK
    <3>2. \A i \in 1..Len(card') : card'[i].frame \in Frame
      BY <3>1
    <3>3. Scheduled' \in [1..Len(card') -> Frame]
      BY <3>1, <3>2 DEF Scheduled
    <3> QED
      BY <3>1, <3>3, FunctionIsQueue DEF Scheduled
  <2> QED
    BY <1>5, <2>1
<1>10. e.frame = f
  BY DEF e
<1>11. ASSUME NEW i \in 1..Len(card)
       PROVE  Scheduled'[i] = Append(Tail(Scheduled), f)[i]
  <2>1. CASE i = Len(card)
    BY <1>5, <1>8, <1>9, <1>10, <2>1
  <2>2. CASE i # Len(card)
    <3>1. i \in 1..(Len(card) - 1) /\ i + 1 \in 1..Len(card)
      BY <1>1, <2>2
    <3> QED
      BY <1>1, <1>5, <1>8, <1>9, <3>1
  <2> QED
    BY <2>1, <2>2
<1>12. Scheduled' = Append(Tail(Scheduled), f)
  <2> DEFINE new == Scheduled'
             expected == Append(Tail(Scheduled), f)
  <2>1. /\ new \in Seq(Frame) /\ expected \in Seq(Frame) /\ Len(new) = Len(expected)
        /\ Len(new) = Len(card)
    BY <1>8, <1>9
  <2>2. \A i \in 1..Len(card) : new[i] = expected[i]
    BY <1>11
  <2> HIDE DEF new, expected
  <2>3. new = expected
    BY <2>1, <2>2, SeqEqual
  <2> QED
    BY <2>3 DEF new, expected
<1> QED
  BY <1>3, <1>5, <1>6, <1>12 DEF e

LEMMA FramesApartIsConserved == TypeOK /\ FramesApart => FramesConserved
<1> SUFFICES ASSUME TypeOK, FramesApart, built PROVE FramesConserved
  BY DEF FramesConserved
<1> DEFINE two == Scheduled \o _outputFrames
<1>1. Scheduled \in Seq(Frame) /\ _outputFrames \in Seq(Frame) /\ _completedFrames \in Seq(Frame)
  BY ScheduledIsQueue DEF TypeOK
<1>2. /\ two \in Seq(Frame) /\ Range(two) = Range(Scheduled) \cup Range(_outputFrames)
      /\ IsInjective(two)
  BY <1>1, ConcatFacts, ConcatProperties DEF FramesApart
<1> HIDE DEF two
<1>3. /\ Range(two) \cap Range(_completedFrames) = {}
      /\ Range(two) \cup Range(_completedFrames) = Frame
      /\ IsInjective(_completedFrames)
  BY <1>2 DEF FramesApart
<1>4. /\ Range(two \o _completedFrames) = Range(two) \cup Range(_completedFrames)
      /\ IsInjective(two \o _completedFrames)
  BY <1>1, <1>2, <1>3, ConcatFacts
<1> QED
  BY <1>3, <1>4 DEF two, FramesApart, FramesConserved

LEMMA FramesApartInit == Init => FramesApart
  BY DEF Init, FramesApart

\* A new Output has all frames, half of them on the card.
LEMMA OutputFrames ==
    ASSUME TypeOK, TypeOK', FramesApart, _cnt = 0, _cnt' = 1, Output
    PROVE  FramesApart'
<1>1. /\ card' = [i \in 1..Half |-> [frame |-> i, time |-> i - 1]]
      /\ _completedFrames' = [i \in 1..(Frames - Half) |-> Half + i]
      /\ built' /\ _outputFrames' = _outputFrames
  BY DEF Output
<1>2. _outputFrames' = <<>>
  BY <1>1 DEF FramesApart
<1>3. Half \in Nat /\ Frames - Half = Half /\ Frames = Half + Half
  BY HalfFacts
<1>4. /\ DOMAIN card' = 1..Half /\ DOMAIN (Scheduled') = 1..Half
      /\ \A i \in 1..Half : (Scheduled')[i] = i
  BY <1>1 DEF Scheduled
<1>5. /\ DOMAIN _completedFrames' = 1..Half
      /\ \A i \in 1..Half : _completedFrames'[i] = Half + i
  BY <1>1, <1>3
<1>6. Len(card') = Half /\ Len(_completedFrames') = Half /\ Len(_outputFrames') = 0
  <2>1. /\ Len(card') \in Nat /\ DOMAIN card' = 1..Len(card')
        /\ Len(_completedFrames') \in Nat /\ DOMAIN _completedFrames' = 1..Len(_completedFrames')
    BY RangeFacts DEF TypeOK
  <2> QED
    BY <1>2, <1>3, <1>4, <1>5, <2>1
<1>7. Range(Scheduled') = 1..Half /\ IsInjective(Scheduled')
  BY <1>4 DEF Range, IsInjective
<1>8. Range(_completedFrames') = (Half + 1)..Frames /\ IsInjective(_completedFrames')
  <2>1. IsInjective(_completedFrames')
    BY <1>3, <1>5 DEF IsInjective
  <2>2. ASSUME NEW x \in Range(_completedFrames') PROVE x \in (Half + 1)..Frames
    BY <1>3, <1>5 DEF Range
  <2>3. ASSUME NEW x \in (Half + 1)..Frames PROVE x \in Range(_completedFrames')
    <3>1. x - Half \in 1..Half /\ Half + (x - Half) = x
      BY <1>3
    <3> QED
      BY <1>5, <3>1 DEF Range
  <2> QED
    BY <2>1, <2>2, <2>3
<1>9. Range(_outputFrames') = {} /\ IsInjective(_outputFrames')
  BY <1>2, EmptyQueue
<1>10. 1..Half \cap (Half + 1)..Frames = {} /\ 1..Half \cup (Half + 1)..Frames = Frame
  BY <1>3 DEF Frame
<1>11. Len(_outputFrames') + Len(_completedFrames') = Half
  BY <1>3, <1>6
<1>12. _cnt' # 0 /\ Half > 0
  BY HalfFacts
<1>13. /\ IsInjective(Scheduled') /\ IsInjective(_outputFrames') /\ IsInjective(_completedFrames')
       /\ Range(Scheduled') \cap Range(_outputFrames') = {}
       /\ Range(Scheduled') \cap Range(_completedFrames') = {}
       /\ Range(_outputFrames') \cap Range(_completedFrames') = {}
       /\ Range(Scheduled') \cup Range(_outputFrames') \cup Range(_completedFrames') = Frame
  BY <1>7, <1>8, <1>9, <1>10
<1> QED
  BY <1>1, <1>6, <1>11, <1>12, <1>13 DEF FramesApart

\* setFrame moves a free frame to the waiting ones.
LEMMA setFrameFrames ==
    ASSUME TypeOK, FramesApart, setFrame, UNCHANGED device
    PROVE  FramesApart'
<1>1. CASE _completedFrames = <<>>
  BY <1>1 DEF setFrame, output, device, FramesApart, Scheduled
<1>2. CASE _completedFrames # <<>>
  <2> DEFINE f == Head(_completedFrames)
  <2>1. /\ _outputFrames' = Append(_outputFrames, f)
        /\ _completedFrames' = Tail(_completedFrames)
        /\ UNCHANGED <<card, built, outputs, _cnt>>
    BY <1>2 DEF setFrame, device
  <2>2. built
    BY <1>2 DEF FramesApart
  <2>3. _outputFrames \in Seq(Frame) /\ _completedFrames \in Seq(Frame)
    BY DEF TypeOK
  <2>4. /\ f \in Frame /\ f \in Range(_completedFrames)
        /\ Range(_completedFrames') = Range(_completedFrames) \ {f}
        /\ IsInjective(_completedFrames')
        /\ Len(_completedFrames') = Len(_completedFrames) - 1
    BY <1>2, <2>1, <2>2, <2>3, PopFacts, PopRange DEF FramesApart
  <2>5. f \notin Range(_outputFrames) /\ f \notin Range(Scheduled)
    BY <2>2, <2>4 DEF FramesApart
  <2> HIDE DEF f
  <2>6. /\ Range(_outputFrames') = Range(_outputFrames) \cup {f}
        /\ IsInjective(_outputFrames')
        /\ Len(_outputFrames') = Len(_outputFrames) + 1
    BY <2>1, <2>2, <2>3, <2>4, <2>5, PushFacts DEF FramesApart
  <2>7. Scheduled' = Scheduled
    BY <2>1 DEF Scheduled
  <2>8. Len(_outputFrames') + Len(_completedFrames') = Half
    <3>1. Len(_outputFrames) \in Nat /\ Len(_completedFrames) \in Nat
      BY <2>3, RangeFacts
    <3> QED
      BY <2>2, <2>4, <2>6, <3>1 DEF FramesApart
  <2> QED
    BY <2>1, <2>2, <2>4, <2>5, <2>6, <2>7, <2>8 DEF FramesApart
<1> QED
  BY <1>1, <1>2

\* The frame played is free, and a waiting frame or the oldest free one is scheduled.
LEMMA CompletedFrames ==
    ASSUME TypeOK, TypeOK', FramesApart, NEW late \in BOOLEAN, ScheduledFrameCompleted(late)
    PROVE  FramesApart'
<1> DEFINE played == Head(card).frame
<1>0. Time(late) \in Nat /\ card # <<>> /\ UNCHANGED <<built, outputs, _cnt>>
  BY TimeTyped DEF ScheduledFrameCompleted, CompletedRepeat, CompletedNext, device
<1>1. built
  BY <1>0 DEF FramesApart
<1>2. Scheduled \in Seq(Frame) /\ _outputFrames \in Seq(Frame) /\ _completedFrames \in Seq(Frame)
  BY ScheduledIsQueue DEF TypeOK
<1>3. ASSUME NEW f \in Frame, Schedule(f, Time(late)), f \notin Range(Scheduled) \/ f = played
      PROVE  /\ played \in Range(Scheduled) /\ played \in Frame
             /\ Range(Scheduled') = (Range(Scheduled) \ {played}) \cup {f}
             /\ IsInjective(Scheduled')
             /\ Len(card') = Len(card)
  <2>1. /\ Scheduled' = Append(Tail(Scheduled), f) /\ Scheduled # <<>>
        /\ Head(Scheduled) = played /\ Len(card') = Len(card)
    BY <1>0, <1>3, ScheduleFacts
  <2>2. /\ played \in Range(Scheduled) /\ played \in Frame
        /\ Range(Tail(Scheduled)) = Range(Scheduled) \ {played}
        /\ IsInjective(Tail(Scheduled)) /\ Tail(Scheduled) \in Seq(Frame)
    BY <1>1, <1>2, <2>1, PopFacts, PopRange DEF FramesApart
  <2>3. f \notin Range(Tail(Scheduled))
    BY <1>3, <2>2
  <2>4. /\ Range(Append(Tail(Scheduled), f)) = Range(Tail(Scheduled)) \cup {f}
        /\ IsInjective(Append(Tail(Scheduled), f))
    <3> DEFINE rest == Tail(Scheduled)
    <3>1. rest \in Seq(Frame) /\ IsInjective(rest) /\ f \notin Range(rest) /\ f \in Frame
      BY <1>3, <2>2, <2>3
    <3> HIDE DEF rest
    <3>2. Range(Append(rest, f)) = Range(rest) \cup {f} /\ IsInjective(Append(rest, f))
      BY <3>1, PushFacts
    <3> QED
      BY <3>2 DEF rest
  <2> QED
    BY <2>1, <2>2, <2>4
<1>4. CASE CompletedRepeat(late)
  <2> DEFINE free == Append(_completedFrames, played)
             f == Head(free)
  <2>1. /\ _completedFrames' = Tail(free) /\ Schedule(f, Time(late))
        /\ UNCHANGED _outputFrames
    BY <1>4 DEF CompletedRepeat
  <2>2. played \in Range(Scheduled) /\ played \in Frame
    <3>1. Scheduled # <<>> /\ Head(Scheduled) = played
      <4>1. /\ Len(Scheduled) = Len(card) /\ Len(card) \in Nat /\ DOMAIN card = 1..Len(card)
            /\ \A i \in 1..Len(card) : Scheduled[i] = card[i].frame
        BY ScheduledIsQueue
      <4>2. Len(card) > 0 /\ Head(card) = card[1]
        BY <1>0, PopFacts DEF TypeOK
      <4>3. Scheduled # <<>>
        BY <4>1, <4>2, EmptySeq
      <4> QED
        BY <1>2, <4>1, <4>2, <4>3, PopFacts
    <3> QED
      BY <1>2, <3>1, PopFacts
  <2>3. played \notin Range(_completedFrames) /\ played \notin Range(_outputFrames)
    BY <1>1, <2>2 DEF FramesApart
  <2> HIDE DEF played
  <2>4. /\ free \in Seq(Frame) /\ free # <<>> /\ IsInjective(free)
        /\ Range(free) = Range(_completedFrames) \cup {played}
        /\ Len(free) = Len(_completedFrames) + 1
    BY <1>1, <1>2, <2>2, <2>3, PushFacts DEF FramesApart
  <2> HIDE DEF free
  <2>5. /\ f \in Frame /\ f \in Range(free) /\ IsInjective(_completedFrames')
        /\ Range(_completedFrames') = Range(free) \ {f}
        /\ Len(_completedFrames') = Len(free) - 1
    BY <2>1, <2>4, PopFacts, PopRange
  <2>6. f \notin Range(Scheduled) \/ f = played
    BY <1>1, <2>4, <2>5 DEF FramesApart
  <2> HIDE DEF f
  <2>7. /\ Range(Scheduled') = (Range(Scheduled) \ {played}) \cup {f}
        /\ IsInjective(Scheduled') /\ Len(card') = Len(card)
    BY <1>3, <2>1, <2>5, <2>6 DEF played
  <2>8. Len(_outputFrames') + Len(_completedFrames') = Half
    <3>1. Len(_outputFrames) \in Nat /\ Len(_completedFrames) \in Nat
      BY <1>2, RangeFacts
    <3> QED
      BY <1>1, <2>1, <2>4, <2>5, <3>1 DEF FramesApart
  <2>9. /\ IsInjective(_outputFrames')
        /\ Range(Scheduled') \cap Range(_outputFrames') = {}
        /\ Range(Scheduled') \cap Range(_completedFrames') = {}
        /\ Range(_outputFrames') \cap Range(_completedFrames') = {}
    BY <1>1, <2>1, <2>2, <2>3, <2>4, <2>5, <2>7 DEF FramesApart
  <2>10. Range(Scheduled') \cup Range(_outputFrames') \cup Range(_completedFrames') = Frame
    BY <1>1, <2>1, <2>2, <2>4, <2>5, <2>7 DEF FramesApart
  <2> QED
    BY <1>0, <1>1, <2>5, <2>7, <2>8, <2>9, <2>10 DEF FramesApart
<1>5. CASE CompletedNext(late)
  <2> DEFINE f == Head(_outputFrames)
  <2>1. /\ _outputFrames # <<>> /\ _outputFrames' = Tail(_outputFrames)
        /\ _completedFrames' = Append(_completedFrames, played) /\ Schedule(f, Time(late))
    BY <1>5 DEF CompletedNext
  <2>2. /\ f \in Frame /\ f \in Range(_outputFrames) /\ IsInjective(_outputFrames')
        /\ Range(_outputFrames') = Range(_outputFrames) \ {f}
        /\ Len(_outputFrames') = Len(_outputFrames) - 1
    BY <1>1, <1>2, <2>1, PopFacts, PopRange DEF FramesApart
  <2>3. f \notin Range(Scheduled) /\ f \notin Range(_completedFrames)
    BY <1>1, <2>2 DEF FramesApart
  <2> HIDE DEF f
  <2>4. /\ played \in Range(Scheduled) /\ played \in Frame
        /\ Range(Scheduled') = (Range(Scheduled) \ {played}) \cup {f}
        /\ IsInjective(Scheduled') /\ Len(card') = Len(card)
    BY <1>3, <2>1, <2>2, <2>3
  <2>5. played \notin Range(_completedFrames) /\ played \notin Range(_outputFrames)
    BY <1>1, <2>4 DEF FramesApart
  <2> HIDE DEF played
  <2>6. /\ IsInjective(_completedFrames')
        /\ Range(_completedFrames') = Range(_completedFrames) \cup {played}
        /\ Len(_completedFrames') = Len(_completedFrames) + 1
    BY <1>1, <1>2, <2>1, <2>4, <2>5, PushFacts DEF FramesApart
  <2>7. Len(_outputFrames') + Len(_completedFrames') = Half
    <3>1. Len(_outputFrames) \in Nat /\ Len(_completedFrames) \in Nat
      BY <1>2, RangeFacts
    <3> QED
      BY <1>1, <2>2, <2>6, <3>1 DEF FramesApart
  <2>8. /\ Range(Scheduled') \cap Range(_outputFrames') = {}
        /\ Range(Scheduled') \cap Range(_completedFrames') = {}
        /\ Range(_outputFrames') \cap Range(_completedFrames') = {}
    BY <1>1, <2>2, <2>3, <2>4, <2>5, <2>6 DEF FramesApart
  <2>9. Range(Scheduled') \cup Range(_outputFrames') \cup Range(_completedFrames') = Frame
    BY <1>1, <2>2, <2>4, <2>6 DEF FramesApart
  <2> QED
    BY <1>0, <1>1, <2>2, <2>4, <2>6, <2>7, <2>8, <2>9 DEF FramesApart
<1> QED
  BY <1>4, <1>5 DEF ScheduledFrameCompleted

\* No step loses a frame or gives it two roles.
LEMMA FramesStep == TypeOK /\ TypeOK' /\ FramesApart /\ [Next]_vars => FramesApart'
<1> SUFFICES ASSUME TypeOK, TypeOK', FramesApart, [Next]_vars PROVE FramesApart'
  OBVIOUS
<1> USE DEF pipeline, device, process
<1>a. ASSUME UNCHANGED <<output, built, _cnt>>, outputs' = 1 => built
      PROVE  FramesApart'
  <2>1. UNCHANGED <<card, _outputFrames, _completedFrames, built, _cnt>>
    BY <1>a DEF output
  <2>2. Scheduled' = Scheduled
    BY <2>1 DEF Scheduled
  <2>3. ~built => outputs' = 0
    BY <1>a DEF TypeOK
  <2> QED
    BY <2>1, <2>2, <2>3 DEF FramesApart
<1>1. CASE DeckLinkDeviceArrived
  <2>1. CASE _cnt = 0
    BY <1>1, <2>1, OutputFrames DEF DeckLinkDeviceArrived
  <2>2. CASE _cnt # 0
    <3>1. /\ UNCHANGED <<card, _outputFrames, _completedFrames, built, outputs>>
          /\ _cnt' = _cnt + 1 /\ built
      BY <1>1, <2>2 DEF DeckLinkDeviceArrived, output, FramesApart
    <3>2. Scheduled' = Scheduled /\ _cnt' # 0
      BY <3>1 DEF Scheduled, TypeOK
    <3> QED
      BY <3>1, <3>2 DEF FramesApart
  <2> QED
    BY <2>1, <2>2
<1>2. CASE DeckLinkDeviceRemoved
  BY <1>a, <1>2 DEF DeckLinkDeviceRemoved
<1>3. CASE StartPipeline \/ audioInit
  <2>1. UNCHANGED <<output, built, _cnt, outputs>>
    BY <1>3 DEF StartPipeline, audioInit
  <2> QED
    BY <1>a, <2>1 DEF FramesApart
<1>4. CASE AddFrame
  <2>1. UNCHANGED <<output, built, _cnt, outputs>>
    BY <1>4 DEF AddFrame, AddFrameTorn, AddFrameDrop, AddFrameBegin, AddFrameEnd
  <2> QED
    BY <1>a, <2>1 DEF FramesApart
<1>5. CASE ServiceStart \/ ServiceTake \/ ServicePushBegin \/ ServicePushEnd
  <2>1. UNCHANGED <<output, built, _cnt, outputs>>
    BY <1>5 DEF ServiceStart, ServiceTake, ServicePushBegin, ServicePushEnd
  <2> QED
    BY <1>a, <2>1 DEF FramesApart
<1>6. CASE ServiceSet
  <2>1. CASE outputs = 0
    <3>1. UNCHANGED <<output, built, _cnt, outputs>>
      BY <1>6, <2>1 DEF ServiceSet
    <3> QED
      BY <1>a, <3>1 DEF FramesApart
  <2>2. CASE outputs # 0
    BY <1>6, <2>2, setFrameFrames DEF ServiceSet
  <2> QED
    BY <2>1, <2>2
<1>7. ASSUME NEW late \in BOOLEAN, ScheduledFrameCompleted(late)
      PROVE  FramesApart'
  BY <1>7, CompletedFrames
<1>8. CASE UNCHANGED vars
  <2>1. UNCHANGED <<output, built, _cnt, outputs>>
    BY <1>8 DEF vars
  <2> QED
    BY <1>a, <2>1 DEF FramesApart
<1> QED
  BY <1>1, <1>2, <1>3, <1>4, <1>5, <1>6, <1>7, <1>8 DEF Next, Service

LEMMA FramesApartCorrect == Spec => [](TypeOK /\ FramesApart)
<1>1. Init => TypeOK /\ FramesApart
  BY TypedInit, FramesApartInit
<1>2. (TypeOK /\ FramesApart) /\ [Next]_vars => (TypeOK /\ FramesApart)'
  BY TypedStep, FramesStep
<1> QED
  BY <1>1, <1>2, PTL DEF Spec

\* No picture is written into a frame the card may play, no frame is lost, and the
\* card always has half of them to play.
THEOREM FramesCorrect == Spec => []FramesConserved
<1>1. TypeOK /\ FramesApart => FramesConserved
  BY FramesApartIsConserved
<1> QED
  BY <1>1, FramesApartCorrect, PTL

----------------------------------------------------------------------------
(* Times.                                                                   *)

\* The frame scheduled is after all others, however many were skipped.
LEMMA CompletedTimes ==
    ASSUME TypeOK, TypeOK', TimesIncrease, NEW late \in BOOLEAN, ScheduledFrameCompleted(late)
    PROVE  TimesIncrease'
<1>1. PICK f \in Frame : Schedule(f, Time(late))
  <2>1. CASE CompletedRepeat(late)
    <3> DEFINE free == Append(_completedFrames, Head(card).frame)
    <3>1. Head(card).frame \in Frame
      BY <2>1, PopFacts DEF CompletedRepeat, TypeOK
    <3>2. Schedule(Head(free), Time(late))
      BY <2>1 DEF CompletedRepeat
    <3>3. _completedFrames \in Seq(Frame)
      BY DEF TypeOK
    <3>4. free \in Seq(Frame) /\ free # <<>>
      BY <3>1, <3>3, PushFacts
    <3> HIDE DEF free
    <3> QED
      BY <3>2, <3>4, PopFacts
  <2>2. CASE CompletedNext(late)
    BY <2>2, PopFacts DEF CompletedNext, TypeOK
  <2> QED
    BY <2>1, <2>2 DEF ScheduledFrameCompleted
<1>2. /\ Time(late) \in Nat /\ card # <<>>
      /\ _totalFramesScheduled' = Time(late) + 1
  BY TimeTyped DEF ScheduledFrameCompleted, CompletedRepeat, CompletedNext
<1>3. /\ _totalFramesScheduled \in Nat /\ Time(late) >= _totalFramesScheduled
  BY DEF Time, TypeOK
<1> DEFINE n == Len(card)
<1>4. /\ n \in Nat /\ n > 0 /\ DOMAIN card = 1..n /\ DOMAIN card' = 1..n
      /\ \A i \in 1..(n - 1) : card'[i] = card[i + 1]
      /\ card'[n].time = Time(late)
  <2>1. /\ Len(card') = Len(card) /\ Len(card) > 0
        /\ \A i \in 1..(Len(card) - 1) : card'[i] = card[i + 1]
        /\ card'[Len(card)] = [frame |-> f, time |-> Time(late)]
    BY <1>1, <1>2, ScheduleFacts
  <2>2. /\ Len(card) \in Nat /\ DOMAIN card = 1..Len(card)
        /\ DOMAIN card' = 1..Len(card')
    BY RangeFacts DEF TypeOK
  <2> QED
    BY <2>1, <2>2
<1>5. /\ \A i \in 1..n : card[i].time \in Nat /\ card[i].time < _totalFramesScheduled
      /\ \A i, j \in 1..n : i < j => card[i].time < card[j].time
  <2>1. \A i \in 1..n : card[i] \in [frame : Frame, time : Nat]
    BY RangeFacts DEF TypeOK
  <2> QED
    BY <1>4, <2>1 DEF TimesIncrease
<1> HIDE DEF n
<1>6. ASSUME NEW i \in 1..n
      PROVE  card'[i].time \in Nat /\ card'[i].time <= Time(late)
  <2>1. CASE i = n
    BY <1>2, <1>4, <2>1
  <2>2. CASE i # n
    <3>1. i \in 1..(n - 1) /\ i + 1 \in 1..n
      BY <1>4, <2>2
    <3>2. card'[i].time = card[i + 1].time
      BY <1>4, <3>1
    <3>3. card[i + 1].time \in Nat /\ card[i + 1].time < _totalFramesScheduled
      BY <1>5, <3>1
    <3> QED
      BY <1>2, <1>3, <3>2, <3>3
  <2> QED
    BY <2>1, <2>2
<1>7. ASSUME NEW i \in 1..n, NEW j \in 1..n, i < j
      PROVE  card'[i].time < card'[j].time
  <2>1. i \in 1..(n - 1) /\ i + 1 \in 1..n /\ card'[i].time = card[i + 1].time
    BY <1>4, <1>7
  <2>2. CASE j = n
    <3>1. card[i + 1].time \in Nat /\ card[i + 1].time < _totalFramesScheduled
      BY <1>5, <2>1
    <3> QED
      BY <1>2, <1>3, <1>4, <2>1, <2>2, <3>1
  <2>3. CASE j # n
    <3>1. j \in 1..(n - 1) /\ j + 1 \in 1..n /\ i + 1 < j + 1
      BY <1>4, <1>7, <2>3
    <3>2. card'[j].time = card[j + 1].time
      BY <1>4, <3>1
    <3> QED
      BY <1>5, <2>1, <3>1, <3>2
  <2> QED
    BY <2>2, <2>3
<1>8. \A i \in 1..n : card'[i].time < _totalFramesScheduled'
  BY <1>2, <1>6
<1> QED
  BY <1>4, <1>7, <1>8 DEF TimesIncrease

\* Only the first arrival and the completions schedule.
LEMMA TimesStep == TypeOK /\ TypeOK' /\ TimesIncrease /\ [Next]_vars => TimesIncrease'
<1> SUFFICES ASSUME TypeOK, TypeOK', TimesIncrease, [Next]_vars PROVE TimesIncrease'
  OBVIOUS
<1>a. UNCHANGED <<card, _totalFramesScheduled>> => TimesIncrease'
  BY DEF TimesIncrease
<1>1. CASE DeckLinkDeviceArrived
  <2>1. CASE _cnt = 0
    <3>1. /\ card' = [i \in 1..Half |-> [frame |-> i, time |-> i - 1]]
          /\ _totalFramesScheduled' = Frames
      BY <1>1, <2>1 DEF DeckLinkDeviceArrived, Output
    <3>2. /\ DOMAIN card' = 1..Half
          /\ \A i \in 1..Half : card'[i].time = i - 1
      BY <3>1
    <3>3. \A i \in 1..Half : i - 1 < Frames
      BY HalfFacts
    <3>4. \A i, j \in 1..Half : i < j => i - 1 < j - 1
      BY HalfFacts
    <3> QED
      BY <3>1, <3>2, <3>3, <3>4 DEF TimesIncrease
  <2>2. CASE _cnt # 0
    BY <1>a, <1>1, <2>2 DEF DeckLinkDeviceArrived, output
  <2> QED
    BY <2>1, <2>2
<1>2. CASE DeckLinkDeviceRemoved \/ StartPipeline \/ audioInit
  BY <1>a, <1>2 DEF DeckLinkDeviceRemoved, StartPipeline, audioInit, output
<1>3. CASE AddFrame
  BY <1>a, <1>3 DEF AddFrame, AddFrameTorn, AddFrameDrop, AddFrameBegin, AddFrameEnd, output
<1>4. CASE Service
  BY <1>a, <1>4 DEF Service, ServiceStart, ServiceTake, ServiceSet, setFrame,
                    ServicePushBegin, ServicePushEnd, output
<1>5. ASSUME NEW late \in BOOLEAN, ScheduledFrameCompleted(late)
      PROVE  TimesIncrease'
  BY <1>5, CompletedTimes
<1>6. CASE UNCHANGED vars
  BY <1>a, <1>6 DEF vars, output
<1> QED
  BY <1>1, <1>2, <1>3, <1>4, <1>5, <1>6 DEF Next

\* Frames are scheduled at increasing times, none twice and none before another,
\* however many were late.
THEOREM TimesCorrect == Spec => []TimesIncrease
<1>1. Init => TimesIncrease
  BY DEF Init, TimesIncrease
<1>2. TypeOK /\ TypeOK' /\ TimesIncrease /\ [Next]_vars => TimesIncrease'
  BY TimesStep
<1>3. Spec => []TypeOK
  BY TypeCorrect
<1> QED
  BY <1>1, <1>2, <1>3, PTL DEF Spec

----------------------------------------------------------------------------
(* The output implements RepeatingFifo.                                     *)

Waiting == Mapped(bytes, _outputFrames)
Playing == IF built THEN Mapped(bytes, Scheduled) ELSE [i \in 1..Half |-> White]

\* The picture that is repeated is the one in the last frame on the card.
LastKept ==
    /\ built => _lastFrame = bytes[Scheduled[Half]]
    /\ ~built => bytes = [f \in Frame |-> White] /\ _lastFrame = White

OInv == TypeOK /\ FramesApart /\ LastKept

\* The mapping of RepeatingFifo, named.
LEMMA SdiMapping ==
    ASSUME TypeOK
    PROVE  /\ Waiting = [i \in DOMAIN _outputFrames |-> bytes[_outputFrames[i]]]
           /\ Playing = IF built THEN [i \in DOMAIN card |-> bytes[card[i].frame]]
                                 ELSE [i \in 1..Half |-> White]
<1>1. DOMAIN Scheduled = DOMAIN card /\ \A i \in DOMAIN card : Scheduled[i] = card[i].frame
  BY DEF Scheduled
<1>2. Mapped(bytes, Scheduled) = [i \in DOMAIN card |-> bytes[card[i].frame]]
  BY <1>1 DEF Mapped
<1> QED
  BY <1>2 DEF Waiting, Playing, Mapped

\* An Output starts with white frames, as RepeatingFifo does.
LEMMA OutputRefines ==
    ASSUME OInv, _cnt = 0, Output
    PROVE  Waiting' = Waiting /\ Playing' = Playing
<1>1. ~built /\ built' /\ bytes' = bytes /\ UNCHANGED _outputFrames
  BY DEF Output, OInv, FramesApart
<1>2. /\ DOMAIN card' = 1..Half
      /\ \A i \in 1..Half : card'[i].frame = i
  BY DEF Output
<1>3. DOMAIN Scheduled' = 1..Half /\ \A i \in 1..Half : (Scheduled')[i] \in Frame
  BY <1>2, HalfFacts DEF Scheduled, Frame
<1>4. \A f \in Frame : bytes'[f] = White
  BY <1>1 DEF OInv, LastKept
<1>5. Mapped(bytes', Scheduled') = [i \in 1..Half |-> White]
  BY <1>3, <1>4 DEF Mapped
<1>6. Waiting' = Waiting
  BY <1>1 DEF Waiting, Mapped
<1>7. Playing' = Mapped(bytes', Scheduled') /\ Playing = [i \in 1..Half |-> White]
  BY <1>1 DEF Playing, Mapped, Scheduled
<1> QED
  BY <1>5, <1>6, <1>7

LEMMA OutputKeeps ==
    ASSUME OInv, TypeOK', _cnt = 0, Output
    PROVE  LastKept'
<1>1. built' /\ bytes' = bytes /\ _lastFrame' = _lastFrame /\ ~built
  BY DEF Output, OInv, FramesApart
<1>2. bytes = [f \in Frame |-> White] /\ _lastFrame = White
  BY <1>1 DEF OInv, LastKept
<1>3. Half \in 1..Half /\ Half \in Frame
  BY HalfFacts DEF Frame
<1>4. card' = [i \in 1..Half |-> [frame |-> i, time |-> i - 1]]
  BY DEF Output
<1>5. (Scheduled')[Half] = Half
  BY <1>3, <1>4 DEF Scheduled
<1>6. bytes'[Half] = White
  BY <1>1, <1>2, <1>3
<1> QED
  BY <1>1, <1>2, <1>5, <1>6 DEF LastKept

\* A picture that finds a free frame is accepted; no other frame changes.
LEMMA setFrameRefines ==
    ASSUME OInv, setFrame, service = "set", _completedFrames # <<>>, UNCHANGED device
    PROVE  /\ Waiting' = Append(Waiting, pixels[pframe])
           /\ Playing' = Playing
           /\ pixels[pframe] \in 0..MaxPictures
           /\ Len(Waiting) < Half
           /\ LastKept'
<1> DEFINE f == Head(_completedFrames)
           p == pixels[pframe]
<1>1. /\ _outputFrames' = Append(_outputFrames, f)
      /\ _completedFrames' = Tail(_completedFrames)
      /\ bytes' = [bytes EXCEPT ![f] = p]
      /\ UNCHANGED <<card, _lastFrame, built>>
  BY DEF setFrame, device
<1>2. built
  BY DEF OInv, FramesApart
<1>3. /\ _outputFrames \in Seq(Frame) /\ _completedFrames \in Seq(Frame)
      /\ bytes \in [Frame -> 0..MaxPictures] /\ Scheduled \in Seq(Frame)
      /\ Len(Scheduled) = Len(card)
  BY ScheduledIsQueue DEF OInv, TypeOK
<1>4. f \in Frame /\ f \in Range(_completedFrames) /\ Len(_completedFrames) \in Nat \ {0}
  BY <1>3, PopFacts
<1>5. f \notin Range(_outputFrames) /\ f \notin Range(Scheduled)
  BY <1>2, <1>4 DEF OInv, FramesApart
<1>6. p \in 0..MaxPictures
  <2>1. pframe \in Buffer
    BY BuffersAssumption DEF OInv, TypeOK, NoBuffer, Buffer
  <2> QED
    BY <2>1 DEF OInv, TypeOK
<1> HIDE DEF f, p
<1>7. Scheduled' = Scheduled
  BY <1>1 DEF Scheduled
<1>8. Mapped(bytes', _outputFrames) = Mapped(bytes, _outputFrames)
  BY <1>1, <1>3, <1>5, MappedWrite
<1>9. Mapped(bytes', Scheduled) = Mapped(bytes, Scheduled)
  BY <1>1, <1>3, <1>5, MappedWrite
<1>10. Mapped(bytes', Append(_outputFrames, f)) = Append(Mapped(bytes', _outputFrames), bytes'[f])
  BY <1>3, <1>4, MappedPush
<1>11. bytes'[f] = p
  BY <1>1, <1>3, <1>4
<1>12. Waiting' = Append(Waiting, p)
  BY <1>1, <1>8, <1>10, <1>11 DEF Waiting
<1>13. Playing' = Playing
  BY <1>1, <1>2, <1>7, <1>9 DEF Playing
<1>14. Len(Waiting) < Half
  <2>1. Len(Waiting) = Len(_outputFrames)
    BY <1>3, MappedFacts DEF Waiting
  <2>2. Len(_outputFrames) + Len(_completedFrames) = Half /\ Len(_outputFrames) \in Nat
    BY <1>2, <1>3, RangeFacts DEF OInv, FramesApart
  <2> QED
    BY <1>4, <2>1, <2>2
<1>15. LastKept'
  <2>1. Half \in 1..Len(Scheduled)
    BY <1>2, <1>3, HalfFacts DEF OInv, FramesApart
  <2>2. Scheduled[Half] \in Frame /\ Scheduled[Half] \in Range(Scheduled)
    BY <1>3, <2>1, RangeFacts
  <2>3. bytes'[Scheduled[Half]] = bytes[Scheduled[Half]]
    BY <1>1, <1>3, <1>5, <2>2
  <2> QED
    BY <1>1, <1>2, <1>7, <2>3 DEF LastKept, OInv
<1> QED
  BY <1>6, <1>12, <1>13, <1>14, <1>15 DEF p

\* What a completion does to the frames on the card, seen through their pictures.
LEMMA ScheduleRefines ==
    ASSUME OInv, TypeOK', built, built', NEW f \in Frame, NEW t \in Nat, Schedule(f, t),
           \A x \in Range(Tail(Scheduled)) : bytes'[x] = bytes[x]
    PROVE  /\ Playing' = Append(Tail(Playing), bytes'[f])
           /\ (Scheduled')[Half] = f
<1>1. /\ Scheduled \in Seq(Frame) /\ Len(Scheduled) = Half /\ Len(card) = Half
  BY ScheduledIsQueue DEF OInv, FramesApart
<1>2. Scheduled # <<>> /\ card # <<>>
  BY <1>1, HalfFacts, EmptySeq
<1>3. Scheduled' = Append(Tail(Scheduled), f)
  BY <1>2, ScheduleFacts DEF OInv
<1> DEFINE rest == Tail(Scheduled)
<1>4. rest \in Seq(Frame) /\ Len(rest) = Half - 1
  BY <1>1, <1>2, PopFacts
<1>5. Mapped(bytes, rest) = Tail(Mapped(bytes, Scheduled))
  BY <1>1, <1>2, MappedPop
<1> HIDE DEF rest
<1>6. Mapped(bytes', rest) = Mapped(bytes, rest)
  <2>1. \A i \in DOMAIN rest : rest[i] \in Range(rest)
    BY DEF Range
  <2>2. \A i \in DOMAIN rest : bytes'[rest[i]] = bytes[rest[i]]
    BY <2>1 DEF rest
  <2> QED
    BY <2>2 DEF Mapped
<1>7. Mapped(bytes', Append(rest, f)) = Append(Mapped(bytes', rest), bytes'[f])
  BY <1>4, MappedPush
<1>8. Append(rest, f)[Half] = f
  BY <1>4, HalfFacts, PushFacts
<1>9. Playing' = Mapped(bytes', Append(rest, f)) /\ Playing = Mapped(bytes, Scheduled)
  BY <1>3 DEF Playing, rest
<1>10. Playing' = Append(Tail(Playing), bytes'[f])
  BY <1>5, <1>6, <1>7, <1>9
<1> QED
  BY <1>3, <1>8, <1>10 DEF rest

\* Nothing waits: the last picture is written into a frame that is not played and
\* scheduled again.
LEMMA RepeatRefines ==
    ASSUME OInv, TypeOK', NEW late \in BOOLEAN, CompletedRepeat(late)
    PROVE  /\ Waiting = <<>> /\ Waiting' = Waiting
           /\ Playing' = Append(Tail(Playing), Playing[Len(Playing)])
           /\ LastKept'
<1> DEFINE free == Append(_completedFrames, Head(card).frame)
           f == Head(free)
<1>1. /\ card # <<>> /\ _outputFrames = <<>> /\ UNCHANGED <<_outputFrames, _lastFrame, built>>
      /\ bytes' = [bytes EXCEPT ![f] = _lastFrame]
      /\ Schedule(f, Time(late)) /\ Time(late) \in Nat
  BY TimeTyped DEF CompletedRepeat, device, OInv
<1>2. built /\ built'
  BY <1>1 DEF OInv, FramesApart
<1>3. /\ Scheduled \in Seq(Frame) /\ Len(Scheduled) = Half /\ Len(card) = Half
      /\ \A i \in 1..Half : Scheduled[i] = card[i].frame
      /\ _completedFrames \in Seq(Frame)
  BY <1>2, ScheduledIsQueue DEF OInv, FramesApart, TypeOK
<1>4. Scheduled # <<>> /\ Half \in 1..Half /\ 1 \in 1..Half
  BY <1>3, HalfFacts, EmptySeq
<1>5. Head(card).frame = Head(Scheduled)
  <2>1. Head(card) = card[1] /\ Head(Scheduled) = Scheduled[1]
    BY <1>1, <1>3, <1>4, PopFacts DEF OInv, TypeOK
  <2> QED
    BY <1>3, <1>4, <2>1
<1>6. /\ Head(Scheduled) \in Frame /\ Head(Scheduled) \in Range(Scheduled)
      /\ Head(Scheduled) \notin Range(Tail(Scheduled))
      /\ Range(Tail(Scheduled)) \subseteq Range(Scheduled)
  BY <1>2, <1>3, <1>4, PopFacts DEF OInv, FramesApart
<1>7. /\ free \in Seq(Frame) /\ free # <<>>
      /\ Range(free) = Range(_completedFrames) \cup {Head(Scheduled)}
  BY <1>3, <1>5, <1>6, PushFacts
<1> HIDE DEF free
<1>8. f \in Frame /\ f \in Range(free)
  BY <1>7, PopFacts
<1> HIDE DEF f
<1>9. f \notin Range(Tail(Scheduled))
  BY <1>2, <1>6, <1>7, <1>8 DEF OInv, FramesApart
<1>10. bytes \in [Frame -> 0..MaxPictures]
  BY DEF OInv, TypeOK
<1>11. bytes'[f] = _lastFrame /\ \A x \in Range(Tail(Scheduled)) : bytes'[x] = bytes[x]
  <2>1. Range(Tail(Scheduled)) \subseteq Frame
    BY <1>3, <1>4, PopFacts, RangeFacts
  <2> QED
    BY <1>1, <1>8, <1>9, <1>10, <2>1
<1>12. Playing' = Append(Tail(Playing), bytes'[f]) /\ (Scheduled')[Half] = f
  BY <1>1, <1>2, <1>8, <1>11, ScheduleRefines
<1>13. Playing[Len(Playing)] = _lastFrame
  <2>1. Playing = Mapped(bytes, Scheduled)
    BY <1>2 DEF Playing
  <2>2. Len(Playing) = Half
    BY <1>3, <2>1, MappedFacts
  <2>3. Playing[Half] = bytes[Scheduled[Half]]
    BY <1>3, <1>4, <2>1, MappedAt
  <2> QED
    BY <1>2, <2>2, <2>3 DEF OInv, LastKept
<1>14. Waiting = <<>> /\ Waiting' = <<>>
  <2>1. DOMAIN _outputFrames = {} /\ DOMAIN _outputFrames' = {}
    BY <1>1
  <2>2. \A h : Mapped(h, <<>>) = <<>>
    BY DEF Mapped
  <2> QED
    BY <1>1, <2>2 DEF Waiting
<1>15. LastKept'
  BY <1>1, <1>2, <1>11, <1>12 DEF LastKept
<1> QED
  BY <1>11, <1>12, <1>13, <1>14, <1>15

\* The oldest picture that waits is scheduled and becomes the last one.
LEMMA NextRefines ==
    ASSUME OInv, TypeOK', NEW late \in BOOLEAN, CompletedNext(late)
    PROVE  /\ Waiting # <<>> /\ Waiting' = Tail(Waiting)
           /\ Playing' = Append(Tail(Playing), Head(Waiting))
           /\ LastKept'
<1> DEFINE f == Head(_outputFrames)
<1>1. /\ card # <<>> /\ _outputFrames # <<>> /\ _outputFrames' = Tail(_outputFrames)
      /\ _lastFrame' = bytes[f] /\ UNCHANGED <<bytes, built>>
      /\ Schedule(f, Time(late)) /\ Time(late) \in Nat
  BY TimeTyped DEF CompletedNext, device, OInv
<1>2. built /\ built'
  BY <1>1 DEF OInv, FramesApart
<1>3. _outputFrames \in Seq(Frame)
  BY DEF OInv, TypeOK
<1>4. f \in Frame
  BY <1>1, <1>3, PopFacts
<1>5. /\ Waiting # <<>> /\ Head(Waiting) = bytes[f]
      /\ Mapped(bytes, Tail(_outputFrames)) = Tail(Waiting)
  BY <1>1, <1>3, MappedPop DEF Waiting
<1> HIDE DEF f
<1>6. Waiting' = Tail(Waiting)
  BY <1>1, <1>5 DEF Waiting
<1>7. Playing' = Append(Tail(Playing), bytes'[f]) /\ (Scheduled')[Half] = f
  BY <1>1, <1>2, <1>4, ScheduleRefines
<1>8. LastKept'
  BY <1>1, <1>2, <1>7 DEF LastKept
<1> QED
  BY <1>1, <1>5, <1>6, <1>7, <1>8

LEMMA LastKeptInit == Init => LastKept
  BY DEF Init, LastKept, White

LEMMA SdiInit == Init => Sdi!Init
<1> SUFFICES ASSUME Init PROVE Sdi!Init
  OBVIOUS
<1>1. Waiting = <<>>
  BY DEF Init, Waiting, Mapped
<1>2. Playing = [i \in 1..Half |-> White]
  BY DEF Init, Playing
<1>3. /\ Waiting = [i \in DOMAIN _outputFrames |-> bytes[_outputFrames[i]]]
      /\ Playing = IF built THEN [i \in DOMAIN card |-> bytes[card[i].frame]]
                            ELSE [i \in 1..Half |-> White]
  BY TypedInit, SdiMapping
<1> QED
  BY <1>1, <1>2, <1>3 DEF Sdi!Init

\* Every step keeps LastKept and is a step of RepeatingFifo, seen through Waiting
\* and Playing.
LEMMA SdiMoves ==
    ASSUME OInv, TypeOK', [Next]_vars
    PROVE  /\ LastKept'
           /\ \/ Waiting' = Waiting /\ Playing' = Playing
              \/ /\ \E p \in 0..MaxPictures : Waiting' = Append(Waiting, p)
                 /\ Len(Waiting) < Half /\ Playing' = Playing
              \/ /\ Waiting # <<>> /\ Waiting' = Tail(Waiting)
                 /\ Playing' = Append(Tail(Playing), Head(Waiting))
              \/ /\ Waiting = <<>> /\ Waiting' = Waiting
                 /\ Playing' = Append(Tail(Playing), Playing[Len(Playing)])
<1>a. ASSUME UNCHANGED <<output, built>>
      PROVE  LastKept' /\ Waiting' = Waiting /\ Playing' = Playing
  <2>1. /\ UNCHANGED <<card, _outputFrames, bytes, _lastFrame, built>>
    BY <1>a DEF output
  <2>2. Scheduled' = Scheduled
    BY <2>1 DEF Scheduled
  <2>3. LastKept'
    BY <2>1, <2>2 DEF OInv, LastKept
  <2>4. Waiting' = Waiting /\ Playing' = Playing
    BY <2>1, <2>2 DEF Waiting, Playing
  <2> QED
    BY <2>3, <2>4
<1>1. CASE DeckLinkDeviceArrived
  <2>1. CASE _cnt = 0
    <3>1. Output
      BY <1>1, <2>1 DEF DeckLinkDeviceArrived
    <3> QED
      BY <2>1, <3>1, OutputRefines, OutputKeeps
  <2>2. CASE _cnt # 0
    BY <1>a, <1>1, <2>2 DEF DeckLinkDeviceArrived
  <2> QED
    BY <2>1, <2>2
<1>2. CASE DeckLinkDeviceRemoved \/ StartPipeline \/ audioInit
  <2>1. UNCHANGED <<output, built>>
    BY <1>2 DEF DeckLinkDeviceRemoved, StartPipeline, audioInit, device
  <2> QED
    BY <1>a, <2>1
<1>3. CASE AddFrame
  <2>1. UNCHANGED <<output, built>>
    BY <1>3 DEF AddFrame, AddFrameTorn, AddFrameDrop, AddFrameBegin, AddFrameEnd, device
  <2> QED
    BY <1>a, <2>1
<1>4. CASE ServiceStart \/ ServiceTake \/ ServicePushBegin \/ ServicePushEnd
  <2>1. UNCHANGED <<output, built>>
    BY <1>4 DEF ServiceStart, ServiceTake, ServicePushBegin, ServicePushEnd, device
  <2> QED
    BY <1>a, <2>1
<1>5. CASE ServiceSet
  <2>1. UNCHANGED device /\ service = "set"
    BY <1>5 DEF ServiceSet
  <2>2. CASE outputs = 0 \/ _completedFrames = <<>>
    <3>1. UNCHANGED <<output, built>>
      BY <1>5, <2>1, <2>2 DEF ServiceSet, setFrame, device
    <3> QED
      BY <1>a, <3>1
  <2>3. CASE ~(outputs = 0 \/ _completedFrames = <<>>)
    <3>1. setFrame
      BY <1>5, <2>3 DEF ServiceSet
    <3> QED
      BY <2>1, <2>3, <3>1, setFrameRefines
  <2> QED
    BY <2>2, <2>3
<1>6. ASSUME NEW late \in BOOLEAN, CompletedRepeat(late)
      PROVE  /\ LastKept' /\ Waiting = <<>> /\ Waiting' = Waiting
             /\ Playing' = Append(Tail(Playing), Playing[Len(Playing)])
  BY <1>6, RepeatRefines
<1>7. ASSUME NEW late \in BOOLEAN, CompletedNext(late)
      PROVE  /\ LastKept' /\ Waiting # <<>> /\ Waiting' = Tail(Waiting)
             /\ Playing' = Append(Tail(Playing), Head(Waiting))
  BY <1>7, NextRefines
<1>8. CASE UNCHANGED vars
  <2>1. UNCHANGED <<output, built>>
    BY <1>8 DEF vars, device
  <2> QED
    BY <1>a, <2>1
<1> QED
  BY <1>1, <1>2, <1>3, <1>4, <1>5, <1>6, <1>7, <1>8
     DEF Next, Service, ScheduledFrameCompleted

LEMMA SdiStep == OInv /\ OInv' /\ [Next]_vars => [Sdi!Next]_(Sdi!vars)
<1> SUFFICES ASSUME OInv, OInv', [Next]_vars PROVE [Sdi!Next]_(Sdi!vars)
  OBVIOUS
<1> DEFINE W == [i \in DOMAIN _outputFrames |-> bytes[_outputFrames[i]]]
           P == IF built THEN [i \in DOMAIN card |-> bytes[card[i].frame]]
                         ELSE [i \in 1..Half |-> White]
<1>1. Waiting = W /\ Playing = P /\ Waiting' = W' /\ Playing' = P'
  <2>1. Waiting = W /\ Playing = P
    BY SdiMapping DEF OInv
  <2>2. Waiting' = W'
    BY DEF Waiting, Mapped
  <2>3. /\ DOMAIN Scheduled' = DOMAIN card'
        /\ \A i \in DOMAIN card' : (Scheduled')[i] = card'[i].frame
    BY DEF Scheduled
  <2>4. Mapped(bytes', Scheduled') = [i \in DOMAIN card' |-> bytes'[card'[i].frame]]
    BY <2>3 DEF Mapped
  <2>5. Playing' = P'
    BY <2>4 DEF Playing
  <2> QED
    BY <2>1, <2>2, <2>5
<1>2. \/ W' = W /\ P' = P
      \/ (\E p \in 0..MaxPictures : W' = Append(W, p)) /\ Len(W) < Half /\ P' = P
      \/ W # <<>> /\ W' = Tail(W) /\ P' = Append(Tail(P), Head(W))
      \/ W = <<>> /\ W' = W /\ P' = Append(Tail(P), P[Len(P)])
  <2>1. TypeOK'
    BY DEF OInv
  <2> HIDE DEF W, P
  <2> QED
    BY <1>1, <2>1, SdiMoves
<1>3. Half = Frames - Half
  BY HalfFacts
<1> QED
  BY <1>2, <1>3 DEF Sdi!Next, Sdi!Accept, Sdi!PlayNext, Sdi!PlayAgain, Sdi!vars

\* Each accepted picture goes on air once, in order, and the last one is repeated
\* exactly while nothing waits: the output implements RepeatingFifo.
THEOREM SdiImplemented == Spec => SdiSpec
<1>1. Init => OInv
  BY TypedInit, FramesApartInit, LastKeptInit DEF OInv
<1>2. OInv /\ [Next]_vars => OInv'
  <2> SUFFICES ASSUME OInv, [Next]_vars PROVE OInv'
    OBVIOUS
  <2>1. TypeOK'
    BY TypedStep DEF OInv
  <2>2. FramesApart'
    BY <2>1, FramesStep DEF OInv
  <2>3. LastKept'
    BY <2>1, SdiMoves
  <2> QED
    BY <2>1, <2>2, <2>3 DEF OInv
<1>3. OInv /\ OInv' /\ [Next]_vars => [Sdi!Next]_(Sdi!vars)
  BY SdiStep
<1> QED
  BY <1>1, <1>2, <1>3, SdiInit, PTL DEF Spec, SdiSpec, Sdi!Spec

----------------------------------------------------------------------------
(* The order of the pictures, from main() to the card.                      *)

Rising(q) == \A i, j \in DOMAIN q : i < j => q[i] < q[j]
Level(q) == \A i, j \in DOMAIN q : i < j => q[i] <= q[j]

\* A later picture at the end of a queue, and the first one gone.
LEMMA RisingPush ==
    ASSUME NEW q \in Seq(Nat), Rising(q), NEW x \in Nat, \A y \in Range(q) : y < x
    PROVE  Rising(Append(q, x))
<1>1. /\ Len(q) \in Nat /\ DOMAIN q = 1..Len(q) /\ \A i \in 1..Len(q) : q[i] \in Range(q)
  BY RangeFacts
<1>2. /\ DOMAIN Append(q, x) = 1..(Len(q) + 1) /\ Append(q, x)[Len(q) + 1] = x
      /\ \A i \in 1..Len(q) : Append(q, x)[i] = q[i]
  BY PushFacts
<1> SUFFICES ASSUME NEW i \in 1..(Len(q) + 1), NEW j \in 1..(Len(q) + 1), i < j
             PROVE  Append(q, x)[i] < Append(q, x)[j]
  BY <1>2 DEF Rising
<1>3. i \in 1..Len(q)
  BY <1>1
<1>4. CASE j = Len(q) + 1
  BY <1>1, <1>2, <1>3, <1>4
<1>5. CASE j # Len(q) + 1
  <2>1. j \in 1..Len(q)
    BY <1>1, <1>5
  <2> QED
    BY <1>1, <1>2, <1>3, <2>1 DEF Rising
<1> QED
  BY <1>4, <1>5

LEMMA RisingPop ==
    ASSUME NEW q \in Seq(Nat), q # <<>>, Rising(q)
    PROVE  Rising(Tail(q)) /\ \A y \in Range(Tail(q)) : Head(q) < y
<1>1. /\ Len(q) \in Nat \ {0} /\ Head(q) = q[1] /\ Tail(q) \in Seq(Nat)
      /\ Len(Tail(q)) = Len(q) - 1
      /\ \A i \in 1..(Len(q) - 1) : Tail(q)[i] = q[i + 1]
  BY PopFacts
<1>2. DOMAIN q = 1..Len(q) /\ DOMAIN Tail(q) = 1..(Len(q) - 1)
  BY <1>1, RangeFacts
<1>3. ASSUME NEW i \in 1..(Len(q) - 1), NEW j \in 1..(Len(q) - 1), i < j
      PROVE  Tail(q)[i] < Tail(q)[j]
  <2>1. i + 1 \in 1..Len(q) /\ j + 1 \in 1..Len(q) /\ i + 1 < j + 1
    BY <1>1, <1>3
  <2> QED
    BY <1>1, <1>2, <2>1 DEF Rising
<1>4. ASSUME NEW y \in Range(Tail(q))
      PROVE  Head(q) < y
  <2>1. PICK i \in 1..(Len(q) - 1) : Tail(q)[i] = y
    BY <1>2, <1>4 DEF Range
  <2>2. 1 \in 1..Len(q) /\ i + 1 \in 1..Len(q) /\ 1 < i + 1
    BY <1>1, <2>1
  <2> QED
    BY <1>1, <1>2, <2>1, <2>2 DEF Rising
<1> QED
  BY <1>2, <1>3, <1>4 DEF Rising

\* The card plays its first picture and is given one that is not earlier than any.
LEMMA LevelShift ==
    ASSUME NEW q \in Seq(Nat), q # <<>>, Level(q), NEW x \in Nat, \A y \in Range(q) : y <= x
    PROVE  /\ Level(Append(Tail(q), x))
           /\ Range(Append(Tail(q), x)) \subseteq Range(q) \cup {x}
<1>0. /\ Tail(q) \in Seq(Nat) /\ Len(q) \in Nat \ {0} /\ Len(Tail(q)) = Len(q) - 1
      /\ Range(Tail(q)) \subseteq Range(q)
      /\ \A i \in 1..(Len(q) - 1) : Tail(q)[i] = q[i + 1]
  BY PopFacts
<1>1. PICK t \in Seq(Nat) :
        /\ t = Tail(q) /\ Len(q) \in Nat \ {0} /\ Len(t) = Len(q) - 1
        /\ Range(t) \subseteq Range(q)
        /\ \A i \in 1..(Len(q) - 1) : t[i] = q[i + 1]
  BY <1>0
<1>2. DOMAIN q = 1..Len(q) /\ \A i \in 1..Len(q) : q[i] \in Range(q)
  BY RangeFacts
<1>3. /\ DOMAIN Append(t, x) = 1..(Len(t) + 1) /\ Append(t, x)[Len(t) + 1] = x
      /\ \A i \in 1..Len(t) : Append(t, x)[i] = t[i]
      /\ Range(Append(t, x)) = Range(t) \cup {x}
  <2>1. t \in Seq(Nat) /\ x \in Nat
    OBVIOUS
  <2> QED
    BY <2>1, PushFacts
<1>4. ASSUME NEW i \in 1..Len(q), NEW j \in 1..Len(q), i < j
      PROVE  Append(t, x)[i] <= Append(t, x)[j]
  <2>1. i \in 1..(Len(q) - 1) /\ i + 1 \in 1..Len(q)
    BY <1>1, <1>4
  <2>2. Append(t, x)[i] = q[i + 1]
    BY <1>1, <1>3, <2>1
  <2>3. CASE j = Len(q)
    BY <1>1, <1>2, <1>3, <2>1, <2>2, <2>3
  <2>4. CASE j # Len(q)
    <3>0. Len(q) \in Nat
      BY <1>1
    <3>1. j \in 1..(Len(q) - 1) /\ j + 1 \in 1..Len(q) /\ i + 1 < j + 1
      BY <1>4, <2>4, <3>0
    <3>2. Append(t, x)[j] = q[j + 1]
      BY <1>1, <1>3, <3>1
    <3> QED
      BY <1>2, <2>1, <2>2, <3>1, <3>2 DEF Level
  <2> QED
    BY <2>3, <2>4
<1>5. DOMAIN Append(t, x) = 1..Len(q)
  BY <1>1, <1>3
<1> QED
  BY <1>1, <1>3, <1>4, <1>5 DEF Level

\* What the pipeline has still to hand over: the picture in the hands of its thread,
\* those queued, and the one main() is filling in.
Given == IF service = "set" THEN {pixels[pframe]} ELSE {}
Queue == Mapped(pixels, _pipelineEgress)
Filled == IF filling # NoBuffer THEN {pixels[filling]} ELSE {}

Before(A, B) == \A a \in A, b \in B : a < b

\* The last picture on air, those waiting, given, queued and filled in, each before
\* the next, none after the last one composed.
InLine(last, W, G, Q, F, now) ==
    /\ {last} \cup W \cup G \cup Q \cup F \subseteq 0..now
    /\ Before({last}, W \cup G \cup Q \cup F)
    /\ Before(W, G \cup Q \cup F)
    /\ Before(G, Q \cup F)
    /\ Before(Q, F)

AirInOrder == Level(Playing) /\ \A x \in Range(Playing) : x <= _lastFrame

PipelineInOrder ==
    /\ Rising(Waiting) /\ Rising(Queue)
    /\ InLine(_lastFrame, Range(Waiting), Given, Range(Queue), Filled, composed)

Ordered == AirInOrder /\ PipelineInOrder

\* Pictures are numbers.
LEMMA PicturesAreNumbers ==
    ASSUME OInv
    PROVE  /\ Waiting \in Seq(Nat) /\ Playing \in Seq(Nat) /\ Queue \in Seq(Nat)
           /\ Len(Playing) = Half /\ Len(Queue) = Len(_pipelineEgress)
           /\ _lastFrame \in Nat /\ composed \in Nat
           /\ \A b \in Buffer : pixels[b] \in Nat
           /\ \A f \in Frame : bytes[f] \in Nat
<1>1. /\ _lastFrame \in Nat /\ composed \in Nat
      /\ \A b \in Buffer : pixels[b] \in Nat
      /\ \A f \in Frame : bytes[f] \in Nat
  BY BoundAssumption DEF OInv, TypeOK
<1>2. Images(bytes, Frame) \subseteq Nat /\ Images(pixels, Buffer) \subseteq Nat
  BY <1>1 DEF Images
<1>3. Waiting \in Seq(Nat)
  BY <1>2, MappedFacts, SeqMonotonic DEF Waiting, OInv, TypeOK
<1>4. Queue \in Seq(Nat) /\ Len(Queue) = Len(_pipelineEgress)
  <2>1. _pipelineEgress \in Seq(Buffer)
    BY DEF OInv, TypeOK
  <2>2. Queue \in Seq(Images(pixels, Buffer)) /\ Len(Queue) = Len(_pipelineEgress)
    BY <2>1, MappedFacts DEF Queue
  <2> QED
    BY <1>2, <2>2, SeqMonotonic
<1>5. Playing \in Seq(Nat) /\ Len(Playing) = Half
  <2>1. CASE built
    <3>1. Scheduled \in Seq(Frame) /\ Len(Scheduled) = Half
      BY <2>1, ScheduledIsQueue DEF OInv, FramesApart
    <3>2. /\ Mapped(bytes, Scheduled) \in Seq(Images(bytes, Frame))
          /\ Len(Mapped(bytes, Scheduled)) = Half
      BY <3>1, MappedFacts
    <3>3. Mapped(bytes, Scheduled) \in Seq(Nat)
      BY <1>2, <3>2, SeqMonotonic
    <3> QED
      BY <2>1, <3>2, <3>3 DEF Playing
  <2>2. CASE ~built
    <3>1. [i \in 1..Half |-> White] \in [1..Half -> Nat]
      BY DEF White
    <3> QED
      BY <2>2, <3>1, HalfFacts, FunctionIsQueue DEF Playing
  <2> QED
    BY <2>1, <2>2
<1> QED
  BY <1>1, <1>3, <1>4, <1>5

LEMMA OrderedInit == Init => Ordered
<1> SUFFICES ASSUME Init PROVE Ordered
  OBVIOUS
<1>1. Waiting = <<>> /\ Queue = <<>>
  BY DEF Init, Waiting, Queue, Mapped
<1>2. Given = {} /\ Filled = {} /\ _lastFrame = 0 /\ composed = 0
  BY DEF Init, Given, Filled, White
<1>3. Playing = [i \in 1..Half |-> 0]
  BY DEF Init, Playing, White
<1>4. AirInOrder
  BY <1>2, <1>3 DEF AirInOrder, Level, Range
<1>5. Rising(<<>>) /\ Range(<<>>) = {}
  BY DEF Rising, Range
<1>6. InLine(0, {}, {}, {}, {}, 0)
  BY DEF InLine, Before
<1> QED
  BY <1>1, <1>2, <1>4, <1>5, <1>6 DEF Ordered, PipelineInOrder

\* What steps do to the line: a picture goes on air, is given to the output, accepted
\* or refused by it, composed (and filled in, or dropped), and queued.
LEMMA LineMoves ==
    ASSUME NEW l, NEW W, NEW G, NEW Q, NEW F, NEW n \in Nat, InLine(l, W, G, Q, F, n)
    PROVE  /\ \A x \in W, V \in SUBSET W :
                  (\A y \in V : x < y) => InLine(x, V, G, Q, F, n)
           /\ \A x \in Q, V \in SUBSET Q :
                  G = {} /\ (\A y \in V : x < y) => InLine(l, W, {x}, V, F, n)
           /\ InLine(l, W \cup G, {}, Q, F, n) /\ InLine(l, W, {}, Q, F, n)
           /\ F = {} => InLine(l, W, G, Q, {n + 1}, n + 1) /\ InLine(l, W, G, Q, {}, n + 1)
           /\ InLine(l, W, G, Q \cup F, {}, n)
           /\ InLine(l, W, G, {}, F, n)
<1> USE DEF Before
<1>1. ASSUME NEW x \in W, NEW V \in SUBSET W, \A y \in V : x < y
      PROVE  InLine(x, V, G, Q, F, n)
  BY <1>1 DEF InLine
<1>2. ASSUME NEW x \in Q, NEW V \in SUBSET Q, G = {}, \A y \in V : x < y
      PROVE  InLine(l, W, {x}, V, F, n)
  BY <1>2 DEF InLine
<1>3. InLine(l, W \cup G, {}, Q, F, n) /\ InLine(l, W, {}, Q, F, n)
  BY DEF InLine
<1>4. ASSUME F = {}
      PROVE  InLine(l, W, G, Q, {n + 1}, n + 1) /\ InLine(l, W, G, Q, {}, n + 1)
  <2>1. \A x \in 0..n : x \in 0..(n + 1) /\ x < n + 1
    OBVIOUS
  <2>2. n + 1 \in 0..(n + 1)
    OBVIOUS
  <2> QED
    BY <1>4, <2>1, <2>2 DEF InLine
<1>5. InLine(l, W, G, Q \cup F, {}, n) /\ InLine(l, W, G, {}, F, n)
  BY DEF InLine
<1> QED
  BY <1>1, <1>2, <1>3, <1>4, <1>5

\* Only the completions change the card; they put a picture on it that is not
\* earlier than any.
LEMMA CompletedOrdered ==
    ASSUME OInv, TypeOK', Ordered, NEW late \in BOOLEAN, ScheduledFrameCompleted(late)
    PROVE  Ordered'
<1>1. /\ Waiting \in Seq(Nat) /\ Playing \in Seq(Nat) /\ Len(Playing) = Half
      /\ _lastFrame \in Nat /\ composed \in Nat
  BY PicturesAreNumbers
<1>2. Playing # <<>> /\ Len(Playing) \in 1..Len(Playing)
  BY <1>1, HalfFacts, EmptySeq
<1>3. UNCHANGED <<Given, Queue, Filled, composed>>
  BY DEF ScheduledFrameCompleted, CompletedRepeat, CompletedNext, pipeline, Given, Queue, Filled
<1>4. CASE CompletedRepeat(late)
  <2>1. Waiting' = Waiting /\ Playing' = Append(Tail(Playing), Playing[Len(Playing)])
    BY <1>4, RepeatRefines
  <2>2. _lastFrame' = _lastFrame
    BY <1>4 DEF CompletedRepeat
  <2>3. Playing[Len(Playing)] \in Nat /\ Playing[Len(Playing)] \in Range(Playing)
    BY <1>1, <1>2, RangeFacts
  <2>4. \A y \in Range(Playing) : y <= Playing[Len(Playing)]
    <3> SUFFICES ASSUME NEW i \in 1..Len(Playing) PROVE Playing[i] <= Playing[Len(Playing)]
      BY <1>1, RangeFacts DEF Range
    <3>1. DOMAIN Playing = 1..Len(Playing) /\ Playing[i] \in Nat
      BY <1>1, RangeFacts
    <3>2. Len(Playing) \in Nat
      BY <1>2
    <3>3. CASE i = Len(Playing)
      BY <3>1, <3>3
    <3>4. CASE i # Len(Playing)
      <4>1. i < Len(Playing)
        BY <3>2, <3>4
      <4> QED
        BY <1>2, <3>1, <4>1 DEF Ordered, AirInOrder, Level
    <3> QED
      BY <3>3, <3>4
  <2>5. Level(Playing') /\ Range(Playing') \subseteq Range(Playing)
    BY <1>1, <1>2, <2>1, <2>3, <2>4, LevelShift DEF Ordered, AirInOrder
  <2>6. AirInOrder'
    BY <2>2, <2>5 DEF Ordered, AirInOrder
  <2>7. PipelineInOrder'
    BY <1>3, <2>1, <2>2 DEF Ordered, PipelineInOrder
  <2> QED
    BY <2>6, <2>7 DEF Ordered
<1>5. CASE CompletedNext(late)
  <2>1. /\ Waiting # <<>> /\ Waiting' = Tail(Waiting)
        /\ Playing' = Append(Tail(Playing), Head(Waiting))
    BY <1>5, NextRefines
  <2>2. _lastFrame' = Head(Waiting)
    <3>1. _outputFrames # <<>> /\ _outputFrames \in Seq(Frame)
          /\ _lastFrame' = bytes[Head(_outputFrames)]
      BY <1>5 DEF CompletedNext, OInv, TypeOK
    <3> QED
      BY <3>1, MappedPop DEF Waiting
  <2>3. /\ Head(Waiting) \in Nat /\ Head(Waiting) \in Range(Waiting)
        /\ Range(Tail(Waiting)) \subseteq Range(Waiting)
    BY <1>1, <2>1, PopFacts
  <2>4. Rising(Tail(Waiting)) /\ \A y \in Range(Tail(Waiting)) : Head(Waiting) < y
    BY <1>1, <2>1, RisingPop DEF Ordered, PipelineInOrder
  <2>5. InLine(_lastFrame, Range(Waiting), Given, Range(Queue), Filled, composed)
    BY DEF Ordered, PipelineInOrder
  <2>6. InLine(Head(Waiting), Range(Tail(Waiting)), Given, Range(Queue), Filled, composed)
    BY <1>1, <2>3, <2>4, <2>5, LineMoves
  <2>7. _lastFrame < Head(Waiting)
    BY <2>3, <2>5 DEF InLine, Before
  <2>8. \A y \in Range(Playing) : y \in Nat /\ y <= _lastFrame
    BY <1>1, RangeFacts DEF Ordered, AirInOrder
  <2>9. \A y \in Range(Playing) : y <= Head(Waiting)
    BY <1>1, <2>3, <2>7, <2>8
  <2>10. Level(Playing') /\ Range(Playing') \subseteq Range(Playing) \cup {Head(Waiting)}
    BY <1>1, <1>2, <2>1, <2>3, <2>9, LevelShift DEF Ordered, AirInOrder
  <2>11. AirInOrder'
    BY <2>2, <2>3, <2>9, <2>10 DEF AirInOrder
  <2>12. PipelineInOrder'
    BY <1>3, <2>1, <2>2, <2>4, <2>6 DEF Ordered, PipelineInOrder
  <2> QED
    BY <2>11, <2>12 DEF Ordered
<1> QED
  BY <1>4, <1>5 DEF ScheduledFrameCompleted

\* The output accepts the picture it is given, or refuses it.
LEMMA ServiceSetOrdered ==
    ASSUME OInv, Ordered, ServiceSet
    PROVE  Ordered'
<1>1. /\ service = "set" /\ service' = "push" /\ UNCHANGED device
      /\ UNCHANGED <<_pipelineEgress, pixels, composed, filling>>
  BY DEF ServiceSet
<1>2. /\ Given = {pixels[pframe]} /\ Given' = {} /\ UNCHANGED <<Queue, Filled>>
  BY <1>1 DEF Given, Queue, Filled
<1>3. Waiting \in Seq(Nat) /\ composed \in Nat
  BY PicturesAreNumbers
<1>4. InLine(_lastFrame, Range(Waiting), Given, Range(Queue), Filled, composed)
  BY DEF Ordered, PipelineInOrder
<1>5. CASE outputs = 0 \/ _completedFrames = <<>>
  <2>1. UNCHANGED output
    BY <1>5 DEF ServiceSet, setFrame
  <2>2. UNCHANGED <<Waiting, Playing, _lastFrame>>
    <3>1. UNCHANGED <<Scheduled, built>>
      BY <1>1, <2>1 DEF output, device, Scheduled
    <3> QED
      BY <2>1, <3>1 DEF output, Waiting, Playing
  <2>3. InLine(_lastFrame, Range(Waiting), {}, Range(Queue), Filled, composed)
    BY <1>3, <1>4, LineMoves
  <2> QED
    BY <1>1, <1>2, <2>2, <2>3 DEF Ordered, AirInOrder, PipelineInOrder
<1>6. CASE ~(outputs = 0 \/ _completedFrames = <<>>)
  <2>1. setFrame /\ UNCHANGED _lastFrame
    BY <1>6 DEF ServiceSet, setFrame
  <2>2. /\ Waiting' = Append(Waiting, pixels[pframe]) /\ Playing' = Playing
        /\ pixels[pframe] \in Nat
    BY <1>1, <1>6, <2>1, setFrameRefines, BoundAssumption
  <2>3. \A y \in Range(Waiting) : y < pixels[pframe]
    BY <1>2, <1>4 DEF InLine, Before
  <2>4. Rising(Waiting') /\ Range(Waiting') = Range(Waiting) \cup Given
    BY <1>2, <1>3, <2>2, <2>3, RisingPush, PushFacts DEF Ordered, PipelineInOrder
  <2>5. InLine(_lastFrame, Range(Waiting) \cup Given, {}, Range(Queue), Filled, composed)
    BY <1>3, <1>4, LineMoves
  <2> QED
    BY <1>1, <1>2, <2>1, <2>2, <2>4, <2>5 DEF Ordered, AirInOrder, PipelineInOrder
<1> QED
  BY <1>5, <1>6

\* Composing, queueing and taking a picture keep the line.
LEMMA PipelineOrdered ==
    ASSUME OInv, BuffersApart, Ordered, UNCHANGED <<Waiting, Playing, _lastFrame>>,
           AddFrame \/ ServiceStart \/ ServiceTake \/ ServicePushBegin \/ ServicePushEnd,
           ~torn'
    PROVE  Ordered'
<1>1. /\ Queue \in Seq(Nat) /\ composed \in Nat /\ _pipelineEgress \in Seq(Buffer)
      /\ \A b \in Buffer : pixels[b] \in Nat
  BY PicturesAreNumbers DEF OInv, TypeOK
<1>2. InLine(_lastFrame, Range(Waiting), Given, Range(Queue), Filled, composed)
  BY DEF Ordered, PipelineInOrder
<1>3. SUFFICES /\ Rising(Queue')
               /\ InLine(_lastFrame, Range(Waiting), Given', Range(Queue'), Filled', composed')
  BY DEF Ordered, AirInOrder, PipelineInOrder
<1>4. Rising(Queue)
  BY DEF Ordered, PipelineInOrder
<1>6. CASE AddFrameDrop
  <2>1. UNCHANGED <<Queue, Given, Filled>> /\ composed' = composed + 1 /\ Filled = {}
    BY <1>6 DEF AddFrameDrop, Queue, Given, Filled
  <2> QED
    BY <1>1, <1>2, <1>4, <2>1, LineMoves
<1>7. CASE AddFrameBegin
  <2> DEFINE b == Head(_pipelineIngress)
  <2>1. /\ filling = NoBuffer /\ _pipelineIngress # <<>> /\ filling' = b
        /\ pixels' = [pixels EXCEPT ![b] = composed + 1] /\ composed' = composed + 1
        /\ UNCHANGED <<_pipelineEgress, service, pframe>>
    BY <1>7 DEF AddFrameBegin
  <2>2. b \in Buffer /\ b \in Range(_pipelineIngress) /\ pixels \in [Buffer -> 0..MaxPictures]
    BY <2>1, PopFacts DEF OInv, TypeOK
  <2>3. b \notin Range(_pipelineEgress) /\ b \notin Held /\ b # NoBuffer
    BY <2>2 DEF BuffersApart, Queued, Buffer, NoBuffer
  <2>4. service = "set" => pframe # b /\ pframe \in Buffer
    BY <2>3 DEF Held, OInv, TypeOK, Buffer, NoBuffer
  <2> HIDE DEF b
  <2>5. Queue' = Queue
    BY <1>1, <2>1, <2>3, MappedWrite DEF Queue
  <2>6. Given' = Given
    BY <2>1, <2>2, <2>4 DEF Given
  <2>7. Filled = {} /\ Filled' = {composed + 1}
    BY <2>1, <2>2, <2>3 DEF Filled
  <2> QED
    BY <1>1, <1>2, <1>4, <2>1, <2>5, <2>6, <2>7, LineMoves
<1>8. CASE AddFrameEnd
  <2>1. /\ filling # NoBuffer /\ filling' = NoBuffer
        /\ _pipelineEgress' = Append(_pipelineEgress, filling)
        /\ UNCHANGED <<pixels, composed, service, pframe>>
    BY <1>8 DEF AddFrameEnd
  <2>2. filling \in Buffer
    BY <2>1 DEF OInv, TypeOK, Buffer, NoBuffer
  <2>3. Queue' = Append(Queue, pixels[filling]) /\ pixels[filling] \in Nat
    BY <1>1, <2>1, <2>2, MappedPush DEF Queue
  <2>4. Filled = {pixels[filling]} /\ Filled' = {} /\ Given' = Given
    BY <2>1 DEF Filled, Given
  <2>5. \A y \in Range(Queue) : y < pixels[filling]
    BY <1>2, <2>4 DEF InLine, Before
  <2>6. Rising(Queue') /\ Range(Queue') = Range(Queue) \cup Filled
    <3>1. Rising(Queue')
      BY <1>1, <1>4, <2>3, <2>5, RisingPush
    <3>2. Range(Queue') = Range(Queue) \cup Filled
      BY <1>1, <2>3, <2>4, PushFacts
    <3> QED
      BY <3>1, <3>2
  <2>7. InLine(_lastFrame, Range(Waiting), Given, Range(Queue) \cup Filled, {}, composed)
    BY <1>1, <1>2, LineMoves
  <2> QED
    BY <2>1, <2>4, <2>6, <2>7
<1>9. CASE ServiceStart
  <2>1. /\ service = "none" /\ service' = "take" /\ _pipelineEgress' = <<>>
        /\ UNCHANGED <<pixels, composed, filling, pframe>>
    BY <1>9 DEF ServiceStart
  <2>2. Given = {} /\ UNCHANGED <<Given, Filled>> /\ Queue' = <<>>
    BY <2>1 DEF Given, Filled, Queue, Mapped
  <2>3. Range(<<>>) = {} /\ Rising(<<>>)
    BY DEF Range, Rising
  <2>4. InLine(_lastFrame, Range(Waiting), Given, {}, Filled, composed)
    BY <1>1, <1>2, LineMoves
  <2> QED
    BY <2>1, <2>2, <2>3, <2>4
<1>10. CASE ServiceTake
  <2>1. /\ service = "take" /\ service' = "set" /\ _pipelineEgress # <<>>
        /\ pframe' = Head(_pipelineEgress) /\ _pipelineEgress' = Tail(_pipelineEgress)
        /\ UNCHANGED <<pixels, composed, filling>>
    BY <1>10 DEF ServiceTake
  <2>2. Queue' = Tail(Queue) /\ Queue # <<>> /\ Head(Queue) = pixels[pframe']
    BY <1>1, <2>1, MappedPop DEF Queue
  <2>3. Given = {} /\ Given' = {Head(Queue)} /\ Filled' = Filled
    BY <2>1, <2>2 DEF Given, Filled
  <2>4. Head(Queue) \in Range(Queue) /\ Range(Tail(Queue)) \in SUBSET Range(Queue)
    BY <1>1, <2>2, PopFacts
  <2>5. Rising(Tail(Queue)) /\ \A y \in Range(Tail(Queue)) : Head(Queue) < y
    BY <1>1, <1>4, <2>2, RisingPop
  <2>6. InLine(_lastFrame, Range(Waiting), {Head(Queue)}, Range(Tail(Queue)), Filled, composed)
    BY <1>1, <1>2, <2>3, <2>4, <2>5, LineMoves
  <2> QED
    BY <2>1, <2>2, <2>3, <2>5, <2>6
<1>11. CASE ServicePushBegin \/ ServicePushEnd
  <2>1. UNCHANGED <<Queue, Given, Filled, composed>>
    BY <1>11 DEF ServicePushBegin, ServicePushEnd, Queue, Given, Filled
  <2> QED
    BY <1>2, <1>4, <2>1
<1> QED
  BY <1>6, <1>7, <1>8, <1>9, <1>10, <1>11 DEF AddFrame, AddFrameTorn

LEMMA OrderedStep ==
    OInv /\ TypeOK' /\ BuffersApart /\ Ordered /\ [Next]_vars /\ ~torn' => Ordered'
<1> SUFFICES ASSUME OInv, TypeOK', BuffersApart, Ordered, [Next]_vars, ~torn' PROVE Ordered'
  OBVIOUS
<1>a. ASSUME UNCHANGED <<output, built>>
      PROVE  UNCHANGED <<Waiting, Playing, _lastFrame>>
  <2>1. UNCHANGED Scheduled
    BY <1>a DEF output, Scheduled
  <2> QED
    BY <1>a, <2>1 DEF output, Waiting, Playing
<1>b. ASSUME UNCHANGED <<Waiting, Playing, _lastFrame, pipeline>>
      PROVE  Ordered'
  <2>1. UNCHANGED <<Queue, Given, Filled, composed>>
    BY <1>b DEF pipeline, Queue, Given, Filled
  <2> QED
    BY <1>b, <2>1 DEF Ordered, AirInOrder, PipelineInOrder
<1>1. CASE DeckLinkDeviceArrived
  <2>1. CASE _cnt = 0
    <3>1. Output /\ UNCHANGED pipeline
      BY <1>1, <2>1 DEF DeckLinkDeviceArrived
    <3>2. UNCHANGED <<Waiting, Playing, _lastFrame>>
      BY <2>1, <3>1, OutputRefines DEF Output
    <3> QED
      BY <1>b, <3>1, <3>2
  <2>2. CASE _cnt # 0
    BY <1>a, <1>b, <1>1, <2>2 DEF DeckLinkDeviceArrived
  <2> QED
    BY <2>1, <2>2
<1>2. CASE DeckLinkDeviceRemoved \/ StartPipeline \/ audioInit
  <2>1. UNCHANGED <<output, built, pipeline>>
    BY <1>2 DEF DeckLinkDeviceRemoved, StartPipeline, audioInit, device
  <2> QED
    BY <1>a, <1>b, <2>1
<1>3. CASE AddFrame \/ ServiceStart \/ ServiceTake \/ ServicePushBegin \/ ServicePushEnd
  <2>1. UNCHANGED <<output, built>>
    BY <1>3 DEF AddFrame, AddFrameTorn, AddFrameDrop, AddFrameBegin, AddFrameEnd, ServiceStart,
                ServiceTake, ServicePushBegin, ServicePushEnd, device
  <2> QED
    BY <1>a, <1>3, <2>1, PipelineOrdered
<1>4. CASE ServiceSet
  BY <1>4, ServiceSetOrdered
<1>5. ASSUME NEW late \in BOOLEAN, ScheduledFrameCompleted(late)
      PROVE  Ordered'
  BY <1>5, CompletedOrdered
<1>6. CASE UNCHANGED vars
  <2>1. UNCHANGED <<output, built, pipeline>>
    BY <1>6 DEF vars, device
  <2> QED
    BY <1>a, <1>b, <2>1
<1> QED
  BY <1>1, <1>2, <1>3, <1>4, <1>5, <1>6 DEF Next, Service

LEMMA OrderedIsInOrder ==
    ASSUME OInv, Ordered
    PROVE  PicturesInOrder
<1> DEFINE air == [i \in DOMAIN card |-> bytes[card[i].frame]]
           next == [i \in DOMAIN _outputFrames |-> bytes[_outputFrames[i]]]
           later == [i \in DOMAIN _pipelineEgress |-> pixels[_pipelineEgress[i]]]
<1>1. next = Waiting /\ later = Queue /\ (built => air = Playing)
  BY SdiMapping DEF OInv, Queue, Mapped
<1>2. ~built => DOMAIN air = {}
  <2>1. ~built => card = <<>>
    BY DEF OInv, FramesApart
  <2> QED
    BY <2>1
<1>3. _lastFrame \in Nat /\ Playing \in Seq(Nat) /\ Waiting \in Seq(Nat) /\ Queue \in Seq(Nat)
  BY PicturesAreNumbers
<1>4. /\ \A i \in DOMAIN Playing : Playing[i] \in Nat /\ Playing[i] <= _lastFrame
      /\ \A i \in DOMAIN Waiting : Waiting[i] \in Nat /\ _lastFrame < Waiting[i]
      /\ \A i \in DOMAIN Queue : Queue[i] \in Nat /\ _lastFrame < Queue[i]
      /\ \A i \in DOMAIN Waiting, j \in DOMAIN Queue : Waiting[i] < Queue[j]
  <2>1. /\ \A i \in DOMAIN Playing : Playing[i] \in Nat /\ Playing[i] \in Range(Playing)
        /\ \A i \in DOMAIN Waiting : Waiting[i] \in Nat /\ Waiting[i] \in Range(Waiting)
        /\ \A i \in DOMAIN Queue : Queue[i] \in Nat /\ Queue[i] \in Range(Queue)
    BY <1>3, RangeFacts
  <2> QED
    BY <2>1 DEF Ordered, AirInOrder, PipelineInOrder, InLine, Before
<1>5. Level(Playing) /\ Rising(Waiting) /\ Rising(Queue)
  BY DEF Ordered, AirInOrder, PipelineInOrder
<1> HIDE DEF air, next, later
<1>6. /\ \A i, j \in DOMAIN air : i < j => air[i] <= air[j]
      /\ \A i \in DOMAIN air, j \in DOMAIN next : air[i] < next[j]
      /\ \A i \in DOMAIN air, j \in DOMAIN later : air[i] < later[j]
  <2>1. CASE built
    <3>1. air = Playing
      BY <1>1, <2>1
    <3>2. ASSUME NEW i \in DOMAIN air, NEW j \in DOMAIN next
          PROVE  air[i] < next[j]
      <4>1. /\ air[i] \in Nat /\ air[i] <= _lastFrame
            /\ next[j] \in Nat /\ _lastFrame < next[j]
        BY <1>1, <1>4, <3>1
      <4> QED
        BY <1>3, <4>1
    <3>3. ASSUME NEW i \in DOMAIN air, NEW j \in DOMAIN later
          PROVE  air[i] < later[j]
      <4>1. /\ air[i] \in Nat /\ air[i] <= _lastFrame
            /\ later[j] \in Nat /\ _lastFrame < later[j]
        BY <1>1, <1>4, <3>1
      <4> QED
        BY <1>3, <4>1
    <3>4. \A i, j \in DOMAIN air : i < j => air[i] <= air[j]
      BY <1>5, <3>1 DEF Level
    <3> QED
      BY <3>2, <3>3, <3>4
  <2>2. CASE ~built
    BY <1>2, <2>2
  <2> QED
    BY <2>1, <2>2
<1>7. /\ \A i, j \in DOMAIN next : i < j => next[i] < next[j]
      /\ \A i, j \in DOMAIN later : i < j => later[i] < later[j]
      /\ \A i \in DOMAIN next, j \in DOMAIN later : next[i] < later[j]
  BY <1>1, <1>4, <1>5 DEF Rising
<1> QED
  BY <1>6, <1>7 DEF PicturesInOrder, air, next, later

InOrder == ~torn => BuffersApart /\ Ordered

\* From main() to the card, pictures keep the order in which they were composed: the
\* output never goes back in time, whatever is dropped, refused or repeated, until a pop
\* meets the push made without the mutex.
THEOREM OrderCorrect == Spec => []PicturesInOrder
<1>1. Init => OInv /\ InOrder
  BY TypedInit, FramesApartInit, LastKeptInit, ApartInit, OrderedInit DEF OInv, InOrder
<1>2. (OInv /\ InOrder) /\ [Next]_vars => (OInv /\ InOrder)'
  <2> SUFFICES ASSUME OInv, InOrder, [Next]_vars
               PROVE  OInv' /\ InOrder'
    OBVIOUS
  <2>1. TypeOK'
    BY TypedStep DEF OInv
  <2>2. FramesApart' /\ LastKept'
    BY <2>1, FramesStep, SdiMoves DEF OInv
  <2>3. InOrder'
    <3> SUFFICES ASSUME ~torn' PROVE BuffersApart' /\ Ordered'
      BY DEF InOrder
    <3>1. BuffersApart /\ Ordered
      BY TornStays DEF InOrder
    <3> QED
      BY <2>1, <3>1, ApartStep, OrderedStep DEF OInv
  <2> QED
    BY <2>1, <2>2, <2>3 DEF OInv
<1>3. OInv /\ InOrder => PicturesInOrder
  <2>1. torn => PicturesInOrder
    BY DEF PicturesInOrder
  <2> QED
    BY <2>1, OrderedIsInOrder DEF InOrder
<1> QED
  BY <1>1, <1>2, <1>3, PTL DEF Spec
=============================================================================
