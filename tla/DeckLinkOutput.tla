--------------------------- MODULE DeckLinkOutput ---------------------------
(***************************************************************************)
(* The SDI output (__BLACKMAGIC_OUTPUT__).  main() copies every composed   *)
(* picture into a buffer of _pipelineIngress and queues it in              *)
(* _pipelineEgress; the pipeline thread hands it to Device::setFrame and   *)
(* gives the buffer back; Output::setFrame copies it into a frame of the   *)
(* card, and ScheduledFrameCompleted, called by the driver for every frame *)
(* played, schedules the next one or repeats the last.                     *)
(*                                                                         *)
(* The driver is external: it plays scheduled frames in order and reports  *)
(* each of them, and it announces devices at any time.  Device and Output  *)
(* have a mutex each, so their methods are single steps.  The pipeline     *)
(* thread gives buffers back without the mutex that main() takes them      *)
(* under: the push is two steps, and a pop between them may tear the deque *)
(* (torn): it finds no buffer, or any, and loses the others.               *)
(***************************************************************************)
EXTENDS Naturals, Sequences, FiniteSets, Functions

CONSTANTS
    Buffers,       \* pipelineFrames (32 in the code)
    Frames,        \* IDeckLinkMutableVideoFrames created (10 in the code)
    MaxPictures,   \* bound: pictures composed by main()
    MaxDevices,    \* bound: arrivals of devices
    MaxTime        \* bound: _totalFramesScheduled

ASSUME BuffersAssumption == Buffers \in Nat /\ Buffers > 0
ASSUME FramesAssumption == Frames \in Nat /\ Frames > 0 /\ Frames % 2 = 0
ASSUME BoundAssumption == /\ MaxPictures \in Nat /\ MaxDevices \in Nat
                          /\ MaxTime \in Nat

VARIABLES
    _pipelineIngress,       \* buffers to be filled
    _pipelineEgress,        \* buffers to be output
    pixels,                 \* the picture in each buffer
    composed,               \* pictures composed so far: names them
    filling,                \* buffer main() has popped, 0: none
    service,                \* pipeline thread: "none", "take", "set", "push", "pushing"
    pframe,                 \* buffer the pipeline thread has popped, 0: none
    outputs,                \* _outputs.size()
    _cnt,                   \* devices that arrived
    built,                  \* the Output was constructed
    _outputFrames,          \* frames with a picture, to be scheduled
    _completedFrames,       \* frames to be filled
    card,                   \* scheduled frames, [frame, time], next one first
    bytes,                  \* the picture in each frame
    _lastFrame,             \* the last picture scheduled
    _totalFramesScheduled,
    main,                   \* main(): "wait" (for devices), "audio" (audioInit), "loop"
    alive,                  \* FALSE after a PANIC
    torn                    \* a pop has met a push on _pipelineIngress

pipeline == <<_pipelineIngress, _pipelineEgress, pixels, composed, filling, service, pframe>>
device   == <<outputs, _cnt, built>>
output   == <<_outputFrames, _completedFrames, card, bytes, _lastFrame,
              _totalFramesScheduled>>
process == <<main, alive, torn>>
vars == <<pipeline, device, output, process>>

NoBuffer == 0
White == 0
Buffer == 1..Buffers
Frame == 1..Frames
Half == Frames \div 2

Init ==
    /\ _pipelineIngress = <<>> /\ _pipelineEgress = <<>>
    /\ pixels = [b \in Buffer |-> White] /\ composed = 0 /\ filling = NoBuffer
    /\ service = "none" /\ pframe = NoBuffer
    /\ outputs = 0 /\ _cnt = 0 /\ built = FALSE
    /\ _outputFrames = <<>> /\ _completedFrames = <<>> /\ card = <<>>
    /\ bytes = [f \in Frame |-> White] /\ _lastFrame = White
    /\ _totalFramesScheduled = 0
    /\ main = "wait" /\ alive = TRUE /\ torn = FALSE

----------------------------------------------------------------------------
(* Devices.                                                                 *)

\* The constructor of Output: white frames, half of them scheduled, the others
\* free; the frame count covers all of them.
Output ==
    /\ built' = TRUE
    /\ card' = [i \in 1..Half |-> [frame |-> i, time |-> i - 1]]
    /\ _completedFrames' = [i \in 1..(Frames - Half) |-> Half + i]
    /\ _totalFramesScheduled' = Frames
    /\ UNCHANGED <<_outputFrames, bytes, _lastFrame>>

\* Only the first device that ever arrives becomes an output.
DeckLinkDeviceArrived ==
    /\ alive /\ _cnt < MaxDevices
    /\ _cnt' = _cnt + 1
    /\ IF _cnt = 0 THEN outputs' = 1 /\ Output
                   ELSE UNCHANGED <<outputs, built, output>>
    /\ UNCHANGED <<pipeline, process>>

\* The device of the output is removed; the driver keeps calling its Output.
DeckLinkDeviceRemoved ==
    /\ alive /\ outputs = 1
    /\ outputs' = 0
    /\ UNCHANGED <<pipeline, _cnt, built, output, process>>

----------------------------------------------------------------------------
(* main().                                                                  *)

\* The sleep that gives devices three seconds to arrive is over.
StartPipeline ==
    /\ alive /\ main = "wait"
    /\ main' = "audio"
    /\ UNCHANGED <<pipeline, device, output, alive, torn>>

\* PANIC("failed output is empty, or not enough") without an output.
audioInit ==
    /\ alive /\ main = "audio"
    /\ IF outputs = 0 THEN alive' = FALSE /\ UNCHANGED main
                      ELSE main' = "loop" /\ UNCHANGED alive
    /\ UNCHANGED <<pipeline, device, output, torn>>

\* bm_add_pipeline_frame, on every iteration of the loop.

\* The pop meets a push: the pointer it reads may be NULL, which is a PANIC, or any that
\* the memory of the deque still holds, and what stays in the queue is not certain.
AddFrameTorn ==
    /\ alive /\ main = "loop" /\ filling = NoBuffer /\ composed < MaxPictures
    /\ service = "pushing"
    /\ torn' = TRUE
    /\ composed' = composed + 1
    /\ filling' \in {NoBuffer} \cup Buffer
    /\ alive' = (filling' # NoBuffer)
    /\ pixels' = [b \in Buffer |-> IF b = filling' THEN composed' ELSE pixels[b]]
    /\ \/ UNCHANGED _pipelineIngress
       \/ _pipelineIngress # <<>> /\ _pipelineIngress' = Tail(_pipelineIngress)
       \/ _pipelineIngress' = <<>>
    /\ UNCHANGED <<_pipelineEgress, service, pframe, device, output, main>>

\* Broken variant: the function goes on without a buffer.
AddFrameDrop_continues ==
    /\ alive /\ main = "loop" /\ filling = NoBuffer /\ composed < MaxPictures
    /\ _pipelineIngress = <<>>
    /\ composed' = composed + 1
    /\ _pipelineEgress' = Append(_pipelineEgress, NoBuffer)
    /\ UNCHANGED <<_pipelineIngress, pixels, filling, service, pframe, device, output, process>>

\* No buffer is free: the picture is not output.
AddFrameDrop ==
    /\ alive /\ main = "loop" /\ filling = NoBuffer /\ composed < MaxPictures
    /\ _pipelineIngress = <<>>
    /\ composed' = composed + 1
    /\ UNCHANGED <<_pipelineIngress, _pipelineEgress, pixels, filling, service, pframe,
                   device, output, process>>

AddFrameBegin ==
    /\ alive /\ main = "loop" /\ filling = NoBuffer /\ composed < MaxPictures
    /\ _pipelineIngress # <<>>
    /\ composed' = composed + 1
    /\ filling' = Head(_pipelineIngress)
    /\ _pipelineIngress' = Tail(_pipelineIngress)
    /\ pixels' = [pixels EXCEPT ![Head(_pipelineIngress)] = composed + 1]
    /\ UNCHANGED <<_pipelineEgress, service, pframe, device, output, process>>

AddFrameEnd ==
    /\ alive /\ filling # NoBuffer
    /\ _pipelineEgress' = Append(_pipelineEgress, filling)
    /\ filling' = NoBuffer
    /\ UNCHANGED <<_pipelineIngress, pixels, composed, service, pframe, device, output, process>>

----------------------------------------------------------------------------
(* bm_pipeline_service.                                                     *)

ServiceStart ==
    /\ alive /\ main # "wait" /\ service = "none"
    /\ _pipelineIngress' = [i \in 1..Buffers |-> i]
    /\ _pipelineEgress' = <<>>
    /\ service' = "take"
    /\ UNCHANGED <<pixels, composed, filling, pframe, device, output, process>>

ServiceTake ==
    /\ alive /\ service = "take" /\ _pipelineEgress # <<>>
    /\ pframe' = Head(_pipelineEgress) /\ _pipelineEgress' = Tail(_pipelineEgress)
    /\ service' = "set"
    /\ UNCHANGED <<_pipelineIngress, pixels, composed, filling, device, output, process>>

\* Broken variant: the frame is filled while it is still free.
setFrame_peeks ==
    IF _completedFrames = <<>> THEN UNCHANGED output
    ELSE /\ _outputFrames' = Append(_outputFrames, Head(_completedFrames))
         /\ bytes' = [bytes EXCEPT ![Head(_completedFrames)] = pixels[pframe]]
         /\ UNCHANGED <<_completedFrames, card, _lastFrame, _totalFramesScheduled>>

\* Output::setFrame; E_OUTOFMEMORY, which nobody looks at, if no frame is free.
setFrame ==
    IF _completedFrames = <<>> THEN UNCHANGED output
    ELSE /\ _outputFrames' = Append(_outputFrames, Head(_completedFrames))
         /\ _completedFrames' = Tail(_completedFrames)
         /\ bytes' = [bytes EXCEPT ![Head(_completedFrames)] = pixels[pframe]]
         /\ UNCHANGED <<card, _lastFrame, _totalFramesScheduled>>

\* Broken variant: the buffer of a refused picture is kept.
ServiceSet_keeps ==
    /\ alive /\ service = "set"
    /\ IF outputs = 0 THEN alive' = FALSE /\ UNCHANGED output
                      ELSE setFrame /\ UNCHANGED alive
    /\ service' = IF _completedFrames = <<>> THEN "take" ELSE "push"
    /\ pframe' = IF _completedFrames = <<>> THEN NoBuffer ELSE pframe
    /\ UNCHANGED <<_pipelineIngress, _pipelineEgress, pixels, composed, filling, device,
                   main, torn>>

\* Broken variant: the thread waits until a frame is free.
ServiceSet_waits ==
    /\ alive /\ service = "set" /\ _completedFrames # <<>>
    /\ IF outputs = 0 THEN alive' = FALSE /\ UNCHANGED output
                      ELSE setFrame /\ UNCHANGED alive
    /\ service' = "push"
    /\ UNCHANGED <<_pipelineIngress, _pipelineEgress, pixels, composed, filling, pframe,
                   device, main, torn>>

\* Device::setFrame: PANIC("invalid vector size") without an output.
ServiceSet ==
    /\ alive /\ service = "set"
    /\ IF outputs = 0 THEN alive' = FALSE /\ UNCHANGED output
                      ELSE setFrame /\ UNCHANGED alive
    /\ service' = "push"
    /\ UNCHANGED <<_pipelineIngress, _pipelineEgress, pixels, composed, filling, pframe,
                   device, main, torn>>

\* push_back without the mutex is under way ...
ServicePushBegin ==
    /\ alive /\ service = "push"
    /\ service' = "pushing"
    /\ UNCHANGED <<_pipelineIngress, _pipelineEgress, pixels, composed, filling, pframe,
                   device, output, process>>

\* ... and done; in a torn deque the buffer may be lost.
ServicePushEnd ==
    /\ alive /\ service = "pushing"
    /\ \/ _pipelineIngress' = Append(_pipelineIngress, pframe)
       \/ torn /\ UNCHANGED _pipelineIngress
    /\ pframe' = NoBuffer
    /\ service' = "take"
    /\ UNCHANGED <<_pipelineEgress, pixels, composed, filling, device, output, process>>

----------------------------------------------------------------------------
(* The driver has played the first frame of the card.                       *)

Schedule(frame, time) ==
    card' = Append(Tail(card), [frame |-> frame, time |-> time])

\* Broken variant: late frames set the clock back.
Time_back(late) == IF late THEN _totalFramesScheduled - 2 ELSE _totalFramesScheduled
\* A frame that was late or dropped makes the next one skip two.
Time(late) == IF late THEN _totalFramesScheduled + 2 ELSE _totalFramesScheduled

\* No picture waits: the oldest free frame, maybe the one just played, repeats the
\* last one.
CompletedRepeat(late) ==
    /\ alive /\ card # <<>> /\ Time(late) < MaxTime
    /\ _outputFrames = <<>>
    /\ LET free == Append(_completedFrames, Head(card).frame) IN
       /\ _completedFrames' = Tail(free)
       /\ bytes' = [bytes EXCEPT ![Head(free)] = _lastFrame]
       /\ Schedule(Head(free), Time(late))
    /\ _totalFramesScheduled' = Time(late) + 1
    /\ UNCHANGED <<pipeline, device, _outputFrames, _lastFrame, process>>

\* Broken variant: _lastFrame is not kept up to date.
CompletedNext_stale(late) ==
    /\ alive /\ card # <<>> /\ Time(late) < MaxTime
    /\ _outputFrames # <<>>
    /\ _completedFrames' = Append(_completedFrames, Head(card).frame)
    /\ _outputFrames' = Tail(_outputFrames)
    /\ Schedule(Head(_outputFrames), Time(late))
    /\ _totalFramesScheduled' = Time(late) + 1
    /\ UNCHANGED <<pipeline, device, bytes, _lastFrame, process>>

CompletedNext(late) ==
    /\ alive /\ card # <<>> /\ Time(late) < MaxTime
    /\ _outputFrames # <<>>
    /\ _completedFrames' = Append(_completedFrames, Head(card).frame)
    /\ _outputFrames' = Tail(_outputFrames)
    /\ _lastFrame' = bytes[Head(_outputFrames)]
    /\ Schedule(Head(_outputFrames), Time(late))
    /\ _totalFramesScheduled' = Time(late) + 1
    /\ UNCHANGED <<pipeline, device, bytes, process>>

ScheduledFrameCompleted(late) == CompletedRepeat(late) \/ CompletedNext(late)

----------------------------------------------------------------------------
AddFrame == AddFrameTorn \/ AddFrameDrop \/ AddFrameBegin \/ AddFrameEnd
Service == \/ ServiceStart \/ ServiceTake \/ ServiceSet
           \/ ServicePushBegin \/ ServicePushEnd

Next == \/ DeckLinkDeviceArrived \/ DeckLinkDeviceRemoved
        \/ StartPipeline \/ audioInit \/ AddFrame \/ Service
        \/ \E late \in BOOLEAN : ScheduledFrameCompleted(late)

Spec == Init /\ [][Next]_vars

\* The pipeline thread polls every 100 us and main() does not stop in the middle of
\* bm_add_pipeline_frame; nothing is assumed of the driver.
Fairness == WF_vars(Service) /\ WF_vars(AddFrameEnd)

FairSpec == Spec /\ Fairness

----------------------------------------------------------------------------
(* Properties.                                                              *)

\* Every variable keeps its type.
TypeOK ==
    /\ _pipelineIngress \in Seq(Buffer) /\ _pipelineEgress \in Seq(Buffer)
    /\ pixels \in [Buffer -> 0..MaxPictures] /\ composed \in 0..MaxPictures
    /\ filling \in 0..Buffers /\ pframe \in 0..Buffers
    /\ service \in {"none", "take", "set", "push", "pushing"}
    /\ service \in {"set", "push", "pushing"} => pframe # NoBuffer
    /\ outputs \in 0..1 /\ _cnt \in 0..MaxDevices /\ built \in BOOLEAN
    /\ _outputFrames \in Seq(Frame) /\ _completedFrames \in Seq(Frame)
    /\ card \in Seq([frame : Frame, time : Nat])
    /\ bytes \in [Frame -> 0..MaxPictures] /\ _lastFrame \in 0..MaxPictures
    /\ _totalFramesScheduled \in Nat
    /\ main \in {"wait", "audio", "loop"} /\ alive \in BOOLEAN /\ torn \in BOOLEAN

Held == {filling, pframe} \ {NoBuffer}

\* As long as no pop has met the unlocked push, a buffer is never filled by main()
\* while the pipeline thread reads it, and none leaks, pictures refused by the output
\* included.
BuffersConserved ==
    ~torn =>
        /\ IsInjective(_pipelineIngress \o _pipelineEgress)
        /\ Range(_pipelineIngress \o _pipelineEgress) \cap Held = {}
        /\ filling # NoBuffer => filling # pframe
        /\ service # "none" =>
               Range(_pipelineIngress \o _pipelineEgress) \cup Held = Buffer

\* A picture is dropped only for a backlog, once the pipeline runs and as long as its
\* queue is not torn: all buffers wait to be output, but for the one the pipeline thread
\* may be at work on.
DropsMeanBacklog ==
    [][AddFrameDrop /\ service # "none" /\ ~torn
           => Len(_pipelineEgress) + 1 >= Buffers]_vars

Scheduled == [i \in DOMAIN card |-> card[i].frame]

\* Whatever becomes of the buffers, a frame is on the card, waiting or free: no picture
\* is written into a frame the card may play, and the card never runs out of frames.
FramesConserved ==
    built => /\ IsInjective(Scheduled \o _outputFrames \o _completedFrames)
             /\ Range(Scheduled \o _outputFrames \o _completedFrames) = Frame
             /\ Len(card) = Half

\* As long as no pop has met the unlocked push, pictures go on air in the order in which
\* main() composed them, whatever is dropped, refused or repeated on the way: the card
\* never goes back to an earlier one, what waits for it comes later, and what the
\* pipeline has still to hand over later yet.
PicturesInOrder ==
    LET air   == [i \in DOMAIN card |-> bytes[card[i].frame]]
        next  == [i \in DOMAIN _outputFrames |-> bytes[_outputFrames[i]]]
        later == [i \in DOMAIN _pipelineEgress |-> pixels[_pipelineEgress[i]]]
    IN  ~torn =>
        /\ \A i, j \in DOMAIN air : i < j => air[i] <= air[j]
        /\ \A i, j \in DOMAIN next : i < j => next[i] < next[j]
        /\ \A i, j \in DOMAIN later : i < j => later[i] < later[j]
        /\ \A i \in DOMAIN air, j \in DOMAIN next : air[i] < next[j]
        /\ \A i \in DOMAIN air, j \in DOMAIN later : air[i] < later[j]
        /\ \A i \in DOMAIN next, j \in DOMAIN later : next[i] < later[j]

\* Frames are scheduled at increasing times, none twice and none before another,
\* however many were late.
TimesIncrease ==
    /\ \A i \in DOMAIN card : card[i].time < _totalFramesScheduled
    /\ \A i, j \in DOMAIN card : i < j => card[i].time < card[j].time

\* Output implements RepeatingFifo: each accepted picture goes on air once, the
\* last one is repeated while nothing waits.
Sdi == INSTANCE RepeatingFifo WITH
           Picture  <- 0..MaxPictures,
           Depth    <- Half,
           Capacity <- Frames - Half,
           waiting  <- [i \in DOMAIN _outputFrames |-> bytes[_outputFrames[i]]],
           playing  <- IF built THEN [i \in DOMAIN card |-> bytes[card[i].frame]]
                                ELSE [i \in 1..Half |-> White]
SdiSpec == Sdi!Spec

\* Pictures are dropped for a while, never for ever: a buffer comes back whatever
\* the driver does, unless a torn queue has lost them.
IngressRefills ==
    (service # "none" /\ _pipelineIngress = <<>>)
        ~> (_pipelineIngress # <<>> \/ torn \/ ~alive)
=============================================================================
