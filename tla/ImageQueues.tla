----------------------------- MODULE ImageQueues -----------------------------
(***************************************************************************)
(* The image path of one pooled instance (slot): the decoder callbacks     *)
(* PeerConnectionObserverImpl::OnFrame take a buffer from                  *)
(* events_image_empty, convert a frame into it and push it to              *)
(* events_image_current; the openGL loop of main() pops it, copies it into *)
(* lastTextureBuffer_ and pushes the buffer back.  The two queues share    *)
(* mtx_image_, so one push or pop is one step; conversion and memcpy run   *)
(* outside the lock, between steps.                                        *)
(*                                                                         *)
(* The slot is reused: the telnet commands executed by the same loop open  *)
(* and close channels and still images on it.  A slot that is opened while *)
(* its threads are still joinable ends the process (std::thread::operator=);*)
(* those behaviours end here and belong to module ChannelSlots.            *)
(***************************************************************************)
EXTENDS Naturals, Sequences, FiniteSets, Functions

CONSTANTS
    Sink,         \* video tracks of one peer connection (multistream: several)
    NoSink,       \* the source of a picture that no track delivered
    PoolSize,     \* buffers malloc'd per event_init (30 in the code)
    MaxBuffers,   \* bound: buffers malloc'd over the whole run
    MaxSessions,  \* bound: occupancies of the slot
    MaxFrames     \* bound: OnFrame calls over the whole run

ASSUME SinkAssumption == IsFiniteSet(Sink) /\ NoSink \notin Sink
ASSUME PoolAssumption == PoolSize \in Nat /\ PoolSize > 0
ASSUME BoundAssumption == /\ MaxBuffers \in Nat
                          /\ MaxSessions \in Nat
                          /\ MaxFrames \in Nat

VARIABLES
    instance_enum,        \* "MIN": free, "CHANNEL": INSTANCE_00, "LOCAL": INSTANCE_LOCAL_00
    image_path,           \* a still image was opened here once (never cleared)
    session,              \* how often the slot was opened: names its occupant
    threads,              \* session whose two std::threads are joinable, 0: none
    peer,                 \* session whose PeerConnection is up, 0: none
    pool,                 \* number of malloc'd buffers: they are 1..pool
    pixels,               \* what each buffer holds
    events_image_empty,
    events_image_current,
    rgb,                  \* per sink: the buffer OnFrame is converting into
    frames,               \* number of OnFrame calls so far
    pc,                   \* main(): "loop", "copy" (memcpy) or "join" (delete)
    pframe,               \* main(): the buffer popped from events_image_current
    lastTextureBuffer     \* lastTextureBuffer_, what gl_movie_play draws

slot    == <<instance_enum, image_path, session, threads>>
queues  == <<events_image_empty, events_image_current>>
decoder == <<rgb, frames, pixels>>
main    == <<pc, pframe, lastTextureBuffer>>
vars    == <<slot, peer, pool, queues, decoder, main>>

NoBuffer == 0
Buffer   == 1..MaxBuffers

\* A picture: the sink and the session it comes from, its place in the order of
\* arrival, and whether the conversion that wrote it had finished.
Picture == [sink : Sink \cup {NoSink}, session : 0..MaxSessions,
            no : 0..MaxFrames, whole : BOOLEAN]
StillImage(s) == [sink |-> NoSink, session |-> s, no |-> 0, whole |-> TRUE]

Init ==
    /\ instance_enum = "MIN" /\ image_path = FALSE /\ session = 0 /\ threads = 0
    /\ peer = 0
    /\ pool = 0
    /\ pixels = [b \in Buffer |-> StillImage(0)]
    /\ events_image_empty = <<>> /\ events_image_current = <<>>
    /\ rgb = [s \in Sink |-> NoBuffer]
    /\ frames = 0
    /\ pc = "loop" /\ pframe = NoBuffer /\ lastTextureBuffer = StillImage(0)

----------------------------------------------------------------------------
(* The commands, executed by main() between two frames.                    *)

\* Broken variant: the old queues are swapped for new ones without being emptied.
event_init_clears ==
    /\ pool + PoolSize <= MaxBuffers
    /\ pool' = pool + PoolSize
    /\ events_image_empty' = [i \in 1..PoolSize |-> pool + i]
    /\ events_image_current' = <<>>

\* Fresh, zeroed buffers are appended; what the queues held before stays.
event_init ==
    /\ pool + PoolSize <= MaxBuffers
    /\ pool' = pool + PoolSize
    /\ events_image_empty' = events_image_empty \o [i \in 1..PoolSize |-> pool + i]
    /\ UNCHANGED events_image_current

subscribeSideAddChannel ==
    /\ pc = "loop" /\ instance_enum = "MIN" /\ threads = 0
    /\ session < MaxSessions
    /\ instance_enum' = "CHANNEL"
    /\ session' = session + 1
    /\ threads' = session + 1
    /\ event_init
    /\ UNCHANGED <<image_path, peer, decoder, main>>

\* Up to the joins: the slot reads as free, the peer connection still runs.
DeleteChannelBegin ==
    /\ pc = "loop" /\ threads # 0
    /\ instance_enum' = "MIN"
    /\ pc' = "join"
    /\ UNCHANGED <<image_path, session, threads, peer, pool, queues, decoder,
                   pframe, lastTextureBuffer>>

\* Broken variant: the decoders are cut off in the middle of a conversion.
DeleteChannelEnd_cuts ==
    /\ pc = "join"
    /\ threads' = 0 /\ peer' = 0
    /\ rgb' = [s \in Sink |-> NoBuffer]
    /\ pc' = "loop"
    /\ UNCHANGED <<instance_enum, image_path, session, pool, queues, frames,
                   pixels, pframe, lastTextureBuffer>>

\* Both threads joined, webrtc_quit releases the connection: libwebrtc stops
\* the decoders first, so no OnFrame is under way any more.
DeleteChannelEnd ==
    /\ pc = "join"
    /\ \A s \in Sink : rgb[s] = NoBuffer
    /\ threads' = 0 /\ peer' = 0
    /\ pc' = "loop"
    /\ UNCHANGED <<instance_enum, image_path, session, pool, queues, decoder,
                   pframe, lastTextureBuffer>>

resourceAddStaticImage ==
    /\ pc = "loop" /\ instance_enum = "MIN"
    /\ session < MaxSessions
    /\ instance_enum' = "LOCAL" /\ image_path' = TRUE
    /\ session' = session + 1
    /\ lastTextureBuffer' = StillImage(session + 1)
    /\ UNCHANGED <<threads, peer, pool, queues, decoder, pc, pframe>>

\* Every slot whose image_path matches is freed, a channel that reuses it too.
resourceDeleteStaticImage ==
    /\ pc = "loop" /\ image_path
    /\ instance_enum' = "MIN"
    /\ UNCHANGED <<image_path, session, threads, peer, pool, queues, decoder, main>>

----------------------------------------------------------------------------
(* The peer connection and its decoder threads.                            *)

\* The dispatch thread handles an OFFER; OnTrack registers the sinks.
webrtc_event ==
    /\ threads # 0 /\ peer = 0
    /\ peer' = threads
    /\ UNCHANGED <<slot, pool, queues, decoder, main>>

\* Broken variant: the buffer is published before the conversion.
OnFrameBegin_publishes(s) ==
    /\ peer # 0 /\ rgb[s] = NoBuffer /\ frames < MaxFrames
    /\ events_image_empty # <<>>
    /\ rgb' = [rgb EXCEPT ![s] = Head(events_image_empty)]
    /\ events_image_empty' = Tail(events_image_empty)
    /\ events_image_current' = Append(events_image_current, Head(events_image_empty))
    /\ frames' = frames + 1
    /\ pixels' = [pixels EXCEPT ![Head(events_image_empty)] =
                     [sink |-> s, session |-> peer, no |-> frames + 1, whole |-> FALSE]]
    /\ UNCHANGED <<slot, peer, pool, main>>

\* OnFrame finds a buffer and starts to convert into it.
OnFrameBegin(s) ==
    /\ peer # 0 /\ rgb[s] = NoBuffer /\ frames < MaxFrames
    /\ events_image_empty # <<>>
    /\ rgb' = [rgb EXCEPT ![s] = Head(events_image_empty)]
    /\ events_image_empty' = Tail(events_image_empty)
    /\ frames' = frames + 1
    /\ pixels' = [pixels EXCEPT ![Head(events_image_empty)] =
                     [sink |-> s, session |-> peer, no |-> frames + 1, whole |-> FALSE]]
    /\ UNCHANGED <<slot, peer, pool, events_image_current, main>>

\* OnFrame drops the frame: "not enough empty-image buffer".
OnFrameDrop(s) ==
    /\ peer # 0 /\ rgb[s] = NoBuffer /\ frames < MaxFrames
    /\ events_image_empty = <<>>
    /\ frames' = frames + 1
    /\ UNCHANGED <<slot, peer, pool, queues, rgb, pixels, main>>

\* Broken variant: a stack instead of a queue.
OnFrameEnd_stacks(s) ==
    /\ rgb[s] # NoBuffer
    /\ pixels' = [pixels EXCEPT ![rgb[s]].whole = TRUE]
    /\ events_image_current' = <<rgb[s]>> \o events_image_current
    /\ rgb' = [rgb EXCEPT ![s] = NoBuffer]
    /\ UNCHANGED <<slot, peer, pool, events_image_empty, frames, main>>

\* The conversion is complete, the buffer becomes a current image.
OnFrameEnd(s) ==
    /\ rgb[s] # NoBuffer
    /\ pixels' = [pixels EXCEPT ![rgb[s]].whole = TRUE]
    /\ events_image_current' = Append(events_image_current, rgb[s])
    /\ rgb' = [rgb EXCEPT ![s] = NoBuffer]
    /\ UNCHANGED <<slot, peer, pool, events_image_empty, frames, main>>

----------------------------------------------------------------------------
(* main(): "collect available frames".                                     *)

\* Broken variant: front() without pop().
CollectBegin_peeks ==
    /\ pc = "loop" /\ instance_enum # "MIN"
    /\ events_image_current # <<>>
    /\ pframe' = Head(events_image_current)
    /\ pc' = "copy"
    /\ UNCHANGED <<slot, peer, pool, queues, decoder, lastTextureBuffer>>

\* Broken variant: only the newest frame is shown, the others are discarded.
CollectBegin_newest ==
    /\ pc = "loop" /\ instance_enum # "MIN"
    /\ events_image_current # <<>>
    /\ pframe' = events_image_current[Len(events_image_current)]
    /\ events_image_current' = <<>>
    /\ pc' = "copy"
    /\ UNCHANGED <<slot, peer, pool, events_image_empty, decoder, lastTextureBuffer>>

CollectBegin ==
    /\ pc = "loop" /\ instance_enum # "MIN"
    /\ events_image_current # <<>>
    /\ pframe' = Head(events_image_current)
    /\ events_image_current' = Tail(events_image_current)
    /\ pc' = "copy"
    /\ UNCHANGED <<slot, peer, pool, events_image_empty, decoder, lastTextureBuffer>>

\* Broken variant: the pointer is reset before it is pushed.
CollectEnd_resets ==
    /\ pc = "copy"
    /\ lastTextureBuffer' = pixels[pframe]
    /\ events_image_empty' = Append(events_image_empty, NoBuffer)
    /\ pframe' = NoBuffer
    /\ pc' = "loop"
    /\ UNCHANGED <<slot, peer, pool, events_image_current, decoder>>

CollectEnd ==
    /\ pc = "copy"
    /\ lastTextureBuffer' = pixels[pframe]
    /\ events_image_empty' = Append(events_image_empty, pframe)
    /\ pframe' = NoBuffer
    /\ pc' = "loop"
    /\ UNCHANGED <<slot, peer, pool, events_image_current, decoder>>

\* An iteration of the loop that finds no frame to collect in the slot.
CollectNothing ==
    /\ pc = "loop"
    /\ instance_enum = "MIN" \/ events_image_current = <<>>
    /\ UNCHANGED vars

----------------------------------------------------------------------------
Command == \/ subscribeSideAddChannel
           \/ DeleteChannelBegin
           \/ DeleteChannelEnd
           \/ resourceAddStaticImage
           \/ resourceDeleteStaticImage
OnFrame(s) == OnFrameBegin(s) \/ OnFrameDrop(s) \/ OnFrameEnd(s)
Collect == CollectBegin \/ CollectEnd

Next == Command \/ webrtc_event \/ Collect \/ CollectNothing \/ \E s \in Sink : OnFrame(s)

Spec == Init /\ [][Next]_vars

\* The loop of main() polls every slot on every iteration and a delete waits for
\* nothing but the decoders; a conversion that started runs to its end.
Fairness == /\ WF_vars(Collect)
            /\ WF_vars(DeleteChannelEnd)
            /\ \A s \in Sink : WF_vars(OnFrameEnd(s))

FairSpec == Spec /\ Fairness

----------------------------------------------------------------------------
(* Properties.                                                             *)

\* Every variable keeps its type.
TypeOK ==
    /\ instance_enum \in {"MIN", "CHANNEL", "LOCAL"}
    /\ image_path \in BOOLEAN
    /\ session \in 0..MaxSessions
    /\ threads \in 0..session
    /\ peer \in 0..session
    /\ pool \in 0..MaxBuffers
    /\ pixels \in [Buffer -> Picture]
    /\ events_image_empty \in Seq(1..pool)
    /\ events_image_current \in Seq(1..pool)
    /\ rgb \in [Sink -> 0..pool]
    /\ frames \in 0..MaxFrames
    /\ pc \in {"loop", "copy", "join"}
    /\ pframe \in 0..pool
    /\ lastTextureBuffer \in Picture

Converting == {s \in Sink : rgb[s] # NoBuffer}

\* No buffer is in two places: two decoders, or a decoder and the memcpy of the
\* openGL loop, never work on the same memory.
EachBufferOnce ==
    /\ IsInjective(events_image_empty)
    /\ IsInjective(events_image_current)
    /\ Range(events_image_empty) \cap Range(events_image_current) = {}
    /\ \A s \in Converting : /\ rgb[s] \notin Range(events_image_empty)
                             /\ rgb[s] \notin Range(events_image_current)
                             /\ rgb[s] # pframe
    /\ \A s, t \in Converting : s # t => rgb[s] # rgb[t]
    /\ pframe # NoBuffer => /\ pframe \notin Range(events_image_empty)
                            /\ pframe \notin Range(events_image_current)

\* The places hold as many buffers as were malloc'd: however the slot is closed
\* and reused while frames are in flight, none leaks.
NoBufferLost ==
    Len(events_image_empty) + Len(events_image_current) + Cardinality(Converting)
        + (IF pframe = NoBuffer THEN 0 ELSE 1) = pool

\* The buffers main() still has to show, oldest first.
Waiting == (IF pframe = NoBuffer THEN <<>> ELSE <<pframe>>) \o events_image_current

\* What is queued for the screen, copied or drawn was converted to the end: the
\* lock covers the queues, not the pixels.
OnlyWholePictures ==
    /\ \A i \in DOMAIN Waiting : pixels[Waiting[i]].whole
    /\ lastTextureBuffer.whole

\* Frames of one track reach the screen in the order they arrived, across drops
\* and reuse of the slot: later ones wait behind it, or are being converted.
InArrivalOrder ==
    /\ \A i, j \in DOMAIN Waiting :
          i < j /\ pixels[Waiting[i]].sink = pixels[Waiting[j]].sink
             => pixels[Waiting[i]].no < pixels[Waiting[j]].no
    /\ \A i \in DOMAIN Waiting, s \in Converting :
          pixels[Waiting[i]].sink = s => pixels[Waiting[i]].no < pixels[rgb[s]].no
    /\ \A i \in DOMAIN Waiting :
          pixels[Waiting[i]].sink = lastTextureBuffer.sink
             => lastTextureBuffer.no < pixels[Waiting[i]].no
    /\ \A s \in Converting :
          lastTextureBuffer.sink = s => lastTextureBuffer.no < pixels[rgb[s]].no

\* The two queues, the decoders and the copying loop together implement the
\* bounded FIFO of FrameFifo.
Fifo == INSTANCE FrameFifo WITH
            Picture  <- {p \in Picture : p.whole /\ p.sink \in Sink},
            Still    <- {StillImage(n) : n \in 0..MaxSessions},
            Capacity <- MaxBuffers,
            fifo     <- [i \in DOMAIN Waiting |-> pixels[Waiting[i]]],
            shown    <- lastTextureBuffer
FifoSpec == Fifo!Spec

\* A frame is dropped only for a backlog: apart from one buffer for each other track
\* and one for the copy, every buffer malloc'd for the slot holds a frame that waits
\* for the screen; a reused slot, whose buffers are those of all its occupants, still
\* has the use of every one of them.
DropsMeanBacklog ==
    [][\A s \in Sink : OnFrameDrop(s) =>
          Len(events_image_current) + Cardinality(Sink) >= pool]_vars

\* The screen never goes back: the picture that replaces one of the same track is a
\* later one.
ScreenGoesForward ==
    [][lastTextureBuffer'.sink = lastTextureBuffer.sink /\ lastTextureBuffer.sink \in Sink =>
          \/ UNCHANGED lastTextureBuffer
          \/ lastTextureBuffer.no < lastTextureBuffer'.no]_vars

\* Every accepted frame is shown unless the slot is freed first: no frame is
\* stuck behind a missing buffer.
AcceptedFrameIsShown ==
    \A n \in 1..MaxFrames :
        (\E i \in DOMAIN Waiting : pixels[Waiting[i]].no = n)
            ~> (lastTextureBuffer.no = n \/ instance_enum = "MIN")

\* What the README says of a slot whose channel is late: the previous buffer of
\* that channel is composed.  The picture about to be copied is the occupant's.
CollectsOwnFrames == pc = "copy" => pixels[pframe].session = session
=============================================================================
