# Verification of bres

bres receives WebRTC channels from an SFU, composes them with openGL and sends the
result back to the SFU or to an SDI card. This directory holds TLA+ models of its
concurrent core and of its two examples, the TLC configurations that check them and
TLAPS proofs about all of them. Paths below are relative to the repository's root,
`src/` in `PROJECT.json` being that root.

## 1. The system

Threads of the process:

| thread | code | works on |
|---|---|---|
| main / openGL | `src/main.cc` 60-163 | pool of instances, textures, image queues, commands |
| telnet | `src/telnet_service.cc` | `ipc_events` |
| dispatcher, one per open channel | `src/subscribe_side_channel.cc` 55-79, `src/publish_side_channel.cc` 41-65 | event queues, PeerConnection, `sendTarget` |
| websockets, one per open channel | same files, 80-86 and 67-72 | lws context, event queues, `sendTarget` |
| libwebrtc signaling and decoders, per channel | `inc/bres+client_webrtc_inl.hh` | PeerConnection, event, image and audio queues |
| audio (SDL or SDI) | `src/audio.cc` | audio queues |
| SDI pipeline, SDI driver | `src/bm.cc` | pipeline queues, frames of the card |

Components, their state, and what makes them correct:

* **Image path of a slot** (`event.cc` 59-126, `OnFrame`, `main.cc` 71-79). State: the
  malloc'd buffers, `events_image_empty`, `events_image_current`,
  `lastTextureBuffer_`. Decoders pop an empty buffer, convert into it and push it;
  the main loop copies it out and gives it back. Hard: the lock covers the queues
  and not the pixels; the slot is closed and reopened with frames in flight; several
  tracks share the queues. Correct: a buffer is in one place, none is lost, only
  whole pictures are shown, in order.
* **Pool of slots and commands** (`subscribe_side_channel.cc`,
  `resource_static_image.cc`, `main.cc` 141-162). State: 9 instances with name, use,
  flags, threads and objects; the queue of commands. Hard: a slot is found by a name
  that outlives its use; joins in the main loop; three resources torn down in
  sequence. Correct: an open channel is served, a free slot owns nothing, a command
  affects what it names, no command ends the process or blocks it.
* **Signaling of an instance** (`websockets.cc`, `webrtc.cc`, the observers). State:
  two event queues, `sendTarget`, the websocket, the PeerConnection. Hard: three
  threads, one unlocked string, asynchronous completions, loss of the connection.
  Correct: `connect` comes first, messages in order, one answer per offer, no lost
  wakeup.
* **SDI output** (`bm.cc`). State: two pipeline queues, `Device::_outputs`, free,
  waiting and scheduled frames. Hard: three threads, an unlocked push, late frames,
  devices that come late or go. Correct: buffers and frames are conserved, time
  increases, pictures in order, the last one repeated.
* **Telnet console** (`telnet_service.cc`). State: sockets, `req_` per client, the
  event loop's list of ready descriptors. Hard: a recv ends anywhere in a line, or
  holds several lines; clients leave at any time. Correct: what an operator types who
  waits for each line to arrive becomes commands.
* **Audio** (`audio.cc`, `OnData`). State: `events_audio_` per slot, the block being
  mixed. Hard: decoders, main loop and audio callback meet per slot; 16 bits; the
  index arithmetic of the upsampling. Correct: no packet is lost or heard twice, the
  mix is the sum where the sum fits, the upsampling only stretches.
* **Composition and publishing** (`gl.cc`, `main.cc` 81-122,
  `bres+client_vdevice_inl.hh`): textures, drawing, read back, the publisher's sources.
* **Shutdown** (`main.cc` 164-186). State: the quit flags, the threads of publisher
  and slots, the telnet thread. Hard: main waits for a thread that waits for a client,
  and a joinable thread that is destroyed ends the process. Correct: ESC ends it.
* **Examples** `play_movie`, `play_audio`. State: one queue for both directions,
  `sendTarget`, the PeerConnection; in one a decoder state machine (`iterate`). Hard:
  the same three threads as in bres, with a loop that also has to play. Correct:
  frames in order, played to the end, signaling meanwhile.

They interact by calls (main executes commands), by queues under a mutex
(`ipc_events`, events, images, pipeline), by callbacks (lws, libwebrtc, the SDI
driver) and by shared flags without one (`quit`, `sendTarget`, `websocket`). The
hazards of this code are listed, each at its line, in `PROJECT.json`.

## 2. The modules

| module | models | |
|---|---|---|
| `ImageQueues` | image path of one slot, with the commands that reuse it | detailed |
| `FrameFifo` | bounded FIFO with a picture on screen | abstract, implemented by `ImageQueues` |
| `ChannelSlots` | pool, commands, threads and objects of all slots | detailed |
| `ChannelTable` | a set of named channels and images | abstract, implemented by `ChannelSlots` |
| `Signaling` | the threads of one instance and its SFU | detailed |
| `DeckLinkOutput` | main loop, pipeline thread, `Device`, `Output`, driver | detailed |
| `RepeatingFifo` | a FIFO that repeats its last element | abstract, implemented by `DeckLinkOutput` |
| `TelnetService` | the console: its event loop, its clients, bytes to commands | detailed |
| `Shutdown` | the process around its main loop | composes `TelnetService` |
| `AudioPath` | `OnData`, the audio queues, the callbacks and the mix | detailed |
| `MCAudioPath` | the sounds `AudioPath` is checked with | TLC |
| `MovieIterate` | `iterate`, the decoder state machine of `play_movie` | detailed |
| `ExampleClient` | both examples | composes `MovieIterate` |
| `X_proofs` of the seven detailed modules that have a run | theorems | TLAPS |
| `QueueFacts` | lemmas on queues that the proofs share | TLAPS |

Variables have the names of the fields they stand for where there is one; actions
have the names of the functions, with `Begin`/`End` where other threads run in
between. A definition called `X_word`, "Broken variant", is a plausible bug in X; it
is part of no specification and serves to show that the property named in
`PROJECT.json` would notice.

**ImageQueues.** A push or pop is one step (they hold `mtx_image_`); conversion lies
between `OnFrameBegin` and `OnFrameEnd`, the copy between `CollectBegin` and
`CollectEnd`. A buffer's content is the sink and session it comes from, its number
and whether it is complete. The join of a delete (`pc = "join"`) waits for the
decoders in hand, because `webrtc_quit` releases the connection, which stops them
synchronously. `resourceDeleteStaticImage` may free a slot that a channel has taken
since; its threads and decoders go on, as in the code. Opening such a slot would
assign a `std::thread` to a joinable one and end the process; that is modelled in
`ChannelSlots`.

**ChannelSlots.** The telnet thread appends commands; `main()` takes one at a time.
A delete is a scan (`DeleteStart`, `DeleteMatch`, `DeleteJoin`, `DeleteDone`) because
the threads it joins run meanwhile. `ended` says what ended the process:
`AddAssignsJoinable`, a thread assigned to one that was not joined; `DeleteJoinNone`, a
join without a thread; `AddReadsFreedImage`, a still image leaves `init_image` behind in
its slot, and a channel opened there builds its texture from memory that was freed when
the image was loaded (undefined, so the add may also succeed); `HandlerThrows`, a member
of another type, for which nobody catches the exception. A command that lacks members, an
add to a full pool and a file that is not found are `CommandIgnored`. Slots keep
`channel_id` and `image_path` after they are freed, as in the code, so what holds depends
on the operator: `Paired` (opens what is closed, closes what is open), `FreshNames` (never
uses a name twice) and `Careless` (members may be missing or of another type) are
parameters. Sizes of images and buffers are left out.

**Signaling.** `order_` says whether the instance is the publisher or a slot. The two
threads step at each point where the other may run: `websockets_event` is `SendBegin`
(the assignment of `sendTarget` is under way, a reader sees `Torn`), `SendAssigned` (a
callback that was asked for earlier would write the message now) and `SendEnd` (the
request for a callback, which writes it once more in that case); `webrtc_event` is
`OfferBegin` (new PeerConnection) and `OfferEnd`. `tasks` is what libwebrtc still has to
report; when an offer replaces the connection these reports reach the new one or none,
since the repository does not determine which. External: the SFU answers `connect` with
an offer and may ping; libwebrtc reports in order, creates an answer only while an offer
is pending, and finds candidates once there is a local description. Candidates that
libwebrtc gathers are bounded, not their timing. Parsing failures of SDP are the
alternative of `OfferEnd`; other malformed messages from the SFU are not modelled.

**DeckLinkOutput.** `Device` and `Output` hold a mutex, their methods are steps. The
pipeline thread gives a buffer back without the mutex under which `main()` pops:
`ServicePushBegin`/`ServicePushEnd`. A pop in between sees the queue without the buffer,
or tears it (`AddFrameTorn`): it gets NULL, which is a PANIC, or any buffer, and some or
all of the others are lost; `torn` remembers that. A deque whose memory is destroyed,
which may end the process anywhere, is not modelled. `StartPipeline` and `audioInit` are
the start in `main()`: the sleep, then the thread, then the PANIC if there is no output.
The driver is external: it plays scheduled frames in order and reports each, late or
not, and announces and removes devices at any time.

**TelnetService and Shutdown.** A line is the two halves of a JSON text, cr and lf, or
cr and lf alone; `network` is what TCP has still to deliver and `onRecv` takes any
number of units up to `RecvMax`. `req_` is taken when it ends with lf: `Accepted` says
when `json::parse` makes one value of it, `Parsed` which. A line may be of the kind that
main() executes, another JSON, or one whose members have other types than asked for,
which throws. An accept may fail for now, fail for good, or throw over a socket option.
`Shutdown` has main() around it: `Execute` once a second, `Escape`, and
`Ending` in the order of the code: publisher, flags, join of the telnet thread, release
of the open slots, return. A slot is one entry there; `ChannelSlots` has its details.
A still image opens a slot without threads, and may get one that a channel has left its
threads in. `Release` of a slot without threads ends the process (`webrtc_quit` calls
`Stop` of a `message_queue` that is NULL), of one with threads may end it.
`libevent2` and `sdi` are compile-time switches, chosen in `Init`.

**AudioPath.** `OnData` is one step for one packet: nothing it reads is written by
another thread before the locked push. The callback is a step per slot
(`CallbackSlot`), since main() may open, close, show or hide slots in between. There is
one callback: `Device` makes an output of the first card only. SDL asks for a block of ten
milliseconds; for the card, `RenderAudioSamples` asks for what is missing to a second,
`room`: with less room than a packet the callback writes past the end of the buffer, and
the process may end (`alive`), with more the rest is silence.
`Upsample` is a function on samples that divides as C does; the three samples its loop
leaves alone keep the zeros they were created with, and the one it writes past the end
of the string is not read. Samples stay within `Limit`, a short.

**MovieIterate and ExampleClient.** `iterate` is one step per state of its switch;
packets are of the stream, of another, or undecodable, in any order up to a length.
`ExampleClient` adds main(), the thread of `lws_service`, and libwebrtc's observers.
Sending is the same three steps as in `Signaling`. An offer that cannot be used (members
missing or of another type, no connection, no sdp) ends the process, `unparsable`.
`metadata` says whether `WEBRTC_METADATA` is what the README tells to set or ends with
a comma.

## 3. What the runs check

| run | bounds | shows |
|---|---|---|
| `image_queues` | 2 tracks, 1 buffer per opening, 3 openings, 4 frames | type, ownership, conservation, whole pictures, order, refinement of `FrameFifo`, accepted frames are shown |
| `image_queues_stale` | 1 track, 2 openings | finding: frames of the previous channel |
| `slots_any` | 2 slots, 2 channels, 1 image, 5 commands, any order, careless | channels are served, threads keep their objects; without images free slots own nothing and properties find their channel |
| `slots_fresh` | 2 slots, 3 channels, 1 image, 6 commands, each name once, careless | no abort over a thread, every command ends, refinement of `ChannelTable` |
| `slots_delete` | 3 slots, 2 channels, paired commands | finding: delete reaches slots that are free |
| `slots_property` | 3 slots, 1 channel, 1 image, paired commands | finding: attributes go to a former slot |
| `signaling` | publisher or 2 channels in a row on a slot, 2 offers, 1 ping, 1 candidate | connect first, order on the wire, one answer, tracks once, no lost wakeup |
| `signaling_answer` | 1 offer, 1 candidate | finding: an answer may never be written |
| `sdi_output` | 2 buffers, 4 frames, 4 pictures, 2 arrivals, time up to 9 | frames conserved, buffers until a pop meets the unlocked push, time, refinement of `RepeatingFifo`, ingress refills |
| `shutdown` | 1 client, 3 lines, recv of up to 3 units, 1 slot, both libevents, with and without SDI | commands arrive, ESC ends the process |
| `audio` | 2 slots, 3 packets of 4 sounds, 3 switches, blocks of 9 samples of 4 bits, room for 4 or 12 on the card | packets conserved, the mix is the sum, stretching, packets are taken |
| `example` | every file of up to 3 packets, decoder that holds back 1 frame, sound of 2 blocks, 1 offer, 1 ping, 1 candidate | frames in order, causes of death, play to the end, signaling goes on |

Why the bounds are enough. Two tracks and three openings give a slot that is closed with
frames in each place and reused twice; one buffer per opening makes starvation and drops
happen, and three buffers in the end can be in three places. Two slots and three names
make the pool full and every slot reused; three slots are needed for a name to have a
former slot both before and after its present one. Two messages compete for `sendTarget`
already; connect, pong, answer and candidate cover every pair of kinds, and two offers
make a report meet a connection that is not its own. Four frames are two on the card and
two to be free, waiting or both; four pictures fill both pipeline buffers and both
frames. A recv of three units of a line of four can end before and in the crlf and span
two lines. Nine samples are three of 16 kHz, the fewest with a first, a middle and a
last one; one sound saturates in both directions, alone and with another; room for 4 is
less than a packet, for 12 more. A file of three has a packet to be decoded after one
that was not of the stream and one that was held back. `MaxX` constants are bounds and
stand in guards; all other constants are parameters of the program.

Limits of single properties:

* `ChannelsReleased` and `ChannelsAreFound` hold until an image is asked for, and say so
  (`NoImages`). Afterwards they do not hold of the code: deleting an image frees a slot
  without joining the threads a channel may have there by then.
* `ThreadsHaveTheirObjects` holds although that channel is lost: its threads keep their
  context and connection. No property covers the loss itself.
* `OneAnswerPerOffer` and `OnlyLossKills` speak of an instance that has got one offer,
  as does `DeathHasACause` of the examples. With two they fail in the model, when a
  report of the first connection reaches the second.
* `OneAnswerPerOffer` counts answers that are made. On the wire one answer may appear
  twice, in a row; `WireInOrder` allows that, and `OneAnswer` of the examples says so.
* `DeathHasACause` excuses any death when the metadata are the documented ones (the first
  message then ends the process anyway), when the connection is gone, after an offer that
  cannot be used, and in the last step, where the lws context is destroyed twice.
* `ConnectFirst` holds of the first channel of an instance, which for the publisher
  is the only one (`publishSideAddChannel` is called once). A slot that is reused
  may send a left-over message first.
* `NoThreadError` and `TableSpec` need `FreshNames`; the two findings about slots are what
  happens without. `NoThreadError` says nothing of the other two ends: an exception over
  a careless command, and a channel that is opened in a slot that has shown an image.
* `BuffersConserved` ends when a pop has met the unlocked push, since then it need not
  hold of the code; `IngressRefills` allows a queue that was torn. `FramesConserved` and
  `SdiSpec` do not depend on it.
* `PacedCommandsArrive` speaks of operators who wait until a line has arrived before
  they type the next. Lines that share a recv are one text, which is no JSON, and are
  all dropped.
* `EscapeEnds` holds with libevent 2, and when something is ready on the console: its
  loop blocks without a timeout, and `quit` is looked at after it returns. The
  process may also end by an exception on the way: that is the `~alive` in it (the
  join of a publisher that was never added with SDI, slots that are open).
* `NoneLostNoneTwice` and `PacketIsTaken` put no bound on the backlog of a slot, which is
  not drained while the slot is closed and grows as fast as the network delivers.
* `UpsampleKeeps` is about the samples that are queued; the one that is written past the
  end of the string is not in the model.
* `MixIsSum` speaks of samples whose absolute values fit together in 16 bits; where
  they do not, saturation in between makes the result depend on the order of slots.

Fairness. The main loop, the dispatcher and the pipeline thread are loops with a
sleep of at most 100 us and no blocking call but the joins, so their steps are weakly
fair; `lws_service` returns at least every 250 ms and calls back for a writable
wire; a conversion that started ends; libwebrtc reports what it was asked; SDL and the
card ask for sound for ever; libevent calls back for what is ready, and main() takes a
command every second. The main loop of the examples has no step that waits for
another thread before its end. Nothing is assumed of the operator (who need not type
or press ESC), the SFU, the network, the rate of frames, or the SDI driver. Runs that
say `CHECK_DEADLOCK FALSE` have behaviours that end: the process may die or return, or
the bounds on commands, messages or time are used up.

## 4. What is proved

For every value of the constants (`tlapm X_proofs.tla`), from the named assumptions of
the modules only. Every type invariant is proved, and:

* `ImageQueues_proofs`: `OwnershipCorrect`, `ConservationCorrect`, `PicturesWhole`,
  `ArrivalOrderKept`, and `FifoImplemented`, the refinement of `FrameFifo`. The
  inductive invariant `IInv` is `Typed`, `EachBufferOnce`, `NoBufferLost` and
  `Pictures`. Order and wholeness are not inductive alone: that a push keeps the order
  needs the number of the frame in conversion to be newer than all queued ones of its
  track (`PicturesDated`), a converting sink to own its picture (`TracksNamed`), and no
  other step to write into a queued buffer (`EachBufferOnce`). The refinement needs in
  addition that a step leaves the pixels of waiting buffers alone. Two action
  properties follow from `IInv`: `DropsExplained`, by counting, since what is not queued
  is in the hand of another track or of the copy; and `ScreenCorrect`.
* `ChannelSlots_proofs`, for an operator who sends anything in any order:
  `OpenChannelsServed`, `ThreadsOnLiveObjects`, `ChannelSlotsReleased`. `Served`
  strengthens the first two: both threads of a slot are joinable together, joinable
  threads have live objects, and while `main()` joins, the slot it is at is closed with
  `quit` set. `Clean` strengthens the last: every slot that is free owns nothing, except
  the one being joined, and no slot has ever had an image path; it holds until an image
  is asked for, because a queued image has its name among the used ones (`Asked`).
  `FirstFacts`, that the loop over the slots finds the least match, rests on the
  well-foundedness of inclusion on finite sets. For an operator who is paired and uses
  fresh names: `NoThreadErrors` and `TableImplemented`, the refinement of
  `ChannelTable`. Their invariant `Ordered` says that a name is closed once and after it
  was opened (`ClosedOnce`), that slots bear names of the past or of what they show
  (`PendingShown`), that the delete under way reaches only what it names (`TargetOpen`),
  and that free slots which never showed an image have no threads (`FreshIdle`). The
  refinement adds that a name was opened once and sits in one slot, and counts: a free
  slot means room in the table (`FreeMeansRoom`). For the same operator the two comments
  that the findings refute are right: `FreshDeletesStop` and `FreshPropertiesFind` (one
  slot bears the name, `OpenedOnce`); and `FreshSlotsReleased`, where `ClosedReleased`
  says of every slot that is no open channel what `Clean` says of all. For a console of
  channels only, whatever it sends: `PropertiesFindChannels` and `SlotsAreReusable`.
  Names are left behind and opened twice there. `FreeBehindOpen` is what still holds:
  since the first free slot is taken and all slots of a name are closed from the first
  to the last, no free slot that bears a name lies before an open one with it, but for
  those a delete under way has still to reach.
* `Signaling_proofs`: `WireOrderKept`, over any number of channels, offers and pings;
  `WakeupsKept`; `FirstOfferAnsweredOnce`, `DeathByLossOnly`; `ConnectComesFirst`.
  `Ordered` numbers the messages: the queue goes up from above the message in the hand
  of the dispatcher, `sendTarget` is that message, and nothing newer is on the wire.
  `Awake` extends the wakeup to a wire that is still connecting. `Answered` follows the
  first offer through queue, dispatcher and libwebrtc, one report at a time; `First`
  says that nothing else exists until the connect message is written.
* `DeckLinkOutput_proofs`: `BuffersCorrect`, `FramesCorrect`, `TimesCorrect` and
  `SdiImplemented`, the refinement of `RepeatingFifo`. `BuffersApart` and `FramesApart`
  say where each buffer and frame is by the state of the thread that holds it, the
  former until a pop meets the unlocked push (`Intact`); what follows from it has the
  same premise, frames, times and the refinement do not need it. The refinement needs
  besides that the picture repeated is the one in the last frame on the card
  (`LastKept`). `OrderCorrect` puts the places of a picture in a line: on air, waiting
  for the card, in the hands of the pipeline thread, queued, being filled in (`InLine`).
  A step moves a picture to the next place or drops it; the pictures on the card may be
  repetitions. `DropsExplained` counts.
* `AudioPath_proofs`: `QueuesCorrect`, and `UpsampleCorrect` for packets of every
  length: the lemmas about the division that truncates towards zero give a line between
  two samples that starts at the first and never leaves their range. `MixCorrect`, for
  every number of slots and any room on the card: as long as the sounds mixed so far fit
  together in 16 bits, no addition saturates. The sum is a recursive function, of which
  the provers only know that it satisfies its equation if anything does: `IsSum` says
  that something does and what it ends in, is proved for the empty queue (`EmptySum`)
  and one element more (`PushSum`), and carried along by the callback. So the induction
  is that over the steps of the program.
* `ExampleClient_proofs`: `FramesCorrect`, for every file and every delay of the decoder:
  shown and held back, in order, is what was accepted so far (`FramesKept`);
  `DeathExplained`, from where the first offer is (`FirstOffer`). `ShowsAllButTheDelay`
  adds how full the decoder is between two packets (`DelayKept`) and counts the frames.
  Of the signaling: `ConnectComesFirst` (before the first write the connect message is
  all there is, `OnlyConnect`), `FirstOfferAnswered` (the answer does not exist yet, or
  libwebrtc makes no other and it is in one place, `NoneYet` and `OneMade`; while the
  string holds it, `Few` bounds how often it was written by the callbacks still to come,
  and what is written afterwards is something else, `InARow`), and `EndIsClean`.
* `Shutdown_proofs`: `PacedCorrect`, for any number of clients and lines and any size of a
  recv. What was typed by an operator who waits has arrived (`Whole`), or its last
  line is cut: some units at the end of `req_`, after blank lines, and the rest on its
  way (`Cut`). `TextFacts` is the heart of it: a text of blank lines and the first k
  units of a line is taken with the last unit and not before, and then it is that line.
  `ExecutionInOrder`, for operators who do not wait: the heads of lines in `req_` and on
  the way ascend and lie behind all that is queued (`OrderKept`), because what is taken
  of a text is a stretch of it. `CleanReturn`, from what main() has gone through (`Path`)
  and from the slots it releases having threads that nobody joins (`SlotsHeld`).
* `QueueFacts`: pushes to, pops from and concatenations of queues, of distinct elements
  and of places that hold something; how many elements a queue has (`RangeCount`).

Every invariant and every safety property of the passing runs is proved. Only
model-checked are the liveness properties `AcceptedFrameIsShown`, `EveryCommandIsExecuted`,
`IngressRefills`, `PacketIsTaken`, `EscapeEnds`, `PlaysToTheEnd` and `EventIsTaken`: they
need fairness and with it ENABLED, which is out of the prover's reach; and the violations
of section 5, which are counterexamples.

Some properties are proved and stand in no run of their own: `DropsMeanBacklog` and
`ScreenGoesForward` of `ImageQueues`; `DropsMeanBacklog` and `PicturesInOrder` of
`DeckLinkOutput`; `ReuseIsSafe` of `ChannelSlots`, and `FreeSlotsReleased`,
`DeleteStopsAChannel` and `PropertyFindsItsChannel` under `FreshNames`;
`AllShownButTheDelay`, `ConnectFirst`, `OneAnswer` and `SoundEndsClean` of
`ExampleClient`; `CommandsInOrder` and `ReturnIsClean` of `Shutdown`. TLC finds no
violation of them with the constants of the module's runs (`AllShownButTheDelay` with
files of up to 4 packets) when they are added to the cfg.

## 5. Findings

Four places where the code does something else than a comment or the README says;
each has a run whose counterexample shows it, and is quoted in `PROJECT.json`:
frames of a previous channel are collected for the next one; a delete also joins the
threads of slots that have none; a property may go to a former slot of the channel;
an answer may be overwritten before it is written. (The comment "halt until blackmagic
found devices", `src/main.cc` 43, is another: the code sleeps for three seconds. The
model of the SDI output has that sleep and what follows; no run is spent on it.)

## 6. Not modelled

* `gl.cc` and the drawing in `main.cc` 81-96: openGL calls, matrices and shaders. What
  they draw is not state of the program; that a slot has its texture is in
  `ChannelSlots`, what is copied into it in `ImageQueues`.
* The read back (`main.cc` 97-122) and `Capture`: a picture of fixed size is copied
  from one call to the next within the main loop, no state is kept between two rounds.
  What the SDI output makes of the picture is in `DeckLinkOutput`.
* `event_quit` and `publishSidePropertyChannel`, which have no caller.
* The creation of libwebrtc's factory and its codecs, the parsing of JSON beyond what a
  line is, formats of pixels, logging, static instances, build files: glue without
  state of its own, or data.
* The SDI pipeline thread at shutdown: with SDI the publisher was never added, its
  deletion joins a thread that does not exist, and the process ends before the
  pipeline thread would be joined.
* Sizes of buffers: an image resizes `lastTextureBuffer_`, into which the next channel on
  the slot copies whole frames. That is listed as a hazard, and no property covers it.
* Bytes of messages: that a message longer than the buffer of `websockets.cc` is cut is
  listed as a hazard; lengths are not in the models.
