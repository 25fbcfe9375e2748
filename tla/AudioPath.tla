------------------------------ MODULE AudioPath ------------------------------
(***************************************************************************)
(* Sound: libwebrtc hands ten milliseconds of a channel at a time to       *)
(* OnData, which brings them to 48 kHz and queues them in events_audio_ of *)
(* the slot.  The audio thread (the callback of SDL, or RenderAudioSamples *)
(* of the SDI card) takes one packet of every open slot, adds up what is   *)
(* drawn with saturation, and plays it; with SDL the mix is published too. *)
(* SDL asks for a block of ten milliseconds, the card for whatever its     *)
(* buffer has room for, which may be less than a packet, or much more.     *)
(*                                                                         *)
(* The queues are locked for a push or a pop; instance_enum and isDraw,    *)
(* written by main(), are read in between, so every slot is a step of the  *)
(* callback.  SDL, the card and libwebrtc are external.                    *)
(***************************************************************************)
EXTENDS Integers, Sequences

CONSTANTS
    Slots,         \* number of pooled instances
    Block,         \* samples of 10 ms at 48 kHz (480 in the code)
    Limit,         \* 32767
    Rooms,         \* shorts the buffer of the SDI card may have room for: twice the
                   \* sample frames, 2..96000 in the code
    Sources,       \* what OnData may be called with: [rate, channels, pcm]
    MaxPackets,    \* bound: calls of OnData
    MaxSwitches    \* bound: openings, closings and changes of isDraw

Slot == 1..Slots
Sample == -(Limit + 1)..Limit      \* a short

ASSUME SlotsAssumption == Slots \in Nat
ASSUME BlockAssumption == Block \in Nat /\ Block > 0
ASSUME LimitAssumption == Limit \in Nat
ASSUME RoomsAssumption == Rooms \subseteq Nat \ {0}
ASSUME SourcesAssumption ==
    Sources \subseteq [rate : Nat, channels : {1, 2}, pcm : Seq(Sample)]
ASSUME BoundAssumption == MaxPackets \in Nat /\ MaxSwitches \in Nat

VARIABLES
    alive,           \* the process runs
    sdi,             \* compile-time switch __BLACKMAGIC_OUTPUT__
    ready,           \* audioInit was called
    open,            \* slots with instance_enum # INSTANCE_MIN
    isDraw,          \* slots that are drawn
    switches,        \* changes of the two so far
    calls,           \* calls of OnData so far
    pushed,          \* packets queued so far, per slot: names them
    events_audio_,   \* per slot: [no, source, pcm]
    taken,           \* number of the last packet taken, per slot
    at,              \* the slot the callback is at, 0: it is not running
    room,            \* shorts in the buffer the callback fills
    data,            \* that buffer
    audioBuffer,     \* with SDL, the same for the publisher, in stereo
    mixed,           \* the packets added up in this callback
    published        \* what the last callback gave to AudioRender::Render

main  == <<sdi, ready, open, isDraw, switches>>
queue == <<calls, pushed, events_audio_>>
mix   == <<at, room, data, audioBuffer, mixed, published>>
vars  == <<alive, main, queue, taken, mix>>

Silence(length) == [n \in 1..length |-> 0]
Idle == 0
Nothing == <<>>

Init ==
    /\ alive = TRUE /\ sdi \in BOOLEAN /\ ready = FALSE
    /\ open = {} /\ isDraw = {} /\ switches = 0
    /\ calls = 0 /\ pushed = [s \in Slot |-> 0]
    /\ events_audio_ = [s \in Slot |-> <<>>] /\ taken = [s \in Slot |-> 0]
    /\ at = Idle /\ room = Block
    /\ data = Silence(Block) /\ audioBuffer = Silence(2 * Block)
    /\ mixed = <<>> /\ published = Nothing

----------------------------------------------------------------------------
(* main().                                                                  *)

\* SDL_OpenAudio and SDL_PauseAudio(0), or setAudioCallback of the output: a PANIC if
\* no card was found.  Device takes the first card only, so there is one callback.
audioInit ==
    /\ alive /\ ~ready
    /\ alive' \in IF sdi THEN BOOLEAN ELSE {TRUE}
    /\ ready' = alive'
    /\ UNCHANGED <<sdi, open, isDraw, switches, queue, taken, mix>>

\* main() goes on to its loop: a channel (hidden at first) or an image (shown) is added
\* or deleted; a property, which may reach a slot that is free, shows or hides.  The
\* queue of the slot stays as it is.
Switch(s) ==
    /\ alive /\ ready /\ switches < MaxSwitches
    /\ switches' = switches + 1
    /\ \/ /\ s \notin open /\ open' = open \cup {s}
          /\ isDraw' \in {isDraw \ {s}, isDraw \cup {s}}
       \/ s \in open /\ open' = open \ {s} /\ isDraw' = isDraw \ {s}
       \/ isDraw' \in {isDraw \ {s}, isDraw \cup {s}} /\ UNCHANGED open
    /\ UNCHANGED <<alive, sdi, ready, queue, taken, mix>>

----------------------------------------------------------------------------
(* OnData, on a thread of the channel.                                      *)

Truncated(x, d) == IF x >= 0 THEN x \div d ELSE -((-x) \div d)

\* Broken variant: the steps between two samples are added to the later one.
Upsample_ahead(pcm) ==
    [i \in 1..(3 * Len(pcm)) |->
        LET n == (i - 1) \div 3
            k == (i - 1) % 3
        IN  IF n = 0 THEN 0
            ELSE Truncated(3 * pcm[n + 1] + k * (pcm[n + 1] - pcm[n]), 3)]

\* Three samples out of one, on the line from each sample to the next.  The loop
\* starts at the second: the first three of the output keep their zeros, and the
\* last sample is written past the end of the string.
Upsample(pcm) ==
    [i \in 1..(3 * Len(pcm)) |->
        LET n == (i - 1) \div 3
            k == (i - 1) % 3
        IN  IF n = 0 THEN 0
            ELSE Truncated(3 * pcm[n] + k * (pcm[n + 1] - pcm[n]), 3)]

push_event(s, source, pcm) ==
    /\ pushed' = [pushed EXCEPT ![s] = @ + 1]
    /\ events_audio_' = [events_audio_ EXCEPT ![s] =
           Append(@, [no |-> pushed[s] + 1, source |-> source, pcm |-> pcm])]

\* Other rates and other lengths are not supported.
OnData(s, source) ==
    LET frames == Len(source.pcm) \div source.channels IN
    /\ alive /\ ready /\ calls < MaxPackets
    /\ calls' = calls + 1
    /\ \/ /\ source.rate = 48000 /\ frames = Block
          /\ push_event(s, source, source.pcm)
       \/ /\ source.rate = 16000 /\ 3 * frames = Block
          /\ push_event(s, source, Upsample(source.pcm))
       \/ /\ ~(source.rate = 48000 /\ frames = Block)
          /\ ~(source.rate = 16000 /\ 3 * frames = Block)
          /\ UNCHANGED <<pushed, events_audio_>>
    /\ UNCHANGED <<alive, main, taken, mix>>

----------------------------------------------------------------------------
(* audioCallback and audioCallbackSDI.                                      *)

\* SDL wants the next block, or RenderAudioSamples fills what the card has left of a
\* second: the buffer is as long as that, whatever the length of a packet.
CallbackBegin ==
    /\ alive /\ ready /\ at = Idle
    /\ at' = 1
    /\ room' \in IF sdi THEN Rooms ELSE {Block}
    /\ data' = Silence(room') /\ audioBuffer' = Silence(2 * Block)
    /\ mixed' = <<>> /\ published' = Nothing
    /\ UNCHANGED <<alive, main, queue, taken>>

\* Broken variant: the sum is cut to 16 bits.
Saturated_wraps(x) == ((x + Limit + 1) % (2 * Limit + 2)) - (Limit + 1)

Saturated(x) == IF x > Limit THEN Limit ELSE IF x < -Limit THEN -Limit ELSE x

\* Broken variant: the publisher's block takes the last channel, not the sum.
Add_last(s, pcm) ==
    IF s \in isDraw /\ Len(pcm) = Block
    THEN /\ data' = [n \in 1..room |->
                IF n <= Block THEN Saturated(data[n] + pcm[n]) ELSE data[n]]
         /\ audioBuffer' = [n \in 1..(2 * Block) |->
                IF ~sdi /\ n % 2 = 1 THEN Saturated(pcm[(n + 1) \div 2]) ELSE audioBuffer[n]]
         /\ mixed' = Append(mixed, pcm)
         /\ alive' \in IF room < Block THEN BOOLEAN ELSE {TRUE}
    ELSE UNCHANGED <<alive, data, audioBuffer, mixed>>

\* Only a packet of a drawn slot that is as long as a block is heard: a packet in
\* stereo is twice as long.  A buffer of the card that is shorter is written past its
\* end, which the process may not survive; of a longer one the rest is left.
Add(s, pcm) ==
    IF s \in isDraw /\ Len(pcm) = Block
    THEN /\ data' = [n \in 1..room |->
                IF n <= Block THEN Saturated(data[n] + pcm[n]) ELSE data[n]]
         /\ audioBuffer' = [n \in 1..(2 * Block) |->
                IF ~sdi /\ n % 2 = 1 THEN data'[(n + 1) \div 2] ELSE audioBuffer[n]]
         /\ mixed' = Append(mixed, pcm)
         /\ alive' \in IF room < Block THEN BOOLEAN ELSE {TRUE}
    ELSE UNCHANGED <<alive, data, audioBuffer, mixed>>

\* Broken variant: the packet of a slot that is hidden is left where it is.
CallbackSlot_hidden ==
    /\ alive /\ at \in Slot
    /\ at' = at + 1
    /\ IF at \in open \cap isDraw /\ events_audio_[at] # <<>>
       THEN /\ events_audio_' = [events_audio_ EXCEPT ![at] = Tail(@)]
            /\ taken' = [taken EXCEPT ![at] = Head(events_audio_[at]).no]
            /\ Add(at, Head(events_audio_[at]).pcm)
       ELSE UNCHANGED <<alive, events_audio_, taken, data, audioBuffer, mixed>>
    /\ UNCHANGED <<main, calls, pushed, room, published>>

\* Broken variant: all packets that wait are taken, and the newest is heard.
CallbackSlot_newest ==
    /\ alive /\ at \in Slot
    /\ at' = at + 1
    /\ IF at \in open /\ events_audio_[at] # <<>>
       THEN LET newest == events_audio_[at][Len(events_audio_[at])] IN
            /\ events_audio_' = [events_audio_ EXCEPT ![at] = Tail(@)]
            /\ taken' = [taken EXCEPT ![at] = newest.no]
            /\ Add(at, newest.pcm)
       ELSE UNCHANGED <<alive, events_audio_, taken, data, audioBuffer, mixed>>
    /\ UNCHANGED <<main, calls, pushed, room, published>>

\* pop_event of the slot the loop is at.
CallbackSlot ==
    /\ alive /\ at \in Slot
    /\ at' = at + 1
    /\ IF at \in open /\ events_audio_[at] # <<>>
       THEN /\ events_audio_' = [events_audio_ EXCEPT ![at] = Tail(@)]
            /\ taken' = [taken EXCEPT ![at] = Head(events_audio_[at]).no]
            /\ Add(at, Head(events_audio_[at]).pcm)
       ELSE UNCHANGED <<alive, events_audio_, taken, data, audioBuffer, mixed>>
    /\ UNCHANGED <<main, calls, pushed, room, published>>

\* With SDL the block is published, if any channel was heard in it: buffer10ms is
\* full with every block.
CallbackEnd ==
    /\ alive /\ at = Slots + 1
    /\ at' = Idle
    /\ published' = IF ~sdi /\ mixed # <<>> THEN audioBuffer ELSE Nothing
    /\ UNCHANGED <<alive, main, queue, taken, room, data, audioBuffer, mixed>>

----------------------------------------------------------------------------
Callback == CallbackBegin \/ CallbackSlot \/ CallbackEnd

Next == \/ audioInit \/ Callback
        \/ \E s \in Slot : Switch(s) \/ \E source \in Sources : OnData(s, source)

Spec == Init /\ [][Next]_vars

\* main() comes to audioInit, and SDL and the card want sound for ever.  A process that
\* has ended takes no step.
Fairness == WF_vars(audioInit) /\ WF_vars(Callback)

FairSpec == Spec /\ Fairness

----------------------------------------------------------------------------
(* Properties.                                                              *)

Packet == [no : Nat \ {0}, source : Sources, pcm : Seq(Sample)]

\* Every variable keeps its type: in particular the sums stay within 16 bits.
TypeOK ==
    /\ alive \in BOOLEAN /\ sdi \in BOOLEAN /\ ready \in BOOLEAN
    /\ open \subseteq Slot /\ isDraw \subseteq Slot /\ switches \in 0..MaxSwitches
    /\ calls \in 0..MaxPackets /\ pushed \in [Slot -> Nat]
    /\ events_audio_ \in [Slot -> Seq(Packet)] /\ taken \in [Slot -> Nat]
    /\ at \in 0..(Slots + 1)
    /\ room \in Rooms \cup {Block} /\ (~sdi => room = Block)
    /\ data \in [1..room -> -Limit..Limit]
    /\ audioBuffer \in [1..(2 * Block) -> -Limit..Limit]
    /\ mixed \in Seq(Seq(Sample))
    /\ published = Nothing \/ published \in [1..(2 * Block) -> -Limit..Limit]

\* No packet is lost between two threads, none is heard twice, none overtakes: those
\* that wait follow on the one taken last, up to the one pushed last.  Closing a slot
\* does not change that.
NoneLostNoneTwice ==
    \A s \in Slot : /\ pushed[s] = taken[s] + Len(events_audio_[s])
                    /\ \A i \in DOMAIN events_audio_[s] :
                           events_audio_[s][i].no = taken[s] + i

Abs(x) == IF x < 0 THEN -x ELSE x

SumOf(q) ==
    LET sum[i \in 0..Len(q)] == IF i = 0 THEN 0 ELSE sum[i - 1] + q[i]
    IN  sum[Len(q)]

\* Sample n of the packets of a mix, and how loud it is in each.
Heard(packets, n) == [i \in DOMAIN packets |-> packets[i][n]]
Loudness(packets, n) == [i \in DOMAIN packets |-> Abs(packets[i][n])]

\* However much the card or SDL asks for, the first ten milliseconds of it are the sum
\* of the channels heard, as far as there is room and as long as it is no louder than
\* 16 bits, and the rest is silence; with SDL the publisher gets the same in its left
\* channel and silence in the right.
MixIsSum ==
    /\ \A n \in 1..room :
           /\ n <= Block /\ SumOf(Loudness(mixed, n)) <= Limit
                  => data[n] = SumOf(Heard(mixed, n))
           /\ n > Block => data[n] = 0
    /\ ~sdi => \A n \in 1..Block :
                  audioBuffer[2 * n - 1] = data[n] /\ audioBuffer[2 * n] = 0

\* 16 kHz sound is only stretched: every sample but the last is heard, three later
\* than it should be, and nothing between two samples is louder than both of them.
UpsampleKeeps ==
    \A s \in Slot : \A i \in DOMAIN events_audio_[s] :
        LET in == events_audio_[s][i].source.pcm
            out == events_audio_[s][i].pcm
        IN  events_audio_[s][i].source.rate = 16000 =>
            \A n \in 1..(Len(in) - 1) :
                /\ out[3 * n + 1] = in[n]
                /\ \A k \in 1..3 : /\ out[3 * n + k] <= in[n] \/ out[3 * n + k] <= in[n + 1]
                                   /\ out[3 * n + k] >= in[n] \/ out[3 * n + k] >= in[n + 1]

\* A packet is taken in the end, unless its slot closes or the process ends: hidden
\* channels and packets that cannot be played are drained too, and do not come back when
\* they are shown.
PacketIsTaken ==
    \A s \in Slot : \A n \in 1..MaxPackets :
        (pushed[s] >= n /\ s \in open) ~> (taken[s] >= n \/ s \notin open \/ ~alive)
=============================================================================
