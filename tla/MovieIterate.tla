----------------------------- MODULE MovieIterate -----------------------------
(***************************************************************************)
(* iterate of play_movie: libav as a pump with four states.  A call goes   *)
(* round until it has shown one frame or can do nothing more, and the next *)
(* call goes on where it stopped: with more frames of the same packet,     *)
(* with the packet the decoder refused, or at the end of the file.         *)
(*                                                                         *)
(* libav is external: packets come in the order of the file; the decoder   *)
(* holds back Delay frames, and refuses a packet it cannot decode each     *)
(* time it is sent.                                                        *)
(***************************************************************************)
EXTENDS Naturals, Sequences

CONSTANTS
    MaxPackets,    \* bound: packets in the file
    Delay          \* frames the decoder holds back (0 for rawvideo)

ASSUME PacketsAssumption == MaxPackets \in Nat
ASSUME DelayAssumption == Delay \in Nat

VARIABLES
    file,       \* kinds of the packets: "video" (of the stream), "other", "bad" (video)
    status,     \* READ_FRAME, STREAM_IDX, SEND_PACKET, RECEIVE_FRAME
    read,       \* packets read so far; the last one is in pkt
    decoder,    \* frames in the decoder, named by their packets
    rendered,   \* frames given to VideoRender::Render
    is_done     \* of the call that is running

movie == <<file, status, read, decoder, rendered, is_done>>

Files == UNION {[1..n -> {"video", "other", "bad"}] : n \in 0..MaxPackets}

MovieInit ==
    /\ file \in Files
    /\ status = "READ_FRAME" /\ read = 0 /\ decoder = <<>> /\ rendered = <<>>
    /\ is_done = FALSE

----------------------------------------------------------------------------

\* Broken variant: the end of the file is noticed one packet late.
ReadFrame_past ==
    /\ status = "READ_FRAME"
    /\ IF read <= Len(file)
       THEN read' = read + 1 /\ status' = "STREAM_IDX" /\ UNCHANGED is_done
       ELSE is_done' = TRUE /\ UNCHANGED <<read, status>>
    /\ UNCHANGED <<file, decoder, rendered>>

ReadFrame ==
    /\ status = "READ_FRAME"
    /\ IF read < Len(file)
       THEN read' = read + 1 /\ status' = "STREAM_IDX" /\ UNCHANGED is_done
       ELSE is_done' = TRUE /\ UNCHANGED <<read, status>>
    /\ UNCHANGED <<file, decoder, rendered>>

\* Packets of other streams are skipped (and never unreferenced).
StreamIdx ==
    /\ status = "STREAM_IDX"
    /\ status' = IF file[read] = "other" THEN "READ_FRAME" ELSE "SEND_PACKET"
    /\ UNCHANGED <<file, read, decoder, rendered, is_done>>

\* Broken variant: the call goes on until the packet is accepted.
SendPacket_insists ==
    /\ status = "SEND_PACKET"
    /\ IF file[read] = "bad"
       THEN UNCHANGED <<is_done, decoder, status>>
       ELSE /\ decoder' = Append(decoder, read)
            /\ status' = "RECEIVE_FRAME"
            /\ UNCHANGED is_done
    /\ UNCHANGED <<file, read, rendered>>

\* A packet that is refused stays where it is, for the next call.
SendPacket ==
    /\ status = "SEND_PACKET"
    /\ IF file[read] = "bad"
       THEN is_done' = TRUE /\ UNCHANGED <<decoder, status>>
       ELSE /\ decoder' = Append(decoder, read)
            /\ status' = "RECEIVE_FRAME"
            /\ UNCHANGED is_done
    /\ UNCHANGED <<file, read, rendered>>

\* Broken variant: after a frame the next packet is sent before the decoder is empty.
ReceiveFrame_once ==
    /\ status = "RECEIVE_FRAME"
    /\ IF Len(decoder) > Delay
       THEN /\ rendered' = Append(rendered, Head(decoder))
            /\ decoder' = <<>>
            /\ is_done' = TRUE /\ status' = "READ_FRAME"
       ELSE /\ status' = "READ_FRAME"
            /\ UNCHANGED <<rendered, decoder, is_done>>
    /\ UNCHANGED <<file, read>>

\* onFrame shows the frame and the call returns; without a frame the packet is spent.
ReceiveFrame ==
    /\ status = "RECEIVE_FRAME"
    /\ IF Len(decoder) > Delay
       THEN /\ rendered' = Append(rendered, Head(decoder))
            /\ decoder' = Tail(decoder)
            /\ is_done' = TRUE /\ UNCHANGED status
       ELSE /\ status' = "READ_FRAME"
            /\ UNCHANGED <<rendered, decoder, is_done>>
    /\ UNCHANGED <<file, read>>

iterate == ~is_done /\ (ReadFrame \/ StreamIdx \/ SendPacket \/ ReceiveFrame)
=============================================================================
