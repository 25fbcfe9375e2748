---------------------------- MODULE ExampleClient ----------------------------
(***************************************************************************)
(* The examples play_movie and play_audio: a client that connects to an    *)
(* SFU and publishes a movie or a sound.  They share their signaling.      *)
(* Three threads meet in one instance_:                                    *)
(*   - main() takes one event every 10 ms from the one queue that holds    *)
(*     both directions, and then plays 10 ms;                              *)
(*   - a thread runs lws_service: websocketsCallback queues events and     *)
(*     writes sendTarget when the wire is ready;                           *)
(*   - the signaling thread of libwebrtc calls the observers.              *)
(* A sound ends and with it the process; quit_ of a movie is never set.    *)
(* The SFU and libwebrtc are external, as in Signaling.                    *)
(***************************************************************************)
EXTENDS MovieIterate, FiniteSets

CONSTANTS
    Blocks,           \* blocks of 10 ms in the sound
    MaxOffers,        \* bound: offers of the SFU
    MaxPings,         \* bound: pings of the SFU
    MaxCandidates     \* bound: ICE candidates

ASSUME BoundAssumption == /\ Blocks \in Nat /\ MaxOffers \in Nat
                          /\ MaxPings \in Nat /\ MaxCandidates \in Nat

VARIABLES
    example,        \* "movie" or "audio"
    metadata,       \* WEBRTC_METADATA: as "documented", or with a "comma" at its end
    main,           \* main(): "event", "assign", "request", "play", "join", "stop",
                    \* "ended"
    quit_,
    service,        \* thread of lws_service: "running", "exited"
    events_,        \* events_websockets_to_webrtc_
    sending,        \* the message webrtcEvent is working on
    sendTarget,
    writable,       \* a WRITEABLE callback was asked for
    websocket,      \* instance_.websocket is not NULL
    wire,           \* "down", "connecting", "up"
    sent,           \* types of what was written on the wire
    signaling_state,   \* "none" (no PeerConnection), "stable", "have_remote_offer"
    tracks,         \* AddTrack was called on the PeerConnection
    gathering,      \* the PeerConnection has a local description
    tasks,          \* completions libwebrtc has still to report
    played,         \* blocks of sound given to AudioRender::Render
    unparsable,     \* an offer could not be used
    alive,          \* FALSE after a PANIC, an exception or a wild pointer
    offers, pings, candidates    \* numbers so far

settings == <<example, metadata>>
process  == <<main, quit_, service, alive>>
outgoing == <<sending, sendTarget, writable>>
socket   == <<websocket, wire, sent>>
webrtc   == <<signaling_state, tracks, gathering, tasks, unparsable>>
external == <<offers, pings, candidates>>
vars == <<settings, process, events_, outgoing, socket, webrtc, external, movie, played>>

Outgoing == {"connect", "pong", "answer", "candidate"}

\* webrtcStart and webSocketsStart; the attempt to connect may fail at once.
Init ==
    /\ example \in {"movie", "audio"} /\ metadata \in {"documented", "comma"}
    /\ main = "event" /\ quit_ = FALSE /\ service = "running" /\ alive = TRUE
    /\ events_ = <<>>
    /\ sending = "empty" /\ sendTarget = "empty" /\ writable = FALSE
    /\ websocket \in BOOLEAN
    /\ wire = IF websocket THEN "connecting" ELSE "down"
    /\ sent = <<>>
    /\ signaling_state = "none" /\ tracks = FALSE /\ gathering = FALSE /\ tasks = <<>>
    /\ unparsable = FALSE
    /\ offers = 0 /\ pings = 0 /\ candidates = 0
    /\ MovieInit /\ played = 0

----------------------------------------------------------------------------
(* websocketsCallback.                                                      *)

push(type) == events_' = Append(events_, type)
Serving == alive /\ service = "running"

Established ==
    /\ Serving /\ wire = "connecting"
    /\ wire' = "up"
    /\ push("connect")
    /\ UNCHANGED <<settings, process, outgoing, websocket, sent, webrtc, external, movie,
                   played>>

Connected == \E i \in DOMAIN sent : sent[i] = "connect"

\* The SFU answers the connect message with an offer.
ReceiveOffer ==
    /\ Serving /\ wire = "up" /\ Connected /\ offers < MaxOffers
    /\ offers' = offers + 1
    /\ push("offer")
    /\ UNCHANGED <<settings, process, outgoing, socket, webrtc, pings, candidates, movie,
                   played>>

ReceivePing ==
    /\ Serving /\ wire = "up" /\ Connected /\ pings < MaxPings
    /\ pings' = pings + 1
    /\ push("pong")
    /\ UNCHANGED <<settings, process, outgoing, socket, webrtc, offers, candidates, movie,
                   played>>

Writeable ==
    /\ Serving /\ wire = "up" /\ writable
    /\ writable' = FALSE
    /\ sent' = Append(sent, sendTarget)
    /\ UNCHANGED <<settings, process, events_, sending, sendTarget, websocket, wire, webrtc,
                   external, movie, played>>

\* CLOSED or CLIENT_CONNECTION_ERROR; nobody connects again.
Closed ==
    /\ Serving /\ wire # "down"
    /\ wire' = "down" /\ websocket' = FALSE /\ writable' = FALSE
    /\ UNCHANGED <<settings, process, events_, sending, sendTarget, sent, webrtc, external,
                   movie, played>>

ServiceExit ==
    /\ Serving /\ quit_
    /\ service' = "exited"
    /\ UNCHANGED <<settings, main, quit_, alive, events_, outgoing, socket, webrtc,
                   external, movie, played>>

----------------------------------------------------------------------------
(* webrtcEvent, in main().                                                  *)

NoEvent ==
    /\ alive /\ main = "event" /\ events_ = <<>>
    /\ main' = "play" /\ is_done' = FALSE
    /\ UNCHANGED <<settings, quit_, service, alive, events_, outgoing, socket, webrtc,
                   external, file, status, read, decoder, rendered, played>>

Pop == /\ alive /\ main = "event" /\ events_ # <<>>
       /\ events_' = Tail(events_)

\* publishConnectJson puts the metadata in front of "audio" and no comma between.
IsJson(type) == type = "connect" => metadata = "comma"

\* parse throws, and nobody catches.
EventInvalid ==
    /\ Pop /\ ~IsJson(Head(events_))
    /\ alive' = FALSE
    /\ UNCHANGED <<settings, main, quit_, service, outgoing, socket, webrtc, external,
                   movie, played>>

\* The assignment of sendTarget is under way ...
SendBegin ==
    /\ Pop /\ Head(events_) \in Outgoing /\ IsJson(Head(events_))
    /\ sending' = Head(events_) /\ sendTarget' = "torn"
    /\ main' = "assign"
    /\ UNCHANGED <<settings, quit_, service, alive, writable, socket, webrtc, external,
                   movie, played>>

\* ... and done: a callback asked for earlier writes the message from now on ...
SendAssigned ==
    /\ alive /\ main = "assign"
    /\ sendTarget' = sending
    /\ main' = "request"
    /\ UNCHANGED <<settings, quit_, service, alive, events_, sending, writable, socket,
                   webrtc, external, movie, played>>

\* ... and lws_callback_on_writable asks for another one; it dereferences websocket.
SendEnd ==
    /\ alive /\ main = "request"
    /\ alive' = websocket /\ writable' = websocket
    /\ main' = "play" /\ is_done' = FALSE
    /\ UNCHANGED <<settings, quit_, service, events_, sending, sendTarget, socket, webrtc,
                   external, file, status, read, decoder, rendered, played>>

\* A new PeerConnection and SetRemoteDescription.  The process ends when the offer
\* cannot be used: an exception if config, iceServers or the members of a server are
\* missing or of another type (the old PeerConnection is still there then), a PANIC if
\* CreatePeerConnection fails or the sdp cannot be parsed.
Offer ==
    /\ Pop /\ Head(events_) = "offer"
    /\ \/ /\ tracks' = FALSE /\ gathering' = FALSE
          /\ signaling_state' = "have_remote_offer"
          /\ \E old \in {tasks, <<>>} : tasks' = Append(old, "remote_set")
          /\ main' = "play" /\ is_done' = FALSE
          /\ UNCHANGED <<alive, unparsable>>
       \/ /\ alive' = FALSE /\ unparsable' = TRUE
          /\ UNCHANGED <<main, is_done, signaling_state, tracks, gathering, tasks>>
    /\ UNCHANGED <<settings, quit_, service, outgoing, socket, external, file, status, read,
                   decoder, rendered, played>>

----------------------------------------------------------------------------
(* The rest of main().                                                      *)

MovieStep ==
    /\ alive /\ example = "movie" /\ main = "play"
    /\ iterate
    /\ UNCHANGED <<settings, process, events_, outgoing, socket, webrtc, external, played>>

\* iterate returns.
MovieStepped ==
    /\ alive /\ example = "movie" /\ main = "play" /\ is_done
    /\ main' = "event"
    /\ UNCHANGED <<settings, quit_, service, alive, events_, outgoing, socket, webrtc,
                   external, movie, played>>

PlayBlock ==
    /\ alive /\ example = "audio" /\ main = "play" /\ played < Blocks
    /\ played' = played + 1
    /\ main' = "event"
    /\ UNCHANGED <<settings, quit_, service, alive, events_, outgoing, socket, webrtc,
                   external, movie>>

\* Broken variant: the loop is left without telling the thread.
EndOfFile_untold ==
    /\ alive /\ example = "audio" /\ main = "play" /\ played = Blocks
    /\ main' = "join"
    /\ UNCHANGED <<settings, quit_, service, alive, events_, outgoing, socket, webrtc,
                   external, movie, played>>

EndOfFile ==
    /\ alive /\ example = "audio" /\ main = "play" /\ played = Blocks
    /\ quit_' = TRUE
    /\ main' = "join"
    /\ UNCHANGED <<settings, service, alive, events_, outgoing, socket, webrtc, external,
                   movie, played>>

\* webrtcStop: the PeerConnection goes first, then the observers and the lws context.
webrtcStop ==
    /\ alive /\ main = "join" /\ service = "exited"
    /\ signaling_state' = "none" /\ tracks' = FALSE /\ gathering' = FALSE /\ tasks' = <<>>
    /\ wire' = "down" /\ writable' = FALSE
    /\ main' = "stop"
    /\ UNCHANGED <<settings, quit_, service, alive, events_, sending, sendTarget, websocket,
                   sent, unparsable, external, movie, played>>

\* webSocketsStop destroys the lws context once more: undefined, fatal or not.
webSocketsStop ==
    /\ alive /\ main = "stop"
    /\ main' = "ended"
    /\ alive' \in BOOLEAN
    /\ UNCHANGED <<settings, quit_, service, events_, outgoing, socket, webrtc, external,
                   movie, played>>

----------------------------------------------------------------------------
(* The observers.                                                           *)

Report(task) == alive /\ tasks # <<>> /\ Head(tasks) = task

\* CreateAnswer fails when no offer is pending.
CreateAnswer ==
    tasks' = IF signaling_state = "have_remote_offer"
             THEN Append(Tail(tasks), "answer_created") ELSE Tail(tasks)

\* AddTrack; a track that is there already is a PANIC.
SetSessionDescriptionObserverImpl_OnSuccess ==
    /\ tracks' = TRUE /\ alive' = ~tracks
    /\ CreateAnswer
    /\ UNCHANGED <<settings, main, quit_, service, events_, outgoing, socket, unparsable,
                   signaling_state, gathering, external, movie, played>>

SetRemoteDescription_OnSuccess ==
    /\ Report("remote_set")
    /\ SetSessionDescriptionObserverImpl_OnSuccess

\* Broken variant: the observer of the remote description serves for the local one.
SetLocalDescription_OnSuccess_tracks ==
    /\ Report("local_set")
    /\ SetSessionDescriptionObserverImpl_OnSuccess

SetLocalDescription_OnSuccess ==
    /\ Report("local_set")
    /\ CreateAnswer
    /\ UNCHANGED <<settings, process, events_, outgoing, socket, unparsable, tracks,
                   signaling_state, gathering, external, movie, played>>

\* SetLocalDescription; the answer is queued in any case.
CreateSessionDescriptionObserverImpl_OnSuccess ==
    /\ Report("answer_created")
    /\ IF signaling_state = "have_remote_offer"
       THEN /\ signaling_state' = "stable" /\ gathering' = TRUE
            /\ tasks' = Append(Tail(tasks), "local_set")
       ELSE /\ tasks' = Tail(tasks)
            /\ UNCHANGED <<signaling_state, gathering>>
    /\ push("answer")
    /\ UNCHANGED <<settings, process, outgoing, socket, unparsable, tracks, external, movie,
                   played>>

OnIceCandidate ==
    /\ alive /\ gathering /\ candidates < MaxCandidates
    /\ candidates' = candidates + 1
    /\ push("candidate")
    /\ UNCHANGED <<settings, process, outgoing, socket, webrtc, offers, pings, movie, played>>

----------------------------------------------------------------------------
websockets_thread == \/ Established \/ ReceiveOffer \/ ReceivePing \/ Writeable
                     \/ Closed \/ ServiceExit
webrtcEvent == \/ NoEvent \/ EventInvalid \/ SendBegin \/ SendAssigned \/ SendEnd
               \/ Offer
Main == \/ webrtcEvent \/ MovieStep \/ MovieStepped \/ PlayBlock \/ EndOfFile
        \/ webrtcStop \/ webSocketsStop
signaling_thread == \/ SetRemoteDescription_OnSuccess \/ SetLocalDescription_OnSuccess
                    \/ CreateSessionDescriptionObserverImpl_OnSuccess \/ OnIceCandidate

Next == websockets_thread \/ Main \/ signaling_thread

Spec == Init /\ [][Next]_vars

\* main() is a loop without a sleep, its thread looks at quit_ every 250 ms.
Fairness == WF_vars(Main) /\ WF_vars(ServiceExit)

FairSpec == Spec /\ Fairness

----------------------------------------------------------------------------
(* Properties.                                                              *)

\* Every variable keeps its type.
TypeOK ==
    /\ example \in {"movie", "audio"} /\ metadata \in {"documented", "comma"}
    /\ main \in {"event", "assign", "request", "play", "join", "stop", "ended"}
    /\ quit_ \in BOOLEAN /\ service \in {"running", "exited"} /\ alive \in BOOLEAN
    /\ events_ \in Seq(Outgoing \cup {"offer"})
    /\ sending \in Outgoing \cup {"empty"}
    /\ sendTarget \in Outgoing \cup {"empty", "torn"} /\ writable \in BOOLEAN
    /\ websocket \in BOOLEAN /\ wire \in {"down", "connecting", "up"}
    /\ sent \in Seq(Outgoing \cup {"empty", "torn"})
    /\ signaling_state \in {"none", "stable", "have_remote_offer"}
    /\ tracks \in BOOLEAN /\ gathering \in BOOLEAN /\ unparsable \in BOOLEAN
    /\ tasks \in Seq({"remote_set", "answer_created", "local_set"})
    /\ offers \in 0..MaxOffers /\ pings \in 0..MaxPings /\ candidates \in 0..MaxCandidates
    /\ played \in 0..Blocks
    /\ file \in Files /\ read \in 0..Len(file) /\ is_done \in BOOLEAN
    /\ status \in {"READ_FRAME", "STREAM_IDX", "SEND_PACKET", "RECEIVE_FRAME"}
    /\ decoder \in Seq(1..Len(file)) /\ rendered \in Seq(1..Len(file))

\* The frames shown and those in the decoder are, in order, the video packets that
\* were accepted: none is skipped or shown twice, however often iterate is left and
\* entered again.
FramesInOrder ==
    LET shown == rendered \o decoder
        accepted == {n \in 1..read : file[n] = "video"
                                     /\ (n < read \/ status \in {"RECEIVE_FRAME", "READ_FRAME"})}
    IN  /\ \A i, j \in DOMAIN shown : i < j => shown[i] < shown[j]
        /\ {shown[i] : i \in DOMAIN shown} = accepted

\* As long as no second offer came, the process only dies of an offer it cannot use, in
\* its last step, without a connection, or at its first message when metadata is what
\* the README tells to set; those last two excuse any death.
DeathHasACause ==
    offers <= 1 => \/ alive
                   \/ metadata = "documented" \/ ~websocket \/ unparsable
                   \/ main = "ended"

\* Whenever a packet is wanted, the frames of all packets read so far were shown but
\* the last few, which the decoder holds back: a call that returned early leaves
\* nothing behind for good.
AllShownButTheDelay ==
    status = "READ_FRAME" =>
        LET videos == Cardinality({n \in 1..read : file[n] = "video"})
        IN  Len(rendered) = IF videos > Delay THEN videos - Delay ELSE 0

\* The SFU hears the connect message first, although one string holds all messages
\* and is assigned while the other thread may write it.
ConnectFirst == sent # <<>> => sent[1] = "connect"

\* As long as no second offer came, the SFU gets the answer at most twice, and then
\* in a row: the second time when a callback asked for earlier writes it between the
\* assignment of the string and the request.  Setting the answer makes no other one,
\* and nothing that follows brings the string back.
OneAnswer ==
    offers <= 1 =>
        \A i, j \in DOMAIN sent :
            sent[i] = "answer" /\ sent[j] = "answer" => i <= j + 1 /\ j <= i + 1

\* A sound is over before the process ends, its thread is joined and no completion of
\* libwebrtc is outstanding: what webrtcStop frees is not used any more.
SoundEndsClean ==
    main \in {"stop", "ended"} =>
        /\ example = "audio" /\ played = Blocks
        /\ service = "exited" /\ tasks = <<>> /\ ~gathering

\* A sound is played and the process ends; of a movie that can be decoded, all frames
\* are shown but those the decoder holds back when the file ends.
PlaysToTheEnd ==
    <>(\/ ~alive
       \/ example = "audio" /\ main = "ended" /\ played = Blocks
       \/ /\ example = "movie" /\ read = Len(file)
          /\ Len(rendered) + Delay >= Cardinality({n \in DOMAIN file : file[n] = "video"})
       \/ example = "movie" /\ \E n \in DOMAIN file : file[n] = "bad")

\* Signaling goes on whatever becomes of the movie: an event is taken in the end,
\* before the process ends.
EventIsTaken ==
    \A n \in 1..(1 + 2 * MaxOffers + MaxPings + MaxCandidates) :
        (Len(events_) >= n /\ ~quit_) ~> (Len(events_) < n \/ quit_ \/ ~alive)
=============================================================================
