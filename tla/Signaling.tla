------------------------------ MODULE Signaling ------------------------------
(***************************************************************************)
(* How one pooled instance talks to its SFU.  Two threads of its own and   *)
(* one of libwebrtc meet in the instance:                                  *)
(*   - websockets_thread_ runs lws_service: websockets_callback turns what *)
(*     arrives into events and writes sendTarget when the wire is ready;   *)
(*   - event_dispatch_thread_ moves events: offers go to webrtc_event,     *)
(*     outgoing messages to websockets_event, which assigns sendTarget and *)
(*     asks for a WRITEABLE callback;                                      *)
(*   - the signaling thread of libwebrtc completes what was asked of the   *)
(*     PeerConnection and calls the observers.                             *)
(* The queues are locked, sendTarget and webrtc_peer_connection are not.   *)
(* The SFU and libwebrtc are external: the model has what the code relies  *)
(* on.  Queues outlive a channel; the next one on the slot inherits them.  *)
(***************************************************************************)
EXTENDS Naturals, Sequences

CONSTANTS
    Orders,         \* the kinds of instances: "SUBSCRIBE", "PUBLISH"
    MaxSessions,    \* bound: channels opened on the instance
    MaxOffers,      \* bound: offers of the SFU over the whole run
    MaxPings,       \* bound: pings of the SFU over the whole run
    MaxCandidates   \* bound: ICE candidates over the whole run

ASSUME OrdersAssumption == Orders \subseteq {"SUBSCRIBE", "PUBLISH"}
ASSUME BoundAssumption == /\ MaxSessions \in Nat /\ MaxOffers \in Nat
                          /\ MaxPings \in Nat /\ MaxCandidates \in Nat

VARIABLES
    order_,            \* a slot subscribes, the publisher's instance is no slot
    session,           \* number of the channel the instance serves or served
    quit,
    dispatch,          \* event_dispatch_thread_: "none", "top" of its loop, "webrtc",
                       \* "offer", "websockets", "assign", "request", "exited"
    service,           \* websockets_thread_: "none", "running", "exited"
    toWebrtc,          \* events_websockets_to_webrtc_
    toWebsockets,      \* events_webrtc_to_websockets_
    sending,           \* the message websockets_event is working on
    sendTarget,
    writable,          \* a WRITEABLE callback was asked for
    websocket,         \* inst->websocket is not NULL
    wire,              \* "down", "connecting", "up"
    peer,              \* webrtc_peer_connection: number of its offer, 0: NULL
    signaling_state,   \* of the PeerConnection: "stable" or "have_remote_offer"
    tracks,            \* AddTrack was called on the PeerConnection
    gathering,         \* the PeerConnection has a local description
    tasks,             \* completions libwebrtc has still to report, oldest first
    alive,             \* FALSE after a PANIC or a NULL dereference
    pushed,            \* number of outgoing messages so far: names them
    answers,           \* number of answers pushed per offer
    sent,              \* what was written on the wire of this session
    offers, pings, candidates   \* numbers so far

channel  == <<order_, session, quit>>
threads  == <<dispatch, service>>
queues   == <<toWebrtc, toWebsockets>>
outgoing == <<sending, sendTarget, writable>>
socket   == <<websocket, wire>>
webrtc   == <<peer, signaling_state, tracks, gathering, tasks>>
counters == <<pushed, answers>>
external == <<offers, pings, candidates>>
vars == <<channel, threads, queues, outgoing, socket, webrtc, alive, counters,
          sent, external>>

Message(type, no) == [type |-> type, session |-> session, no |-> no]
Empty == [type |-> "empty", session |-> 0, no |-> 0]
\* What the writer of the wire may see of a std::string under assignment.
Torn  == [type |-> "torn", session |-> 0, no |-> 0]

Init ==
    /\ order_ \in Orders
    /\ session = 0 /\ quit = FALSE
    /\ dispatch = "none" /\ service = "none"
    /\ toWebrtc = <<>> /\ toWebsockets = <<>>
    /\ sending = Empty /\ sendTarget = Empty /\ writable = FALSE
    /\ websocket = FALSE /\ wire = "down"
    /\ peer = 0 /\ signaling_state = "stable" /\ tracks = FALSE /\ gathering = FALSE
    /\ tasks = <<>>
    /\ alive = TRUE
    /\ pushed = 0 /\ answers = [o \in 1..MaxOffers |-> 0]
    /\ sent = <<>>
    /\ offers = 0 /\ pings = 0 /\ candidates = 0

----------------------------------------------------------------------------
(* main() opens and closes the channel.                                     *)

\* subscribeSideAddChannel or publishSideAddChannel (called once): everything is
\* new but the queues and sendTarget.  The connection attempt may fail at once.
AddChannel ==
    /\ alive /\ dispatch = "none" /\ service = "none" /\ session < MaxSessions
    /\ order_ = "PUBLISH" => session = 0
    /\ session' = session + 1
    /\ quit' = FALSE
    /\ dispatch' = "top" /\ service' = "running"
    /\ websocket' \in BOOLEAN
    /\ wire' = IF websocket' THEN "connecting" ELSE "down"
    /\ writable' = FALSE
    /\ sent' = <<>>
    /\ UNCHANGED <<order_, queues, sending, sendTarget, webrtc, alive, counters, external>>

\* The delete handlers, up to the joins.
DeleteChannelBegin ==
    /\ alive /\ dispatch # "none" /\ ~quit
    /\ quit' = TRUE
    /\ UNCHANGED <<order_, session, threads, queues, outgoing, socket, webrtc, alive,
                   counters, sent, external>>

\* Both threads joined: websockets_quit and webrtc_quit.
DeleteChannelEnd ==
    /\ alive /\ dispatch = "exited" /\ service = "exited"
    /\ dispatch' = "none" /\ service' = "none"
    /\ websocket' = FALSE /\ wire' = "down" /\ writable' = FALSE
    /\ peer' = 0 /\ signaling_state' = "stable" /\ tracks' = FALSE /\ gathering' = FALSE
    /\ tasks' = <<>>
    /\ UNCHANGED <<channel, queues, sending, sendTarget, alive, counters, sent,
                   external>>

----------------------------------------------------------------------------
(* websockets_thread_: websockets_callback.                                 *)

push_event(type) ==
    /\ toWebsockets' = Append(toWebsockets, Message(type, pushed + 1))
    /\ pushed' = pushed + 1

Serving == alive /\ service = "running"

\* Broken variant: the event is queued with the type of an incoming one.
Established_type ==
    /\ Serving /\ wire = "connecting"
    /\ wire' = "up"
    /\ push_event("offer")
    /\ UNCHANGED <<channel, threads, toWebrtc, outgoing, websocket, webrtc, alive,
                   answers, sent, external>>

Established ==
    /\ Serving /\ wire = "connecting"
    /\ wire' = "up"
    /\ push_event("connect")
    /\ UNCHANGED <<channel, threads, toWebrtc, outgoing, websocket, webrtc, alive,
                   answers, sent, external>>

Connected == \E i \in DOMAIN sent : sent[i].type = "connect" /\ sent[i].session = session

\* The SFU answers the connect message with an offer.
ReceiveOffer ==
    /\ Serving /\ wire = "up" /\ Connected /\ offers < MaxOffers
    /\ offers' = offers + 1
    /\ toWebrtc' = Append(toWebrtc, offers + 1)
    /\ UNCHANGED <<channel, threads, toWebsockets, outgoing, socket, webrtc, alive,
                   counters, sent, pings, candidates>>

ReceivePing ==
    /\ Serving /\ wire = "up" /\ Connected /\ pings < MaxPings
    /\ pings' = pings + 1
    /\ push_event("pong")
    /\ UNCHANGED <<channel, threads, toWebrtc, outgoing, socket, webrtc, alive,
                   answers, sent, offers, candidates>>

\* WRITEABLE writes whatever sendTarget holds, and leaves it there.
Writeable ==
    /\ Serving /\ wire = "up" /\ writable
    /\ writable' = FALSE
    /\ sent' = Append(sent, sendTarget)
    /\ UNCHANGED <<channel, threads, queues, sending, sendTarget, socket, webrtc,
                   alive, counters, external>>

\* CLOSED or CLIENT_CONNECTION_ERROR; nobody connects again.
Closed ==
    /\ Serving /\ wire # "down"
    /\ wire' = "down" /\ websocket' = FALSE /\ writable' = FALSE
    /\ UNCHANGED <<channel, threads, queues, sending, sendTarget, webrtc, alive,
                   counters, sent, external>>

ServiceExit ==
    /\ Serving /\ quit
    /\ service' = "exited"
    /\ UNCHANGED <<channel, dispatch, queues, outgoing, socket, webrtc, alive,
                   counters, sent, external>>

----------------------------------------------------------------------------
(* event_dispatch_thread_: one event of each queue per iteration.           *)

DispatchLoop ==
    /\ alive /\ dispatch = "top"
    /\ dispatch' = IF quit THEN "exited" ELSE "webrtc"
    /\ UNCHANGED <<channel, service, queues, outgoing, socket, webrtc, alive,
                   counters, sent, external>>

NoOffer ==
    /\ alive /\ dispatch = "webrtc" /\ toWebrtc = <<>>
    /\ dispatch' = "websockets"
    /\ UNCHANGED <<channel, service, queues, outgoing, socket, webrtc, alive,
                   counters, sent, external>>

\* webrtc_event: a new PeerConnection replaces the old one.  What the old one had
\* still to report is reported to the new one or not at all.
OfferBegin ==
    /\ alive /\ dispatch = "webrtc" /\ toWebrtc # <<>>
    /\ peer' = Head(toWebrtc) /\ toWebrtc' = Tail(toWebrtc)
    /\ signaling_state' = "stable" /\ tracks' = FALSE /\ gathering' = FALSE
    /\ tasks' \in {tasks, <<>>}
    /\ dispatch' = "offer"
    /\ UNCHANGED <<channel, service, toWebsockets, outgoing, socket, alive, counters,
                   sent, external>>

\* SetRemoteDescription, unless the sdp cannot be parsed.
OfferEnd ==
    /\ alive /\ dispatch = "offer"
    /\ \/ /\ signaling_state' = "have_remote_offer"
          /\ tasks' = Append(tasks, "remote_set")
       \/ UNCHANGED <<signaling_state, tasks>>
    /\ dispatch' = "websockets"
    /\ UNCHANGED <<channel, service, queues, outgoing, socket, peer, tracks,
                   gathering, alive, counters, sent, external>>

NoMessage ==
    /\ alive /\ dispatch = "websockets" /\ toWebsockets = <<>>
    /\ dispatch' = "top"
    /\ UNCHANGED <<channel, service, queues, outgoing, socket, webrtc, alive,
                   counters, sent, external>>

\* Broken variant: the callback is asked for before sendTarget is assigned.
SendBegin_asks ==
    /\ alive /\ dispatch = "websockets" /\ toWebsockets # <<>>
    /\ sending' = Head(toWebsockets) /\ toWebsockets' = Tail(toWebsockets)
    /\ sendTarget' = sendTarget
    /\ writable' = TRUE
    /\ dispatch' = "assign"
    /\ UNCHANGED <<channel, service, toWebrtc, socket, webrtc, alive,
                   counters, sent, external>>

\* websockets_event: the assignment of sendTarget is under way ...
SendBegin ==
    /\ alive /\ dispatch = "websockets" /\ toWebsockets # <<>>
    /\ sending' = Head(toWebsockets) /\ toWebsockets' = Tail(toWebsockets)
    /\ sendTarget' = Torn
    /\ dispatch' = "assign"
    /\ UNCHANGED <<channel, service, toWebrtc, writable, socket, webrtc, alive,
                   counters, sent, external>>

\* ... and done; what is written from now on is the message, which a callback asked for
\* earlier does as well.
SendAssigned ==
    /\ alive /\ dispatch = "assign"
    /\ sendTarget' = sending
    /\ dispatch' = "request"
    /\ UNCHANGED <<channel, service, queues, sending, writable, socket, webrtc, alive,
                   counters, sent, external>>

\* Broken variant: the callback is asked for until something was written, not for
\* every message.
SendEnd_once ==
    /\ alive /\ dispatch = "request"
    /\ writable' = (websocket /\ (writable \/ sent = <<>>))
    /\ alive' = websocket
    /\ dispatch' = "top"
    /\ UNCHANGED <<channel, service, queues, sending, sendTarget, socket, webrtc,
                   counters, sent, external>>

\* lws_callback_on_writable, which dereferences websocket.
SendEnd ==
    /\ alive /\ dispatch = "request"
    /\ writable' = websocket
    /\ alive' = websocket
    /\ dispatch' = "top"
    /\ UNCHANGED <<channel, service, queues, sending, sendTarget, socket, webrtc,
                   counters, sent, external>>

----------------------------------------------------------------------------
(* The signaling thread of libwebrtc: SetSessionDescriptionObserverImpl,    *)
(* ...LocalImpl and CreateSessionDescriptionObserverImpl.                   *)

Report(task) == alive /\ tasks # <<>> /\ Head(tasks) = task

\* CreateAnswer on the current PeerConnection; it fails when no offer is pending.
CreateAnswer ==
    tasks' = IF signaling_state = "have_remote_offer"
             THEN Append(Tail(tasks), "answer_created") ELSE Tail(tasks)

\* The publisher adds its two tracks; a track that is there already is a PANIC.
AddTracks ==
    /\ tracks' = TRUE
    /\ alive' = ~tracks
SetSessionDescriptionObserverImpl_OnSuccess ==
    /\ IF order_ = "PUBLISH" THEN AddTracks ELSE UNCHANGED <<tracks, alive>>
    /\ CreateAnswer
    /\ UNCHANGED <<channel, threads, queues, outgoing, socket, peer, signaling_state,
                   gathering, counters, sent, external>>

SetRemoteDescription_OnSuccess ==
    /\ Report("remote_set")
    /\ SetSessionDescriptionObserverImpl_OnSuccess

SetSessionDescriptionObserverLocalImpl_OnSuccess ==
    /\ CreateAnswer
    /\ UNCHANGED <<channel, threads, queues, outgoing, socket, peer, signaling_state,
                   tracks, gathering, alive, counters, sent, external>>

\* Broken variant: both orders use the observer that adds the tracks.
SetLocalDescription_OnSuccess_tracks ==
    /\ Report("local_set")
    /\ SetSessionDescriptionObserverImpl_OnSuccess

\* A subscriber is told by the observer of the remote description, which has no
\* tracks to add; a publisher by the local one.
SetLocalDescription_OnSuccess ==
    /\ Report("local_set")
    /\ IF order_ = "SUBSCRIBE" THEN SetSessionDescriptionObserverImpl_OnSuccess
                              ELSE SetSessionDescriptionObserverLocalImpl_OnSuccess

\* Broken variant: the local description is not set, its observer is told anyway.
CreateSessionDescriptionObserverImpl_OnSuccess_skips ==
    /\ Report("answer_created")
    /\ tasks' = Append(Tail(tasks), "local_set")
    /\ push_event("answer")
    /\ answers' = [answers EXCEPT ![peer] = @ + 1]
    /\ UNCHANGED <<channel, threads, toWebrtc, outgoing, socket, peer, tracks,
                   signaling_state, gathering, alive, sent, external>>

\* SetLocalDescription, if the connection still waits for an answer; the answer is
\* pushed in any case.
CreateSessionDescriptionObserverImpl_OnSuccess ==
    /\ Report("answer_created")
    /\ IF signaling_state = "have_remote_offer"
       THEN /\ signaling_state' = "stable" /\ gathering' = TRUE
            /\ tasks' = Append(Tail(tasks), "local_set")
       ELSE /\ tasks' = Tail(tasks)
            /\ UNCHANGED <<signaling_state, gathering>>
    /\ push_event("answer")
    /\ answers' = [answers EXCEPT ![peer] = @ + 1]
    /\ UNCHANGED <<channel, threads, toWebrtc, outgoing, socket, peer, tracks, alive,
                   sent, external>>

\* Broken variant: a candidate overtakes what is queued.
OnIceCandidate_overtakes ==
    /\ alive /\ gathering /\ candidates < MaxCandidates
    /\ candidates' = candidates + 1
    /\ toWebsockets' = <<Message("candidate", pushed + 1)>> \o toWebsockets
    /\ pushed' = pushed + 1
    /\ UNCHANGED <<channel, threads, toWebrtc, outgoing, socket, webrtc, alive,
                   answers, sent, offers, pings>>

OnIceCandidate ==
    /\ alive /\ gathering /\ candidates < MaxCandidates
    /\ candidates' = candidates + 1
    /\ push_event("candidate")
    /\ UNCHANGED <<channel, threads, toWebrtc, outgoing, socket, webrtc, alive,
                   answers, sent, offers, pings>>

----------------------------------------------------------------------------
Main == AddChannel \/ DeleteChannelBegin \/ DeleteChannelEnd
websockets_thread == \/ Established \/ ReceiveOffer \/ ReceivePing \/ Writeable
                     \/ Closed \/ ServiceExit
event_dispatch_thread == \/ DispatchLoop \/ NoOffer \/ OfferBegin \/ OfferEnd
                         \/ NoMessage \/ SendBegin \/ SendAssigned \/ SendEnd
signaling_thread == \/ SetRemoteDescription_OnSuccess \/ SetLocalDescription_OnSuccess
                    \/ CreateSessionDescriptionObserverImpl_OnSuccess
                    \/ OnIceCandidate

Next == Main \/ websockets_thread \/ event_dispatch_thread \/ signaling_thread

Spec == Init /\ [][Next]_vars

\* The dispatcher loops with a sleep of 100 us, lws_service returns and calls back
\* for a wire that is ready, libwebrtc reports what it was asked.  Nothing obliges
\* the SFU to send, nor the network to stay up.
Fairness == /\ WF_vars(event_dispatch_thread)
            /\ WF_vars(Writeable) /\ WF_vars(ServiceExit)
            /\ WF_vars(SetRemoteDescription_OnSuccess)
            /\ WF_vars(SetLocalDescription_OnSuccess)
            /\ WF_vars(CreateSessionDescriptionObserverImpl_OnSuccess)

FairSpec == Spec /\ Fairness

----------------------------------------------------------------------------
(* Properties.                                                              *)

Outgoing == [type : {"connect", "pong", "answer", "candidate", "torn", "empty"},
             session : 0..MaxSessions, no : Nat]

\* Every variable keeps its type.
TypeOK ==
    /\ order_ \in Orders /\ session \in 0..MaxSessions /\ quit \in BOOLEAN
    /\ dispatch \in {"none", "top", "webrtc", "offer", "websockets", "assign",
                    "request", "exited"}
    /\ service \in {"none", "running", "exited"}
    /\ toWebrtc \in Seq(1..MaxOffers) /\ toWebsockets \in Seq(Outgoing)
    /\ sending \in Outgoing /\ sendTarget \in Outgoing /\ writable \in BOOLEAN
    /\ websocket \in BOOLEAN /\ wire \in {"down", "connecting", "up"}
    /\ peer \in 0..MaxOffers /\ signaling_state \in {"stable", "have_remote_offer"}
    /\ tracks \in BOOLEAN /\ gathering \in BOOLEAN
    /\ tasks \in Seq({"remote_set", "answer_created", "local_set"})
    /\ alive \in BOOLEAN
    /\ pushed \in Nat /\ answers \in [1..MaxOffers -> Nat]
    /\ sent \in Seq(Outgoing)
    /\ offers \in 0..MaxOffers /\ pings \in 0..MaxPings /\ candidates \in 0..MaxCandidates

\* A connection opens with the connect message: nothing is written before it, not
\* even the empty sendTarget or one that is being assigned.  (On the first channel
\* of an instance: a later one may find messages of an earlier one in its queue.)
ConnectFirst == session = 1 /\ sent # <<>> => sent[1].type = "connect"

\* Messages reach the wire in the order in which they were queued, although one
\* string holds them on the way and two threads race for it: a message may be lost
\* or repeated, an older one never follows a newer one.
WireInOrder ==
    \A i, j \in DOMAIN sent :
        i < j /\ sent[i] # Torn /\ sent[j] # Torn => sent[i].no <= sent[j].no

\* An offer is answered at most once, although the success of the local
\* description asks for another answer.  (Until a second offer: a report of the
\* earlier PeerConnection can ask the new one for an answer of its own.)
OneAnswerPerOffer == offers <= 1 => \A o \in 1..MaxOffers : answers[o] <= 1

\* The process dies only because it sends on a connection that is gone: the tracks
\* of the publisher are never added twice.  (Until a second offer, too.)
OnlyLossKills == offers <= 1 => alive \/ ~websocket

\* No wakeup is lost: a message that was dispatched on this channel is on the wire,
\* or something newer is, or a WRITEABLE callback is still to come.
NoWakeupLost ==
    wire = "up" /\ sendTarget.session = session /\ dispatch \notin {"assign", "request"}
        => writable \/ \E i \in DOMAIN sent : sent[i].no >= sendTarget.no

\* What the README says of the signaling: a json request, an sdp string as the
\* response.  An answer is written on the wire, unless connection or channel goes.
AnswerIsSent ==
    (\E i \in DOMAIN toWebsockets : toWebsockets[i].type = "answer")
        ~> ((\E i \in DOMAIN sent : sent[i].type = "answer") \/ wire # "up" \/ quit)
=============================================================================
