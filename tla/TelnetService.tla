---------------------------- MODULE TelnetService ----------------------------
(***************************************************************************)
(* The console of bres: operators connect to a port and type commands, the *)
(* telnet thread turns the bytes it receives into elements of ipc_events.  *)
(*                                                                         *)
(* A line is a sequence of units: the halves of a JSON text, cr and lf; a  *)
(* blank line is cr and lf.  TCP keeps the units of a client in order and  *)
(* cuts them anywhere; a recv returns at most 128 bytes, here RecvMax      *)
(* units.  The text collected in req_ is taken when a recv happens to end  *)
(* where a line ends; it is a command if it is one JSON text and not two.  *)
(*                                                                         *)
(* libevent is external: it waits until descriptors are ready and calls    *)
(* back once for each of them.  Its version 2 returns after each pass, for *)
(* `quit' to be looked at; the version of the other builds never returns.  *)
(***************************************************************************)
EXTENDS Naturals, Sequences, Functions

CONSTANTS
    Client,       \* connections to the port
    RecvMax,      \* units in one recv (128 bytes in the code)
    MaxLines      \* bound: lines typed by all clients

ASSUME RecvMaxAssumption == RecvMax \in Nat /\ RecvMax > 0
ASSUME LinesAssumption == MaxLines \in Nat

VARIABLES
    libevent2,    \* compile-time switch __LIBEVENT_V2__
    loop,         \* telnet thread: "start", "top", "wait", "pass", "ended"
    active,       \* what libevent has still to call back for in this pass
    connection,   \* of each client: "away", "waiting" (for accept), "open", "closed"
    hungUp,       \* clients that have closed their side
    paced,        \* clients that type a line when the one before has arrived
    typed,        \* number of lines typed so far: names them
    commands,     \* [client, no] of the channel commands typed
    network,      \* units on their way, per client
    req_,         \* client_t::req_: units received and not yet taken
    events_,      \* ipc_events: [client, no]
    quit,         \* bres::quit
    alive         \* FALSE after an uncaught exception

console  == <<loop, active, connection, req_>>
operator == <<hungUp, paced, typed, commands>>
telnet   == <<libevent2, console, operator, network, events_>>

Kind == {"channel", "other", "ill_typed", "blank"}
Unit == [no : 1..MaxLines, kind : Kind, part : {"head", "tail", "cr", "lf"}]
Command == [client : Client, no : 1..MaxLines]
Listener == "listener"

Line(no, kind) ==
    LET unit(part) == [no |-> no, kind |-> kind, part |-> part] IN
    IF kind = "blank" THEN <<unit("cr"), unit("lf")>>
    ELSE <<unit("head"), unit("tail"), unit("cr"), unit("lf")>>

TelnetInit ==
    /\ libevent2 \in BOOLEAN
    /\ loop = "start" /\ active = {}
    /\ connection = [c \in Client |-> "away"] /\ hungUp = {}
    /\ paced \in SUBSET Client
    /\ typed = 0 /\ commands = {}
    /\ network = [c \in Client |-> <<>>] /\ req_ = [c \in Client |-> <<>>]
    /\ events_ = <<>>

----------------------------------------------------------------------------
(* The operators.                                                           *)

Connect(c) ==
    /\ alive /\ loop \notin {"start", "ended"} /\ connection[c] = "away"
    /\ connection' = [connection EXCEPT ![c] = "waiting"]
    /\ UNCHANGED <<libevent2, loop, active, req_, operator, network, events_, quit, alive>>

Type(c, kind) ==
    /\ alive /\ connection[c] \in {"waiting", "open"} /\ c \notin hungUp
    /\ typed < MaxLines
    /\ c \in paced => network[c] = <<>>
    /\ typed' = typed + 1
    /\ network' = [network EXCEPT ![c] = @ \o Line(typed + 1, kind)]
    /\ commands' = IF kind = "channel"
                   THEN commands \cup {[client |-> c, no |-> typed + 1]} ELSE commands
    /\ UNCHANGED <<libevent2, console, hungUp, paced, events_, quit, alive>>

\* Closed or reset: in the second case what was not received is lost.
HangUp(c) ==
    /\ alive /\ connection[c] \in {"waiting", "open"} /\ c \notin hungUp
    /\ hungUp' = hungUp \cup {c}
    /\ \/ network' = [network EXCEPT ![c] = <<>>]
       \/ UNCHANGED network
    /\ UNCHANGED <<libevent2, console, paced, typed, commands, events_, quit, alive>>

----------------------------------------------------------------------------
(* telnet_service.                                                          *)

\* socket, bind and listen, each of which may throw.
TelnetStart ==
    /\ alive /\ loop = "start"
    /\ \/ loop' = "top" /\ UNCHANGED alive
       \/ alive' = FALSE /\ UNCHANGED loop
    /\ UNCHANGED <<libevent2, active, connection, req_, operator, network, events_, quit>>

\* while(!bres::quit), or event_dispatch.
LoopTop ==
    /\ alive /\ loop = "top"
    /\ loop' = IF libevent2 /\ quit THEN "ended" ELSE "wait"
    /\ UNCHANGED <<libevent2, active, connection, req_, operator, network, events_, quit,
                   alive>>

Waiting == {c \in Client : connection[c] = "waiting"}
Readable == {c \in Client : connection[c] = "open" /\ (network[c] # <<>> \/ c \in hungUp)}
Ready == Readable \cup (IF Waiting = {} THEN {} ELSE {Listener})

\* event_base_loop(base, EVLOOP_ONCE) blocks until something is ready.
LoopWait ==
    /\ alive /\ loop = "wait" /\ Ready # {}
    /\ loop' = "pass" /\ active' = Ready
    /\ UNCHANGED <<libevent2, connection, req_, operator, network, events_, quit, alive>>

\* A callback is made; after the last one event_base_loop returns.
Called(what) ==
    /\ active' = active \ {what}
    /\ loop' = IF active = {what} THEN "top" ELSE "pass"

\* One connection per call.  An accept may fail, for now or for good, and the settings
\* of the socket may throw.
onAccept(c) ==
    /\ alive /\ loop = "pass" /\ Listener \in active /\ connection[c] = "waiting"
    /\ \/ /\ Called(Listener)
          /\ \E accepted \in {"open", "waiting", "closed"} :
                connection' = [connection EXCEPT ![c] = accepted]
          /\ UNCHANGED alive
       \/ alive' = FALSE /\ UNCHANGED <<active, loop, connection>>
    /\ UNCHANGED <<libevent2, req_, operator, network, events_, quit>>

\* Longer than a crlf, and the end of a line at the end.
EndsLine(text) ==
    /\ Len(text) > 2
    /\ text[Len(text)].part = "lf" \/ text[Len(text) - 1].part = "cr"

\* nlohmann::json::accept: one text, whatever white space surrounds it.
Accepted(text) ==
    \E i, j \in DOMAIN text :
        /\ i < j /\ text[i].part = "head" /\ text[j].part = "tail"
        /\ \A k \in DOMAIN text \ {i, j} : text[k].part \in {"cr", "lf"}

Parsed(text) == text[CHOOSE i \in DOMAIN text : text[i].part = "head"]

\* Broken variant: the text is queued without being told apart by its type.
TakeText_raw(c, unit) ==
    /\ events_' = Append(events_, unit)
    /\ UNCHANGED alive

\* A type that is no string throws; a type that is not known is nothing.
TakeText(c, unit) ==
    /\ events_' = IF unit.kind = "channel"
                  THEN Append(events_, [client |-> c, no |-> unit.no]) ELSE events_
    /\ alive' = (unit.kind # "ill_typed")

\* Broken variant: the bytes of this recv are parsed, not what was collected.
Take_chunk(c, chunk) ==
    IF EndsLine(req_[c] \o chunk)
    THEN /\ req_' = [req_ EXCEPT ![c] = <<>>]
         /\ IF Accepted(chunk) THEN TakeText(c, Parsed(chunk))
                               ELSE UNCHANGED <<events_, alive>>
    ELSE /\ req_' = [req_ EXCEPT ![c] = @ \o chunk]
         /\ UNCHANGED <<events_, alive>>

Take(c, chunk) ==
    LET text == req_[c] \o chunk IN
    IF EndsLine(text)
    THEN /\ req_' = [req_ EXCEPT ![c] = <<>>]
         /\ IF Accepted(text) THEN TakeText(c, Parsed(text))
                              ELSE UNCHANGED <<events_, alive>>
    ELSE /\ req_' = [req_ EXCEPT ![c] = text]
         /\ UNCHANGED <<events_, alive>>

\* recv returns some of what has arrived.
onRecv(c) ==
    /\ alive /\ loop = "pass" /\ c \in active /\ network[c] # <<>>
    /\ Called(c)
    /\ \E n \in 1..Len(network[c]) :
           /\ n <= RecvMax
           /\ network' = [network EXCEPT ![c] = SubSeq(@, n + 1, Len(@))]
           /\ Take(c, SubSeq(network[c], 1, n))
    /\ UNCHANGED <<libevent2, connection, operator, quit>>

\* err_return: the client is deleted, with what it had collected.
onRecvError(c) ==
    /\ alive /\ loop = "pass" /\ c \in active /\ network[c] = <<>>
    /\ Called(c)
    /\ connection' = [connection EXCEPT ![c] = "closed"]
    /\ req_' = [req_ EXCEPT ![c] = <<>>]
    /\ UNCHANGED <<libevent2, operator, network, events_, quit, alive>>

----------------------------------------------------------------------------
Operators == \E c \in Client : Connect(c) \/ HangUp(c) \/ \E kind \in Kind : Type(c, kind)
telnet_service == \/ TelnetStart \/ LoopTop \/ LoopWait
                  \/ \E c \in Client : onAccept(c) \/ onRecv(c) \/ onRecvError(c)
=============================================================================
