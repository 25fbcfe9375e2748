------------------------------- MODULE Shutdown -------------------------------
(***************************************************************************)
(* The life of the process around its main loop, composed with the telnet  *)
(* thread: main() starts it, executes a command per second, and on ESC     *)
(* deletes the publisher, sets every quit flag, joins the telnet thread,   *)
(* releases the slots that are open and returns.                           *)
(*                                                                         *)
(* A slot is seen from here as two threads (one entry, they end alike) and *)
(* its objects; which slot a command works on, and when its handler ends   *)
(* the process, is the matter of ChannelSlots.  With __BLACKMAGIC_OUTPUT__ *)
(* the publisher was never added, and its deletion joins a thread that     *)
(* does not exist: nothing after it is reached, and the pipeline thread is *)
(* left out here.                                                          *)
(***************************************************************************)
EXTENDS TelnetService, FiniteSets

CONSTANTS Slot    \* the pooled instances

VARIABLES
    sdi,          \* compile-time switch __BLACKMAGIC_OUTPUT__
    main,         \* main(): "loop", "publisher", "joins", "release", "ended"
    publisher,    \* its threads: "none", "running", "exited", "joined"
    open,         \* slots with instance_enum # INSTANCE_MIN
    threads,      \* of each slot: "none", "running", "exited" (not joined)
    told,         \* slots whose quit is set
    released,     \* slots whose context and connection main() released at the end
    executed      \* commands executed so far

slots == <<open, threads, told, released>>
vars  == <<telnet, quit, alive, sdi, main, publisher, slots, executed>>

Init ==
    /\ TelnetInit
    /\ quit = FALSE /\ alive = TRUE
    /\ sdi \in BOOLEAN
    /\ main = "loop"
    /\ publisher = IF sdi THEN "none" ELSE "running"
    /\ open = {} /\ threads = [s \in Slot |-> "none"] /\ told = {} /\ released = {}
    /\ executed = <<>>

----------------------------------------------------------------------------
(* The threads of slots and publisher are loops that end when told.         *)

SlotExits(s) ==
    /\ alive /\ main # "ended" /\ threads[s] = "running" /\ s \in told
    /\ threads' = [threads EXCEPT ![s] = "exited"]
    /\ UNCHANGED <<telnet, quit, alive, sdi, main, publisher, open, told, released,
                   executed>>

PublisherExits ==
    /\ alive /\ main = "publisher" /\ publisher = "running"
    /\ publisher' = "exited"
    /\ UNCHANGED <<telnet, quit, alive, sdi, main, slots, executed>>

----------------------------------------------------------------------------
(* main().                                                                  *)

TakeCommand ==
    /\ alive /\ main = "loop" /\ events_ # <<>>
    /\ executed' = Append(executed, Head(events_))
    /\ events_' = Tail(events_)

\* A still image has no threads; it may get a slot whose channel lost it with its
\* threads.
OpenSlot(s) ==
    /\ s \notin open
    /\ open' = open \cup {s} /\ told' = told \ {s}
    /\ \/ threads[s] = "none" /\ threads' = [threads EXCEPT ![s] = "running"]
       \/ UNCHANGED threads
    /\ UNCHANGED released

\* A channel is told, joined and released; the deletion of a still image joins nothing,
\* be there a channel in its slot or not.
CloseSlot(s) ==
    /\ open' = open \ {s} /\ told' = told \cup {s}
    /\ \/ threads[s] # "none" /\ threads' = [threads EXCEPT ![s] = "none"]
       \/ UNCHANGED threads
    /\ UNCHANGED released

\* Once per second: a slot opens, a slot closes, nothing changes here, or the handler
\* ends the process.
Execute ==
    /\ TakeCommand
    /\ \/ (\E s \in Slot : OpenSlot(s) \/ CloseSlot(s)) /\ UNCHANGED alive
       \/ UNCHANGED <<slots, alive>>
       \/ alive' = FALSE /\ UNCHANGED slots
    /\ UNCHANGED <<libevent2, console, operator, network, quit, sdi, main, publisher>>

\* ESC: publishSideDeleteChannel sets the publisher's quit ...
Escape ==
    /\ alive /\ main = "loop"
    /\ main' = "publisher"
    /\ UNCHANGED <<telnet, quit, alive, sdi, publisher, slots, executed>>

\* ... and joins its threads; std::terminate if it has none.
PublisherMissing ==
    /\ alive /\ main = "publisher" /\ publisher = "none"
    /\ alive' = FALSE
    /\ UNCHANGED <<telnet, quit, sdi, main, publisher, slots, executed>>

\* Broken variant: bres::quit is only set once the telnet thread has been joined.
PublisherJoined_late ==
    /\ alive /\ main = "publisher" /\ publisher = "exited"
    /\ publisher' = "joined"
    /\ told' = Slot
    /\ main' = "joins"
    /\ UNCHANGED <<telnet, quit, alive, sdi, open, threads, released, executed>>

PublisherJoined ==
    /\ alive /\ main = "publisher" /\ publisher = "exited"
    /\ publisher' = "joined"
    /\ told' = Slot /\ quit' = TRUE
    /\ main' = "joins"
    /\ UNCHANGED <<telnet, alive, sdi, open, threads, released, executed>>

TelnetJoined ==
    /\ alive /\ main = "joins" /\ loop = "ended"
    /\ main' = "release"
    /\ UNCHANGED <<telnet, quit, alive, sdi, publisher, slots, executed>>

\* websockets_quit, webrtc_quit, gl_quit of a slot that is open.  Nobody joins its
\* threads, which may meet what was freed; a still image without threads has no
\* message_queue for webrtc_quit to stop.
Release(s) ==
    /\ alive /\ main = "release" /\ s \in open \ released
    /\ \/ /\ threads[s] # "none"
          /\ released' = released \cup {s} /\ alive' \in BOOLEAN
       \/ /\ threads[s] = "none"
          /\ alive' = FALSE /\ UNCHANGED released
    /\ UNCHANGED <<telnet, quit, sdi, main, publisher, open, threads, told, executed>>

\* The pool is destroyed: std::terminate if a thread of it was not joined.
Return ==
    /\ alive /\ main = "release" /\ open \subseteq released
    /\ IF \A s \in Slot : threads[s] = "none"
       THEN main' = "ended" /\ UNCHANGED alive
       ELSE alive' = FALSE /\ UNCHANGED main
    /\ UNCHANGED <<telnet, quit, sdi, publisher, slots, executed>>

----------------------------------------------------------------------------
Ending == \/ PublisherExits \/ PublisherMissing \/ PublisherJoined \/ TelnetJoined
          \/ Return \/ \E s \in Slot : SlotExits(s) \/ Release(s)
Console == UNCHANGED <<sdi, main, publisher, slots, executed>>

Next == \/ main # "ended" /\ Operators /\ Console
        \/ telnet_service /\ Console
        \/ Execute \/ Escape \/ Ending

Spec == Init /\ [][Next]_vars

\* main() takes a command every second and does not stop in its last part; threads
\* that are told to end look at their flag again at the latest after 250 ms; libevent
\* calls back for what is ready.  Nobody is obliged to type or to press ESC.
Fairness == /\ WF_vars(Execute) /\ WF_vars(Ending)
            /\ WF_vars(telnet_service /\ Console)

FairSpec == Spec /\ Fairness

----------------------------------------------------------------------------
(* Properties.                                                              *)

\* Every variable keeps its type.
TypeOK ==
    /\ libevent2 \in BOOLEAN /\ sdi \in BOOLEAN
    /\ loop \in {"start", "top", "wait", "pass", "ended"}
    /\ active \subseteq Client \cup {Listener}
    /\ connection \in [Client -> {"away", "waiting", "open", "closed"}]
    /\ hungUp \subseteq Client /\ paced \subseteq Client
    /\ typed \in 0..MaxLines /\ commands \subseteq Command
    /\ network \in [Client -> Seq(Unit)] /\ req_ \in [Client -> Seq(Unit)]
    /\ events_ \in Seq(Command) /\ executed \in Seq(Command)
    /\ quit \in BOOLEAN /\ alive \in BOOLEAN
    /\ main \in {"loop", "publisher", "joins", "release", "ended"}
    /\ publisher \in {"none", "running", "exited", "joined"}
    /\ open \subseteq Slot /\ told \subseteq Slot /\ released \subseteq Slot
    /\ threads \in [Slot -> {"none", "running", "exited"}]

Queued == executed \o events_

\* A command is lost only together with another line in the same recv: what an
\* operator typed who waits for each line to arrive is queued once it has arrived.
PacedCommandsArrive ==
    \A command \in commands :
        /\ command.client \in paced \ hungUp /\ network[command.client] = <<>> /\ alive
        => command \in Range(Queued)

\* However the lines are cut, nothing is executed that nobody typed, no command twice,
\* and those of an operator in the order typed.
CommandsInOrder ==
    /\ Range(Queued) \subseteq commands
    /\ \A i, j \in DOMAIN Queued :
           i < j /\ Queued[i].client = Queued[j].client => Queued[i].no < Queued[j].no

\* main() returns only if it finds nothing to release: with every thread joined, on
\* libevent 2 and without the SDI card.  A slot that is open on ESC, with a channel or
\* with a still image, ends the process another way.
ReturnIsClean ==
    main = "ended" => /\ alive /\ quit /\ libevent2 /\ ~sdi
                      /\ loop = "ended" /\ publisher = "joined"
                      /\ open = {} /\ released = {} /\ \A s \in Slot : threads[s] = "none"

\* After ESC the process ends as soon as anything arrives on the console, where its
\* thread waits for the whole process; not with an event loop that never returns.
EscapeEnds ==
    (main = "joins" /\ libevent2 /\ Ready # {}) ~> (main = "ended" \/ ~alive)
=============================================================================
