---------------------------- MODULE ChannelSlots ----------------------------
(***************************************************************************)
(* The pool of instances (slots) and the commands that open, change and    *)
(* close them.  The telnet thread queues commands in ipc_events; main()    *)
(* takes one of them per second and executes it between two frames.  Every *)
(* open channel has two threads of its own, which main() joins when the    *)
(* channel is deleted.                                                     *)
(*                                                                         *)
(* Slots are found again by name: channel_id and image_path stay in a slot *)
(* after it is freed.  How the operator names things therefore matters and *)
(* is a parameter: Paired and FreshNames; and so is how well it writes     *)
(* them: Careless.  A step that ends the process records why in ended and  *)
(* leaves the rest, which is gone with the process.                        *)
(***************************************************************************)
EXTENDS Naturals, Sequences, FiniteSets

CONSTANTS
    Slots,        \* pooled_instances.size() (INSTANCE_MAX, 9 in the code)
    Channel,      \* channel ids the operator uses
    Image,        \* image paths the operator uses
    None,         \* the name in a slot that never had one
    Paired,       \* TRUE: a name is opened only while closed and closed or
                  \* changed only while open, as the operator sees it
    FreshNames,   \* TRUE: a name is opened at most once
    Careless,     \* TRUE: a command may lack members or have some of another type
    MaxCommands   \* bound: commands over the whole run

ASSUME SlotsAssumption == Slots \in Nat /\ Slots > 0
ASSUME NameAssumption == /\ None \notin Channel /\ None \notin Image
                         /\ Channel \cap Image = {}
ASSUME OperatorAssumption == /\ Paired \in BOOLEAN /\ FreshNames \in BOOLEAN
                             /\ Careless \in BOOLEAN /\ MaxCommands \in Nat

VARIABLES
    opened,           \* operator: names it believes open
    used,             \* operator: names it ever opened
    sent,             \* operator: number of commands sent
    ipc_events,       \* events_t::events_
    pc,               \* main(): "loop", "scan" or "join" (in subscribeSideDeleteChannel)
    at,               \* main(): slot the delete loop has come to
    target,           \* main(): channel_id the delete loop looks for
    instance_enum,    \* "MIN", "00" (channel) or "LOCAL" (still image), per slot
    channel_id,       \* per slot
    image_path,       \* per slot
    quit,             \* per slot
    isDraw,           \* per slot
    dispatch,         \* event_dispatch_thread_: "none" (not joinable), "running", "exited"
    service,          \* websockets_thread_: same
    context,          \* lws context: "none", "live", "destroyed"
    webrtc,           \* factory, peer connection, rtc threads: same
    texture,          \* movieTexture exists
    ended             \* what ended the process: "no", "assigned", "texture", "joined", "thrown"

operator == <<opened, used, sent>>
control  == <<pc, at, target>>
names    == <<channel_id, image_path>>
threads  == <<dispatch, service>>
external == <<context, webrtc>>
vars == <<operator, ipc_events, control, instance_enum, names, quit, isDraw,
          threads, external, texture, ended>>

Slot == 1..Slots
alive == ended = "no"

Init ==
    /\ opened = {} /\ used = {} /\ sent = 0
    /\ ipc_events = <<>>
    /\ pc = "loop" /\ at = 1 /\ target = None
    /\ instance_enum = [i \in Slot |-> "MIN"]
    /\ channel_id = [i \in Slot |-> None] /\ image_path = [i \in Slot |-> None]
    /\ quit = [i \in Slot |-> FALSE] /\ isDraw = [i \in Slot |-> FALSE]
    /\ dispatch = [i \in Slot |-> "none"] /\ service = [i \in Slot |-> "none"]
    /\ context = [i \in Slot |-> "none"] /\ webrtc = [i \in Slot |-> "none"]
    /\ texture = [i \in Slot |-> FALSE]
    /\ ended = "no"

----------------------------------------------------------------------------
(* The operator, through the telnet thread.                                *)

Opening(type) == type \in {"add", "addImage"}
Type(name) == IF name \in Channel THEN {"add", "delete", "draw", "hide"}
                                  ELSE {"addImage", "deleteImage"}

Allowed(type, name) ==
    /\ Paired => (Opening(type) <=> name \notin opened)
    /\ FreshNames /\ Opening(type) => name \notin used

telnet_push(type, name) ==
    /\ alive /\ sent < MaxCommands
    /\ Allowed(type, name)
    /\ ipc_events' = Append(ipc_events, [type |-> type, name |-> name])
    /\ sent' = sent + 1
    /\ opened' = CASE Opening(type)                       -> opened \cup {name}
                   [] type \in {"delete", "deleteImage"} -> opened \ {name}
                   [] OTHER                               -> opened
    /\ used' = IF Opening(type) THEN used \cup {name} ELSE used
    /\ UNCHANGED <<control, instance_enum, names, quit, isDraw, threads, external,
                   texture, ended>>

----------------------------------------------------------------------------
(* main() executes one command.                                            *)

Free == {i \in Slot : instance_enum[i] = "MIN"}
First(S) == CHOOSE i \in S : \A j \in S : i <= j

\* main() pops the event and calls the handler of its type.
Take(type) ==
    /\ alive /\ pc = "loop"
    /\ ipc_events # <<>> /\ Head(ipc_events).type = type
    /\ ipc_events' = Tail(ipc_events)
Name == Head(ipc_events).name

\* Broken variant: quit is not reset when a slot is reused.
subscribeSideAddChannel_quit ==
    /\ Take("add")
    /\ Free # {}
    /\ LET i == First(Free) IN
       /\ dispatch[i] = "none" /\ service[i] = "none"
       /\ instance_enum' = [instance_enum EXCEPT ![i] = "00"]
       /\ isDraw' = [isDraw EXCEPT ![i] = FALSE]
       /\ channel_id' = [channel_id EXCEPT ![i] = Name]
       /\ context' = [context EXCEPT ![i] = "live"]
       /\ webrtc' = [webrtc EXCEPT ![i] = "live"]
       /\ texture' = [texture EXCEPT ![i] = TRUE]
       /\ dispatch' = [dispatch EXCEPT ![i] = "running"]
       /\ service' = [service EXCEPT ![i] = "running"]
    /\ UNCHANGED <<operator, control, quit, image_path, ended>>

subscribeSideAddChannel ==
    /\ Take("add")
    /\ Free # {}
    /\ LET i == First(Free) IN
       /\ dispatch[i] = "none" /\ service[i] = "none"
       /\ instance_enum' = [instance_enum EXCEPT ![i] = "00"]
       /\ quit' = [quit EXCEPT ![i] = FALSE]
       /\ isDraw' = [isDraw EXCEPT ![i] = FALSE]
       /\ channel_id' = [channel_id EXCEPT ![i] = Name]
       /\ context' = [context EXCEPT ![i] = "live"]
       /\ webrtc' = [webrtc EXCEPT ![i] = "live"]
       /\ texture' = [texture EXCEPT ![i] = TRUE]
       /\ dispatch' = [dispatch EXCEPT ![i] = "running"]
       /\ service' = [service EXCEPT ![i] = "running"]
    /\ UNCHANGED <<operator, control, image_path, ended>>

\* A std::thread is assigned to one that is still joinable: std::terminate.
AddAssignsJoinable ==
    /\ Take("add")
    /\ Free # {}
    /\ dispatch[First(Free)] # "none" \/ service[First(Free)] # "none"
    /\ ended' = "assigned"
    /\ UNCHANGED <<operator, control, instance_enum, names, quit, isDraw, threads,
                   external, texture>>

\* gl_generate_texture reads init_image, which a still image has left in the slot and
\* whose memory was freed when it was loaded: undefined, and not always fatal, so
\* the add may also go on.
AddReadsFreedImage ==
    /\ Take("add")
    /\ Free # {}
    /\ image_path[First(Free)] # None
    /\ ended' = "texture"
    /\ UNCHANGED <<operator, control, instance_enum, names, quit, isDraw, threads,
                   external, texture>>

\* Broken variant: the path is stored as the channel id.
resourceAddStaticImage_id ==
    /\ Take("addImage")
    /\ Free # {}
    /\ LET i == First(Free) IN
       /\ instance_enum' = [instance_enum EXCEPT ![i] = "LOCAL"]
       /\ quit' = [quit EXCEPT ![i] = FALSE]
       /\ isDraw' = [isDraw EXCEPT ![i] = TRUE]
       /\ channel_id' = [channel_id EXCEPT ![i] = Name]
       /\ texture' = [texture EXCEPT ![i] = TRUE]
    /\ UNCHANGED <<operator, control, image_path, threads, external, ended>>

\* The image is loaded (its buffer has the image's size, and init_image points to it).
resourceAddStaticImage ==
    /\ Take("addImage")
    /\ Free # {}
    /\ LET i == First(Free) IN
       /\ instance_enum' = [instance_enum EXCEPT ![i] = "LOCAL"]
       /\ quit' = [quit EXCEPT ![i] = FALSE]
       /\ isDraw' = [isDraw EXCEPT ![i] = TRUE]
       /\ image_path' = [image_path EXCEPT ![i] = Name]
       /\ texture' = [texture EXCEPT ![i] = TRUE]
    /\ UNCHANGED <<operator, control, channel_id, threads, external, ended>>

\* The handler returns early: a member it requires is missing, the pool is full, or
\* the file cannot be loaded.
CommandIgnored(type) ==
    /\ Take(type)
    /\ Careless \/ (Opening(type) /\ Free = {}) \/ type = "addImage"
    /\ UNCHANGED <<operator, control, instance_enum, names, quit, isDraw, threads,
                   external, texture, ended>>

\* get<std::string>() of a member of another type, or std::stof of what is no number:
\* nobody catches it in main().  (An add returns early from a full pool; changes that
\* precede the throw are not seen by anyone.)
HandlerThrows(type) ==
    /\ Take(type)
    /\ Careless
    /\ Opening(type) => Free # {}
    /\ ended' = "thrown"
    /\ UNCHANGED <<operator, control, instance_enum, names, quit, isDraw, threads,
                   external, texture>>

\* Every slot with that path is freed; threads it may have are told to quit but
\* not joined.
resourceDeleteStaticImage ==
    /\ Take("deleteImage")
    /\ LET Hit == {i \in Slot : image_path[i] = Name} IN
       /\ quit' = [i \in Slot |-> quit[i] \/ i \in Hit]
       /\ isDraw' = [i \in Slot |-> isDraw[i] /\ i \notin Hit]
       /\ instance_enum' = [i \in Slot |-> IF i \in Hit THEN "MIN" ELSE instance_enum[i]]
       /\ texture' = [i \in Slot |-> texture[i] /\ i \notin Hit]
    /\ UNCHANGED <<operator, control, names, threads, external, ended>>

\* Broken variant: every slot gets the attribute.
subscribeSidePropertyChannel_all(type) ==
    /\ Take(type)
    /\ isDraw' = [i \in Slot |-> type = "draw" /\ instance_enum[i] # "MIN"]
    /\ UNCHANGED <<operator, control, instance_enum, names, quit, threads, external,
                   texture, ended>>

\* The first slot with that channel_id gets the attribute, whatever it is used for.
subscribeSidePropertyChannel(type) ==
    /\ Take(type)
    /\ LET Hit == {i \in Slot : channel_id[i] = Name} IN
       isDraw' = [i \in Slot |-> IF Hit # {} /\ i = First(Hit) THEN type = "draw"
                                                              ELSE isDraw[i]]
    /\ UNCHANGED <<operator, control, instance_enum, names, quit, threads, external,
                   texture, ended>>

\* subscribeSideDeleteChannel walks over all slots ...
DeleteStart ==
    /\ Take("delete")
    /\ pc' = "scan" /\ at' = 1 /\ target' = Name
    /\ UNCHANGED <<operator, instance_enum, names, quit, isDraw, threads, external,
                   texture, ended>>

Matching == {i \in at..Slots : channel_id[i] = target}

\* Broken variant: quit is not set.
DeleteMatch_quit ==
    /\ alive /\ pc = "scan" /\ Matching # {}
    /\ LET i == First(Matching) IN
       /\ isDraw' = [isDraw EXCEPT ![i] = FALSE]
       /\ instance_enum' = [instance_enum EXCEPT ![i] = "MIN"]
       /\ at' = i
    /\ pc' = "join"
    /\ UNCHANGED <<operator, ipc_events, target, names, quit, threads, external, texture,
                   ended>>

\* ... frees the next one with that channel_id, in use or not ...
DeleteMatch ==
    /\ alive /\ pc = "scan" /\ Matching # {}
    /\ LET i == First(Matching) IN
       /\ quit' = [quit EXCEPT ![i] = TRUE]
       /\ isDraw' = [isDraw EXCEPT ![i] = FALSE]
       /\ instance_enum' = [instance_enum EXCEPT ![i] = "MIN"]
       /\ at' = i
    /\ pc' = "join"
    /\ UNCHANGED <<operator, ipc_events, target, names, threads, external, texture,
                   ended>>

\* ... joins its threads, destroys what they used and goes on ...
\* Broken variants of the step below: the objects are destroyed under the threads;
DeleteJoin_early ==
    /\ alive /\ pc = "join"
    /\ dispatch[at] # "none"
    /\ context' = [context EXCEPT ![at] = "destroyed"]
    /\ webrtc' = [webrtc EXCEPT ![at] = "destroyed"]
    /\ texture' = [texture EXCEPT ![at] = FALSE]
    /\ pc' = "scan" /\ at' = at + 1
    /\ UNCHANGED <<operator, ipc_events, target, instance_enum, names, quit, isDraw,
                   threads, ended>>

\* gl_quit is forgotten;
DeleteJoin_texture ==
    /\ alive /\ pc = "join"
    /\ dispatch[at] = "exited" /\ service[at] = "exited"
    /\ dispatch' = [dispatch EXCEPT ![at] = "none"]
    /\ service' = [service EXCEPT ![at] = "none"]
    /\ context' = [context EXCEPT ![at] = "destroyed"]
    /\ webrtc' = [webrtc EXCEPT ![at] = "destroyed"]
    /\ pc' = "scan" /\ at' = at + 1
    /\ UNCHANGED <<operator, ipc_events, target, instance_enum, names, quit, isDraw,
                   texture, ended>>

\* the loop comes back to the same slot.
DeleteJoin_again ==
    /\ alive /\ pc = "join"
    /\ dispatch[at] = "exited" /\ service[at] = "exited"
    /\ dispatch' = [dispatch EXCEPT ![at] = "none"]
    /\ service' = [service EXCEPT ![at] = "none"]
    /\ context' = [context EXCEPT ![at] = "destroyed"]
    /\ webrtc' = [webrtc EXCEPT ![at] = "destroyed"]
    /\ texture' = [texture EXCEPT ![at] = FALSE]
    /\ pc' = "scan" /\ at' = 1
    /\ UNCHANGED <<operator, ipc_events, target, instance_enum, names, quit, isDraw,
                   ended>>

\* the loop ends with the first match, as in subscribeSidePropertyChannel.
DeleteJoin_break ==
    /\ alive /\ pc = "join"
    /\ dispatch[at] = "exited" /\ service[at] = "exited"
    /\ dispatch' = [dispatch EXCEPT ![at] = "none"]
    /\ service' = [service EXCEPT ![at] = "none"]
    /\ context' = [context EXCEPT ![at] = "destroyed"]
    /\ webrtc' = [webrtc EXCEPT ![at] = "destroyed"]
    /\ texture' = [texture EXCEPT ![at] = FALSE]
    /\ pc' = "loop" /\ at' = 1 /\ target' = None
    /\ UNCHANGED <<operator, ipc_events, instance_enum, names, quit, isDraw, ended>>

DeleteJoin ==
    /\ alive /\ pc = "join"
    /\ dispatch[at] = "exited" /\ service[at] = "exited"
    /\ dispatch' = [dispatch EXCEPT ![at] = "none"]
    /\ service' = [service EXCEPT ![at] = "none"]
    /\ context' = [context EXCEPT ![at] = "destroyed"]
    /\ webrtc' = [webrtc EXCEPT ![at] = "destroyed"]
    /\ texture' = [texture EXCEPT ![at] = FALSE]
    /\ pc' = "scan" /\ at' = at + 1
    /\ UNCHANGED <<operator, ipc_events, target, instance_enum, names, quit, isDraw,
                   ended>>

\* ... or there is no thread to join: std::system_error, uncaught.
DeleteJoinNone ==
    /\ alive /\ pc = "join"
    /\ dispatch[at] = "none"
    /\ ended' = "joined"
    /\ UNCHANGED <<operator, ipc_events, control, instance_enum, names, quit, isDraw,
                   threads, external, texture>>

DeleteDone ==
    /\ alive /\ pc = "scan" /\ Matching = {}
    /\ pc' = "loop" /\ at' = 1 /\ target' = None
    /\ UNCHANGED <<operator, ipc_events, instance_enum, names, quit, isDraw, threads,
                   external, texture, ended>>

\* An iteration of the loop that finds no command.
NoCommand ==
    /\ alive /\ pc = "loop" /\ ipc_events = <<>>
    /\ UNCHANGED vars

----------------------------------------------------------------------------
(* The threads of a slot leave their loops once they see quit.             *)

DispatchExit(i) ==
    /\ alive /\ dispatch[i] = "running" /\ quit[i]
    /\ dispatch' = [dispatch EXCEPT ![i] = "exited"]
    /\ UNCHANGED <<operator, ipc_events, control, instance_enum, names, quit, isDraw,
                   service, external, texture, ended>>

ServiceExit(i) ==
    /\ alive /\ service[i] = "running" /\ quit[i]
    /\ service' = [service EXCEPT ![i] = "exited"]
    /\ UNCHANGED <<operator, ipc_events, control, instance_enum, names, quit, isDraw,
                   dispatch, external, texture, ended>>

----------------------------------------------------------------------------
Command == {"add", "delete", "draw", "hide", "addImage", "deleteImage"}

Main == \/ subscribeSideAddChannel \/ AddAssignsJoinable \/ AddReadsFreedImage
        \/ resourceAddStaticImage \/ resourceDeleteStaticImage
        \/ \E type \in {"draw", "hide"} : subscribeSidePropertyChannel(type)
        \/ \E type \in Command : CommandIgnored(type) \/ HandlerThrows(type)
        \/ DeleteStart \/ DeleteMatch \/ DeleteJoin \/ DeleteJoinNone \/ DeleteDone

Next == \/ Main \/ NoCommand
        \/ \E name \in Channel \cup Image : \E type \in Type(name) : telnet_push(type, name)
        \/ \E i \in Slot : DispatchExit(i) \/ ServiceExit(i)

Spec == Init /\ [][Next]_vars

\* main() runs its loop for ever, the threads test quit after every 100 us sleep
\* and every lws_service of at most 250 ms.
Fairness == /\ WF_vars(Main)
            /\ \A i \in Slot : WF_vars(DispatchExit(i)) /\ WF_vars(ServiceExit(i))

FairSpec == Spec /\ Fairness

----------------------------------------------------------------------------
(* Properties.                                                             *)

ThreadState == {"none", "running", "exited"}
Life == {"none", "live", "destroyed"}
Event == [type : {"add", "delete", "draw", "hide"}, name : Channel]
           \cup [type : {"addImage", "deleteImage"}, name : Image]

\* Every variable keeps its type.
TypeOK ==
    /\ opened \subseteq Channel \cup Image /\ used \subseteq Channel \cup Image
    /\ sent \in 0..MaxCommands
    /\ ipc_events \in Seq(Event)
    /\ pc \in {"loop", "scan", "join"} /\ at \in 1..(Slots + 1)
    /\ pc = "join" => at \in Slot
    /\ target \in Channel \cup {None}
    /\ instance_enum \in [Slot -> {"MIN", "00", "LOCAL"}]
    /\ channel_id \in [Slot -> Channel \cup {None}]
    /\ image_path \in [Slot -> Image \cup {None}]
    /\ quit \in [Slot -> BOOLEAN] /\ isDraw \in [Slot -> BOOLEAN]
    /\ dispatch \in [Slot -> ThreadState] /\ service \in [Slot -> ThreadState]
    /\ context \in [Slot -> Life] /\ webrtc \in [Slot -> Life]
    /\ texture \in [Slot -> BOOLEAN]
    /\ ended \in {"no", "assigned", "texture", "joined", "thrown"}

Open(i) == instance_enum[i] = "00"

\* Whatever commands arrive, a slot that counts as an open channel is served:
\* both its threads run and will keep running, on live objects.  A reused slot
\* must not inherit the quit flag or the dead threads of its predecessor.
ServedWhileOpen ==
    \A i \in Slot : Open(i) => /\ dispatch[i] = "running" /\ service[i] = "running"
                              /\ ~quit[i]
                              /\ context[i] = "live" /\ webrtc[i] = "live"

\* Whatever commands arrive, the threads of a slot never outlive the lws context
\* and the peer connection they work on.
ThreadsHaveTheirObjects ==
    \A i \in Slot : dispatch[i] = "running" \/ service[i] = "running"
                      => context[i] = "live" /\ webrtc[i] = "live"

\* Between two commands a free slot owns nothing: no thread that would make the
\* next add terminate the process, no context, connection or texture to leak.
FreeSlotsReleased ==
    pc = "loop" => \A i \in Free : /\ dispatch[i] = "none" /\ service[i] = "none"
                                   /\ context[i] # "live" /\ webrtc[i] # "live"
                                   /\ ~texture[i]

\* No still image was ever asked for.
NoImages == used \cap Image = {}

\* A console used for channels only needs no discipline: whatever it sends, a free
\* slot owns nothing.  (Deleting an image frees a slot without joining threads.)
ChannelsReleased == NoImages => FreeSlotsReleased

\* No command ends the process over a thread: none is assigned to a slot whose threads
\* were not joined, and no slot without threads is joined.  It takes an operator who
\* opens a name once and closes only what is open.
NoThreadError == ended \notin {"assigned", "joined"}

\* Every command is executed in the end: the joins of a delete return.
EveryCommandIsExecuted == []<>(~alive \/ (pc = "loop" /\ ipc_events = <<>>))

\* Slots, threads, scans and joins together are a set of named channels and
\* images in which every command affects the one it names.
Table == INSTANCE ChannelTable WITH
             Capacity <- Slots,
             channels <- {channel_id[i] : i \in {j \in Slot : Open(j)}},
             drawn    <- {channel_id[i] : i \in {j \in Slot : Open(j) /\ isDraw[j]}},
             images   <- {image_path[i] : i \in {j \in Slot : instance_enum[j] = "LOCAL"}}
TableSpec == Table!Spec

\* What the comment in subscribeSideDeleteChannel says: the loop stops the
\* designated channel.  A slot it stops has threads to be stopped.
DeleteStopsAChannel == pc = "join" => dispatch[at] # "none"

\* What the README and the comment in subscribeSidePropertyChannel say: the
\* attributes of the receive channel are updated.  If the named channel is open,
\* its slot is the one the loop finds.
PropertyFindsItsChannel ==
    pc = "loop" /\ ipc_events # <<>> /\ Head(ipc_events).type \in {"draw", "hide"}
      => LET Hit == {i \in Slot : channel_id[i] = Name}
         IN  (\E i \in Hit : Open(i)) => Open(First(Hit))

\* On a console used for channels only it is: a name may be left behind in free slots
\* and be open more than once, but never open behind a slot that is free.
ChannelsAreFound == NoImages => PropertyFindsItsChannel

\* There a slot can always be used again: what ends the process is a delete that finds
\* a name left behind, or a command with a member of another type, and never an add
\* that finds threads or an image in a free slot.
ReuseIsSafe == NoImages => /\ ended \in {"no", "joined", "thrown"}
                           /\ ended = "joined" => pc = "join" /\ dispatch[at] = "none"
=============================================================================
