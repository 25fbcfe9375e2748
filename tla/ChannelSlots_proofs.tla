------------------------- MODULE ChannelSlots_proofs -------------------------
(***************************************************************************)
(* Proofs about ChannelSlots, for every number of slots and every set of   *)
(* names: for an operator who sends any commands in any order, and at the  *)
(* end for one who opens a name once and closes only what is open.         *)
(***************************************************************************)
EXTENDS ChannelSlots, FiniteSetTheorems, FunctionTheorems, SequenceTheorems,
        TLAPS

\* A loop over the slots that stops at the first match finds one if there is one.
\* The least slot is the one whose predecessors include those of no other.
LEMMA FirstFacts ==
    ASSUME NEW S \in SUBSET Nat, S # {}, \A i \in S : i > 0
    PROVE  /\ First(S) \in S
           /\ \A i \in S : First(S) <= i
<1> DEFINE Below == {1..i : i \in S}
           R == StrictSubsetOrdering(Nat)
<1>1. \A i \in S : 1..i \in FiniteSubsetsOf(Nat)
  BY FS_Interval DEF FiniteSubsetsOf
<1>2. Below \subseteq FiniteSubsetsOf(Nat) /\ Below # {}
  BY <1>1
<1>3. IsWellFoundedOn(R, FiniteSubsetsOf(Nat))
  BY FS_StrictSubsetOrderingWellFounded
<1>4. PICK x \in Below : \A y \in Below : ~(<<y, x>> \in R)
  <2> HIDE DEF Below, R
  <2> QED
    BY <1>2, <1>3, WFMin
<1>5. PICK i \in S : x = 1..i
  BY <1>4
<1>6. ASSUME NEW j \in S, j < i PROVE FALSE
  <2>1. 1..j \subseteq 1..i /\ i \in 1..i /\ i \notin 1..j
    BY <1>6
  <2>2. <<1..j, 1..i>> \in R
    BY <2>1 DEF StrictSubsetOrdering
  <2> QED
    BY <1>4, <1>5, <2>2
<1>7. \A j \in S : i <= j
  BY <1>6
<1> QED
  BY <1>7 DEF First

----------------------------------------------------------------------------
(* Type correctness.                                                        *)

\* An add finds a slot that exists.
LEMMA FirstFree == Free # {} => First(Free) \in Slot /\ instance_enum[First(Free)] = "MIN"
<1>1. Free \in SUBSET Nat /\ \A i \in Free : i > 0
  BY DEF Free, Slot
<1>2. Free # {} => First(Free) \in Free
  BY <1>1, FirstFacts
<1> QED
  BY <1>2 DEF Free

\* A delete comes to a slot that exists and bears the name.
LEMMA FirstMatching ==
    TypeOK /\ Matching # {} => /\ First(Matching) \in Slot
                               /\ First(Matching) \in at..Slots
                               /\ channel_id[First(Matching)] = target
<1> SUFFICES ASSUME TypeOK, Matching # {} 
             PROVE  /\ First(Matching) \in Slot
                    /\ First(Matching) \in at..Slots
                    /\ channel_id[First(Matching)] = target
  OBVIOUS
<1>1. at \in Nat /\ at > 0 /\ Slots \in Nat
  BY SlotsAssumption DEF TypeOK, Slot
<1>2. Matching \in SUBSET Nat /\ \A i \in Matching : i > 0
  BY <1>1 DEF Matching
<1>3. First(Matching) \in Matching
  BY <1>2, FirstFacts
<1> QED
  BY <1>1, <1>3 DEF Matching, Slot

\* All slots are free and nothing was commanded.
LEMMA TypedInit == Init => TypeOK
<1> SUFFICES ASSUME Init PROVE TypeOK
  OBVIOUS
<1>1. 1 \in 1..(Slots + 1) /\ 0 \in 0..MaxCommands
  BY SlotsAssumption, OperatorAssumption
<1>2. <<>> \in Seq(Event)
  OBVIOUS
<1> QED
  BY <1>1, <1>2 DEF Init, TypeOK, ThreadState, Life

\* A popped event is a command, and the rest of the queue are commands.
LEMMA TakeFacts ==
    ASSUME TypeOK, NEW type, Take(type)
    PROVE  /\ ipc_events' \in Seq(Event)
           /\ Head(ipc_events) \in Event
           /\ type \in {"add", "delete", "draw", "hide"} => Name \in Channel
           /\ type \in {"addImage", "deleteImage"} => Name \in Image
<1>1. ipc_events \in Seq(Event) /\ ipc_events # <<>>
  BY DEF TypeOK, Take
<1>2. Head(ipc_events) \in Event /\ Tail(ipc_events) \in Seq(Event)
  BY <1>1, HeadTailProperties
<1>3. Head(ipc_events).type = type
  BY DEF Take
<1> QED
  BY <1>2, <1>3 DEF Take, Event, Name

\* No command and no thread breaks the types.
LEMMA TypedStep == TypeOK /\ [Next]_vars => TypeOK'
<1> SUFFICES ASSUME TypeOK, [Next]_vars PROVE TypeOK'
  OBVIOUS
<1> USE DEF operator, control, names, threads, external
<1>1. CASE subscribeSideAddChannel
  <2>1. First(Free) \in Slot
    BY <1>1, FirstFree DEF subscribeSideAddChannel
  <2>2. ipc_events' \in Seq(Event) /\ Name \in Channel
    BY <1>1, TakeFacts DEF subscribeSideAddChannel
  <2>3. "running" \in ThreadState /\ "live" \in Life
    BY DEF ThreadState, Life
  <2> QED
    BY <1>1, <2>1, <2>2, <2>3 DEF subscribeSideAddChannel, Take, TypeOK
<1>2. CASE AddAssignsJoinable \/ AddReadsFreedImage
  <2>1. ipc_events' \in Seq(Event)
    BY <1>2, TakeFacts DEF AddAssignsJoinable, AddReadsFreedImage
  <2> QED
    BY <1>2, <2>1 DEF AddAssignsJoinable, AddReadsFreedImage, TypeOK
<1>3. CASE resourceAddStaticImage
  <2>1. First(Free) \in Slot
    BY <1>3, FirstFree DEF resourceAddStaticImage
  <2>2. ipc_events' \in Seq(Event) /\ Name \in Image
    BY <1>3, TakeFacts DEF resourceAddStaticImage
  <2> QED
    BY <1>3, <2>1, <2>2 DEF resourceAddStaticImage, Take, TypeOK
<1>4. ASSUME NEW type \in Command, CommandIgnored(type) \/ HandlerThrows(type)
      PROVE  TypeOK'
  <2>1. ipc_events' \in Seq(Event)
    BY <1>4, TakeFacts DEF CommandIgnored, HandlerThrows
  <2> QED
    BY <1>4, <2>1 DEF CommandIgnored, HandlerThrows, TypeOK
<1>5. CASE resourceDeleteStaticImage
  <2>1. ipc_events' \in Seq(Event)
    BY <1>5, TakeFacts DEF resourceDeleteStaticImage
  <2>2. quit' \in [Slot -> BOOLEAN] /\ isDraw' \in [Slot -> BOOLEAN]
    BY <1>5 DEF resourceDeleteStaticImage, TypeOK
  <2>3. texture' \in [Slot -> BOOLEAN]
    BY <1>5 DEF resourceDeleteStaticImage, TypeOK
  <2>4. instance_enum' \in [Slot -> {"MIN", "00", "LOCAL"}]
    BY <1>5 DEF resourceDeleteStaticImage, TypeOK
  <2> QED
    BY <1>5, <2>1, <2>2, <2>3, <2>4 DEF resourceDeleteStaticImage, Take, TypeOK
<1>6. ASSUME NEW type \in {"draw", "hide"}, subscribeSidePropertyChannel(type)
      PROVE  TypeOK'
  <2>1. ipc_events' \in Seq(Event)
    BY <1>6, TakeFacts DEF subscribeSidePropertyChannel
  <2>2. isDraw' \in [Slot -> BOOLEAN]
    BY <1>6 DEF subscribeSidePropertyChannel, TypeOK
  <2> QED
    BY <1>6, <2>1, <2>2 DEF subscribeSidePropertyChannel, Take, TypeOK
<1>7. CASE DeleteStart
  <2>1. ipc_events' \in Seq(Event) /\ Name \in Channel
    BY <1>7, TakeFacts DEF DeleteStart
  <2>2. 1 \in 1..(Slots + 1)
    BY SlotsAssumption
  <2> QED
    BY <1>7, <2>1, <2>2 DEF DeleteStart, Take, TypeOK
<1>8. CASE DeleteMatch
  <2>1. First(Matching) \in Slot
    BY <1>8, FirstMatching DEF DeleteMatch
  <2>2. Slot \subseteq 1..(Slots + 1)
    BY SlotsAssumption DEF Slot
  <2> QED
    BY <1>8, <2>1, <2>2 DEF DeleteMatch, TypeOK
<1>9. CASE DeleteJoin
  <2>1. at + 1 \in 1..(Slots + 1)
    BY <1>9, SlotsAssumption DEF DeleteJoin, TypeOK, Slot
  <2>2. "none" \in ThreadState /\ "destroyed" \in Life
    BY DEF ThreadState, Life
  <2> QED
    BY <1>9, <2>1, <2>2 DEF DeleteJoin, TypeOK
<1>10. CASE DeleteJoinNone
  BY <1>10 DEF DeleteJoinNone, TypeOK
<1>11. CASE DeleteDone
  <2>1. 1 \in 1..(Slots + 1)
    BY SlotsAssumption
  <2> QED
    BY <1>11, <2>1 DEF DeleteDone, TypeOK
<1>12. ASSUME NEW name \in Channel \cup Image, NEW type \in Type(name),
              telnet_push(type, name)
       PROVE  TypeOK'
  <2>1. [type |-> type, name |-> name] \in Event
    BY NameAssumption DEF Type, Event
  <2>2. ipc_events' \in Seq(Event)
    BY <1>12, <2>1 DEF telnet_push, TypeOK
  <2>3. sent' \in 0..MaxCommands
    BY <1>12, OperatorAssumption DEF telnet_push, TypeOK
  <2>4. opened' \subseteq Channel \cup Image
    BY <1>12 DEF telnet_push, TypeOK, Opening, Type
  <2>5. used' \subseteq Channel \cup Image
    BY <1>12 DEF telnet_push, TypeOK
  <2> QED
    BY <1>12, <2>2, <2>3, <2>4, <2>5 DEF telnet_push, TypeOK
<1>13. ASSUME NEW i \in Slot, DispatchExit(i) PROVE TypeOK'
  BY <1>13 DEF DispatchExit, TypeOK, ThreadState
<1>14. ASSUME NEW i \in Slot, ServiceExit(i) PROVE TypeOK'
  BY <1>14 DEF ServiceExit, TypeOK, ThreadState
<1>15. CASE UNCHANGED vars
  BY <1>15 DEF vars, TypeOK
<1> QED
  BY <1>1, <1>2, <1>3, <1>4, <1>5, <1>6, <1>7, <1>8, <1>9, <1>10, <1>11, <1>12,
     <1>13, <1>14, <1>15 DEF Next, Main, NoCommand

\* Every reachable state is well typed, whatever the operator sends.
THEOREM TypeCorrect == Spec => []TypeOK
<1>1. Init => TypeOK
  BY TypedInit
<1>2. TypeOK /\ [Next]_vars => TypeOK'
  BY TypedStep
<1> QED
  BY <1>1, <1>2, PTL DEF Spec

----------------------------------------------------------------------------
(* Open channels are served on live objects.                                *)

\* The two threads of a slot are started and joined together.
ThreadsPaired == \A i \in Slot : dispatch[i] = "none" <=> service[i] = "none"

\* As long as a slot's threads can be joined, their objects are live.
JoinableOnLive ==
    \A i \in Slot : dispatch[i] # "none" => context[i] = "live" /\ webrtc[i] = "live"

\* A delete joins the threads of a slot it has freed.
JoinsClosed == pc = "join" => at \in Slot /\ ~Open(at)

Served == TypeOK /\ ServedWhileOpen /\ ThreadsPaired /\ JoinableOnLive /\ JoinsClosed

\* All slots are free and without threads.
LEMMA ServedInit == Init => Served
<1>1. Init => TypeOK
  BY TypedInit
<1>2. Init => ServedWhileOpen /\ ThreadsPaired /\ JoinableOnLive /\ JoinsClosed
  BY DEF Init, ServedWhileOpen, ThreadsPaired, JoinableOnLive, JoinsClosed, Open
<1> QED
  BY <1>1, <1>2 DEF Served

\* Steps that leave the threads, their objects and quit alone and open no channel.
LEMMA ServedUntouched ==
    ASSUME Served,
           UNCHANGED <<threads, external>>,
           \A i \in Slot : Open(i)' => Open(i) /\ quit'[i] = quit[i],
           pc' = "join" => pc = "join" /\ at' = at
    PROVE  (ServedWhileOpen /\ ThreadsPaired /\ JoinableOnLive /\ JoinsClosed)'
<1>1. ServedWhileOpen'
  BY DEF Served, ServedWhileOpen, threads, external, Open
<1>2. ThreadsPaired' /\ JoinableOnLive'
  BY DEF Served, ThreadsPaired, JoinableOnLive, threads, external
<1>3. JoinsClosed'
  BY DEF Served, JoinsClosed
<1> QED
  BY <1>1, <1>2, <1>3

\* No command and no thread leaves an open channel without its threads or a
\* thread without its objects.
LEMMA ServedStep == Served /\ [Next]_vars => Served'
<1> SUFFICES ASSUME Served, [Next]_vars PROVE Served'
  OBVIOUS
<1>0. TypeOK'
  BY TypedStep DEF Served
<1> SUFFICES (ServedWhileOpen /\ ThreadsPaired /\ JoinableOnLive /\ JoinsClosed)'
  BY <1>0 DEF Served
<1> USE DEF operator, control, names, threads, external
<1>1. CASE subscribeSideAddChannel
  <2> DEFINE n == First(Free)
  <2>1. n \in Slot
    BY <1>1, FirstFree DEF subscribeSideAddChannel
  <2>2. /\ instance_enum' = [instance_enum EXCEPT ![n] = "00"]
        /\ quit' = [quit EXCEPT ![n] = FALSE]
        /\ dispatch' = [dispatch EXCEPT ![n] = "running"]
        /\ service' = [service EXCEPT ![n] = "running"]
        /\ context' = [context EXCEPT ![n] = "live"]
        /\ webrtc' = [webrtc EXCEPT ![n] = "live"]
        /\ pc = "loop" /\ pc' = "loop"
    BY <1>1 DEF subscribeSideAddChannel, Take
  <2> HIDE DEF n
  <2>3. ServedWhileOpen'
    BY <2>1, <2>2 DEF Served, ServedWhileOpen, Open, TypeOK
  <2>4. ThreadsPaired'
    BY <2>1, <2>2 DEF Served, ThreadsPaired, TypeOK
  <2>5. JoinableOnLive'
    BY <2>1, <2>2 DEF Served, JoinableOnLive, TypeOK
  <2>6. JoinsClosed'
    BY <2>2 DEF JoinsClosed
  <2> QED
    BY <2>3, <2>4, <2>5, <2>6
<1>2. CASE AddAssignsJoinable \/ AddReadsFreedImage
  BY <1>2, ServedUntouched DEF AddAssignsJoinable, AddReadsFreedImage, Open
<1>3. CASE resourceAddStaticImage
  <2>1. First(Free) \in Slot
    BY <1>3, FirstFree DEF resourceAddStaticImage
  <2>2. /\ instance_enum' = [instance_enum EXCEPT ![First(Free)] = "LOCAL"]
        /\ quit' = [quit EXCEPT ![First(Free)] = FALSE]
        /\ UNCHANGED <<threads, external>>
        /\ pc' = "loop"
    BY <1>3 DEF resourceAddStaticImage, Take
  <2>3. \A i \in Slot : Open(i)' => Open(i) /\ quit'[i] = quit[i]
    BY <2>1, <2>2 DEF Open, Served, TypeOK
  <2> QED
    BY <2>2, <2>3, ServedUntouched
<1>4. ASSUME NEW type \in Command, CommandIgnored(type) \/ HandlerThrows(type)
      PROVE  (ServedWhileOpen /\ ThreadsPaired /\ JoinableOnLive /\ JoinsClosed)'
  BY <1>4, ServedUntouched DEF CommandIgnored, HandlerThrows, Open
<1>5. CASE resourceDeleteStaticImage
  <2>1. \A i \in Slot : Open(i)' => Open(i) /\ quit'[i] = quit[i]
    <3> SUFFICES ASSUME NEW i \in Slot, Open(i)'
                 PROVE  Open(i) /\ quit'[i] = quit[i]
      OBVIOUS
    <3> DEFINE Hit == {j \in Slot : image_path[j] = Name}
    <3>1. /\ quit' = [j \in Slot |-> quit[j] \/ j \in Hit]
          /\ instance_enum' = [j \in Slot |-> IF j \in Hit THEN "MIN" ELSE instance_enum[j]]
      BY <1>5 DEF resourceDeleteStaticImage
    <3> HIDE DEF Hit
    <3>2. i \notin Hit /\ instance_enum[i] = "00"
      BY <3>1 DEF Open
    <3>3. quit'[i] = quit[i]
      BY <3>1, <3>2 DEF Served, TypeOK
    <3> QED
      BY <3>2, <3>3 DEF Open
  <2> QED
    BY <1>5, <2>1, ServedUntouched DEF resourceDeleteStaticImage, Take
<1>6. ASSUME NEW type \in {"draw", "hide"}, subscribeSidePropertyChannel(type)
      PROVE  (ServedWhileOpen /\ ThreadsPaired /\ JoinableOnLive /\ JoinsClosed)'
  BY <1>6, ServedUntouched DEF subscribeSidePropertyChannel, Open
<1>7. CASE DeleteStart
  BY <1>7, ServedUntouched DEF DeleteStart, Open
<1>8. CASE DeleteMatch
  <2> DEFINE n == First(Matching)
  <2>1. n \in Slot
    BY <1>8, FirstMatching DEF DeleteMatch, Served
  <2>2. /\ instance_enum' = [instance_enum EXCEPT ![n] = "MIN"]
        /\ quit' = [quit EXCEPT ![n] = TRUE]
        /\ UNCHANGED <<threads, external>>
        /\ at' = n
    BY <1>8 DEF DeleteMatch
  <2> HIDE DEF n
  <2>3. ServedWhileOpen'
    BY <2>1, <2>2 DEF Served, ServedWhileOpen, Open, TypeOK
  <2>4. ThreadsPaired' /\ JoinableOnLive'
    BY <2>2 DEF Served, ThreadsPaired, JoinableOnLive
  <2>5. JoinsClosed'
    BY <2>1, <2>2 DEF JoinsClosed, Open, Served, TypeOK
  <2> QED
    BY <2>3, <2>4, <2>5
<1>9. CASE DeleteJoin
  <2>1. at \in Slot /\ ~Open(at)
    BY <1>9 DEF DeleteJoin, Served, JoinsClosed
  <2>2. /\ dispatch' = [dispatch EXCEPT ![at] = "none"]
        /\ service' = [service EXCEPT ![at] = "none"]
        /\ context' = [context EXCEPT ![at] = "destroyed"]
        /\ webrtc' = [webrtc EXCEPT ![at] = "destroyed"]
        /\ UNCHANGED <<instance_enum, quit>>
        /\ pc' = "scan"
    BY <1>9 DEF DeleteJoin
  <2>3. ServedWhileOpen'
    BY <2>1, <2>2 DEF Served, ServedWhileOpen, Open, TypeOK
  <2>4. ThreadsPaired'
    BY <2>1, <2>2 DEF Served, ThreadsPaired, TypeOK
  <2>5. JoinableOnLive'
    BY <2>1, <2>2 DEF Served, JoinableOnLive, TypeOK
  <2>6. JoinsClosed'
    BY <2>2 DEF JoinsClosed
  <2> QED
    BY <2>3, <2>4, <2>5, <2>6
<1>10. CASE DeleteJoinNone
  BY <1>10, ServedUntouched DEF DeleteJoinNone, Open
<1>11. CASE DeleteDone
  BY <1>11, ServedUntouched DEF DeleteDone, Open
<1>12. ASSUME NEW name \in Channel \cup Image, NEW type \in Type(name),
              telnet_push(type, name)
       PROVE  (ServedWhileOpen /\ ThreadsPaired /\ JoinableOnLive /\ JoinsClosed)'
  BY <1>12, ServedUntouched DEF telnet_push, Open
<1>13. ASSUME NEW n \in Slot, DispatchExit(n)
       PROVE  (ServedWhileOpen /\ ThreadsPaired /\ JoinableOnLive /\ JoinsClosed)'
  <2>1. /\ dispatch[n] = "running" /\ quit[n]
        /\ dispatch' = [dispatch EXCEPT ![n] = "exited"]
        /\ UNCHANGED <<pc, at, instance_enum, quit, service, external>>
    BY <1>13 DEF DispatchExit
  <2>2. ServedWhileOpen' /\ JoinsClosed'
    BY <2>1 DEF Served, ServedWhileOpen, JoinsClosed, Open, TypeOK
  <2>3. ThreadsPaired' /\ JoinableOnLive'
    BY <2>1 DEF Served, ThreadsPaired, JoinableOnLive, TypeOK
  <2> QED
    BY <2>2, <2>3
<1>14. ASSUME NEW n \in Slot, ServiceExit(n)
       PROVE  (ServedWhileOpen /\ ThreadsPaired /\ JoinableOnLive /\ JoinsClosed)'
  <2>1. /\ service[n] = "running" /\ quit[n]
        /\ service' = [service EXCEPT ![n] = "exited"]
        /\ UNCHANGED <<pc, at, instance_enum, quit, dispatch, external>>
    BY <1>14 DEF ServiceExit
  <2>2. ServedWhileOpen' /\ JoinsClosed'
    BY <2>1 DEF Served, ServedWhileOpen, JoinsClosed, Open, TypeOK
  <2>3. ThreadsPaired' /\ JoinableOnLive'
    BY <2>1 DEF Served, ThreadsPaired, JoinableOnLive, TypeOK
  <2> QED
    BY <2>2, <2>3
<1>15. CASE UNCHANGED vars
  BY <1>15, ServedUntouched DEF vars, Open
<1> QED
  BY <1>1, <1>2, <1>3, <1>4, <1>5, <1>6, <1>7, <1>8, <1>9, <1>10, <1>11, <1>12,
     <1>13, <1>14, <1>15 DEF Next, Main, NoCommand

\* The invariant behind the two theorems below.
LEMMA ServedCorrect == Spec => []Served
<1>1. Init => Served
  BY ServedInit
<1>2. Served /\ [Next]_vars => Served'
  BY ServedStep
<1> QED
  BY <1>1, <1>2, PTL DEF Spec

\* However commands reuse, free and confuse slots, an open channel has both its
\* threads, told to go on, with a live lws context and peer connection.
THEOREM OpenChannelsServed == Spec => []ServedWhileOpen
<1>1. Served => ServedWhileOpen
  BY DEF Served
<1> QED
  BY <1>1, ServedCorrect, PTL

\* No thread of a slot runs on a destroyed lws context or peer connection.
THEOREM ThreadsOnLiveObjects == Spec => []ThreadsHaveTheirObjects
<1>1. Served => ThreadsHaveTheirObjects
  BY DEF Served, JoinableOnLive, ThreadsPaired, ThreadsHaveTheirObjects
<1> QED
  BY <1>1, ServedCorrect, PTL

----------------------------------------------------------------------------
(* A console that is used for channels only.                                *)

\* Free, and not the slot a delete has just freed and still has to join.
Idle(i) == instance_enum[i] = "MIN" /\ ~(pc = "join" /\ at = i)

\* An idle slot owns nothing.
IdleReleased ==
    \A i \in Slot : Idle(i) => /\ dispatch[i] = "none" /\ service[i] = "none"
                               /\ context[i] # "live" /\ webrtc[i] # "live"
                               /\ ~texture[i]

\* No slot ever held an image.
NoPaths == \A i \in Slot : image_path[i] = None

Clean == TypeOK /\ IdleReleased /\ NoPaths

\* An image that is to be opened was asked for.
Asked == \A k \in DOMAIN ipc_events :
            ipc_events[k].type = "addImage" => ipc_events[k].name \in used

\* All slots are idle and own nothing.
LEMMA CleanInit == Init => Clean /\ Asked
<1>1. Init => TypeOK
  BY TypedInit
<1>2. Init => IdleReleased /\ NoPaths
  BY DEF Init, IdleReleased, NoPaths
<1>3. Init => Asked
  BY DEF Init, Asked
<1> QED
  BY <1>1, <1>2, <1>3 DEF Clean

\* Commands are queued with their names noted, and names are never forgotten.
LEMMA AskedStep == TypeOK /\ Asked /\ [Next]_vars => Asked' /\ used \subseteq used'
<1> SUFFICES ASSUME TypeOK, Asked, [Next]_vars PROVE Asked' /\ used \subseteq used'
  OBVIOUS
<1>a. ipc_events \in Seq(Event)
  BY DEF TypeOK
<1>1. ASSUME ipc_events' = ipc_events, used' = used
      PROVE  Asked' /\ used \subseteq used'
  BY <1>1 DEF Asked
<1>2. ASSUME ipc_events # <<>>, ipc_events' = Tail(ipc_events), used' = used
      PROVE  Asked' /\ used \subseteq used'
  <2>1. /\ Len(ipc_events) \in Nat /\ DOMAIN ipc_events = 1..Len(ipc_events)
        /\ ipc_events' \in Seq(Event) /\ Len(ipc_events') = Len(ipc_events) - 1
        /\ DOMAIN ipc_events' = 1..Len(ipc_events')
        /\ \A k \in 1..Len(ipc_events') : ipc_events'[k] = ipc_events[k + 1]
    BY <1>a, <1>2, LenProperties, HeadTailProperties
  <2>2. \A k \in DOMAIN ipc_events' : k + 1 \in DOMAIN ipc_events
    BY <2>1
  <2> QED
    BY <2>1, <2>2, <1>2 DEF Asked
<1>3. ASSUME NEW name \in Channel \cup Image, NEW type \in Type(name),
             telnet_push(type, name)
      PROVE  Asked' /\ used \subseteq used'
  <2> DEFINE e == [type |-> type, name |-> name]
  <2>1. /\ ipc_events' = Append(ipc_events, e)
        /\ used' = IF Opening(type) THEN used \cup {name} ELSE used
    BY <1>3 DEF telnet_push
  <2>2. type = "addImage" => name \in used'
    BY <2>1 DEF Opening
  <2>3. used \subseteq used'
    BY <2>1
  <2>4. /\ Len(ipc_events) \in Nat /\ DOMAIN ipc_events = 1..Len(ipc_events)
        /\ DOMAIN ipc_events' = 1..(Len(ipc_events) + 1)
        /\ \A k \in 1..Len(ipc_events) : ipc_events'[k] = ipc_events[k]
        /\ ipc_events'[Len(ipc_events) + 1] = e
    BY <1>a, <2>1, LenProperties
  <2> QED
    BY <2>2, <2>3, <2>4 DEF Asked
<1> USE <1>1, <1>2 DEF operator, Take
<1>4. CASE subscribeSideAddChannel
  BY <1>4 DEF subscribeSideAddChannel
<1>5. CASE AddAssignsJoinable \/ AddReadsFreedImage
  BY <1>5 DEF AddAssignsJoinable, AddReadsFreedImage
<1>6. CASE resourceAddStaticImage
  BY <1>6 DEF resourceAddStaticImage
<1>7. ASSUME NEW type \in Command, CommandIgnored(type) \/ HandlerThrows(type)
      PROVE  Asked' /\ used \subseteq used'
  BY <1>7 DEF CommandIgnored, HandlerThrows
<1>8. CASE resourceDeleteStaticImage
  BY <1>8 DEF resourceDeleteStaticImage
<1>9. ASSUME NEW type \in {"draw", "hide"}, subscribeSidePropertyChannel(type)
      PROVE  Asked' /\ used \subseteq used'
  BY <1>9 DEF subscribeSidePropertyChannel
<1>10. CASE DeleteStart
  BY <1>10 DEF DeleteStart
<1>11. CASE DeleteMatch \/ DeleteJoin \/ DeleteJoinNone \/ DeleteDone
  BY <1>11 DEF DeleteMatch, DeleteJoin, DeleteJoinNone, DeleteDone
<1>12. ASSUME NEW n \in Slot, DispatchExit(n) \/ ServiceExit(n)
       PROVE  Asked' /\ used \subseteq used'
  BY <1>12 DEF DispatchExit, ServiceExit
<1>13. CASE UNCHANGED vars
  BY <1>13 DEF vars
<1> QED
  BY <1>3, <1>4, <1>5, <1>6, <1>7, <1>8, <1>9, <1>10, <1>11, <1>12, <1>13
     DEF Next, Main, NoCommand

\* An image is only opened after it was asked for.
LEMMA NoImageAdded == TypeOK /\ Asked /\ NoImages => ~resourceAddStaticImage
<1> SUFFICES ASSUME TypeOK, Asked, NoImages, resourceAddStaticImage PROVE FALSE
  OBVIOUS
<1>1. Take("addImage")
  BY DEF resourceAddStaticImage
<1>2. Name \in Image
  BY <1>1, TakeFacts
<1>3. ipc_events \in Seq(Event) /\ ipc_events # <<>>
  BY <1>1 DEF Take, TypeOK
<1>4. 1 \in DOMAIN ipc_events /\ Head(ipc_events) = ipc_events[1]
  BY <1>3
<1>5. Name \in used
  BY <1>1, <1>4 DEF Take, Asked, Name
<1> QED
  BY <1>2, <1>5 DEF NoImages

\* Without still images no command frees a slot and leaves it something.
LEMMA CleanStep ==
    Clean /\ Asked /\ NoImages /\ [Next]_vars => Clean'
<1> SUFFICES ASSUME Clean, Asked, NoImages, [Next]_vars PROVE Clean'
  OBVIOUS
<1>0. TypeOK'
  BY TypedStep DEF Clean
<1>b. ~resourceAddStaticImage
  BY NoImageAdded DEF Clean
<1>c. NoPaths'
  <2>1. image_path' = image_path
    <3> USE DEF names
    <3>1. CASE subscribeSideAddChannel
      BY <3>1 DEF subscribeSideAddChannel
    <3>2. CASE AddAssignsJoinable \/ AddReadsFreedImage \/ resourceDeleteStaticImage
      BY <3>2 DEF AddAssignsJoinable, AddReadsFreedImage, resourceDeleteStaticImage
    <3>8. ASSUME NEW type \in Command, CommandIgnored(type) \/ HandlerThrows(type)
          PROVE  image_path' = image_path
      BY <3>8 DEF CommandIgnored, HandlerThrows
    <3>3. ASSUME NEW type \in {"draw", "hide"}, subscribeSidePropertyChannel(type)
          PROVE  image_path' = image_path
      BY <3>3 DEF subscribeSidePropertyChannel
    <3>4. CASE DeleteStart \/ DeleteMatch \/ DeleteJoin \/ DeleteJoinNone \/ DeleteDone
      BY <3>4 DEF DeleteStart, DeleteMatch, DeleteJoin, DeleteJoinNone, DeleteDone
    <3>5. ASSUME NEW name \in Channel \cup Image, NEW type \in Type(name),
                 telnet_push(type, name)
          PROVE  image_path' = image_path
      BY <3>5 DEF telnet_push
    <3>6. ASSUME NEW n \in Slot, DispatchExit(n) \/ ServiceExit(n)
          PROVE  image_path' = image_path
      BY <3>6 DEF DispatchExit, ServiceExit
    <3>7. CASE UNCHANGED vars
      BY <3>7 DEF vars
    <3> QED
      BY <1>b, <3>1, <3>2, <3>3, <3>4, <3>5, <3>6, <3>7, <3>8 DEF Next, Main, NoCommand
  <2> QED
    BY <2>1 DEF Clean, NoPaths
<1> SUFFICES IdleReleased'
  BY <1>0, <1>c DEF Clean
<1> USE DEF operator, control, names, threads, external
<1>a. ASSUME UNCHANGED <<instance_enum, threads, external, texture>>,
             pc' = pc \/ (pc # "join" /\ pc' # "join"),
             pc = "join" => at' = at
      PROVE  IdleReleased'
  BY <1>a DEF Clean, IdleReleased, Idle
<1>1. CASE subscribeSideAddChannel
  <2> DEFINE n == First(Free)
  <2>1. /\ instance_enum' = [instance_enum EXCEPT ![n] = "00"]
        /\ dispatch' = [dispatch EXCEPT ![n] = "running"]
        /\ service' = [service EXCEPT ![n] = "running"]
        /\ context' = [context EXCEPT ![n] = "live"]
        /\ webrtc' = [webrtc EXCEPT ![n] = "live"]
        /\ texture' = [texture EXCEPT ![n] = TRUE]
        /\ pc = "loop" /\ pc' = "loop"
    BY <1>1 DEF subscribeSideAddChannel, Take
  <2>2. n \in Slot
    BY <1>1, FirstFree DEF subscribeSideAddChannel
  <2> HIDE DEF n
  <2>3. ASSUME NEW i \in Slot, Idle(i)'
        PROVE  /\ i # n /\ Idle(i)
    BY <2>1, <2>2, <2>3 DEF Idle, Clean, TypeOK
  <2> QED
    BY <2>1, <2>2, <2>3 DEF IdleReleased, Clean, TypeOK
<1>2. CASE AddAssignsJoinable \/ AddReadsFreedImage
  BY <1>2, <1>a DEF AddAssignsJoinable, AddReadsFreedImage, Take
<1>3. CASE resourceAddStaticImage
  BY <1>3, <1>b
<1>4. ASSUME NEW type \in Command, CommandIgnored(type) \/ HandlerThrows(type)
      PROVE  IdleReleased'
  BY <1>4, <1>a DEF CommandIgnored, HandlerThrows, Take
<1>5. CASE resourceDeleteStaticImage
  <2>1. Name \in Image /\ pc = "loop" /\ pc' = pc /\ at' = at
    BY <1>5, TakeFacts DEF resourceDeleteStaticImage, Clean, Take
  <2>2. {i \in Slot : image_path[i] = Name} = {}
    BY <2>1, NameAssumption DEF Clean, NoPaths
  <2> DEFINE Hit == {i \in Slot : image_path[i] = Name}
  <2>3. /\ instance_enum' = [i \in Slot |-> IF i \in Hit THEN "MIN" ELSE instance_enum[i]]
        /\ texture' = [i \in Slot |-> texture[i] /\ i \notin Hit]
        /\ UNCHANGED <<threads, external>>
    BY <1>5 DEF resourceDeleteStaticImage
  <2>4. Hit = {}
    BY <2>2
  <2> HIDE DEF Hit
  <2>5. \A i \in Slot : instance_enum'[i] = instance_enum[i]
    BY <2>3, <2>4
  <2>6. \A i \in Slot : texture'[i] => texture[i]
    BY <2>3
  <2>7. \A i \in Slot : Idle(i)' => Idle(i)
    BY <2>1, <2>5 DEF Idle
  <2> QED
    BY <2>3, <2>6, <2>7 DEF Clean, IdleReleased
<1>6. ASSUME NEW type \in {"draw", "hide"}, subscribeSidePropertyChannel(type)
      PROVE  IdleReleased'
  BY <1>6, <1>a DEF subscribeSidePropertyChannel, Take
<1>7. CASE DeleteStart
  <2>1. pc = "loop" /\ pc' = "scan"
    BY <1>7 DEF DeleteStart, Take
  <2> QED
    BY <1>7, <2>1, <1>a DEF DeleteStart
<1>8. CASE DeleteMatch
  <2> DEFINE n == First(Matching)
  <2>1. /\ instance_enum' = [instance_enum EXCEPT ![n] = "MIN"]
        /\ at' = n /\ pc = "scan" /\ pc' = "join"
        /\ UNCHANGED <<threads, external, texture>>
    BY <1>8 DEF DeleteMatch
  <2>2. n \in Slot
    BY <1>8, FirstMatching DEF DeleteMatch, Clean
  <2> HIDE DEF n
  <2>3. \A i \in Slot : Idle(i)' => Idle(i)
    BY <2>1, <2>2 DEF Idle, Clean, TypeOK
  <2> QED
    BY <2>1, <2>3 DEF IdleReleased, Clean
<1>9. CASE DeleteJoin
  <2>1. /\ dispatch' = [dispatch EXCEPT ![at] = "none"]
        /\ service' = [service EXCEPT ![at] = "none"]
        /\ context' = [context EXCEPT ![at] = "destroyed"]
        /\ webrtc' = [webrtc EXCEPT ![at] = "destroyed"]
        /\ texture' = [texture EXCEPT ![at] = FALSE]
        /\ UNCHANGED <<instance_enum>>
        /\ pc = "join" /\ pc' = "scan"
    BY <1>9 DEF DeleteJoin
  <2>2. \A i \in Slot : Idle(i)' => i = at \/ Idle(i)
    BY <2>1 DEF Idle
  <2> QED
    BY <2>1, <2>2 DEF IdleReleased, Clean, TypeOK
<1>10. CASE DeleteJoinNone
  <2>1. /\ UNCHANGED <<instance_enum, threads, external, texture>>
        /\ pc' = pc /\ at' = at
    BY <1>10 DEF DeleteJoinNone
  <2> QED
    BY <2>1, <1>a
<1>11. CASE DeleteDone
  <2>1. pc = "scan" /\ pc' = "loop"
    BY <1>11 DEF DeleteDone
  <2> QED
    BY <1>11, <2>1, <1>a DEF DeleteDone
<1>12. ASSUME NEW name \in Channel \cup Image, NEW type \in Type(name),
              telnet_push(type, name)
       PROVE  IdleReleased'
  <2>1. /\ UNCHANGED <<instance_enum, threads, external, texture>>
        /\ pc' = pc /\ at' = at
    BY <1>12 DEF telnet_push
  <2> QED
    BY <2>1, <1>a
<1>13. ASSUME NEW n \in Slot, DispatchExit(n) PROVE IdleReleased'
  <2>1. /\ dispatch[n] = "running" /\ dispatch' = [dispatch EXCEPT ![n] = "exited"]
        /\ UNCHANGED <<instance_enum, pc, at, service, external, texture>>
    BY <1>13 DEF DispatchExit
  <2> QED
    BY <2>1 DEF IdleReleased, Idle, Clean, TypeOK
<1>14. ASSUME NEW n \in Slot, ServiceExit(n) PROVE IdleReleased'
  <2>1. /\ service[n] = "running" /\ service' = [service EXCEPT ![n] = "exited"]
        /\ UNCHANGED <<instance_enum, pc, at, dispatch, external, texture>>
    BY <1>14 DEF ServiceExit
  <2> QED
    BY <2>1 DEF IdleReleased, Idle, Clean, TypeOK
<1>15. CASE UNCHANGED vars
  <2>1. /\ UNCHANGED <<instance_enum, threads, external, texture>>
        /\ pc' = pc /\ at' = at
    BY <1>15 DEF vars
  <2> QED
    BY <2>1, <1>a
<1> QED
  BY <1>1, <1>2, <1>3, <1>4, <1>5, <1>6, <1>7, <1>8, <1>9, <1>10, <1>11, <1>12,
     <1>13, <1>14, <1>15 DEF Next, Main, NoCommand

\* Until an image is asked for, the slots are clean.
Undisturbed == TypeOK /\ Asked /\ (NoImages => Clean)

\* No step of the console, of main() or of a thread changes that.
LEMMA UndisturbedCorrect == Spec => []Undisturbed
<1>1. Init => Undisturbed
  BY CleanInit DEF Undisturbed, Clean
<1>2. Undisturbed /\ [Next]_vars => Undisturbed'
  <2> SUFFICES ASSUME Undisturbed, [Next]_vars PROVE Undisturbed'
    OBVIOUS
  <2>1. TypeOK' /\ Asked' /\ used \subseteq used'
    BY TypedStep, AskedStep DEF Undisturbed
  <2>2. NoImages' => NoImages
    BY <2>1 DEF NoImages
  <2>3. NoImages => Clean'
    BY CleanStep DEF Undisturbed
  <2> QED
    BY <2>1, <2>2, <2>3 DEF Undisturbed
<1> QED
  BY <1>1, <1>2, PTL DEF Spec

\* If no still image is ever shown, no command leaves a free slot with threads,
\* an lws context, a connection or a texture.
THEOREM ChannelSlotsReleased == Spec => []ChannelsReleased
<1>1. Undisturbed => ChannelsReleased
  BY DEF Undisturbed, Clean, IdleReleased, Idle, ChannelsReleased, FreeSlotsReleased, Free
<1> QED
  BY <1>1, UndisturbedCorrect, PTL

----------------------------------------------------------------------------
(* An operator who opens a name once and closes only what is open.          *)

Closing(e) == e.type \in {"delete", "deleteImage"}

\* The operator believes the name open, or what closes it is still queued.
Pending(name) ==
    \/ name \in opened
    \/ \E k \in DOMAIN ipc_events : Closing(ipc_events[k]) /\ ipc_events[k].name = name

\* A name is closed once, after it was opened.
ClosedOnce ==
    /\ \A k, l \in DOMAIN ipc_events :
           Closing(ipc_events[k]) /\ Closing(ipc_events[l])
             /\ ipc_events[k].name = ipc_events[l].name => k = l
    /\ \A k \in DOMAIN ipc_events : /\ Closing(ipc_events[k]) => ipc_events[k].name \notin opened
                                    /\ ipc_events[k].name \in used
    /\ opened \subseteq used

\* Names in slots are names the operator used; a slot bears a name that is not yet
\* closed only while it is what was opened under it.
PendingShown ==
    \A i \in Slot : /\ channel_id[i] \in used \cup {None}
                    /\ image_path[i] \in used \cup {None}
                    /\ Pending(channel_id[i]) => instance_enum[i] = "00"
                    /\ Pending(image_path[i]) => instance_enum[i] = "LOCAL"

\* A delete under way was the last word on its name, and has open channels before it.
TargetOpen ==
    /\ pc # "loop" => target \in used /\ ~Pending(target)
    /\ pc = "scan" => \A i \in at..Slots : channel_id[i] = target => Open(i)
    /\ pc = "join" => /\ dispatch[at] # "none"
                      /\ \A i \in (at + 1)..Slots : channel_id[i] = target => Open(i)

\* A slot that is no open channel has no threads, but for the one being joined.
Settled(i) == ~Open(i) /\ ~(pc = "join" /\ at = i)
FreshIdle ==
    \A i \in Slot : Settled(i) => dispatch[i] = "none" /\ service[i] = "none"

Ordered == ClosedOnce /\ PendingShown /\ TargetOpen /\ FreshIdle /\ NoThreadError

\* Nothing is pending that the operator has not used.
LEMMA PendingUsed == ClosedOnce => \A m : Pending(m) => m \in used
  BY DEF ClosedOnce, Pending

\* A command that is taken was the last on its name if it closes it.
LEMMA PopPending ==
    ASSUME TypeOK, ClosedOnce, ipc_events # <<>>,
           ipc_events' = Tail(ipc_events), UNCHANGED operator
    PROVE  /\ ClosedOnce'
           /\ \A m : Pending(m)' => Pending(m)
           /\ \A n : n = Name => n \in used
           /\ \A n : n = Name /\ Closing(Head(ipc_events)) => Pending(n) /\ ~Pending(n)'
<1> DEFINE q == ipc_events
<1>1. /\ Len(q) \in Nat /\ Len(q) > 0 /\ DOMAIN q = 1..Len(q)
      /\ DOMAIN q' = 1..(Len(q) - 1)
      /\ \A k \in 1..(Len(q) - 1) : q'[k] = q[k + 1]
      /\ Head(q) = q[1]
  <2>1. q \in Seq(Event)
    BY DEF TypeOK
  <2>2. Len(q) \in Nat /\ Len(q) > 0 /\ DOMAIN q = 1..Len(q) /\ Head(q) = q[1]
    BY <2>1, LenProperties, EmptySeq
  <2>3. q' \in Seq(Event) /\ Len(q') = Len(q) - 1
        /\ \A k \in 1..(Len(q) - 1) : q'[k] = q[k + 1]
    BY <2>1, HeadTailProperties
  <2>4. DOMAIN q' = 1..Len(q')
    BY <2>3, LenProperties
  <2> QED
    BY <2>2, <2>3, <2>4
<1>2. \A k \in DOMAIN q' : k \in Nat /\ k > 0 /\ k + 1 \in DOMAIN q /\ q'[k] = q[k + 1]
  BY <1>1
<1>3. 1 \in DOMAIN q
  BY <1>1
<1> HIDE DEF q
<1>4. opened' = opened /\ used' = used
  BY DEF operator
<1>5. ClosedOnce'
  <2>1. ASSUME NEW k \in DOMAIN q', NEW l \in DOMAIN q', Closing(q'[k]), Closing(q'[l]),
               q'[k].name = q'[l].name
        PROVE  k = l
    <3>1. k + 1 = l + 1
      BY <1>2, <2>1 DEF ClosedOnce, q
    <3> QED
      BY <1>2, <3>1
  <2>2. ASSUME NEW k \in DOMAIN q'
        PROVE  (Closing(q'[k]) => q'[k].name \notin opened') /\ q'[k].name \in used'
    BY <1>2, <1>4 DEF ClosedOnce, q
  <2> QED
    BY <1>4, <2>1, <2>2 DEF ClosedOnce, q
<1>6. ASSUME NEW m, Pending(m)' PROVE Pending(m)
  <2>1. CASE m \in opened'
    BY <2>1, <1>4 DEF Pending
  <2>2. ASSUME NEW k \in DOMAIN q', Closing(q'[k]), q'[k].name = m PROVE Pending(m)
    BY <2>2, <1>2 DEF Pending, q
  <2> QED
    BY <1>6, <2>1, <2>2 DEF Pending, q
<1>7. Name \in used
  BY <1>1, <1>3 DEF ClosedOnce, Name, q
<1>8. ASSUME NEW n, n = Name, Closing(Head(ipc_events))
      PROVE  Pending(n) /\ ~Pending(n)'
  <2>1. Closing(q[1]) /\ q[1].name = n
    BY <1>1, <1>8 DEF Name, q
  <2>2. Pending(n)
    BY <2>1, <1>3 DEF Pending, q
  <2>3. n \notin opened
    BY <2>1, <1>3 DEF ClosedOnce, q
  <2>4. ASSUME NEW k \in DOMAIN q', Closing(q'[k]), q'[k].name = n PROVE FALSE
    <3>1. k + 1 = 1
      BY <2>1, <2>4, <1>2, <1>3 DEF ClosedOnce, q
    <3> QED
      BY <3>1, <1>2
  <2> QED
    BY <2>2, <2>3, <2>4, <1>4 DEF Pending, q
<1> QED
  BY <1>5, <1>6, <1>7, <1>8

\* Only a name that was never used becomes pending.
LEMMA PushPending ==
    ASSUME TypeOK, ClosedOnce, Paired, FreshNames,
           NEW name \in Channel \cup Image, NEW type \in Type(name),
           telnet_push(type, name)
    PROVE  ClosedOnce' /\ used \subseteq used' /\ \A m \in used : Pending(m)' => Pending(m)
<1> DEFINE q == ipc_events
           e == [type |-> type, name |-> name]
<1>1. /\ q' = Append(q, e) /\ q \in Seq(Event)
      /\ used' = IF Opening(type) THEN used \cup {name} ELSE used
      /\ Opening(type) => name \notin used
      /\ Opening(type) <=> name \notin opened
    BY DEF telnet_push, Allowed, TypeOK
<1>2. /\ opened' \subseteq opened \cup {name}
      /\ Opening(type) => opened' = opened \cup {name}
      /\ Closing(e) => opened' = opened \ {name}
      /\ ~Opening(type) => opened' \subseteq opened
      /\ ~Opening(type) \/ ~Closing(e)
    BY DEF telnet_push, Opening, Closing, Type
<1>3. /\ Len(q) \in Nat /\ DOMAIN q = 1..Len(q)
      /\ DOMAIN q' = 1..(Len(q) + 1)
      /\ \A k \in 1..Len(q) : q'[k] = q[k]
      /\ q'[Len(q) + 1] = e
    BY <1>1, LenProperties
<1>4. \A k \in DOMAIN q' : (k \in DOMAIN q /\ q'[k] = q[k]) \/ (k = Len(q) + 1 /\ q'[k] = e)
    BY <1>3
<1>5. opened \subseteq used /\ name \in used' /\ used \subseteq used'
    BY <1>1, <1>2 DEF ClosedOnce
<1> HIDE DEF q
<1>6. ASSUME NEW k \in DOMAIN q, Closing(q[k]) PROVE q[k].name \in used /\ q[k].name \notin opened
    BY <1>6 DEF ClosedOnce, q
<1>7. ASSUME NEW k \in DOMAIN q, Closing(q[k]), q[k].name = name PROVE ~Closing(e)
    BY <1>1, <1>2, <1>6, <1>7
<1>8. ClosedOnce'
  <2>1. ASSUME NEW k \in DOMAIN q', NEW l \in DOMAIN q', Closing(q'[k]), Closing(q'[l]),
               q'[k].name = q'[l].name
        PROVE  k = l
    <3>1. CASE k \in DOMAIN q /\ q'[k] = q[k] /\ l \in DOMAIN q /\ q'[l] = q[l]
      BY <2>1, <3>1 DEF ClosedOnce, q
    <3>2. e.name = name
      OBVIOUS
    <3> HIDE DEF e
    <3> QED
      BY <2>1, <3>1, <3>2, <1>4, <1>7
  <2>2. ASSUME NEW k \in DOMAIN q'
        PROVE  (Closing(q'[k]) => q'[k].name \notin opened') /\ q'[k].name \in used'
    <3>1. CASE k \in DOMAIN q /\ q'[k] = q[k]
      <4>1. q[k].name \in used
        BY <3>1 DEF ClosedOnce, q
      <4>2. Closing(q[k]) => q[k].name \notin opened'
        BY <3>1, <1>1, <1>2, <1>6
      <4> QED
        BY <3>1, <4>1, <4>2, <1>5
    <3>2. CASE q'[k] = e
      <4>1. e.name = name
        OBVIOUS
      <4> HIDE DEF e
      <4> QED
        BY <3>2, <4>1, <1>2, <1>5
    <3> QED
      BY <3>1, <3>2, <1>4
  <2>3. opened' \subseteq used'
    BY <1>1, <1>2, <1>5
  <2> QED
    BY <2>1, <2>2, <2>3 DEF ClosedOnce, q
<1>9. ASSUME NEW m \in used, Pending(m)' PROVE Pending(m)
  <2>1. CASE m \in opened'
    <3>1. m \in opened
      BY <2>1, <1>1, <1>2
    <3> QED
      BY <3>1 DEF Pending
  <2>2. ASSUME NEW k \in DOMAIN q', Closing(q'[k]), q'[k].name = m PROVE Pending(m)
    <3>1. CASE k \in DOMAIN q /\ q'[k] = q[k]
      BY <2>2, <3>1 DEF Pending, q
    <3>2. CASE q'[k] = e
      <4>1. m = name /\ Closing(e)
        BY <2>2, <3>2
      <4>2. m \in opened
        BY <4>1, <1>1, <1>2
      <4> QED
        BY <4>2 DEF Pending
    <3> QED
      BY <3>1, <3>2, <1>4
  <2> QED
    BY <1>9, <2>1, <2>2 DEF Pending, q
<1> QED
  BY <1>5, <1>8, <1>9

\* No step makes a name pending that was used before.
LEMMA QueueStep ==
    ASSUME TypeOK, ClosedOnce, Paired, FreshNames, [Next]_vars
    PROVE  ClosedOnce' /\ used \subseteq used' /\ \A m \in used : Pending(m)' => Pending(m)
<1>1. ASSUME UNCHANGED <<ipc_events, operator>>
      PROVE  ClosedOnce' /\ used \subseteq used' /\ \A m \in used : Pending(m)' => Pending(m)
  BY <1>1 DEF operator, ClosedOnce, Pending
<1>2. ASSUME ipc_events # <<>>, ipc_events' = Tail(ipc_events), UNCHANGED operator
      PROVE  ClosedOnce' /\ used \subseteq used' /\ \A m \in used : Pending(m)' => Pending(m)
  <2>1. ClosedOnce' /\ \A m : Pending(m)' => Pending(m)
    BY <1>2, PopPending
  <2>2. used' = used
    BY <1>2 DEF operator
  <2> QED
    BY <2>1, <2>2
<1> USE DEF Take
<1>3. CASE subscribeSideAddChannel
  BY <1>2, <1>3 DEF subscribeSideAddChannel
<1>4. CASE AddAssignsJoinable \/ AddReadsFreedImage
  BY <1>2, <1>4 DEF AddAssignsJoinable, AddReadsFreedImage
<1>5. CASE resourceAddStaticImage
  BY <1>2, <1>5 DEF resourceAddStaticImage
<1>6. ASSUME NEW type \in Command, CommandIgnored(type) \/ HandlerThrows(type)
      PROVE  ClosedOnce' /\ used \subseteq used' /\ \A m \in used : Pending(m)' => Pending(m)
  BY <1>2, <1>6 DEF CommandIgnored, HandlerThrows
<1>7. CASE resourceDeleteStaticImage
  BY <1>2, <1>7 DEF resourceDeleteStaticImage
<1>8. ASSUME NEW type \in {"draw", "hide"}, subscribeSidePropertyChannel(type)
      PROVE  ClosedOnce' /\ used \subseteq used' /\ \A m \in used : Pending(m)' => Pending(m)
  BY <1>2, <1>8 DEF subscribeSidePropertyChannel
<1>9. CASE DeleteStart
  BY <1>2, <1>9 DEF DeleteStart
<1>10. CASE DeleteMatch \/ DeleteJoin \/ DeleteJoinNone \/ DeleteDone
  BY <1>1, <1>10 DEF DeleteMatch, DeleteJoin, DeleteJoinNone, DeleteDone
<1>11. ASSUME NEW name \in Channel \cup Image, NEW type \in Type(name),
              telnet_push(type, name)
       PROVE  ClosedOnce' /\ used \subseteq used' /\ \A m \in used : Pending(m)' => Pending(m)
  BY <1>11, PushPending
<1>12. ASSUME NEW n \in Slot, DispatchExit(n) \/ ServiceExit(n)
       PROVE  ClosedOnce' /\ used \subseteq used' /\ \A m \in used : Pending(m)' => Pending(m)
  BY <1>1, <1>12 DEF DispatchExit, ServiceExit
<1>13. CASE UNCHANGED vars
  BY <1>1, <1>13 DEF vars
<1> QED
  BY <1>3, <1>4, <1>5, <1>6, <1>7, <1>8, <1>9, <1>10, <1>11, <1>12, <1>13
     DEF Next, Main, NoCommand

\* All is closed, free and without names.
LEMMA OrderedInit == Init => Ordered
<1> SUFFICES ASSUME Init PROVE Ordered
  OBVIOUS
<1>1. ClosedOnce /\ ~Pending(None)
  BY DEF Init, ClosedOnce, Pending
<1>2. PendingShown
  BY <1>1 DEF Init, PendingShown
<1>3. TargetOpen /\ FreshIdle /\ NoThreadError
  BY DEF Init, TargetOpen, FreshIdle, NoThreadError
<1> QED
  BY <1>1, <1>2, <1>3 DEF Ordered

\* A command that is taken leaves its name to no other that would close it.
LEMMA OrderedStep ==
    ASSUME Paired, FreshNames, Served, Ordered, [Next]_vars
    PROVE  Ordered'
<1>0. TypeOK /\ TypeOK' /\ ClosedOnce /\ PendingShown /\ TargetOpen /\ FreshIdle /\ NoThreadError
  BY TypedStep DEF Served, Ordered
<1>1. ClosedOnce' /\ used \subseteq used' /\ \A m \in used : Pending(m)' => Pending(m)
  BY <1>0, QueueStep
<1>2. None \notin used'
  BY <1>0, NameAssumption DEF TypeOK
<1>3. \A m \in used \cup {None} : Pending(m)' => Pending(m)
  BY <1>1, <1>2 DEF ClosedOnce, Pending
<1> SUFFICES PendingShown' /\ TargetOpen' /\ FreshIdle' /\ NoThreadError'
  BY <1>1 DEF Ordered
<1>b. ended' = ended \/ ended' \in {"texture", "thrown"} => NoThreadError'
  BY <1>0 DEF NoThreadError
<1> USE DEF operator, control, names, threads, external
\* What the slots still show after the step, of the names they had before it ...
<1>h. ASSUME NEW i \in Slot
      PROVE  /\ channel_id[i] \in used' \cup {None} /\ image_path[i] \in used' \cup {None}
             /\ \A m : m = channel_id[i] /\ Pending(m)' => instance_enum[i] = "00"
             /\ \A m : m = image_path[i] /\ Pending(m)' => instance_enum[i] = "LOCAL"
  <2>1. /\ channel_id[i] \in used \cup {None} /\ image_path[i] \in used \cup {None}
        /\ Pending(channel_id[i]) => instance_enum[i] = "00"
        /\ Pending(image_path[i]) => instance_enum[i] = "LOCAL"
    BY <1>0 DEF PendingShown
  <2>2. ASSUME NEW m \in used \cup {None}
        PROVE  /\ m = channel_id[i] /\ Pending(m)' => instance_enum[i] = "00"
               /\ m = image_path[i] /\ Pending(m)' => instance_enum[i] = "LOCAL"
    BY <2>1, <2>2, <1>3
  <2> QED
    BY <2>1, <2>2, <1>1
\* ... and what they have to show.
<1>g. ASSUME \A i \in Slot :
                /\ channel_id'[i] \in used' \cup {None} /\ image_path'[i] \in used' \cup {None}
                /\ \A m : m = channel_id'[i] /\ Pending(m)' => instance_enum'[i] = "00"
                /\ \A m : m = image_path'[i] /\ Pending(m)' => instance_enum'[i] = "LOCAL"
      PROVE  PendingShown'
  BY <1>g DEF PendingShown, Pending
<1>s. ASSUME UNCHANGED <<instance_enum, names>> PROVE PendingShown'
  BY <1>s, <1>h, <1>g
<1>t. ASSUME UNCHANGED target, target \in used, ~Pending(target)
      PROVE  target' \in used' /\ ~Pending(target)'
  <2>1. \A m : m = target => m \in used' /\ ~Pending(m)'
    BY <1>t, <1>1
  <2>2. \A m : m = target' => m \in used' /\ ~Pending(m)'
    BY <1>t, <2>1
  <2> QED
    BY <2>2 DEF Pending
<1>m. ASSUME UNCHANGED <<instance_enum, names, control, threads>>
      PROVE  PendingShown' /\ TargetOpen' /\ FreshIdle'
  <2>1. pc # "loop" => target' \in used' /\ ~Pending(target)'
    BY <1>m, <1>t, <1>0 DEF TargetOpen
  <2>2. TargetOpen'
    BY <1>m, <1>0, <2>1 DEF TargetOpen, Open
  <2>3. FreshIdle'
    BY <1>m, <1>0 DEF FreshIdle, Settled, Open
  <2> QED
    BY <1>m, <1>s, <2>2, <2>3
\* Commands are taken while no delete is under way.
<1>c. ASSUME NEW type, Take(type)
      PROVE  /\ pc = "loop" /\ alive
             /\ UNCHANGED operator =>
                    \A n : n = Name =>
                        /\ n \in used /\ n \in used'
                        /\ Closing(Head(ipc_events)) => Pending(n) /\ ~Pending(n)'
  <2>1. ipc_events # <<>> /\ ipc_events' = Tail(ipc_events) /\ pc = "loop" /\ alive
    BY <1>c DEF Take
  <2> QED
    BY <2>1, <1>0, <1>1, PopPending
<1>4. CASE subscribeSideAddChannel
  <2> DEFINE n == First(Free)
  <2>1. /\ instance_enum' = [instance_enum EXCEPT ![n] = "00"]
        /\ channel_id' = [channel_id EXCEPT ![n] = Name]
        /\ image_path' = image_path
        /\ UNCHANGED <<operator, control, ended>>
        /\ dispatch' = [dispatch EXCEPT ![n] = "running"]
        /\ service' = [service EXCEPT ![n] = "running"]
        /\ Take("add")
    BY <1>4 DEF subscribeSideAddChannel
  <2>2. n \in Slot /\ instance_enum[n] = "MIN"
    BY <1>4, FirstFree DEF subscribeSideAddChannel
  <2>3. Name \in used' /\ pc = "loop" /\ alive
    BY <2>1, <1>c
  <2> HIDE DEF n
  <2>4. PendingShown'
    <3>1. \A i \in Slot : i # n => /\ channel_id'[i] = channel_id[i]
                                   /\ instance_enum'[i] = instance_enum[i]
      BY <2>1, <1>0 DEF TypeOK
    <3>2. channel_id'[n] = Name /\ instance_enum'[n] = "00"
      BY <2>1, <2>2, <1>0 DEF TypeOK
    <3>3. \A m : m = image_path[n] => ~Pending(m)'
      BY <2>2, <1>h
    <3> QED
      BY <2>1, <2>3, <3>1, <3>2, <3>3, <1>h, <1>g
  <2>5. TargetOpen'
    BY <2>1, <2>3 DEF TargetOpen
  <2>6. FreshIdle'
    <3>1. ASSUME NEW i \in Slot, Settled(i)' PROVE i # n /\ Settled(i)
      BY <2>1, <2>2, <2>3, <3>1, <1>0 DEF Settled, Open, TypeOK
    <3> QED
      BY <2>1, <3>1, <1>0 DEF FreshIdle, TypeOK
  <2> QED
    BY <2>1, <2>3, <2>4, <2>5, <2>6, <1>b
<1>5. CASE AddAssignsJoinable \/ AddReadsFreedImage
  <2> DEFINE n == First(Free)
  <2>1. /\ UNCHANGED <<instance_enum, names, control, threads>>
        /\ Free # {} /\ Take("add")
        /\ \/ dispatch[n] # "none" \/ service[n] # "none"
           \/ ended' = "texture"
    BY <1>5 DEF AddAssignsJoinable, AddReadsFreedImage
  <2>2. n \in Slot /\ instance_enum[n] = "MIN" /\ pc = "loop"
    BY <2>1, <1>c, FirstFree
  <2>3. dispatch[n] = "none" /\ service[n] = "none"
    BY <2>2, <1>0 DEF FreshIdle, Settled, Open
  <2> QED
    BY <2>1, <2>3, <1>m, <1>b
<1>6. CASE resourceAddStaticImage
  <2> DEFINE n == First(Free)
  <2>1. /\ instance_enum' = [instance_enum EXCEPT ![n] = "LOCAL"]
        /\ image_path' = [image_path EXCEPT ![n] = Name]
        /\ channel_id' = channel_id
        /\ UNCHANGED <<operator, control, threads, ended>>
        /\ Take("addImage")
    BY <1>6 DEF resourceAddStaticImage
  <2>2. n \in Slot /\ instance_enum[n] = "MIN"
    BY <1>6, FirstFree DEF resourceAddStaticImage
  <2>3. Name \in used' /\ pc = "loop" /\ alive
    BY <2>1, <1>c
  <2> HIDE DEF n
  <2>4. PendingShown'
    <3>1. \A i \in Slot : i # n => /\ image_path'[i] = image_path[i]
                                   /\ instance_enum'[i] = instance_enum[i]
      BY <2>1, <1>0 DEF TypeOK
    <3>2. image_path'[n] = Name /\ instance_enum'[n] = "LOCAL"
      BY <2>1, <2>2, <1>0 DEF TypeOK
    <3>3. \A m : m = channel_id[n] => ~Pending(m)'
      BY <2>2, <1>h
    <3> QED
      BY <2>1, <2>3, <3>1, <3>2, <3>3, <1>h, <1>g
  <2>5. TargetOpen'
    BY <2>1, <2>3 DEF TargetOpen
  <2>6. FreshIdle'
    <3>1. ASSUME NEW i \in Slot, Settled(i)' PROVE Settled(i)
      BY <2>1, <2>2, <2>3, <3>1, <1>0 DEF Settled, Open, TypeOK
    <3> QED
      BY <2>1, <3>1, <1>0 DEF FreshIdle, TypeOK
  <2> QED
    BY <2>1, <2>3, <2>4, <2>5, <2>6, <1>b
<1>7. ASSUME NEW type \in Command, CommandIgnored(type) \/ HandlerThrows(type)
      PROVE  PendingShown' /\ TargetOpen' /\ FreshIdle' /\ NoThreadError'
  BY <1>7, <1>m, <1>b DEF CommandIgnored, HandlerThrows
<1>8. CASE resourceDeleteStaticImage
  <2> DEFINE Hit == {i \in Slot : image_path[i] = Name}
  <2>1. /\ instance_enum' = [i \in Slot |-> IF i \in Hit THEN "MIN" ELSE instance_enum[i]]
        /\ UNCHANGED <<names, operator, control, threads, ended>>
        /\ Take("deleteImage")
    BY <1>8 DEF resourceDeleteStaticImage
  <2>2. pc = "loop" /\ alive /\ Closing(Head(ipc_events)) /\ Name \in Image
    BY <2>1, <1>0, <1>c, TakeFacts DEF Closing, Take
  <2>3. \A m : m = Name => Pending(m) /\ ~Pending(m)'
    BY <2>1, <2>2, <1>c
  <2>4. \A i \in Hit : instance_enum[i] = "LOCAL" /\ image_path[i] # None
    BY <2>2, <2>3, <1>0, NameAssumption DEF PendingShown
  <2>5. PendingShown'
    <3>1. ASSUME NEW i \in Slot, i \in Hit
          PROVE  /\ \A m : m = channel_id[i] => ~Pending(m)'
                 /\ \A m : m = image_path[i] => ~Pending(m)'
      BY <3>1, <2>3, <2>4, <1>h
    <3>2. ASSUME NEW i \in Slot, i \notin Hit PROVE instance_enum'[i] = instance_enum[i]
      BY <3>2, <2>1
    <3> HIDE DEF Hit
    <3> QED
      BY <2>1, <3>1, <3>2, <1>h, <1>g
  <2>6. TargetOpen'
    BY <2>1, <2>2 DEF TargetOpen
  <2>7. FreshIdle'
    <3>1. ASSUME NEW i \in Slot, Settled(i)' PROVE Settled(i)
      BY <2>1, <2>2, <2>4, <3>1 DEF Settled, Open
    <3> QED
      BY <2>1, <3>1, <1>0 DEF FreshIdle
  <2> QED
    BY <2>1, <2>2, <2>5, <2>6, <2>7, <1>b
<1>9. ASSUME NEW type \in {"draw", "hide"}, subscribeSidePropertyChannel(type)
      PROVE  PendingShown' /\ TargetOpen' /\ FreshIdle' /\ NoThreadError'
  BY <1>9, <1>m, <1>b DEF subscribeSidePropertyChannel
<1>10. CASE DeleteStart
  <2>1. /\ UNCHANGED <<instance_enum, names, operator, threads, ended>>
        /\ pc' = "scan" /\ at' = 1 /\ target' = Name /\ Take("delete")
    BY <1>10 DEF DeleteStart
  <2>2. pc = "loop" /\ alive /\ Closing(Head(ipc_events))
    BY <2>1, <1>c DEF Closing, Take
  <2>3. \A m : m = Name => m \in used' /\ Pending(m) /\ ~Pending(m)'
    BY <2>1, <2>2, <1>c
  <2>4. target' \in used' /\ \A m : m = target' => ~Pending(m)'
    BY <2>1, <2>3
  <2>5. \A i \in Slot : channel_id[i] = Name => Open(i)
    BY <2>3, <1>0 DEF PendingShown, Open
  <2>6. TargetOpen'
    BY <2>1, <2>4, <2>5 DEF TargetOpen, Open, Slot, Pending
  <2>7. FreshIdle'
    BY <2>1, <2>2, <1>0 DEF FreshIdle, Settled, Open
  <2> QED
    BY <2>1, <2>2, <2>6, <2>7, <1>s, <1>b
<1>11. CASE DeleteMatch
  <2> DEFINE n == First(Matching)
  <2>1. /\ instance_enum' = [instance_enum EXCEPT ![n] = "MIN"]
        /\ at' = n /\ pc = "scan" /\ pc' = "join" /\ alive
        /\ UNCHANGED <<target, names, operator, threads, ended>>
    BY <1>11 DEF DeleteMatch
  <2>2. n \in Slot /\ n \in at..Slots /\ channel_id[n] = target
    BY <1>0, <1>11, FirstMatching DEF DeleteMatch
  <2> HIDE DEF n
  <2>3. Open(n) /\ target \in used /\ ~Pending(target)
    BY <2>1, <2>2, <1>0 DEF TargetOpen
  <2>4. target' \in used' /\ ~Pending(target)'
    BY <2>1, <2>3, <1>t
  <2>5. \A i \in Slot : i # n => instance_enum'[i] = instance_enum[i]
    BY <2>1, <1>0 DEF TypeOK
  <2>6. PendingShown'
    <3>1. \A m : m = channel_id[n] => ~Pending(m)'
      <4>1. \A m : m = target => ~Pending(m)'
        BY <2>3, <1>1
      <4> QED
        BY <4>1, <2>2
    <3>2. \A m : m = image_path[n] => ~Pending(m)'
      BY <2>2, <2>3, <1>h DEF Open
    <3> QED
      BY <2>1, <2>5, <3>1, <3>2, <1>h, <1>g
  <2>7. TargetOpen'
    <3>1. dispatch[n] = "running"
      BY <2>2, <2>3 DEF Served, ServedWhileOpen
    <3>2. ASSUME NEW i \in (n + 1)..Slots, channel_id[i] = target
          PROVE  instance_enum'[i] = "00"
      <4>1. i \in at..Slots /\ i # n /\ i \in Slot
        BY <2>2, <3>2, <1>0, SlotsAssumption DEF TypeOK, Slot
      <4> QED
        BY <4>1, <2>1, <2>5, <3>2, <1>0 DEF TargetOpen, Open
    <3> QED
      BY <2>1, <2>4, <3>1, <3>2 DEF TargetOpen, Open
  <2>8. FreshIdle'
    <3>1. ASSUME NEW i \in Slot, Settled(i)' PROVE Settled(i)
      BY <2>1, <2>5, <3>1 DEF Settled, Open
    <3> QED
      BY <2>1, <3>1, <1>0 DEF FreshIdle
  <2> QED
    BY <2>1, <2>6, <2>7, <2>8, <1>b
<1>12. CASE DeleteJoin
  <2>1. /\ UNCHANGED <<instance_enum, names, target, ended>>
        /\ pc = "join" /\ pc' = "scan" /\ at' = at + 1 /\ alive
        /\ dispatch' = [dispatch EXCEPT ![at] = "none"]
        /\ service' = [service EXCEPT ![at] = "none"]
    BY <1>12 DEF DeleteJoin
  <2>2. target' \in used' /\ ~Pending(target)'
    BY <2>1, <1>0, <1>t DEF TargetOpen
  <2>3. TargetOpen'
    BY <2>1, <2>2, <1>0 DEF TargetOpen, Open
  <2>4. FreshIdle'
    <3>1. ASSUME NEW i \in Slot, Settled(i)', i # at PROVE Settled(i)
      BY <2>1, <3>1 DEF Settled, Open
    <3> QED
      BY <2>1, <3>1, <1>0 DEF FreshIdle, TypeOK
  <2> QED
    BY <2>1, <2>3, <2>4, <1>s, <1>b
<1>13. CASE DeleteJoinNone
  BY <1>13, <1>0 DEF DeleteJoinNone, TargetOpen
<1>14. CASE DeleteDone
  <2>1. /\ UNCHANGED <<instance_enum, names, threads, ended>>
        /\ pc = "scan" /\ pc' = "loop" /\ alive
    BY <1>14 DEF DeleteDone
  <2>2. TargetOpen' /\ FreshIdle'
    BY <2>1, <1>0 DEF TargetOpen, FreshIdle, Settled, Open
  <2> QED
    BY <2>1, <2>2, <1>s, <1>b
<1>15. ASSUME NEW name \in Channel \cup Image, NEW type \in Type(name),
              telnet_push(type, name)
       PROVE  PendingShown' /\ TargetOpen' /\ FreshIdle' /\ NoThreadError'
  BY <1>15, <1>m, <1>b DEF telnet_push
<1>16. ASSUME NEW n \in Slot, DispatchExit(n) \/ ServiceExit(n)
       PROVE  PendingShown' /\ TargetOpen' /\ FreshIdle' /\ NoThreadError'
  <2>1. /\ UNCHANGED <<instance_enum, names, control, ended>> /\ alive
        /\ \/ /\ dispatch[n] = "running" /\ dispatch' = [dispatch EXCEPT ![n] = "exited"]
              /\ service' = service
           \/ /\ service[n] = "running" /\ service' = [service EXCEPT ![n] = "exited"]
              /\ dispatch' = dispatch
    BY <1>16 DEF DispatchExit, ServiceExit
  <2>2. pc # "loop" => target' \in used' /\ ~Pending(target)'
    BY <2>1, <1>t, <1>0 DEF TargetOpen
  <2>3. TargetOpen'
    <3>1. \A i \in Slot : dispatch[i] # "none" => dispatch'[i] # "none"
      BY <2>1, <1>0 DEF TypeOK
    <3>2. pc = "join" => at \in Slot
      BY <1>0 DEF TypeOK
    <3> QED
      BY <2>1, <2>2, <3>1, <3>2, <1>0 DEF TargetOpen, Open
  <2>4. FreshIdle'
    <3>1. \A i \in Slot : Settled(i)' => Settled(i)
      BY <2>1 DEF Settled, Open
    <3>2. \A i \in Slot : dispatch[i] = "none" /\ service[i] = "none"
                            => dispatch'[i] = "none" /\ service'[i] = "none"
      BY <2>1, <1>0 DEF TypeOK
    <3> QED
      BY <2>1, <3>1, <3>2, <1>0 DEF FreshIdle
  <2> QED
    BY <2>1, <2>3, <2>4, <1>s, <1>b
<1>17. CASE UNCHANGED vars
  BY <1>17, <1>m, <1>b DEF vars
<1> QED
  BY <1>4, <1>5, <1>6, <1>7, <1>8, <1>9, <1>10, <1>11, <1>12, <1>13, <1>14, <1>15,
     <1>16, <1>17 DEF Next, Main, NoCommand

\* An operator who opens a name once and closes what is open never makes main() assign
\* to a thread that was not joined or join one that does not run, however carelessly
\* it writes its commands.  (They may still end it: HandlerThrows, AddReadsFreedImage.)
THEOREM NoThreadErrors == Paired /\ FreshNames => (Spec => []NoThreadError)
<1> SUFFICES ASSUME Paired, FreshNames PROVE Spec => []NoThreadError
  OBVIOUS
<1>1. Init => Served /\ Ordered
  BY ServedInit, OrderedInit
<1>2. Served /\ Ordered /\ [Next]_vars => (Served /\ Ordered)'
  BY ServedStep, OrderedStep
<1>3. Ordered => NoThreadError
  BY DEF Ordered
<1> QED
  BY <1>1, <1>2, <1>3, PTL DEF Spec

----------------------------------------------------------------------------
(* For that operator the pool implements a table of names.                  *)

\* What would open the name is not queued.
Unopened(name) ==
    \A k \in DOMAIN ipc_events : Opening(ipc_events[k].type) => ipc_events[k].name # name

\* A name is opened once: a slot that bears it is the only one that ever did.
OpenedOnce ==
    /\ \A k, l \in DOMAIN ipc_events :
           Opening(ipc_events[k].type) /\ Opening(ipc_events[l].type)
             /\ ipc_events[k].name = ipc_events[l].name => k = l
    /\ \A i \in Slot : Unopened(channel_id[i]) /\ Unopened(image_path[i])
    /\ \A i, j \in Slot : channel_id[i] = channel_id[j] /\ channel_id[i] # None => i = j

QueueOpensOnce ==
    \A k, l \in DOMAIN ipc_events :
        Opening(ipc_events[k].type) /\ Opening(ipc_events[l].type)
          /\ ipc_events[k].name = ipc_events[l].name => k = l

\* A command that opens a name is the only one that will.
LEMMA PopOpening ==
    ASSUME TypeOK, QueueOpensOnce, ipc_events # <<>>, ipc_events' = Tail(ipc_events)
    PROVE  /\ QueueOpensOnce'
           /\ \A m : Unopened(m) => Unopened(m)'
           /\ \A n : n = Name /\ Opening(Head(ipc_events).type) => ~Unopened(n) /\ Unopened(n)'
<1> DEFINE q == ipc_events
<1>1. /\ Len(q) \in Nat /\ Len(q) > 0 /\ DOMAIN q = 1..Len(q)
      /\ DOMAIN q' = 1..(Len(q) - 1)
      /\ \A k \in 1..(Len(q) - 1) : q'[k] = q[k + 1]
      /\ Head(q) = q[1]
  <2>1. q \in Seq(Event)
    BY DEF TypeOK
  <2>2. Len(q) \in Nat /\ Len(q) > 0 /\ DOMAIN q = 1..Len(q) /\ Head(q) = q[1]
    BY <2>1, LenProperties, EmptySeq
  <2>3. q' \in Seq(Event) /\ Len(q') = Len(q) - 1
        /\ \A k \in 1..(Len(q) - 1) : q'[k] = q[k + 1]
    BY <2>1, HeadTailProperties
  <2>4. DOMAIN q' = 1..Len(q')
    BY <2>3, LenProperties
  <2> QED
    BY <2>2, <2>3, <2>4
<1>2. \A k \in DOMAIN q' : k \in Nat /\ k > 0 /\ k + 1 \in DOMAIN q /\ q'[k] = q[k + 1]
  BY <1>1
<1>3. 1 \in DOMAIN q
  BY <1>1
<1> HIDE DEF q
<1>4. QueueOpensOnce'
  <2>1. ASSUME NEW k \in DOMAIN q', NEW l \in DOMAIN q',
               Opening(q'[k].type), Opening(q'[l].type), q'[k].name = q'[l].name
        PROVE  k = l
    <3>1. k + 1 = l + 1
      BY <1>2, <2>1 DEF QueueOpensOnce, q
    <3> QED
      BY <1>2, <3>1
  <2> QED
    BY <2>1 DEF QueueOpensOnce, q
<1>5. ASSUME NEW m, Unopened(m) PROVE Unopened(m)'
  BY <1>2, <1>5 DEF Unopened, q
<1>6. ASSUME NEW n, n = Name, Opening(Head(ipc_events).type)
      PROVE  ~Unopened(n) /\ Unopened(n)'
  <2>1. Opening(q[1].type) /\ q[1].name = n
    BY <1>1, <1>6 DEF Name, q
  <2>2. ASSUME NEW k \in DOMAIN q', Opening(q'[k].type), q'[k].name = n PROVE FALSE
    <3>1. k + 1 = 1
      BY <2>1, <2>2, <1>2, <1>3 DEF QueueOpensOnce, q
    <3> QED
      BY <3>1, <1>2
  <2> QED
    BY <2>1, <2>2, <1>3 DEF Unopened, q
<1> QED
  BY <1>4, <1>5, <1>6

\* What is queued to be opened was never used before.
LEMMA PushOpening ==
    ASSUME TypeOK, ClosedOnce, QueueOpensOnce, FreshNames,
           NEW name \in Channel \cup Image, NEW type \in Type(name),
           telnet_push(type, name)
    PROVE  /\ QueueOpensOnce'
           /\ \A m \in used \cup {None} : Unopened(m) => Unopened(m)'
<1> DEFINE q == ipc_events
           e == [type |-> type, name |-> name]
<1>1. q' = Append(q, e) /\ q \in Seq(Event) /\ (Opening(type) => name \notin used)
  BY DEF telnet_push, Allowed, TypeOK
<1>2. /\ Len(q) \in Nat /\ DOMAIN q = 1..Len(q)
      /\ DOMAIN q' = 1..(Len(q) + 1)
      /\ \A k \in 1..Len(q) : q'[k] = q[k]
      /\ q'[Len(q) + 1] = e
  BY <1>1, LenProperties
<1>3. \A k \in DOMAIN q' : (k \in DOMAIN q /\ q'[k] = q[k]) \/ (k = Len(q) + 1 /\ q'[k] = e)
  BY <1>2
<1> HIDE DEF q
<1>4. \A k \in DOMAIN q : q[k].name \in used
  BY DEF ClosedOnce, q
<1>5. e.type = type /\ e.name = name /\ name # None
  BY NameAssumption
<1> HIDE DEF e
<1>6. QueueOpensOnce'
  <2>1. ASSUME NEW k \in DOMAIN q', NEW l \in DOMAIN q',
               Opening(q'[k].type), Opening(q'[l].type), q'[k].name = q'[l].name
        PROVE  k = l
    <3>1. CASE k \in DOMAIN q /\ q'[k] = q[k] /\ l \in DOMAIN q /\ q'[l] = q[l]
      BY <2>1, <3>1 DEF QueueOpensOnce, q
    <3>2. ASSUME NEW j \in DOMAIN q, q[j].name = name PROVE ~Opening(type)
      BY <1>1, <1>4, <3>2
    <3> QED
      BY <2>1, <3>1, <3>2, <1>3, <1>5
  <2> QED
    BY <2>1 DEF QueueOpensOnce, q
<1>7. ASSUME NEW m \in used \cup {None}, Unopened(m) PROVE Unopened(m)'
  <2>1. ASSUME NEW k \in DOMAIN q', Opening(q'[k].type) PROVE q'[k].name # m
    <3>1. CASE k \in DOMAIN q /\ q'[k] = q[k]
      BY <2>1, <3>1, <1>7 DEF Unopened, q
    <3>2. CASE q'[k] = e
      BY <2>1, <3>2, <1>1, <1>5, <1>7
    <3> QED
      BY <3>1, <3>2, <1>3
  <2> QED
    BY <2>1 DEF Unopened, q
<1> QED
  BY <1>6, <1>7

\* No step opens a name again.
LEMMA OpenedStep ==
    ASSUME FreshNames, Served, Ordered, OpenedOnce, [Next]_vars
    PROVE  OpenedOnce'
<1>0. TypeOK /\ TypeOK' /\ ClosedOnce /\ PendingShown /\ QueueOpensOnce
  BY TypedStep DEF Served, Ordered, OpenedOnce, QueueOpensOnce
<1> USE DEF operator, names
<1>1. ASSUME ipc_events' = ipc_events PROVE QueueOpensOnce' /\ \A m : Unopened(m) => Unopened(m)'
  BY <1>0, <1>1 DEF QueueOpensOnce, Unopened
<1>2. ASSUME NEW i \in Slot
      PROVE  /\ channel_id[i] \in used \cup {None} /\ image_path[i] \in used \cup {None}
             /\ \A m : m = channel_id[i] \/ m = image_path[i] => Unopened(m)
  BY <1>0 DEF PendingShown, OpenedOnce
<1>3. ASSUME QueueOpensOnce', UNCHANGED names,
             \A m \in used \cup {None} : Unopened(m) => Unopened(m)'
      PROVE  OpenedOnce'
  <2>1. ASSUME NEW i \in Slot
        PROVE  \A m : m = channel_id'[i] \/ m = image_path'[i] => Unopened(m)'
    BY <1>2, <1>3
  <2> QED
    BY <2>1, <1>3 DEF OpenedOnce, QueueOpensOnce, Unopened
<1>4. ASSUME NEW type, Take(type)
      PROVE  /\ QueueOpensOnce' /\ \A m : Unopened(m) => Unopened(m)'
             /\ Opening(type) => \A n : n = Name => ~Unopened(n) /\ Unopened(n)'
  BY <1>0, <1>4, PopOpening DEF Take
<1>5. CASE subscribeSideAddChannel
  <2> DEFINE n == First(Free)
  <2>1. channel_id' = [channel_id EXCEPT ![n] = Name] /\ image_path' = image_path /\ Take("add")
    BY <1>5 DEF subscribeSideAddChannel
  <2>2. n \in Slot
    BY <1>5, FirstFree DEF subscribeSideAddChannel
  <2>3. \A m : m = Name => ~Unopened(m) /\ Unopened(m)'
    BY <2>1, <1>4 DEF Opening
  <2> HIDE DEF n
  <2>4. \A i \in Slot : i # n => channel_id'[i] = channel_id[i]
    BY <2>1, <1>0 DEF TypeOK
  <2>5. channel_id'[n] = Name
    BY <2>1, <2>2, <1>0 DEF TypeOK
  <2>6. ASSUME NEW i \in Slot
        PROVE  \A m : m = channel_id'[i] \/ m = image_path'[i] => Unopened(m)'
    BY <2>1, <2>3, <2>4, <2>5, <1>2, <1>4
  <2>7. \A i \in Slot : channel_id[i] # Name
    BY <2>3, <1>2
  <2>8. \A i, j \in Slot : channel_id'[i] = channel_id'[j] /\ channel_id'[i] # None => i = j
    BY <2>4, <2>5, <2>7 DEF OpenedOnce
  <2> QED
    BY <2>1, <2>6, <2>8, <1>4 DEF OpenedOnce, QueueOpensOnce, Unopened
<1>6. CASE AddAssignsJoinable \/ AddReadsFreedImage
  BY <1>6, <1>3, <1>4 DEF AddAssignsJoinable, AddReadsFreedImage
<1>7. CASE resourceAddStaticImage
  <2> DEFINE n == First(Free)
  <2>1. image_path' = [image_path EXCEPT ![n] = Name] /\ channel_id' = channel_id
        /\ Take("addImage")
    BY <1>7 DEF resourceAddStaticImage
  <2>2. n \in Slot
    BY <1>7, FirstFree DEF resourceAddStaticImage
  <2>3. \A m : m = Name => Unopened(m)'
    BY <2>1, <1>4 DEF Opening
  <2> HIDE DEF n
  <2>4. \A i \in Slot : image_path'[i] = image_path[i] \/ image_path'[i] = Name
    BY <2>1, <1>0 DEF TypeOK
  <2>5. ASSUME NEW i \in Slot
        PROVE  \A m : m = channel_id'[i] \/ m = image_path'[i] => Unopened(m)'
    BY <2>1, <2>3, <2>4, <1>2, <1>4
  <2> QED
    BY <2>1, <2>5, <1>4 DEF OpenedOnce, QueueOpensOnce, Unopened
<1>8. ASSUME NEW type \in Command, CommandIgnored(type) \/ HandlerThrows(type)
      PROVE  OpenedOnce'
  BY <1>8, <1>3, <1>4 DEF CommandIgnored, HandlerThrows
<1>9. CASE resourceDeleteStaticImage
  BY <1>9, <1>3, <1>4 DEF resourceDeleteStaticImage
<1>10. ASSUME NEW type \in {"draw", "hide"}, subscribeSidePropertyChannel(type)
       PROVE  OpenedOnce'
  BY <1>10, <1>3, <1>4 DEF subscribeSidePropertyChannel
<1>11. CASE DeleteStart
  BY <1>11, <1>3, <1>4 DEF DeleteStart
<1>12. CASE DeleteMatch \/ DeleteJoin \/ DeleteJoinNone \/ DeleteDone
  BY <1>12, <1>1, <1>3 DEF DeleteMatch, DeleteJoin, DeleteJoinNone, DeleteDone
<1>13. ASSUME NEW name \in Channel \cup Image, NEW type \in Type(name),
              telnet_push(type, name)
       PROVE  OpenedOnce'
  <2>1. UNCHANGED names
    BY <1>13 DEF telnet_push
  <2> QED
    BY <2>1, <1>0, <1>3, <1>13, PushOpening
<1>14. ASSUME NEW n \in Slot, DispatchExit(n) \/ ServiceExit(n) PROVE OpenedOnce'
  BY <1>14, <1>1, <1>3 DEF DispatchExit, ServiceExit
<1>15. CASE UNCHANGED vars
  BY <1>15, <1>1, <1>3 DEF vars
<1> QED
  BY <1>5, <1>6, <1>7, <1>8, <1>9, <1>10, <1>11, <1>12, <1>13, <1>14, <1>15
     DEF Next, Main, NoCommand

\* Nothing was ever queued.
LEMMA OpenedInit == Init => OpenedOnce
<1> SUFFICES ASSUME Init PROVE OpenedOnce
  OBVIOUS
<1>1. ipc_events = <<>> /\ DOMAIN ipc_events = {}
  BY DEF Init
<1>2. \A i \in Slot : channel_id[i] = None
  BY DEF Init
<1> QED
  BY <1>1, <1>2 DEF OpenedOnce, Unopened

\* The names on screen.
Channels == {channel_id[i] : i \in {j \in Slot : Open(j)}}
Drawn    == {channel_id[i] : i \in {j \in Slot : Open(j) /\ isDraw[j]}}
Images   == {image_path[i] : i \in {j \in Slot : instance_enum[j] = "LOCAL"}}

\* Names taken from some slots are not more than the slots.
LEMMA NamesBound ==
    ASSUME NEW S, IsFiniteSet(S), NEW f
    PROVE  LET N == {f[i] : i \in S}
           IN  /\ IsFiniteSet(N) /\ Cardinality(N) \in Nat
               /\ Cardinality(N) <= Cardinality(S)
<1> DEFINE N == {f[i] : i \in S}
           g == [i \in S |-> f[i]]
<1>1. g \in Surjection(S, N)
  <2>1. g \in [S -> N]
    OBVIOUS
  <2>2. \A n \in N : \E i \in S : g[i] = n
    OBVIOUS
  <2> HIDE DEF g, N
  <2> QED
    BY <2>1, <2>2, Fun_IsSurj
<1> HIDE DEF g
<1>2. IsFiniteSet(N) /\ Cardinality(N) <= Cardinality(S)
  <2> HIDE DEF N
  <2> QED
    BY <1>1, FS_Surjection
<1>3. Cardinality(N) \in Nat
  <2> HIDE DEF N
  <2> QED
    BY <1>2, FS_CardinalityType
<1> QED
  BY <1>2, <1>3

\* As long as a slot is free, fewer names than slots are on screen.
LEMMA FreeMeansRoom ==
    Free # {} => Cardinality(Channels) + Cardinality(Images) < Slots
<1> DEFINE S == {j \in Slot : Open(j)}
           T == {j \in Slot : instance_enum[j] = "LOCAL"}
<1>1. IsFiniteSet(Slot) /\ Cardinality(Slot) = Slots /\ Slots \in Nat
  <2>1. Slots \in Nat /\ Slots \in Int /\ 1 \in Int /\ ~(1 > Slots)
    BY SlotsAssumption
  <2> QED
    BY <2>1, FS_Interval DEF Slot
<1>2. S \cap T = {} /\ S \cup T \subseteq Slot \ Free
  BY DEF Open, Free
<1> HIDE DEF S, T
<1>3. IsFiniteSet(S) /\ IsFiniteSet(T)
  BY <1>1, <1>2, FS_Subset
<1>4. Cardinality(S \cup T) = Cardinality(S) + Cardinality(T)
  <2>1. Cardinality(S \cap T) = 0
    BY <1>2, FS_EmptySet
  <2>2. Cardinality(S) \in Nat /\ Cardinality(T) \in Nat
    BY <1>3, FS_CardinalityType
  <2>3. Cardinality(S \cup T) = Cardinality(S) + Cardinality(T) - Cardinality(S \cap T)
    BY <1>3, FS_Union
  <2> QED
    BY <2>1, <2>2, <2>3
<1>5. ASSUME Free # {} PROVE Cardinality(S \cup T) < Slots
  <2>1. S \cup T \in SUBSET Slot /\ S \cup T # Slot
    BY <1>2, <1>5 DEF Free
  <2>2. IsFiniteSet(S \cup T)
    BY <2>1, <1>1, FS_Subset
  <2>3. Cardinality(S \cup T) \in Nat
    BY <2>2, FS_CardinalityType
  <2>4. Cardinality(S \cup T) <= Cardinality(Slot) /\ Cardinality(S \cup T) # Cardinality(Slot)
    BY <2>1, <1>1, FS_Subset
  <2> QED
    BY <2>3, <2>4, <1>1
<1>6. Cardinality(Channels) \in Nat /\ Cardinality(Channels) <= Cardinality(S)
  <2>1. Channels = {channel_id[i] : i \in S}
    BY DEF Channels, S
  <2> QED
    BY <2>1, <1>3, NamesBound
<1>7. Cardinality(Images) \in Nat /\ Cardinality(Images) <= Cardinality(T)
  <2>1. Images = {image_path[i] : i \in T}
    BY DEF Images, T
  <2> QED
    BY <2>1, <1>3, NamesBound
<1>8. Cardinality(S) \in Nat /\ Cardinality(T) \in Nat
  BY <1>3, FS_CardinalityType
<1> QED
  BY <1>1, <1>4, <1>5, <1>6, <1>7, <1>8

\* No slot is in use.
LEMMA TableInit == Init => Table!Init
<1> SUFFICES ASSUME Init PROVE Table!Init
  OBVIOUS
<1>1. \A i \in Slot : ~Open(i) /\ instance_enum[i] # "LOCAL"
  BY DEF Init, Open
<1> QED
  BY <1>1 DEF Table!Init
\* Every command moves the table, or leaves it as it is.
LEMMA TableStep ==
    ASSUME Served, Ordered, OpenedOnce, [Next]_vars
    PROVE  [Table!Next]_(Table!vars)
<1> DEFINE C == Channels
           D == Drawn
           P == Images
           Move ==
             \/ \E c \in Channel \ C : Cardinality(C) + Cardinality(P) < Slots
                                     /\ C' = C \cup {c} /\ D' = D /\ P' = P
             \/ \E c \in C : C' = C \ {c} /\ D' = D \ {c} /\ P' = P
             \/ \E c \in C : D' \in {D \cup {c}, D \ {c}} /\ C' = C /\ P' = P
             \/ \E p \in Image \ P : Cardinality(C) + Cardinality(P) < Slots
                                   /\ P' = P \cup {p} /\ C' = C /\ D' = D
             \/ \E p \in P : P' = P \ {p} /\ C' = C /\ D' = D
             \/ C' = C /\ D' = D /\ P' = P
\* Cardinality is expanded where the table's own instance of it meets this one.
<1> SUFFICES Move
  <2> SUFFICES ASSUME Move PROVE [Table!Next]_(Table!vars)
    OBVIOUS
  <2>1. ASSUME NEW c \in Channel \ C, Cardinality(C) + Cardinality(P) < Slots,
               C' = C \cup {c}, D' = D, P' = P
        PROVE  Table!Open
    <3>1. Table!Room
      BY <2>1, Zenon DEF Table!Room, Channels, Images, Cardinality, Table!Cardinality
    <3> HIDE DEF Table!Room
    <3> QED
      BY <2>1, <3>1 DEF Table!Open, Channels, Drawn, Images
  <2>2. ASSUME NEW c \in C, C' = C \ {c}, D' = D \ {c}, P' = P PROVE Table!Close
    BY <2>2 DEF Table!Close, Channels, Drawn, Images
  <2>3. ASSUME NEW c \in C, D' \in {D \cup {c}, D \ {c}}, C' = C, P' = P PROVE Table!Draw
    BY <2>3 DEF Table!Draw, Channels, Drawn, Images
  <2>4. ASSUME NEW p \in Image \ P, Cardinality(C) + Cardinality(P) < Slots,
               P' = P \cup {p}, C' = C, D' = D
        PROVE  Table!Show
    <3>1. Table!Room
      BY <2>4, Zenon DEF Table!Room, Channels, Images, Cardinality, Table!Cardinality
    <3> HIDE DEF Table!Room
    <3> QED
      BY <2>4, <3>1 DEF Table!Show, Channels, Drawn, Images
  <2>5. ASSUME NEW p \in P, P' = P \ {p}, C' = C, D' = D PROVE Table!Hide
    BY <2>5 DEF Table!Hide, Channels, Drawn, Images
  <2>6. ASSUME C' = C, D' = D, P' = P PROVE UNCHANGED Table!vars
    BY <2>6 DEF Table!vars, Channels, Drawn, Images
  <2> HIDE DEF C, D, P
  <2> QED
    BY <2>1, <2>2, <2>3, <2>4, <2>5, <2>6 DEF Table!Next
<1>0. TypeOK /\ PendingShown /\ TargetOpen /\ ClosedOnce
  BY DEF Served, Ordered
\* Membership, slot by slot.
<1>c. /\ \A c : c \in C <=> \E i \in Slot : instance_enum[i] = "00" /\ channel_id[i] = c
      /\ \A c : c \in C' <=> \E i \in Slot : instance_enum'[i] = "00" /\ channel_id'[i] = c
  BY DEF Channels, Open
<1>d. /\ \A c : c \in D <=> \E i \in Slot : /\ instance_enum[i] = "00" /\ isDraw[i]
                                          /\ channel_id[i] = c
      /\ \A c : c \in D' <=> \E i \in Slot : /\ instance_enum'[i] = "00" /\ isDraw'[i]
                                           /\ channel_id'[i] = c
  BY DEF Drawn, Open
<1>p. /\ \A c : c \in P <=> \E i \in Slot : instance_enum[i] = "LOCAL" /\ image_path[i] = c
      /\ \A c : c \in P' <=> \E i \in Slot : instance_enum'[i] = "LOCAL" /\ image_path'[i] = c
  BY DEF Images
<1>r. Free # {} => Cardinality(C) + Cardinality(P) < Slots
  BY FreeMeansRoom
<1> HIDE DEF C, D, P
<1> USE DEF operator, control, names, threads, external
<1>u. ASSUME UNCHANGED <<instance_enum, names, isDraw>> PROVE C' = C /\ D' = D /\ P' = P
  <2>1. UNCHANGED <<instance_enum, channel_id, image_path, isDraw>>
    BY <1>u
  <2>2. C' = C
    BY <2>1 DEF C, Channels, Open
  <2>3. D' = D
    BY <2>1 DEF D, Drawn, Open
  <2>4. P' = P
    BY <2>1 DEF P, Images
  <2> QED
    BY <2>2, <2>3, <2>4
<1>n. ASSUME NEW i \in Slot, NEW j \in Slot, channel_id[i] = channel_id[j], channel_id[i] # None
      PROVE  i = j
  BY <1>n DEF OpenedOnce
<1>o. ASSUME NEW type, Take(type), Opening(type)
      PROVE  \A i \in Slot : channel_id[i] # Name /\ image_path[i] # Name
  <2>1. ipc_events # <<>> /\ ipc_events' = Tail(ipc_events) /\ Opening(Head(ipc_events).type)
    BY <1>o DEF Take
  <2>2. \A n : n = Name => ~Unopened(n)
    BY <2>1, <1>0, PopOpening DEF OpenedOnce, QueueOpensOnce
  <2> QED
    BY <2>2 DEF OpenedOnce
<1>1. CASE subscribeSideAddChannel
  <2> DEFINE n == First(Free)
  <2>1. /\ n \in Slot /\ instance_enum[n] = "MIN"
        /\ instance_enum' = [instance_enum EXCEPT ![n] = "00"]
        /\ isDraw' = [isDraw EXCEPT ![n] = FALSE]
        /\ channel_id' = [channel_id EXCEPT ![n] = Name]
        /\ image_path' = image_path /\ Take("add") /\ Free # {}
    BY <1>1, FirstFree DEF subscribeSideAddChannel
  <2>2. Name \in Channel
    BY <2>1, <1>0, TakeFacts
  <2>3. Name \notin C
    BY <2>1, <1>o, <1>c DEF Opening
  <2> HIDE DEF n
  <2>4. /\ instance_enum'[n] = "00" /\ channel_id'[n] = Name /\ ~isDraw'[n]
        /\ \A i \in Slot : i # n => /\ instance_enum'[i] = instance_enum[i]
                                   /\ channel_id'[i] = channel_id[i] /\ isDraw'[i] = isDraw[i]
    BY <2>1, <1>0 DEF TypeOK
  <2>5. C' = C \cup {Name}
    BY <2>1, <2>4, <1>c
  <2>6. D' = D
    BY <2>1, <2>4, <1>d
  <2>7. P' = P
    BY <2>1, <2>4, <1>p
  <2> QED
    BY <2>1, <2>2, <2>3, <2>5, <2>6, <2>7, <1>r
<1>2. CASE AddAssignsJoinable \/ AddReadsFreedImage
  BY <1>2, <1>u DEF AddAssignsJoinable, AddReadsFreedImage
<1>11. ASSUME NEW type \in Command, CommandIgnored(type) \/ HandlerThrows(type)
       PROVE  Move
  BY <1>11, <1>u DEF CommandIgnored, HandlerThrows
<1>3. CASE resourceAddStaticImage
  <2> DEFINE n == First(Free)
  <2>1. /\ n \in Slot /\ instance_enum[n] = "MIN"
        /\ instance_enum' = [instance_enum EXCEPT ![n] = "LOCAL"]
        /\ isDraw' = [isDraw EXCEPT ![n] = TRUE]
        /\ image_path' = [image_path EXCEPT ![n] = Name]
        /\ channel_id' = channel_id /\ Take("addImage") /\ Free # {}
    BY <1>3, FirstFree DEF resourceAddStaticImage
  <2>2. Name \in Image
    BY <2>1, <1>0, TakeFacts
  <2>3. Name \notin P
    BY <2>1, <1>o, <1>p DEF Opening
  <2> HIDE DEF n
  <2>4. /\ instance_enum'[n] = "LOCAL" /\ image_path'[n] = Name
        /\ \A i \in Slot : i # n => /\ instance_enum'[i] = instance_enum[i]
                                   /\ image_path'[i] = image_path[i] /\ isDraw'[i] = isDraw[i]
    BY <2>1, <1>0 DEF TypeOK
  <2>5. P' = P \cup {Name}
    BY <2>1, <2>4, <1>p
  <2>6. D' = D
    BY <2>1, <2>4, <1>d
  <2>7. C' = C
    BY <2>1, <2>4, <1>c
  <2> QED
    BY <2>1, <2>2, <2>3, <2>5, <2>6, <2>7, <1>r
<1>4. CASE resourceDeleteStaticImage
  <2> DEFINE Hit == {i \in Slot : image_path[i] = Name}
  <2>1. /\ isDraw' = [i \in Slot |-> isDraw[i] /\ i \notin Hit]
        /\ instance_enum' = [i \in Slot |-> IF i \in Hit THEN "MIN" ELSE instance_enum[i]]
        /\ UNCHANGED <<names, operator>> /\ Take("deleteImage")
    BY <1>4 DEF resourceDeleteStaticImage
  <2>2. \A m : m = Name => Pending(m)
    BY <2>1, <1>0, PopPending DEF Take, Closing
  <2>3. \A i \in Slot : i \in Hit <=> image_path[i] = Name
    OBVIOUS
  <2> HIDE DEF Hit
  <2>4. \A i \in Slot : image_path[i] = Name => instance_enum[i] = "LOCAL"
    BY <2>2, <1>0 DEF PendingShown
  <2>5. \A i \in Slot : IF image_path[i] = Name
                         THEN instance_enum[i] = "LOCAL" /\ instance_enum'[i] = "MIN"
                         ELSE instance_enum'[i] = instance_enum[i] /\ (isDraw'[i] <=> isDraw[i])
    BY <2>1, <2>3, <2>4
  <2>6. C' = C
    <3>1. \A i \in Slot : instance_enum'[i] = "00" <=> instance_enum[i] = "00"
      BY <2>5
    <3>2. channel_id' = channel_id
      BY <2>1
    <3> QED
      BY <3>1, <3>2, <1>c
  <2>7. D' = D
    BY <2>1, <2>5, <1>d
  <2>8. P' = P \ {Name}
    BY <2>1, <2>5, <1>p
  <2> QED
    BY <2>6, <2>7, <2>8
<1>5. ASSUME NEW type \in {"draw", "hide"}, subscribeSidePropertyChannel(type)
      PROVE  Move
  <2> DEFINE Hit == {i \in Slot : channel_id[i] = Name}
             n == First(Hit)
  <2>1. /\ isDraw' = [i \in Slot |-> IF Hit # {} /\ i = n THEN type = "draw" ELSE isDraw[i]]
        /\ UNCHANGED <<instance_enum, names>> /\ Take(type)
    BY <1>5 DEF subscribeSidePropertyChannel
  <2>2. Name \in Channel /\ Name # None
    BY <2>1, <1>0, TakeFacts, NameAssumption
  <2>3. Hit # {} => n \in Slot /\ channel_id[n] = Name
    <3>1. Hit \in SUBSET Nat /\ \A i \in Hit : i > 0
      BY DEF Slot
    <3> QED
      BY <3>1, FirstFacts
  <2> HIDE DEF Hit, n
  <2>4. C' = C /\ P' = P
    <3>1. UNCHANGED <<instance_enum, channel_id, image_path>>
      BY <2>1
    <3>2. C' = C
      BY <3>1, <1>c
    <3>3. P' = P
      BY <3>1, <1>p
    <3> QED
      BY <3>2, <3>3
  <2>5. CASE Hit # {} /\ instance_enum[n] = "00"
    <3>1. \A i \in Slot : i # n => channel_id[i] # Name /\ (isDraw'[i] <=> isDraw[i])
      BY <2>1, <2>2, <2>3, <2>5, <1>n
    <3>2. isDraw'[n] <=> type = "draw"
      BY <2>1, <2>3, <2>5
    <3>3. Name \in C
      BY <2>3, <2>5, <1>c
    <3>4. CASE type = "draw"
      <4>1. D' = D \cup {Name}
        BY <2>1, <2>3, <2>5, <3>1, <3>2, <3>4, <1>d
      <4> QED
        BY <4>1, <3>3, <2>4
    <3>5. CASE type # "draw"
      <4>1. D' = D \ {Name}
        BY <2>1, <2>3, <2>5, <3>1, <3>2, <3>5, <1>d
      <4> QED
        BY <4>1, <3>3, <2>4
    <3> QED
      BY <3>4, <3>5
  <2>6. CASE ~(Hit # {} /\ instance_enum[n] = "00")
    <3>1. \A i \in Slot : instance_enum[i] = "00" => (isDraw'[i] <=> isDraw[i])
      BY <2>1, <2>6
    <3>2. D' = D
      BY <2>1, <3>1, <1>d
    <3> QED
      BY <3>2, <2>4
  <2> QED
    BY <2>5, <2>6
<1>6. CASE DeleteMatch
  <2> DEFINE n == First(Matching)
  <2>1. /\ instance_enum' = [instance_enum EXCEPT ![n] = "MIN"]
        /\ isDraw' = [isDraw EXCEPT ![n] = FALSE]
        /\ UNCHANGED names /\ pc = "scan"
    BY <1>6 DEF DeleteMatch
  <2>2. n \in Slot /\ n \in at..Slots /\ channel_id[n] = target
    BY <1>0, <1>6, FirstMatching DEF DeleteMatch
  <2> HIDE DEF n
  <2>3. instance_enum[n] = "00" /\ target \in used /\ target # None
    BY <2>1, <2>2, <1>0, NameAssumption DEF TargetOpen, Open, TypeOK
  <2>4. /\ instance_enum'[n] = "MIN"
        /\ \A i \in Slot : i # n => /\ instance_enum'[i] = instance_enum[i]
                                   /\ isDraw'[i] = isDraw[i] /\ channel_id[i] # target
    BY <2>1, <2>2, <2>3, <1>0, <1>n DEF TypeOK
  <2>5. C' = C \ {target} /\ target \in C
    BY <2>1, <2>2, <2>3, <2>4, <1>c
  <2>6. D' = D \ {target}
    BY <2>1, <2>2, <2>3, <2>4, <1>d
  <2>7. P' = P
    BY <2>1, <2>3, <2>4, <1>p
  <2> QED
    BY <2>5, <2>6, <2>7
<1>7. CASE DeleteStart \/ DeleteJoin \/ DeleteJoinNone \/ DeleteDone
  BY <1>7, <1>u DEF DeleteStart, DeleteJoin, DeleteJoinNone, DeleteDone
<1>8. ASSUME NEW name \in Channel \cup Image, NEW type \in Type(name),
             telnet_push(type, name)
      PROVE  Move
  BY <1>8, <1>u DEF telnet_push
<1>9. ASSUME NEW n \in Slot, DispatchExit(n) \/ ServiceExit(n) PROVE Move
  BY <1>9, <1>u DEF DispatchExit, ServiceExit
<1>10. CASE UNCHANGED vars
  BY <1>10, <1>u DEF vars
<1> QED
  BY <1>1, <1>2, <1>3, <1>4, <1>5, <1>6, <1>7, <1>8, <1>9, <1>10, <1>11
     DEF Next, Main, NoCommand

\* To an operator who opens a name once and closes what is open, the slots with their
\* scans and joins are a table of names.
THEOREM TableImplemented == Paired /\ FreshNames => (Spec => TableSpec)
<1> SUFFICES ASSUME Paired, FreshNames PROVE Spec => TableSpec
  OBVIOUS
<1> DEFINE TInv == Served /\ Ordered /\ OpenedOnce
<1>1. Init => TInv
  BY ServedInit, OrderedInit, OpenedInit
<1>2. TInv /\ [Next]_vars => TInv'
  BY ServedStep, OrderedStep, OpenedStep
<1>3. Init => Table!Init
  BY TableInit
<1>4. TInv /\ [Next]_vars => [Table!Next]_(Table!vars)
  BY TableStep
<1> HIDE DEF TInv
<1> QED
  BY <1>1, <1>2, <1>3, <1>4, PTL DEF Spec, TableSpec, Table!Spec

----------------------------------------------------------------------------
(* What goes wrong for others goes right for that operator.                 *)

\* A slot that is no open channel owns nothing of one, but for the one being joined;
\* free, it owns no texture either.
ClosedReleased ==
    \A i \in Slot : ~Open(i) /\ ~(pc = "join" /\ at = i) =>
        /\ dispatch[i] = "none" /\ service[i] = "none"
        /\ context[i] # "live" /\ webrtc[i] # "live"
        /\ instance_enum[i] = "MIN" => ~texture[i]

\* A delete names an image that is shown, and frees no slot with threads.
LEMMA ReleasedStep ==
    ASSUME Served, Ordered, ClosedReleased, [Next]_vars
    PROVE  ClosedReleased'
<1>0. TypeOK
  BY DEF Served
<1> USE DEF operator, control, names, threads, external, Open
<1>a. ASSUME UNCHANGED <<instance_enum, threads, external, texture>>,
             pc' = pc \/ (pc # "join" /\ pc' # "join"),
             pc = "join" => at' = at
      PROVE  ClosedReleased'
  BY <1>a DEF ClosedReleased
<1>1. CASE subscribeSideAddChannel
  <2> DEFINE n == First(Free)
  <2>1. /\ instance_enum' = [instance_enum EXCEPT ![n] = "00"]
        /\ dispatch' = [dispatch EXCEPT ![n] = "running"]
        /\ service' = [service EXCEPT ![n] = "running"]
        /\ context' = [context EXCEPT ![n] = "live"]
        /\ webrtc' = [webrtc EXCEPT ![n] = "live"]
        /\ texture' = [texture EXCEPT ![n] = TRUE]
        /\ pc = "loop" /\ pc' = "loop"
    BY <1>1 DEF subscribeSideAddChannel, Take
  <2>2. n \in Slot
    BY <1>1, FirstFree DEF subscribeSideAddChannel
  <2> HIDE DEF n
  <2> QED
    BY <2>1, <2>2, <1>0 DEF ClosedReleased, TypeOK
<1>2. CASE AddAssignsJoinable \/ AddReadsFreedImage
  BY <1>2, <1>a DEF AddAssignsJoinable, AddReadsFreedImage, Take
<1>14. ASSUME NEW type \in Command, CommandIgnored(type) \/ HandlerThrows(type)
       PROVE  ClosedReleased'
  BY <1>14, <1>a DEF CommandIgnored, HandlerThrows, Take
<1>3. CASE resourceAddStaticImage
  <2> DEFINE n == First(Free)
  <2>1. /\ instance_enum' = [instance_enum EXCEPT ![n] = "LOCAL"]
        /\ texture' = [texture EXCEPT ![n] = TRUE]
        /\ UNCHANGED <<threads, external>>
        /\ pc = "loop" /\ pc' = "loop"
    BY <1>3 DEF resourceAddStaticImage, Take
  <2>2. n \in Slot /\ instance_enum[n] = "MIN"
    BY <1>3, FirstFree DEF resourceAddStaticImage
  <2> HIDE DEF n
  <2> QED
    BY <2>1, <2>2, <1>0 DEF ClosedReleased, TypeOK
<1>4. CASE resourceDeleteStaticImage
  <2> DEFINE Hit == {i \in Slot : image_path[i] = Name}
  <2>1. /\ instance_enum' = [i \in Slot |-> IF i \in Hit THEN "MIN" ELSE instance_enum[i]]
        /\ texture' = [i \in Slot |-> texture[i] /\ i \notin Hit]
        /\ UNCHANGED <<threads, external>>
        /\ pc = "loop" /\ pc' = "loop" /\ Take("deleteImage")
    BY <1>4 DEF resourceDeleteStaticImage, Take
  <2>2. Closing(Head(ipc_events)) /\ ipc_events # <<>> /\ ipc_events' = Tail(ipc_events)
    BY <2>1 DEF Take, Closing
  <2>3. UNCHANGED operator
    BY <1>4 DEF resourceDeleteStaticImage
  <2>4. \A m : m = Name => Pending(m)
    BY <1>0, <2>2, <2>3, PopPending DEF Ordered
  <2>5. ASSUME NEW i \in Hit PROVE instance_enum[i] = "LOCAL"
    <3>1. Pending(image_path[i])
      BY <2>4
    <3> QED
      BY <3>1 DEF Ordered, PendingShown
  <2> HIDE DEF Hit
  <2>6. ASSUME NEW i \in Slot, ~Open(i)' PROVE ~Open(i)
    BY <2>1, <2>5, <2>6, <1>0 DEF TypeOK
  <2>7. ASSUME NEW i \in Slot, instance_enum'[i] = "MIN" PROVE instance_enum[i] = "MIN" \/ ~texture'[i]
    BY <2>1, <2>7
  <2>8. ASSUME NEW i \in Slot, texture'[i] PROVE texture[i]
    BY <2>1, <2>8
  <2> QED
    BY <2>1, <2>6, <2>7, <2>8 DEF ClosedReleased
<1>5. ASSUME NEW type \in {"draw", "hide"}, subscribeSidePropertyChannel(type)
      PROVE  ClosedReleased'
  BY <1>5, <1>a DEF subscribeSidePropertyChannel, Take
<1>6. CASE DeleteStart
  <2>1. pc = "loop" /\ pc' = "scan"
    BY <1>6 DEF DeleteStart, Take
  <2> QED
    BY <1>6, <2>1, <1>a DEF DeleteStart
<1>7. CASE DeleteMatch
  <2> DEFINE n == First(Matching)
  <2>1. /\ instance_enum' = [instance_enum EXCEPT ![n] = "MIN"]
        /\ at' = n /\ pc = "scan" /\ pc' = "join"
        /\ UNCHANGED <<threads, external, texture>>
    BY <1>7 DEF DeleteMatch
  <2>2. n \in Slot
    BY <1>7, <1>0, FirstMatching DEF DeleteMatch
  <2> HIDE DEF n
  <2> QED
    BY <2>1, <2>2, <1>0 DEF ClosedReleased, TypeOK
<1>8. CASE DeleteJoin
  <2>1. /\ dispatch' = [dispatch EXCEPT ![at] = "none"]
        /\ service' = [service EXCEPT ![at] = "none"]
        /\ context' = [context EXCEPT ![at] = "destroyed"]
        /\ webrtc' = [webrtc EXCEPT ![at] = "destroyed"]
        /\ texture' = [texture EXCEPT ![at] = FALSE]
        /\ UNCHANGED instance_enum
        /\ pc = "join" /\ pc' = "scan"
    BY <1>8 DEF DeleteJoin
  <2> QED
    BY <2>1, <1>0 DEF ClosedReleased, TypeOK
<1>9. CASE DeleteJoinNone
  BY <1>9, <1>a DEF DeleteJoinNone
<1>10. CASE DeleteDone
  BY <1>10, <1>a DEF DeleteDone
<1>11. ASSUME NEW name \in Channel \cup Image, NEW type \in Type(name),
              telnet_push(type, name)
       PROVE  ClosedReleased'
  BY <1>11, <1>a DEF telnet_push
<1>12. ASSUME NEW n \in Slot, DispatchExit(n) \/ ServiceExit(n) PROVE ClosedReleased'
  <2>1. /\ dispatch[n] = "running" \/ service[n] = "running"
        /\ \A i \in Slot \ {n} : dispatch'[i] = dispatch[i] /\ service'[i] = service[i]
        /\ UNCHANGED <<instance_enum, pc, at, external, texture>>
    BY <1>12, <1>0 DEF DispatchExit, ServiceExit, TypeOK
  <2>2. Open(n) \/ (pc = "join" /\ at = n)
    BY <2>1 DEF ClosedReleased
  <2> QED
    BY <2>1, <2>2 DEF ClosedReleased
<1>13. CASE UNCHANGED vars
  BY <1>13, <1>a DEF vars
<1> QED
  BY <1>1, <1>2, <1>3, <1>4, <1>5, <1>6, <1>7, <1>8, <1>9, <1>10, <1>11, <1>12, <1>13, <1>14
     DEF Next, Main, NoCommand

\* With a name that is opened once, and closed and changed only while it is open,
\* nothing is left in a slot that is free, images or not.
THEOREM FreshSlotsReleased == Paired /\ FreshNames => (Spec => []FreeSlotsReleased)
<1> SUFFICES ASSUME Paired, FreshNames PROVE Spec => []FreeSlotsReleased
  OBVIOUS
<1> DEFINE RInv == Served /\ Ordered /\ ClosedReleased
<1>1. Init => RInv
  <2>1. Init => ClosedReleased
    BY DEF Init, ClosedReleased
  <2> QED
    BY <2>1, ServedInit, OrderedInit
<1>2. RInv /\ [Next]_vars => RInv'
  BY ServedStep, OrderedStep, ReleasedStep
<1>3. RInv => FreeSlotsReleased
  BY DEF ClosedReleased, FreeSlotsReleased, Free, Open
<1> QED
  BY <1>1, <1>2, <1>3, PTL DEF Spec

\* The comment in subscribeSideDeleteChannel is right about names that are fresh: a
\* delete finds the threads it stops.
THEOREM FreshDeletesStop == Paired /\ FreshNames => (Spec => []DeleteStopsAChannel)
<1> SUFFICES ASSUME Paired, FreshNames PROVE Spec => []DeleteStopsAChannel
  OBVIOUS
<1>1. Init => Served /\ Ordered
  BY ServedInit, OrderedInit
<1>2. Served /\ Ordered /\ [Next]_vars => (Served /\ Ordered)'
  BY ServedStep, OrderedStep
<1>3. Ordered => DeleteStopsAChannel
  BY DEF Ordered, TargetOpen, DeleteStopsAChannel
<1> QED
  BY <1>1, <1>2, <1>3, PTL DEF Spec

\* So is the one in subscribeSidePropertyChannel: one slot bears the name.
THEOREM FreshPropertiesFind == Paired /\ FreshNames => (Spec => []PropertyFindsItsChannel)
<1> SUFFICES ASSUME Paired, FreshNames PROVE Spec => []PropertyFindsItsChannel
  OBVIOUS
<1> DEFINE FInv == Served /\ Ordered /\ OpenedOnce
<1>1. Init => FInv
  BY ServedInit, OrderedInit, OpenedInit
<1>2. FInv /\ [Next]_vars => FInv'
  BY ServedStep, OrderedStep, OpenedStep
<1>3. FInv => PropertyFindsItsChannel
  <2> SUFFICES ASSUME TypeOK, OpenedOnce, ipc_events # <<>>,
                      Head(ipc_events).type \in {"draw", "hide"},
                      NEW i \in Slot, channel_id[i] = Name, Open(i)
               PROVE  Open(First({j \in Slot : channel_id[j] = Name}))
    BY DEF Served, PropertyFindsItsChannel
  <2> DEFINE Hit == {j \in Slot : channel_id[j] = Name}
  <2>1. Name # None
    <3>1. Head(ipc_events) \in Event
      BY HeadTailProperties DEF TypeOK
    <3> QED
      BY <3>1, NameAssumption DEF Event, Name
  <2>2. \A j \in Hit : j = i
    BY <2>1 DEF OpenedOnce
  <2>3. Hit \in SUBSET Nat /\ Hit # {} /\ \A j \in Hit : j > 0
    BY DEF Slot
  <2> HIDE DEF Hit
  <2>4. First(Hit) = i
    BY <2>2, <2>3, FirstFacts
  <2> QED
    BY <2>4 DEF Hit
<1> QED
  BY <1>1, <1>2, <1>3, PTL DEF Spec

----------------------------------------------------------------------------
(* A console for channels only, once more: whatever it sends.               *)

\* No channel is open behind a free slot that bears its name, unless the delete of the
\* name is on its way to it.
FreeBehindOpen ==
    \A i, j \in Slot :
        i < j /\ channel_id[i] = channel_id[j] /\ Open(j) /\ ~Open(i)
          => pc # "loop" /\ channel_id[j] = target /\ j >= at

\* The process runs, was ended by a handler that threw, or found no thread to join.
EndAllowed == /\ ended \in {"no", "joined", "thrown"}
              /\ ended = "joined" => pc = "join" /\ dispatch[at] = "none"

\* No slot shows an image.
ChannelsOnly ==
    /\ \A i \in Slot : instance_enum[i] # "LOCAL"
    /\ FreeBehindOpen
    /\ EndAllowed

LEMMA ChannelsInit == Init => ChannelsOnly
  BY DEF Init, ChannelsOnly, FreeBehindOpen, EndAllowed, Open

\* Steps that neither open nor close a channel.
LEMMA ChannelsFrame ==
    ASSUME ChannelsOnly, UNCHANGED <<instance_enum, channel_id>>,
           UNCHANGED <<at, target>> \/ pc = "loop", pc' = "loop" => pc = "loop"
    PROVE  /\ \A i \in Slot : instance_enum'[i] # "LOCAL"
           /\ FreeBehindOpen'
<1>1. \A i \in Slot : instance_enum'[i] # "LOCAL"
  BY DEF ChannelsOnly
<1>2. ASSUME NEW i \in Slot, NEW j \in Slot, i < j, channel_id'[i] = channel_id'[j],
             Open(j)', ~Open(i)'
      PROVE  pc' # "loop" /\ channel_id'[j] = target' /\ j >= at'
  <2>1. pc # "loop" /\ channel_id[j] = target /\ j >= at
    BY <1>2 DEF ChannelsOnly, FreeBehindOpen, Open
  <2> QED
    BY <2>1
<1> QED
  BY <1>1, <1>2 DEF FreeBehindOpen

\* An add takes the first free slot: all before it are open.  A delete goes through the
\* slots upwards.
LEMMA ChannelsStep ==
    ASSUME Served, Clean, Asked, NoImages, ChannelsOnly, [Next]_vars
    PROVE  ChannelsOnly'
<1>0. TypeOK
  BY DEF Served
<1> USE DEF operator, control, names, threads, external
<1>a. ASSUME UNCHANGED <<instance_enum, channel_id>>,
             UNCHANGED <<at, target>> \/ pc = "loop", pc' = "loop" => pc = "loop",
             EndAllowed'
      PROVE  ChannelsOnly'
  BY <1>a, ChannelsFrame DEF ChannelsOnly
<1>1. CASE subscribeSideAddChannel
  <2> DEFINE n == First(Free)
  <2>1. /\ instance_enum' = [instance_enum EXCEPT ![n] = "00"]
        /\ channel_id' = [channel_id EXCEPT ![n] = Name]
        /\ pc = "loop" /\ pc' = "loop" /\ EndAllowed'
    BY <1>1 DEF subscribeSideAddChannel, Take, alive, EndAllowed
  <2>2. n \in Slot
    BY <1>1, FirstFree DEF subscribeSideAddChannel
  <2>3. ASSUME NEW i \in Slot, i < n PROVE Open(i)
    <3>1. Free \in SUBSET Nat /\ Free # {} /\ \A j \in Free : j > 0
      BY <1>1 DEF subscribeSideAddChannel, Free, Slot
    <3>2. \A j \in Free : n <= j
      BY <3>1, FirstFacts
    <3>3. i \notin Free
      BY <2>2, <2>3, <3>2 DEF Slot, Free
    <3>4. instance_enum[i] \in {"MIN", "00", "LOCAL"} /\ instance_enum[i] # "LOCAL"
      BY <1>0 DEF TypeOK, ChannelsOnly
    <3> QED
      BY <3>3, <3>4 DEF Free, Open
  <2> HIDE DEF n
  <2>4. /\ \A i \in Slot : i # n => instance_enum'[i] = instance_enum[i] /\ channel_id'[i] = channel_id[i]
        /\ instance_enum'[n] = "00"
    BY <2>1, <2>2, <1>0 DEF TypeOK
  <2>5. ASSUME NEW i \in Slot, NEW j \in Slot, i < j, channel_id'[i] = channel_id'[j],
               Open(j)', ~Open(i)'
        PROVE  FALSE
    <3>1. i # n /\ ~Open(i)
      BY <2>4, <2>5 DEF Open
    <3>2. j # n
      BY <2>3, <2>5, <3>1
    <3> QED
      BY <2>1, <2>4, <2>5, <3>1, <3>2 DEF ChannelsOnly, FreeBehindOpen, Open
  <2>6. \A i \in Slot : instance_enum'[i] # "LOCAL"
    BY <2>4 DEF ChannelsOnly
  <2> QED
    BY <2>1, <2>5, <2>6 DEF ChannelsOnly, FreeBehindOpen
<1>2. CASE AddAssignsJoinable \/ AddReadsFreedImage
  <2>1. First(Free) \in Slot /\ instance_enum[First(Free)] = "MIN" /\ pc = "loop"
    BY <1>2, FirstFree DEF AddAssignsJoinable, AddReadsFreedImage, Take
  <2>2. dispatch[First(Free)] = "none" /\ service[First(Free)] = "none"
        /\ image_path[First(Free)] = None
    BY <2>1 DEF Clean, IdleReleased, Idle, NoPaths
  <2> QED
    BY <1>2, <2>2 DEF AddAssignsJoinable, AddReadsFreedImage
<1>3. CASE resourceAddStaticImage
  BY <1>0, <1>3, NoImageAdded
<1>4. ASSUME NEW type \in Command, CommandIgnored(type) \/ HandlerThrows(type)
      PROVE  ChannelsOnly'
  BY <1>4, <1>a DEF CommandIgnored, HandlerThrows, Take, alive, EndAllowed
<1>5. CASE resourceDeleteStaticImage
  <2> DEFINE Hit == {i \in Slot : image_path[i] = Name}
  <2>1. Name \in Image /\ pc = "loop" /\ pc' = pc /\ at' = at /\ target' = target /\ EndAllowed'
        /\ channel_id' = channel_id
    BY <1>0, <1>5, TakeFacts DEF resourceDeleteStaticImage, Take, alive, EndAllowed
  <2>2. Hit = {}
    BY <2>1, NameAssumption DEF Clean, NoPaths
  <2>3. instance_enum' = [i \in Slot |-> IF i \in Hit THEN "MIN" ELSE instance_enum[i]]
    BY <1>5 DEF resourceDeleteStaticImage
  <2> HIDE DEF Hit
  <2>4. instance_enum' = instance_enum
    BY <2>2, <2>3, <1>0 DEF TypeOK
  <2> QED
    BY <2>1, <2>4, <1>a
<1>6. ASSUME NEW type \in {"draw", "hide"}, subscribeSidePropertyChannel(type)
      PROVE  ChannelsOnly'
  BY <1>6, <1>a DEF subscribeSidePropertyChannel, Take, alive, EndAllowed
<1>7. CASE DeleteStart
  BY <1>7, <1>a DEF DeleteStart, Take, alive, EndAllowed
<1>8. CASE DeleteMatch
  <2> DEFINE n == First(Matching)
  <2>1. /\ instance_enum' = [instance_enum EXCEPT ![n] = "MIN"]
        /\ at' = n /\ pc = "scan" /\ pc' = "join" /\ EndAllowed'
        /\ UNCHANGED <<channel_id, target>>
    BY <1>8 DEF DeleteMatch, alive, EndAllowed
  <2>2. n \in Slot /\ channel_id[n] = target
    BY <1>8, <1>0, FirstMatching DEF DeleteMatch
  <2>3. \A j \in Slot : channel_id[j] = target /\ j >= at => j >= n
    <3>1. at \in Nat /\ at > 0 /\ Slots \in Nat
      BY <1>0, SlotsAssumption DEF TypeOK
    <3>2. Matching \in SUBSET Nat /\ Matching # {} /\ \A i \in Matching : i > 0
      BY <1>8, <3>1 DEF DeleteMatch, Matching
    <3>3. \A j \in Matching : n <= j
      BY <3>2, FirstFacts
    <3>4. \A j \in Slot : channel_id[j] = target /\ j >= at => j \in Matching
      BY <3>1 DEF Slot, Matching
    <3>5. n \in Nat /\ Slot \subseteq Nat
      BY <2>2 DEF Slot
    <3> HIDE DEF n
    <3> QED
      BY <3>3, <3>4, <3>5
  <2> HIDE DEF n
  <2>4. /\ \A i \in Slot : i # n => instance_enum'[i] = instance_enum[i]
        /\ instance_enum'[n] = "MIN"
    BY <2>1, <2>2, <1>0 DEF TypeOK
  <2>5. ASSUME NEW i \in Slot, NEW j \in Slot, i < j, channel_id'[i] = channel_id'[j],
               Open(j)', ~Open(i)'
        PROVE  channel_id'[j] = target' /\ j >= at'
    <3>1. j # n /\ Open(j) /\ channel_id[i] = channel_id[j]
      BY <2>1, <2>4, <2>5 DEF Open
    <3>2. CASE i = n
      BY <2>1, <2>2, <2>5, <3>1, <3>2 DEF Slot
    <3>3. CASE i # n
      <4>1. channel_id[j] = target /\ j >= at
        BY <2>4, <2>5, <3>1, <3>3 DEF ChannelsOnly, FreeBehindOpen, Open
      <4> QED
        BY <2>1, <2>3, <4>1
    <3> QED
      BY <3>2, <3>3
  <2>6. \A i \in Slot : instance_enum'[i] # "LOCAL"
    BY <2>4 DEF ChannelsOnly
  <2> QED
    BY <2>1, <2>5, <2>6 DEF ChannelsOnly, FreeBehindOpen
<1>9. CASE DeleteJoin
  <2>1. /\ UNCHANGED <<instance_enum, channel_id, target>>
        /\ pc = "join" /\ pc' = "scan" /\ at' = at + 1 /\ EndAllowed'
    BY <1>9 DEF DeleteJoin, alive, EndAllowed
  <2>2. at \in Slot /\ ~Open(at)
    BY <2>1 DEF Served, JoinsClosed
  <2>3. ASSUME NEW i \in Slot, NEW j \in Slot, i < j, channel_id'[i] = channel_id'[j],
               Open(j)', ~Open(i)'
        PROVE  channel_id'[j] = target' /\ j >= at'
    <3>1. channel_id[j] = target /\ j >= at /\ Open(j)
      BY <2>1, <2>3 DEF ChannelsOnly, FreeBehindOpen, Open
    <3>2. j # at
      BY <2>2, <3>1
    <3> QED
      BY <2>1, <2>2, <3>1, <3>2 DEF Slot
  <2>4. \A i \in Slot : instance_enum'[i] # "LOCAL"
    BY <2>1 DEF ChannelsOnly
  <2> QED
    BY <2>1, <2>3, <2>4 DEF ChannelsOnly, FreeBehindOpen
<1>10. CASE DeleteJoinNone
  BY <1>10, <1>a DEF DeleteJoinNone, EndAllowed
<1>11. CASE DeleteDone
  <2>1. /\ UNCHANGED <<instance_enum, channel_id>> /\ EndAllowed'
        /\ pc' = "loop" /\ Matching = {}
    BY <1>11 DEF DeleteDone, alive, EndAllowed
  <2>2. ASSUME NEW i \in Slot, NEW j \in Slot, i < j, channel_id[i] = channel_id[j],
               Open(j), ~Open(i)
        PROVE  FALSE
    <3>1. channel_id[j] = target /\ j >= at
      BY <2>2 DEF ChannelsOnly, FreeBehindOpen
    <3>2. j \in at..Slots
      BY <3>1, <1>0, SlotsAssumption DEF TypeOK, Slot
    <3> QED
      BY <2>1, <3>1, <3>2 DEF Matching
  <2> QED
    BY <2>1, <2>2 DEF ChannelsOnly, FreeBehindOpen, Open
<1>12. ASSUME NEW name \in Channel \cup Image, NEW type \in Type(name),
              telnet_push(type, name)
       PROVE  ChannelsOnly'
  BY <1>12, <1>a DEF telnet_push, alive, EndAllowed
<1>13. ASSUME NEW n \in Slot, DispatchExit(n) \/ ServiceExit(n) PROVE ChannelsOnly'
  BY <1>13, <1>a DEF DispatchExit, ServiceExit, ChannelsOnly, alive, EndAllowed
<1>14. CASE UNCHANGED vars
  BY <1>14, <1>a DEF vars, ChannelsOnly, EndAllowed
<1> QED
  BY <1>1, <1>2, <1>3, <1>4, <1>5, <1>6, <1>7, <1>8, <1>9, <1>10, <1>11, <1>12, <1>13, <1>14
     DEF Next, Main, NoCommand

\* Until an image is asked for, that is how the slots are.
ChannelConsole == Served /\ Undisturbed /\ (NoImages => ChannelsOnly)

LEMMA ChannelsCorrect == Spec => []ChannelConsole
<1>1. Init => ChannelConsole
  <2>1. Init => Undisturbed
    BY CleanInit DEF Undisturbed, Clean
  <2> QED
    BY <2>1, ServedInit, ChannelsInit DEF ChannelConsole
<1>2. ChannelConsole /\ Undisturbed' /\ [Next]_vars => ChannelConsole'
  <2> SUFFICES ASSUME ChannelConsole, Undisturbed', [Next]_vars PROVE ChannelConsole'
    OBVIOUS
  <2>1. Served' /\ used \subseteq used'
    BY ServedStep, AskedStep DEF ChannelConsole, Undisturbed
  <2>2. NoImages' => NoImages
    BY <2>1 DEF NoImages
  <2>3. NoImages => ChannelsOnly'
    BY ChannelsStep DEF ChannelConsole, Undisturbed
  <2> QED
    BY <2>1, <2>2, <2>3 DEF ChannelConsole
<1> QED
  BY <1>1, <1>2, UndisturbedCorrect, PTL DEF Spec

\* As long as no still image was asked for, draw and hide reach the channel they name,
\* whatever was opened, closed and opened again: the slot they find is open if any is.
THEOREM PropertiesFindChannels == Spec => []ChannelsAreFound
<1>1. ChannelConsole => ChannelsAreFound
  <2> SUFFICES ASSUME ChannelsOnly, pc = "loop",
                      NEW i \in Slot, channel_id[i] = Name, Open(i)
               PROVE  Open(First({j \in Slot : channel_id[j] = Name}))
    BY DEF ChannelConsole, ChannelsAreFound, PropertyFindsItsChannel
  <2> DEFINE Hit == {j \in Slot : channel_id[j] = Name}
             n == First(Hit)
  <2>1. Hit \in SUBSET Nat /\ Hit # {} /\ (\A j \in Hit : j > 0) /\ i \in Hit
    BY DEF Slot
  <2>2. n \in Hit /\ n <= i
    <3> HIDE DEF Hit
    <3> QED
      BY <2>1, FirstFacts
  <2> HIDE DEF n
  <2>3. n \in Slot /\ channel_id[n] = Name /\ n \in Nat /\ i \in Nat
    BY <2>2 DEF Slot
  <2>4. Open(n)
    BY <2>2, <2>3 DEF ChannelsOnly, FreeBehindOpen
  <2> QED
    BY <2>4 DEF n
<1> QED
  BY <1>1, ChannelsCorrect, PTL

\* ... and an add never finds threads or an image in the slot it takes: the process is
\* ended by a delete of a name that a free slot bears, by a member of another type in
\* a command, and by nothing else that a command does.
THEOREM SlotsAreReusable == Spec => []ReuseIsSafe
<1>1. ChannelConsole => ReuseIsSafe
  BY DEF ChannelConsole, ChannelsOnly, EndAllowed, ReuseIsSafe
<1> QED
  BY <1>1, ChannelsCorrect, PTL
=============================================================================
