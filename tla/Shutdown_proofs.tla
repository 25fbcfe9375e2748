---------------------------- MODULE Shutdown_proofs ----------------------------
(***************************************************************************)
(* Proofs about Shutdown and the console in it, for every number of        *)
(* clients, lines and slots and every size of a recv.  The console is the  *)
(* part that is proved about: a recv may end anywhere in a line.           *)
(***************************************************************************)
EXTENDS Shutdown, QueueFacts

----------------------------------------------------------------------------
(* Type correctness.                                                        *)

\* The units of a line.
LEMMA LineFacts ==
    ASSUME NEW no \in 1..MaxLines, NEW kind \in Kind
    PROVE  /\ Line(no, kind) \in Seq(Unit)
           /\ kind = "blank" => /\ Len(Line(no, kind)) = 2
                                /\ Line(no, kind)[1].part = "cr"
                                /\ Line(no, kind)[2].part = "lf"
           /\ kind # "blank" => /\ Len(Line(no, kind)) = 4
                                /\ Line(no, kind)[1] = [no |-> no, kind |-> kind, part |-> "head"]
                                /\ Line(no, kind)[2].part = "tail"
                                /\ Line(no, kind)[3].part = "cr"
                                /\ Line(no, kind)[4].part = "lf"
<1> DEFINE unit(part) == [no |-> no, kind |-> kind, part |-> part]
<1>1. \A part \in {"head", "tail", "cr", "lf"} : unit(part) \in Unit /\ unit(part).part = part
  BY DEF Unit
<1>2. CASE kind = "blank"
  <2>1. Line(no, kind) = <<unit("cr"), unit("lf")>>
    BY <1>2 DEF Line
  <2>2. /\ unit("cr") \in Unit /\ unit("cr").part = "cr"
        /\ unit("lf") \in Unit /\ unit("lf").part = "lf"
    BY <1>1
  <2> HIDE DEF unit
  <2>3. /\ Line(no, kind) \in Seq(Unit) /\ Len(Line(no, kind)) = 2
        /\ Line(no, kind)[1] = unit("cr") /\ Line(no, kind)[2] = unit("lf")
    BY <2>1, <2>2
  <2> QED
    BY <1>2, <2>2, <2>3
<1>3. CASE kind # "blank"
  <2>1. Line(no, kind) = <<unit("head"), unit("tail"), unit("cr"), unit("lf")>>
    BY <1>3 DEF Line
  <2>2. unit("head") = [no |-> no, kind |-> kind, part |-> "head"]
    OBVIOUS
  <2> HIDE DEF unit
  <2> QED
    BY <1>1, <1>3, <2>1, <2>2
<1> QED
  BY <1>2, <1>3

\* All lines have two or four units.
LEMMA LineTyped ==
    ASSUME NEW no \in 1..MaxLines, NEW kind \in Kind
    PROVE  /\ Line(no, kind) \in Seq(Unit)
           /\ Len(Line(no, kind)) \in {2, 4} /\ Len(Line(no, kind)) \in Nat
<1>1. CASE kind = "blank"
  <2>1. Line(no, kind) \in Seq(Unit) /\ Len(Line(no, kind)) = 2
    BY <1>1, LineFacts
  <2> QED
    BY <2>1
<1>2. CASE kind # "blank"
  <2>1. Line(no, kind) \in Seq(Unit) /\ Len(Line(no, kind)) = 4
    BY <1>2, LineFacts
  <2> QED
    BY <2>1
<1> QED
  BY <1>1, <1>2

\* What is parsed was received.
LEMMA ParsedTyped ==
    ASSUME NEW text \in Seq(Unit), Accepted(text)
    PROVE  Parsed(text) \in Unit
<1>1. PICK first \in DOMAIN text : text[first].part = "head"
  BY DEF Accepted
<1>2. (CHOOSE i \in DOMAIN text : text[i].part = "head") \in DOMAIN text
  BY <1>1
<1> QED
  BY <1>2 DEF Parsed

\* What a recv returns, and what it leaves.
LEMMA RecvFacts ==
    ASSUME NEW q \in Seq(Unit), NEW r \in Seq(Unit), NEW n \in 1..Len(q)
    PROVE  /\ SubSeq(q, 1, n) \in Seq(Unit) /\ Len(SubSeq(q, 1, n)) = n
           /\ \A i \in 1..n : SubSeq(q, 1, n)[i] = q[i]
           /\ SubSeq(q, n + 1, Len(q)) \in Seq(Unit)
           /\ Len(SubSeq(q, n + 1, Len(q))) = Len(q) - n
           /\ \A i \in 1..(Len(q) - n) : SubSeq(q, n + 1, Len(q))[i] = q[n + i]
           /\ r \o SubSeq(q, 1, n) \in Seq(Unit)
           /\ Len(r \o SubSeq(q, 1, n)) = Len(r) + n
           /\ \A i \in 1..Len(r) : (r \o SubSeq(q, 1, n))[i] = r[i]
           /\ \A i \in 1..n : (r \o SubSeq(q, 1, n))[Len(r) + i] = q[i]
<1>1. Len(q) \in Nat /\ Len(r) \in Nat /\ n \in Nat
  OBVIOUS
<1>2. /\ SubSeq(q, 1, n) \in Seq(Unit) /\ Len(SubSeq(q, 1, n)) = n
      /\ \A i \in 1..n : SubSeq(q, 1, n)[i] = q[i]
  BY <1>1
<1>3. /\ SubSeq(q, n + 1, Len(q)) \in Seq(Unit)
      /\ Len(SubSeq(q, n + 1, Len(q))) = Len(q) - n
      /\ \A i \in 1..(Len(q) - n) : SubSeq(q, n + 1, Len(q))[i] = q[n + i]
  BY <1>1
<1>4. \A t \in Seq(Unit) : /\ r \o t \in Seq(Unit) /\ Len(r \o t) = Len(r) + Len(t)
                           /\ \A i \in 1..Len(r) : (r \o t)[i] = r[i]
                           /\ \A i \in 1..Len(t) : (r \o t)[Len(r) + i] = t[i]
  OBVIOUS
<1> QED
  BY <1>2, <1>3, <1>4

\* No client is connected, no slot is open.
LEMMA TypedInit == Init => TypeOK
<1> SUFFICES ASSUME Init PROVE TypeOK
  OBVIOUS
<1>1. 0 \in 0..MaxLines
  BY LinesAssumption
<1>2. <<>> \in Seq(Unit) /\ <<>> \in Seq(Command)
  OBVIOUS
<1> QED
  BY <1>1, <1>2 DEF Init, TelnetInit, TypeOK

\* Nothing that is typed, received or executed breaks the types.
LEMMA TypedStep == TypeOK /\ [Next]_vars => TypeOK'
<1> SUFFICES ASSUME TypeOK, [Next]_vars PROVE TypeOK'
  OBVIOUS
<1> USE DEF telnet, console, operator, slots, Console
<1>1. ASSUME NEW c \in Client, Connect(c), Console PROVE TypeOK'
  BY <1>1 DEF Connect, TypeOK
<1>2. ASSUME NEW c \in Client, HangUp(c), Console PROVE TypeOK'
  <2>1. network' \in [Client -> Seq(Unit)]
    <3>1. <<>> \in Seq(Unit)
      OBVIOUS
    <3>2. network' = network \/ network' = [network EXCEPT ![c] = <<>>]
      BY <1>2 DEF HangUp
    <3> QED
      BY <3>1, <3>2 DEF TypeOK
  <2> QED
    BY <1>2, <2>1 DEF HangUp, TypeOK
<1>3. ASSUME NEW c \in Client, NEW kind \in Kind, Type(c, kind), Console PROVE TypeOK'
  <2>1. typed + 1 \in 1..MaxLines
    BY <1>3, LinesAssumption DEF Type, TypeOK
  <2>2. network' \in [Client -> Seq(Unit)]
    <3>1. Line(typed + 1, kind) \in Seq(Unit)
      BY <2>1, LineFacts
    <3> QED
      BY <1>3, <3>1 DEF Type, TypeOK
  <2>3. commands' \subseteq Command
    BY <1>3, <2>1 DEF Type, TypeOK, Command
  <2>4. typed' \in 0..MaxLines
    BY <1>3, <2>1 DEF Type
  <2> QED
    BY <1>3, <2>2, <2>3, <2>4 DEF Type, TypeOK
<1>4. ASSUME TelnetStart \/ LoopTop \/ LoopWait, Console PROVE TypeOK'
  <2>1. active' \subseteq Client \cup {Listener}
    BY <1>4 DEF TelnetStart, LoopTop, LoopWait, Ready, Readable, TypeOK
  <2>2. loop' \in {"start", "top", "wait", "pass", "ended"} /\ alive' \in BOOLEAN
    BY <1>4 DEF TelnetStart, LoopTop, LoopWait, TypeOK
  <2>3. UNCHANGED <<libevent2, connection, req_, operator, network, events_, quit>>
    BY <1>4 DEF TelnetStart, LoopTop, LoopWait
  <2> QED
    BY <1>4, <2>1, <2>2, <2>3 DEF TypeOK
<1>c. ASSUME NEW what, Called(what)
      PROVE  active' \subseteq Client \cup {Listener} /\ loop' \in {"top", "pass"}
  BY <1>c DEF Called, TypeOK
<1>5. ASSUME NEW c \in Client, onAccept(c), Console PROVE TypeOK'
  BY <1>5, <1>c DEF onAccept, TypeOK
<1>6. ASSUME NEW c \in Client, onRecv(c), Console PROVE TypeOK'
  <2>1. PICK n \in 1..Len(network[c]) :
            /\ network' = [network EXCEPT ![c] = SubSeq(@, n + 1, Len(@))]
            /\ Take(c, SubSeq(network[c], 1, n))
    BY <1>6 DEF onRecv
  <2> DEFINE text == req_[c] \o SubSeq(network[c], 1, n)
  <2>2. network[c] \in Seq(Unit) /\ req_[c] \in Seq(Unit)
    BY DEF TypeOK
  <2>3. text \in Seq(Unit) /\ SubSeq(network[c], n + 1, Len(network[c])) \in Seq(Unit)
    BY <2>2, RecvFacts
  <2>4. network' \in [Client -> Seq(Unit)]
    BY <2>1, <2>3 DEF TypeOK
  <2>5. req_' \in [Client -> Seq(Unit)]
    <3>1. req_' = [req_ EXCEPT ![c] = <<>>] \/ req_' = [req_ EXCEPT ![c] = text]
      BY <2>1 DEF Take
    <3>2. <<>> \in Seq(Unit)
      OBVIOUS
    <3> HIDE DEF text
    <3> QED
      BY <2>3, <3>1, <3>2 DEF TypeOK
  <2>6. events_' \in Seq(Command) /\ alive' \in BOOLEAN
    <3> HIDE DEF text
    <3>1. CASE UNCHANGED <<events_, alive>>
      BY <3>1 DEF TypeOK
    <3>2. ASSUME Accepted(text), TakeText(c, Parsed(text))
          PROVE  events_' \in Seq(Command) /\ alive' \in BOOLEAN
      <4>1. Parsed(text) \in Unit
        BY <2>3, <3>2, ParsedTyped
      <4>2. [client |-> c, no |-> Parsed(text).no] \in Command
        BY <4>1 DEF Unit, Command
      <4> QED
        BY <3>2, <4>2 DEF TakeText, TypeOK
    <3> QED
      BY <2>1, <3>1, <3>2 DEF Take, text
  <2> QED
    BY <1>6, <1>c, <2>4, <2>5, <2>6 DEF onRecv, TypeOK
<1>7. ASSUME NEW c \in Client, onRecvError(c), Console PROVE TypeOK'
  BY <1>7, <1>c DEF onRecvError, TypeOK
<1>8. CASE Execute
  <2>1. Head(events_) \in Command /\ Tail(events_) \in Seq(Command)
    BY <1>8 DEF Execute, TakeCommand, TypeOK
  <2>2. executed' \in Seq(Command) /\ events_' \in Seq(Command)
    BY <1>8, <2>1 DEF Execute, TakeCommand, TypeOK
  <2>3. /\ open' \subseteq Slot /\ told' \subseteq Slot /\ released' \subseteq Slot
        /\ threads' \in [Slot -> {"none", "running", "exited"}] /\ alive' \in BOOLEAN
    BY <1>8 DEF Execute, OpenSlot, CloseSlot, TypeOK
  <2> QED
    BY <1>8, <2>2, <2>3 DEF Execute, TypeOK
<1>9. CASE Escape \/ Ending
  <2>1. /\ told' \subseteq Slot /\ released' \subseteq Slot
        /\ threads' \in [Slot -> {"none", "running", "exited"}]
    BY <1>9 DEF Escape, Ending, PublisherExits, PublisherMissing, PublisherJoined,
                TelnetJoined, Return, SlotExits, Release, TypeOK
  <2>2. /\ main' \in {"loop", "publisher", "joins", "release", "ended"}
        /\ publisher' \in {"none", "running", "exited", "joined"}
        /\ quit' \in BOOLEAN /\ alive' \in BOOLEAN
    BY <1>9 DEF Escape, Ending, PublisherExits, PublisherMissing, PublisherJoined,
                TelnetJoined, Return, SlotExits, Release, TypeOK
  <2>3. UNCHANGED <<telnet, sdi, open, executed>>
    BY <1>9 DEF Escape, Ending, PublisherExits, PublisherMissing, PublisherJoined,
                TelnetJoined, Return, SlotExits, Release
  <2> QED
    BY <2>1, <2>2, <2>3 DEF TypeOK
<1>10. CASE UNCHANGED vars
  BY <1>10 DEF vars, TypeOK
<1> QED
  BY <1>1, <1>2, <1>3, <1>4, <1>5, <1>6, <1>7, <1>8, <1>9, <1>10
     DEF Next, Operators, telnet_service

\* Every reachable state is well typed: what reaches ipc_events is a command, however
\* the bytes of the clients are cut.
THEOREM TypeCorrect == Spec => []TypeOK
<1>1. Init => TypeOK
  BY TypedInit
<1>2. TypeOK /\ [Next]_vars => TypeOK'
  BY TypedStep
<1> QED
  BY <1>1, <1>2, PTL DEF Spec

----------------------------------------------------------------------------
(* An operator who waits for each line to arrive.                           *)

\* The first a units of a text are ends of blank lines.
Blank(text, a) ==
    /\ \A i \in 1..a : text[i].part \in {"cr", "lf"}
    /\ a > 0 => text[a].part = "lf"

\* A text of blank lines and the first k units of a line: it is taken with the last
\* unit and not before, and is accepted if the line is not blank.
LEMMA TextFacts ==
    ASSUME NEW no \in 1..MaxLines, NEW kind \in Kind, NEW text \in Seq(Unit),
           NEW a \in Nat, NEW k \in Nat, k > 0, k <= Len(Line(no, kind)),
           Len(text) = a + k, Blank(text, a),
           \A i \in 1..k : text[a + i] = Line(no, kind)[i]
    PROVE  /\ k < Len(Line(no, kind)) => ~EndsLine(text)
           /\ k = Len(Line(no, kind)) /\ kind # "blank"
                => /\ EndsLine(text) /\ Accepted(text)
                   /\ Parsed(text) = [no |-> no, kind |-> kind, part |-> "head"]
           /\ k = Len(Line(no, kind)) /\ kind = "blank"
                => Blank(text, Len(text)) /\ ~Accepted(text)
<1> DEFINE L == Line(no, kind)
<1>1. /\ L \in Seq(Unit)
      /\ kind = "blank" => Len(L) = 2 /\ L[1].part = "cr" /\ L[2].part = "lf"
      /\ kind # "blank" => /\ Len(L) = 4
                           /\ L[1] = [no |-> no, kind |-> kind, part |-> "head"]
                           /\ L[1].part = "head" /\ L[2].part = "tail"
                           /\ L[3].part = "cr" /\ L[4].part = "lf"
  BY LineFacts
<1>2. DOMAIN text = 1..(a + k) /\ \A i \in 1..k : text[a + i] = L[i]
  OBVIOUS
<1>3. \A i \in 1..a : text[i].part \in {"cr", "lf"}
  BY DEF Blank
<1>l. k <= Len(L) /\ Len(L) = Len(Line(no, kind))
  OBVIOUS
<1> HIDE DEF L
<1>4. CASE kind = "blank"
  <2>1. text[a + 1].part = "cr" /\ (k = 2 => text[a + 2].part = "lf") /\ k \in {1, 2}
    <3>1. text[a + 1] = L[1] /\ (k = 2 => text[a + 2] = L[2]) /\ k \in {1, 2}
      BY <1>1, <1>2, <1>4, <1>l
    <3> QED
      BY <1>1, <1>4, <3>1
  <2>2. \A i \in 1..(a + k) : text[i].part \in {"cr", "lf"}
    <3> SUFFICES ASSUME NEW i \in 1..(a + k) PROVE text[i].part \in {"cr", "lf"}
      OBVIOUS
    <3>1. i \in 1..a \/ i = a + 1 \/ (i = a + 2 /\ k = 2)
      BY <2>1
    <3> QED
      BY <3>1, <2>1, <1>3
  <2>3. k = 2 => Blank(text, Len(text)) /\ ~Accepted(text)
    BY <2>1, <2>2, <1>2 DEF Blank, Accepted
  <2>4. k = 1 => ~EndsLine(text)
    <3>1. a > 0 => text[a].part = "lf"
      BY DEF Blank
    <3> QED
      BY <2>1, <3>1 DEF EndsLine
  <2>5. Len(Line(no, kind)) = 2
    BY <1>1, <1>4, <1>l
  <2> QED
    BY <2>1, <2>3, <2>4, <2>5, <1>4
<1>5. CASE kind # "blank"
  <2>1. /\ k \in {1, 2, 3, 4} /\ Len(L) = 4
        /\ text[a + 1] = [no |-> no, kind |-> kind, part |-> "head"]
        /\ text[a + 1].part = "head"
        /\ k > 1 => text[a + 2].part = "tail"
        /\ k > 2 => text[a + 3].part = "cr"
        /\ k > 3 => text[a + 4].part = "lf"
    <3>1. k \in {1, 2, 3, 4} /\ Len(L) = 4
      <4>1. Len(L) = 4
        BY <1>1, <1>5
      <4>2. k <= 4
        BY <4>1, <1>l
      <4> QED
        BY <4>1, <4>2
    <3>2. /\ text[a + 1] = L[1] /\ (k > 1 => text[a + 2] = L[2])
          /\ (k > 2 => text[a + 3] = L[3]) /\ (k > 3 => text[a + 4] = L[4])
      <4>1. /\ 1 \in 1..k /\ (k > 1 => 2 \in 1..k) /\ (k > 2 => 3 \in 1..k)
            /\ (k > 3 => 4 \in 1..k)
        BY <3>1
      <4> QED
        BY <4>1, <1>2
    <3> QED
      BY <3>1, <3>2, <1>1, <1>5
  <2>2. k < 4 => ~EndsLine(text)
    <3>1. a > 0 => text[a].part = "lf"
      BY DEF Blank
    <3>2. CASE k = 1
      BY <2>1, <3>1, <3>2 DEF EndsLine
    <3>3. CASE k = 2
      BY <2>1, <3>3 DEF EndsLine
    <3>4. CASE k = 3
      BY <2>1, <3>4 DEF EndsLine
    <3> QED
      BY <2>1, <3>2, <3>3, <3>4
  <2>3. ASSUME k = 4
        PROVE  /\ EndsLine(text) /\ Accepted(text)
               /\ Parsed(text) = [no |-> no, kind |-> kind, part |-> "head"]
    <3>1. EndsLine(text)
      BY <2>1, <2>3 DEF EndsLine
    <3>2. \A i \in DOMAIN text : \/ i \in 1..a \/ i = a + 1 \/ i = a + 2
                                 \/ i = a + 3 \/ i = a + 4
      <4>1. DOMAIN text = 1..(a + 4)
        BY <1>2, <2>3
      <4>2. ASSUME NEW i \in 1..(a + 4)
            PROVE  i \in 1..a \/ i = a + 1 \/ i = a + 2 \/ i = a + 3 \/ i = a + 4
        OBVIOUS
      <4> QED
        BY <4>1, <4>2
    <3>3. Accepted(text)
      <4>1. a + 1 \in DOMAIN text /\ a + 2 \in DOMAIN text /\ a + 1 < a + 2
        BY <1>2, <2>3
      <4>2. \A i \in DOMAIN text \ {a + 1, a + 2} : text[i].part \in {"cr", "lf"}
        BY <3>2, <1>3, <2>1, <2>3
      <4>3. text[a + 1].part = "head" /\ text[a + 2].part = "tail"
        BY <2>1, <2>3
      <4> QED
        BY <4>1, <4>2, <4>3 DEF Accepted
    <3>4. \A i \in DOMAIN text : text[i].part = "head" <=> i = a + 1
      BY <3>2, <1>2, <1>3, <2>1, <2>3
    <3>5. (CHOOSE i \in DOMAIN text : text[i].part = "head") = a + 1
      BY <3>4, <1>2, <2>3
    <3> QED
      BY <3>1, <3>3, <3>5, <2>1 DEF Parsed
  <2> QED
    BY <2>1, <2>2, <2>3, <1>5, <1>l
<1> QED
  BY <1>4, <1>5

\* All commands of the client have arrived but the one in line no.
Arrived(c, no) ==
    \A command \in commands :
        command.client = c => command \in Range(Queued) \/ command.no = no

\* Nothing of the client is on its way, and what was not taken is blank.
Whole(c) ==
    network[c] = <<>> /\ Blank(req_[c], Len(req_[c])) /\ Arrived(c, 0)

\* One line is, and m units of it have arrived behind a units of blank lines.
CutAt(c, no, kind, a, m) ==
    LET L == Line(no, kind) IN
    /\ m < Len(L)
    /\ Len(req_[c]) = a + m /\ Len(network[c]) = Len(L) - m
    /\ Blank(req_[c], a)
    /\ \A i \in 1..m : req_[c][a + i] = L[i]
    /\ \A i \in 1..(Len(L) - m) : network[c][i] = L[m + i]
    /\ Arrived(c, no)
    /\ kind # "channel" => Arrived(c, 0)

Cut(c) == \E no \in 1..MaxLines, kind \in Kind, a \in Nat, m \in Nat : CutAt(c, no, kind, a, m)

\* Nothing else is, of a client that waits for its lines to arrive.
Kept(c) == c \in paced \ hungUp /\ alive => Whole(c) \/ Cut(c)

PacedKept == \A c \in Client : Kept(c)

\* With nothing on its way, what was typed has arrived.
LEMMA KeptArrives == TypeOK /\ PacedKept => PacedCommandsArrive
<1> SUFFICES ASSUME TypeOK, PacedKept, alive, NEW command \in commands,
                    command.client \in paced \ hungUp, network[command.client] = <<>>
             PROVE  command \in Range(Queued)
  BY DEF PacedCommandsArrive
<1>1. command.client \in Client /\ command.no \in 1..MaxLines
  BY DEF TypeOK, Command
<1> DEFINE c == command.client
<1>2. Whole(c) \/ Cut(c)
  BY <1>1 DEF PacedKept, Kept
<1>3. ~Cut(c)
  <2> SUFFICES ASSUME NEW no \in 1..MaxLines, NEW kind \in Kind, NEW a \in Nat, NEW m \in Nat,
                      CutAt(c, no, kind, a, m)
               PROVE  FALSE
    BY DEF Cut
  <2>1. Len(network[c]) = Len(Line(no, kind)) - m /\ m < Len(Line(no, kind))
    BY DEF CutAt
  <2>2. Len(network[c]) = 0 /\ Line(no, kind) \in Seq(Unit)
    BY LineFacts
  <2> QED
    BY <2>1, <2>2
<1>4. Arrived(c, 0)
  BY <1>2, <1>3 DEF Whole
<1> QED
  BY <1>1, <1>4 DEF Arrived

\* Nothing was typed.
LEMMA KeptInit == Init => PacedKept
<1> SUFFICES ASSUME Init, NEW c \in Client PROVE Whole(c)
  BY DEF PacedKept, Kept
<1>1. network[c] = <<>> /\ req_[c] = <<>> /\ commands = {}
  BY DEF Init, TelnetInit
<1> QED
  BY <1>1 DEF Whole, Blank, Arrived

\* What was queued or executed is never forgotten.
LEMMA QueuedKept == TypeOK /\ [Next]_vars => Range(Queued) \subseteq Range(Queued)'
<1> SUFFICES ASSUME TypeOK, [Next]_vars PROVE Range(Queued) \subseteq Range(Queued)'
  OBVIOUS
<1> USE DEF telnet, console, operator, slots, Console
<1>1. Range(Queued) = Range(executed) \cup Range(events_)
  BY ConcatFacts DEF TypeOK, Queued
<1>2. Range(Queued)' = Range(executed') \cup Range(events_')
  <2>1. TypeOK'
    BY TypedStep
  <2> QED
    BY <2>1, ConcatFacts DEF TypeOK, Queued
<1>3. ASSUME UNCHANGED <<executed, events_>> PROVE Range(Queued) \subseteq Range(Queued)'
  BY <1>1, <1>2, <1>3
<1>4. CASE Execute
  <2> DEFINE e == Head(events_)
  <2>1. events_ \in Seq(Command) /\ events_ # <<>> /\ executed \in Seq(Command)
    BY <1>4 DEF Execute, TakeCommand, TypeOK
  <2>2. e \in Command /\ Tail(events_) \in Seq(Command) /\ <<e>> \o Tail(events_) = events_
    BY <2>1, PopFacts, HeadConsTail
  <2>3. executed' = Append(executed, e) /\ events_' = Tail(events_)
    BY <1>4 DEF Execute, TakeCommand
  <2> HIDE DEF e
  <2>4. Range(executed') = Range(executed) \cup {e}
    BY <2>1, <2>2, <2>3, PushFacts
  <2>5. Range(events_) = {e} \cup Range(events_')
    <3>1. <<e>> \in Seq(Command) /\ Range(<<e>>) = {e}
      BY <2>2 DEF Range
    <3>2. Range(<<e>> \o Tail(events_)) = Range(<<e>>) \cup Range(Tail(events_))
      BY <2>2, <3>1, ConcatFacts
    <3> QED
      BY <2>2, <2>3, <3>1, <3>2
  <2> QED
    BY <1>1, <1>2, <2>4, <2>5
<1>5. ASSUME NEW c \in Client, onRecv(c), Console PROVE Range(Queued) \subseteq Range(Queued)'
  <2>1. PICK n \in 1..Len(network[c]) : Take(c, SubSeq(network[c], 1, n))
    BY <1>5 DEF onRecv
  <2> DEFINE text == req_[c] \o SubSeq(network[c], 1, n)
  <2>2. \/ events_' = events_
        \/ Accepted(text) /\ events_' = Append(events_, [client |-> c, no |-> Parsed(text).no])
    BY <2>1 DEF Take, TakeText
  <2>3. text \in Seq(Unit)
    BY RecvFacts DEF TypeOK
  <2> HIDE DEF text
  <2>4. CASE Accepted(text) /\ events_' = Append(events_, [client |-> c, no |-> Parsed(text).no])
    <3>1. [client |-> c, no |-> Parsed(text).no] \in Command
      BY <2>3, <2>4, ParsedTyped DEF Unit, Command
    <3>2. Range(events_) \subseteq Range(events_')
      BY <2>4, <3>1, PushFacts DEF TypeOK
    <3> QED
      BY <1>1, <1>2, <1>5, <3>2
  <2> QED
    BY <1>5, <1>3, <2>2, <2>4
<1>6. ASSUME Operators \/ TelnetStart \/ LoopTop \/ LoopWait
             \/ \E c \in Client : onAccept(c) \/ onRecvError(c),
             Console
      PROVE  Range(Queued) \subseteq Range(Queued)'
  BY <1>3, <1>6 DEF Operators, Connect, HangUp, Type, TelnetStart, LoopTop, LoopWait,
                    onAccept, onRecvError
<1>7. CASE Escape \/ Ending
  BY <1>3, <1>7 DEF Escape, Ending, PublisherExits, PublisherMissing, PublisherJoined,
                    TelnetJoined, Return, SlotExits, Release
<1>8. CASE UNCHANGED vars
  BY <1>3, <1>8 DEF vars
<1> QED
  BY <1>4, <1>5, <1>6, <1>7, <1>8 DEF Next, telnet_service

\* A step that is about others leaves what is known of a client.
LEMMA KeptFrame ==
    ASSUME NEW c \in Client, Kept(c),
           Range(Queued) \subseteq Range(Queued)', alive' => alive,
           paced' = paced, hungUp \subseteq hungUp',
           network'[c] = network[c], req_'[c] = req_[c],
           \A command \in commands' : command.client = c => command \in commands
    PROVE  Kept(c)'
<1>1. ASSUME NEW no, Arrived(c, no) PROVE Arrived(c, no)'
  BY <1>1 DEF Arrived
<1>2. ASSUME Whole(c) PROVE Whole(c)'
  BY <1>1, <1>2 DEF Whole, Blank
<1>3. ASSUME NEW no \in 1..MaxLines, NEW kind \in Kind, NEW a \in Nat, NEW m \in Nat,
             CutAt(c, no, kind, a, m)
      PROVE  CutAt(c, no, kind, a, m)'
  BY <1>1, <1>3 DEF CutAt, Blank
<1> QED
  BY <1>2, <1>3 DEF Kept, Cut

\* A client of whose lines nothing is on its way has none that is cut.
LEMMA NotCut == ASSUME NEW c, network[c] = <<>> PROVE ~Cut(c)
<1> SUFFICES ASSUME NEW no \in 1..MaxLines, NEW kind \in Kind, NEW a \in Nat, NEW m \in Nat,
                    CutAt(c, no, kind, a, m)
             PROVE  FALSE
  BY DEF Cut
<1>1. Len(network[c]) = Len(Line(no, kind)) - m /\ m < Len(Line(no, kind))
  BY DEF CutAt
<1>2. Len(network[c]) = 0 /\ Line(no, kind) \in Seq(Unit)
  BY LineFacts
<1> QED
  BY <1>1, <1>2

\* No command has the number of no line.
LEMMA NothingMissing ==
    ASSUME TypeOK, NEW c, Arrived(c, 0)
    PROVE  \A command \in commands : command.client = c => command \in Range(Queued)
<1>1. \A command \in commands : command.no # 0
  BY LinesAssumption DEF TypeOK, Command
<1> QED
  BY <1>1 DEF Arrived

\* A line is typed when nothing is on its way.
LEMMA TypeKept ==
    ASSUME TypeOK, NEW c \in Client, NEW kind \in Kind, Kept(c), Type(c, kind), Console
    PROVE  Kept(c)'
<1> USE DEF telnet, console, operator, slots, Console
<1> SUFFICES ASSUME c \in paced \ hungUp, alive PROVE Cut(c)'
  BY DEF Kept, Type
<1>0. typed + 1 \in 1..MaxLines /\ Len(req_[c]) \in Nat
  BY LinesAssumption DEF Type, TypeOK
<1>a. PICK no \in 1..MaxLines, a \in Nat : no = typed + 1 /\ a = Len(req_[c])
  BY <1>0
<1>1. network[c] = <<>> /\ Whole(c)
  <2>1. network[c] = <<>>
    BY DEF Type
  <2> QED
    BY <2>1, NotCut DEF Kept
<1>3. /\ network'[c] = <<>> \o Line(no, kind) /\ req_' = req_ /\ UNCHANGED <<executed, events_>>
      /\ commands' = IF kind = "channel" THEN commands \cup {[client |-> c, no |-> no]}
                                         ELSE commands
  BY <1>1, <1>a DEF Type, TypeOK
<1>4. /\ Line(no, kind) \in Seq(Unit) /\ Len(Line(no, kind)) \in Nat
      /\ Len(Line(no, kind)) > 0 /\ network'[c] = Line(no, kind)
  <2>1. Line(no, kind) \in Seq(Unit) /\ Len(Line(no, kind)) \in {2, 4}
    BY LineTyped
  <2> QED
    BY <2>1, <1>3
<1>5. Arrived(c, no)' /\ (kind # "channel" => Arrived(c, 0)')
  <2>1. \A command \in commands : command.client = c => command \in Range(Queued)
    BY <1>1, NothingMissing DEF Whole
  <2>2. Queued' = Queued
    BY <1>3 DEF Queued
  <2>3. Arrived(c, no)'
    <3>1. ASSUME NEW command \in commands', command.client = c
          PROVE  command \in Range(Queued') \/ command.no = no
      BY <2>1, <2>2, <3>1, <1>3
    <3> QED
      BY <3>1 DEF Arrived
  <2>4. kind # "channel" => Arrived(c, 0)'
    BY <2>1, <2>2, <1>3 DEF Arrived
  <2> QED
    BY <2>3, <2>4
<1>6. /\ Len(req_'[c]) = a + 0 /\ Len(network'[c]) = Len(Line(no, kind)) - 0
      /\ Blank(req_'[c], a)
      /\ \A i \in 1..(Len(Line(no, kind)) - 0) : network'[c][i] = Line(no, kind)[0 + i]
  BY <1>1, <1>a, <1>3, <1>4 DEF Whole
<1>7. CutAt(c, no, kind, a, 0)'
  BY <1>4, <1>5, <1>6 DEF CutAt, Arrived, Blank
<1> QED
  BY <1>7 DEF Cut

\* A recv brings a line further, or to its end.
LEMMA RecvKept ==
    ASSUME TypeOK, TypeOK', NEW c \in Client, Kept(c), onRecv(c), Console,
           Range(Queued) \subseteq Range(Queued)'
    PROVE  Kept(c)'
<1> USE DEF telnet, console, operator, slots, Console
<1> SUFFICES ASSUME c \in paced \ hungUp, alive, alive' PROVE (Whole(c) \/ Cut(c))'
  BY DEF Kept, onRecv
<1>1. PICK n \in 1..Len(network[c]) :
          /\ network' = [network EXCEPT ![c] = SubSeq(@, n + 1, Len(@))]
          /\ Take(c, SubSeq(network[c], 1, n))
  BY DEF onRecv
<1>2. Cut(c)
  <2>1. network[c] # <<>>
    BY DEF onRecv
  <2> QED
    BY <2>1 DEF Kept, Whole
<1>3. PICK no \in 1..MaxLines, kind \in Kind, a \in Nat, m \in Nat : CutAt(c, no, kind, a, m)
  BY <1>2 DEF Cut
<1> DEFINE L == Line(no, kind)
           text == req_[c] \o SubSeq(network[c], 1, n)
           k == m + n
<1>4. /\ m < Len(L) /\ Len(req_[c]) = a + m /\ Len(network[c]) = Len(L) - m
      /\ Blank(req_[c], a)
      /\ \A i \in 1..m : req_[c][a + i] = L[i]
      /\ \A i \in 1..(Len(L) - m) : network[c][i] = L[m + i]
      /\ Arrived(c, no) /\ (kind # "channel" => Arrived(c, 0))
  BY <1>3 DEF CutAt
<1>5. L \in Seq(Unit) /\ Len(L) \in Nat
  BY LineTyped
<1>6. /\ text \in Seq(Unit) /\ Len(text) = Len(req_[c]) + n
      /\ \A i \in 1..Len(req_[c]) : text[i] = req_[c][i]
      /\ \A i \in 1..n : text[Len(req_[c]) + i] = network[c][i]
      /\ network'[c] \in Seq(Unit) /\ Len(network'[c]) = Len(network[c]) - n
      /\ \A i \in 1..(Len(network[c]) - n) : network'[c][i] = network[c][n + i]
  <2>1. network[c] \in Seq(Unit) /\ req_[c] \in Seq(Unit)
    BY DEF TypeOK
  <2>2. network'[c] = SubSeq(network[c], n + 1, Len(network[c]))
    BY <1>1 DEF TypeOK
  <2> QED
    BY <2>1, <2>2, RecvFacts
<1>t. /\ EndsLine(text) => req_'[c] = <<>>
      /\ ~EndsLine(text) => req_'[c] = text
      /\ EndsLine(text) /\ Accepted(text) => TakeText(c, Parsed(text))
  BY <1>1 DEF Take, TypeOK
<1> HIDE DEF L, text
<1>7. /\ k \in Nat /\ k > 0 /\ k <= Len(L) /\ Len(text) = a + k
      /\ Len(network'[c]) = Len(L) - k
      /\ \A i \in 1..(Len(L) - k) : network'[c][i] = L[k + i]
  <2>1. Len(network'[c]) = Len(L) - k /\ Len(text) = a + k
    BY <1>4, <1>5, <1>6
  <2>2. n \in Nat /\ n > 0 /\ n <= Len(L) - m
    BY <1>4, <1>5
  <2>3. ASSUME NEW i \in 1..(Len(L) - k) PROVE network'[c][i] = L[k + i]
    <3>1. i \in 1..(Len(network[c]) - n) /\ n + i \in 1..(Len(L) - m) /\ m + (n + i) = k + i
      BY <2>2, <1>4, <1>5
    <3>2. network'[c][i] = network[c][n + i]
      BY <3>1, <1>6
    <3>3. network[c][n + i] = L[m + (n + i)]
      BY <3>1, <1>4
    <3> QED
      BY <3>1, <3>2, <3>3
  <2>4. k \in Nat /\ k > 0 /\ k <= Len(L)
    BY <2>2, <1>5
  <2> HIDE DEF k
  <2> QED
    BY <2>1, <2>3, <2>4
<1>8. Blank(text, a)
  <2>1. \A i \in 1..a : text[i] = req_[c][i]
    <3>1. \A i \in 1..a : i \in 1..Len(req_[c])
      BY <1>4
    <3> QED
      BY <1>6, <3>1
  <2>2. a > 0 => a \in 1..a
    OBVIOUS
  <2>3. /\ \A i \in 1..a : req_[c][i].part \in {"cr", "lf"}
        /\ a > 0 => req_[c][a].part = "lf"
    BY <1>4 DEF Blank
  <2>4. \A i \in 1..a : text[i].part \in {"cr", "lf"}
    BY <2>1, <2>3
  <2>5. a > 0 => text[a].part = "lf"
    BY <2>1, <2>2, <2>3
  <2> QED
    BY <2>4, <2>5 DEF Blank
<1>9. \A i \in 1..k : text[a + i] = L[i]
  <2> SUFFICES ASSUME NEW i \in 1..k PROVE text[a + i] = L[i]
    OBVIOUS
  <2>1. CASE i <= m
    <3>1. i \in 1..m /\ a + i \in 1..Len(req_[c])
      BY <2>1, <1>4
    <3>2. text[a + i] = req_[c][a + i]
      BY <3>1, <1>6
    <3>3. req_[c][a + i] = L[i]
      BY <3>1, <1>4
    <3> QED
      BY <3>2, <3>3
  <2>2. CASE i > m
    <3>1. i - m \in 1..n /\ a + i = Len(req_[c]) + (i - m) /\ i = m + (i - m)
      BY <2>2, <1>4
    <3>2. text[a + i] = network[c][i - m]
      BY <3>1, <1>6
    <3>3. network[c][i - m] = L[i]
      <4>1. i - m \in 1..(Len(L) - m)
        BY <3>1, <1>4, <1>5
      <4>2. network[c][i - m] = L[m + (i - m)]
        BY <4>1, <1>4
      <4> QED
        BY <4>2, <3>1
    <3> QED
      BY <3>2, <3>3
  <2> QED
    BY <2>1, <2>2
<1>a. /\ k < Len(L) => ~EndsLine(text)
      /\ k = Len(L) /\ kind # "blank"
           => /\ EndsLine(text) /\ Accepted(text)
              /\ Parsed(text) = [no |-> no, kind |-> kind, part |-> "head"]
      /\ k = Len(L) /\ kind = "blank" => Blank(text, Len(text)) /\ ~Accepted(text)
  <2> HIDE DEF k
  <2> QED
    BY <1>5, <1>6, <1>7, <1>8, <1>9, TextFacts DEF L
<1>b. commands' = commands
  BY DEF onRecv
<1>c. \A p : Arrived(c, p) => Arrived(c, p)'
  BY <1>b DEF Arrived
<1>d. ASSUME NEW command \in commands, command.client = c, Arrived(c, no),
             command \notin Range(Queued)
      PROVE  command = [client |-> c, no |-> no]
  BY <1>d DEF Arrived, TypeOK, Command
<1>e. CASE k < Len(L)
  <2>1. /\ Len(req_'[c]) = a + k /\ Blank(req_'[c], a)
        /\ \A i \in 1..k : req_'[c][a + i] = L[i]
    BY <1>e, <1>a, <1>t, <1>7, <1>8, <1>9
  <2>2. CutAt(c, no, kind, a, k)'
    BY <2>1, <1>4, <1>7, <1>c, <1>e DEF CutAt, L
  <2> QED
    BY <2>2, <1>7 DEF Cut
<1>f. CASE k = Len(L)
  <2>1. network'[c] = <<>>
    BY <1>f, <1>6, <1>7
  <2>2. CASE kind = "blank"
    <3>1. Blank(req_'[c], Len(req_'[c]))
      <4>1. CASE EndsLine(text)
        BY <4>1, <1>t DEF Blank
      <4>2. CASE ~EndsLine(text)
        BY <4>2, <2>2, <1>f, <1>t, <1>a
      <4> QED
        BY <4>1, <4>2
    <3>2. Arrived(c, 0)'
      BY <2>2, <1>4, <1>c
    <3> QED
      BY <2>1, <3>1, <3>2 DEF Whole
  <2>3. CASE kind # "blank"
    <3>1. req_'[c] = <<>> /\ TakeText(c, [no |-> no, kind |-> kind, part |-> "head"])
      BY <2>3, <1>f, <1>t, <1>a
    <3>2. Arrived(c, 0)'
      <4>1. CASE kind # "channel"
        BY <4>1, <1>4, <1>c
      <4>2. CASE kind = "channel"
        <5>1. events_' = Append(events_, [client |-> c, no |-> no])
          BY <3>1, <4>2 DEF TakeText
        <5>2. [client |-> c, no |-> no] \in Range(events_')
          <6>1. [client |-> c, no |-> no] \in Command
            BY DEF Command
          <6> QED
            BY <5>1, <6>1, PushFacts DEF TypeOK
        <5>3. [client |-> c, no |-> no] \in Range(Queued)'
          BY <5>2, ConcatFacts DEF TypeOK, Queued
        <5> QED
          BY <5>3, <1>4, <1>b, <1>d DEF Arrived
      <4> QED
        BY <4>1, <4>2
    <3>3. Blank(req_'[c], Len(req_'[c]))
      BY <3>1 DEF Blank
    <3> QED
      BY <2>1, <3>2, <3>3 DEF Whole
  <2> QED
    BY <2>2, <2>3
<1> QED
  BY <1>7, <1>5, <1>e, <1>f

\* No step loses a line that is on its way or has arrived.
LEMMA KeptStep == TypeOK /\ PacedKept /\ [Next]_vars => PacedKept'
<1> SUFFICES ASSUME TypeOK, PacedKept, [Next]_vars, NEW c \in Client PROVE Kept(c)'
  BY DEF PacedKept
<1>0. TypeOK' /\ Kept(c) /\ Range(Queued) \subseteq Range(Queued)'
  BY TypedStep, QueuedKept DEF PacedKept
<1> USE DEF telnet, console, operator, slots, Console
<1>1. ASSUME UNCHANGED <<paced, commands>>, hungUp \subseteq hungUp', alive' => alive,
             network'[c] = network[c], req_'[c] = req_[c]
      PROVE  Kept(c)'
  BY <1>0, <1>1, KeptFrame
<1>2. ASSUME NEW d \in Client, Connect(d) \/ onAccept(d) PROVE Kept(c)'
  BY <1>1, <1>2 DEF Connect, onAccept
<1>3. ASSUME NEW d \in Client, HangUp(d) PROVE Kept(c)'
  <2>1. CASE d = c
    BY <2>1, <1>3 DEF HangUp, Kept
  <2>2. CASE d # c
    BY <2>2, <1>1, <1>3 DEF HangUp, TypeOK
  <2> QED
    BY <2>1, <2>2
<1>4. ASSUME NEW d \in Client, NEW kind \in Kind, Type(d, kind), Console PROVE Kept(c)'
  <2>1. CASE d = c
    BY <2>1, <1>0, <1>4, TypeKept
  <2>2. CASE d # c
    <3>1. \A command \in commands' : command.client = c => command \in commands
      BY <2>2, <1>4 DEF Type
    <3>2. /\ UNCHANGED <<paced, hungUp, alive>>
          /\ network'[c] = network[c] /\ req_'[c] = req_[c]
      BY <2>2, <1>4 DEF Type, TypeOK
    <3> QED
      BY <3>1, <3>2, <1>0, KeptFrame
  <2> QED
    BY <2>1, <2>2
<1>5. ASSUME TelnetStart \/ LoopTop \/ LoopWait PROVE Kept(c)'
  BY <1>1, <1>5 DEF TelnetStart, LoopTop, LoopWait
<1>6. ASSUME NEW d \in Client, onRecv(d), Console PROVE Kept(c)'
  <2>1. CASE d = c
    BY <2>1, <1>0, <1>6, RecvKept
  <2>2. CASE d # c
    <3>1. network'[c] = network[c] /\ req_'[c] = req_[c]
      BY <2>2, <1>6 DEF onRecv, Take, TypeOK
    <3> QED
      BY <3>1, <1>1, <1>6 DEF onRecv
  <2> QED
    BY <2>1, <2>2
<1>7. ASSUME NEW d \in Client, onRecvError(d) PROVE Kept(c)'
  <2>1. CASE d = c
    <3>1. ASSUME c \in paced \ hungUp, alive PROVE Whole(c)'
      <4>1. Whole(c)
        BY <2>1, <3>1, <1>0, <1>7, NotCut DEF Kept, onRecvError
      <4>2. /\ network' = network /\ req_'[c] = <<>> /\ Arrived(c, 0)'
        BY <2>1, <1>0, <1>7, <4>1 DEF onRecvError, TypeOK, Whole, Arrived
      <4> QED
        BY <4>1, <4>2 DEF Whole, Blank
    <3> QED
      BY <3>1, <1>7 DEF Kept, onRecvError
  <2>2. CASE d # c
    BY <2>2, <1>1, <1>7 DEF onRecvError, TypeOK
  <2> QED
    BY <2>1, <2>2
<1>8. CASE Execute \/ Escape \/ Ending
  BY <1>1, <1>8 DEF Execute, Escape, Ending, PublisherExits, PublisherMissing,
                    PublisherJoined, TelnetJoined, Return, SlotExits, Release
<1>9. CASE UNCHANGED vars
  BY <1>1, <1>9 DEF vars
<1> QED
  BY <1>2, <1>3, <1>4, <1>5, <1>6, <1>7, <1>8, <1>9 DEF Next, Operators, telnet_service

\* However the bytes of clients are cut, what an operator typed who waits for each line
\* is queued once it has arrived.
THEOREM PacedCorrect == Spec => []PacedCommandsArrive
<1>1. Init => TypeOK /\ PacedKept
  BY TypedInit, KeptInit
<1>2. TypeOK /\ PacedKept /\ [Next]_vars => (TypeOK /\ PacedKept)'
  BY TypedStep, KeptStep
<1>3. TypeOK /\ PacedKept => PacedCommandsArrive
  BY KeptArrives
<1> QED
  BY <1>1, <1>2, <1>3, PTL DEF Spec

----------------------------------------------------------------------------
(* Every operator: what is queued follows the order of the lines, because  *)
(* the heads of lines that were not taken yet, in req_ or on their way,    *)
(* ascend, and lie behind everything of the client that is queued.         *)

IsHead(unit) == unit.part = "head"

\* The heads in a stream of units ascend, none is of a line later than the last, and
\* those of commands are known as commands of the client.
Ascending(c, stream, last, known) ==
    /\ \A i, j \in DOMAIN stream :
           i < j /\ IsHead(stream[i]) /\ IsHead(stream[j]) => stream[i].no < stream[j].no
    /\ \A i \in DOMAIN stream :
           IsHead(stream[i]) =>
               /\ stream[i].no <= last
               /\ stream[i].kind = "channel" => [client |-> c, no |-> stream[i].no] \in known

\* They lie behind what is queued of the client.
Behind(c, stream, queue) ==
    \A i \in DOMAIN stream, k \in DOMAIN queue :
        IsHead(stream[i]) /\ queue[k].client = c => queue[k].no < stream[i].no

InOrder(queue, known) ==
    /\ Range(queue) \subseteq known
    /\ \A i, j \in DOMAIN queue :
           i < j /\ queue[i].client = queue[j].client => queue[i].no < queue[j].no

\* All that is not taken of a client.
Stream(c) == req_[c] \o network[c]

OrderKept ==
    /\ InOrder(Queued, commands)
    /\ \A command \in commands : command.no <= typed
    /\ \A c \in Client : /\ Ascending(c, Stream(c), typed, commands)
                         /\ Behind(c, Stream(c), Queued)

\* p is a stretch of q.
Stretch(p, q) ==
    \E k \in Nat : \A i \in DOMAIN p : k + i \in DOMAIN q /\ p[i] = q[k + i]

\* A stretch of a stream is as well ordered as the stream.
LEMMA StretchAscends ==
    ASSUME NEW p \in Seq(Unit), NEW q \in Seq(Unit), Stretch(p, q), NEW c, NEW last,
           NEW known, NEW queue, Ascending(c, q, last, known), Behind(c, q, queue)
    PROVE  Ascending(c, p, last, known) /\ Behind(c, p, queue)
<1>1. PICK k \in Nat : \A i \in DOMAIN p : k + i \in DOMAIN q /\ p[i] = q[k + i]
  BY DEF Stretch
<1>2. DOMAIN p \subseteq Nat /\ DOMAIN q \subseteq Nat
  BY RangeFacts
<1>3. ASSUME NEW i \in DOMAIN p, NEW j \in DOMAIN p, i < j, IsHead(p[i]), IsHead(p[j])
      PROVE  p[i].no < p[j].no
  <2>1. k + i < k + j
    BY <1>2, <1>3
  <2> QED
    BY <1>1, <1>3, <2>1 DEF Ascending
<1>4. ASSUME NEW i \in DOMAIN p, IsHead(p[i])
      PROVE  /\ p[i].no <= last
             /\ p[i].kind = "channel" => [client |-> c, no |-> p[i].no] \in known
             /\ \A n \in DOMAIN queue : queue[n].client = c => queue[n].no < p[i].no
  BY <1>1, <1>4 DEF Ascending, Behind
<1> QED
  BY <1>3, <1>4 DEF Ascending, Behind

\* The two ends of a stream are stretches of it.
LEMMA EndsAreStretches ==
    ASSUME NEW p \in Seq(Unit), NEW q \in Seq(Unit)
    PROVE  Stretch(p, p \o q) /\ Stretch(q, p \o q)
<1>1. /\ p \o q \in Seq(Unit) /\ Len(p \o q) = Len(p) + Len(q)
      /\ \A i \in 1..(Len(p) + Len(q)) :
            (p \o q)[i] = IF i <= Len(p) THEN p[i] ELSE q[i - Len(p)]
  BY ConcatProperties
<1>2. /\ Len(p) \in Nat /\ Len(q) \in Nat /\ DOMAIN p = 1..Len(p) /\ DOMAIN q = 1..Len(q)
      /\ DOMAIN (p \o q) = 1..(Len(p) + Len(q))
  BY <1>1, RangeFacts
<1> DEFINE r == p \o q
<1> HIDE DEF r
<1>3. \A i \in DOMAIN p : 0 + i \in DOMAIN r /\ p[i] = r[0 + i]
  BY <1>1, <1>2 DEF r
<1>4. \A i \in DOMAIN q : Len(p) + i \in DOMAIN r /\ q[i] = r[Len(p) + i]
  <2> SUFFICES ASSUME NEW i \in DOMAIN q
               PROVE  Len(p) + i \in DOMAIN r /\ q[i] = r[Len(p) + i]
    OBVIOUS
  <2>1. Len(p) + i \in 1..(Len(p) + Len(q)) /\ ~(Len(p) + i <= Len(p)) /\ (Len(p) + i) - Len(p) = i
    BY <1>2
  <2> QED
    BY <1>1, <1>2, <2>1 DEF r
<1>5. 0 \in Nat
  OBVIOUS
<1> QED
  BY <1>2, <1>3, <1>4, <1>5 DEF Stretch, r

\* A recv moves units from one half of the stream to the other.
LEMMA RecvMoves ==
    ASSUME NEW r \in Seq(Unit), NEW q \in Seq(Unit), NEW n \in 1..Len(q)
    PROVE  (r \o SubSeq(q, 1, n)) \o SubSeq(q, n + 1, Len(q)) = r \o q
<1> DEFINE text == r \o SubSeq(q, 1, n)
           rest == SubSeq(q, n + 1, Len(q))
           l == text \o rest
           m == r \o q
<1>1. /\ text \in Seq(Unit) /\ Len(text) = Len(r) + n
      /\ \A i \in 1..Len(r) : text[i] = r[i]
      /\ \A i \in 1..n : text[Len(r) + i] = q[i]
      /\ rest \in Seq(Unit) /\ Len(rest) = Len(q) - n
      /\ \A i \in 1..(Len(q) - n) : rest[i] = q[n + i]
  BY RecvFacts
<1>2. Len(r) \in Nat /\ Len(q) \in Nat /\ n \in Nat /\ n >= 1 /\ n <= Len(q)
  OBVIOUS
<1>3. /\ m \in Seq(Unit) /\ Len(m) = Len(r) + Len(q)
      /\ \A i \in 1..(Len(r) + Len(q)) : m[i] = IF i <= Len(r) THEN r[i] ELSE q[i - Len(r)]
  BY ConcatProperties
<1> HIDE DEF text, rest, m
<1>4. /\ l \in Seq(Unit) /\ Len(l) = Len(text) + Len(rest)
      /\ \A i \in 1..(Len(text) + Len(rest)) :
            l[i] = IF i <= Len(text) THEN text[i] ELSE rest[i - Len(text)]
  BY <1>1, ConcatProperties
<1> HIDE DEF l
<1>5. Len(l) = Len(r) + Len(q)
  BY <1>1, <1>2, <1>4
<1>6. ASSUME NEW i \in 1..(Len(r) + Len(q)) PROVE l[i] = m[i]
  <2>0. i \in 1..(Len(text) + Len(rest)) /\ i \in Nat
    BY <1>1, <1>2
  <2>1. CASE i <= Len(r)
    <3>1. i \in 1..Len(r) /\ i <= Len(text)
      BY <1>1, <1>2, <2>1
    <3> QED
      BY <1>1, <1>3, <1>4, <2>0, <2>1, <3>1
  <2>2. CASE i > Len(r) /\ i <= Len(r) + n
    <3>1. i - Len(r) \in 1..n /\ i <= Len(text) /\ i = Len(r) + (i - Len(r)) /\ ~(i <= Len(r))
      BY <1>1, <1>2, <2>2
    <3>2. l[i] = text[i] /\ text[Len(r) + (i - Len(r))] = q[i - Len(r)]
      BY <1>1, <1>4, <2>0, <3>1
    <3> QED
      BY <1>3, <3>1, <3>2
  <2>3. CASE i > Len(r) + n
    <3>1. /\ i - Len(text) \in 1..(Len(q) - n) /\ ~(i <= Len(text)) /\ ~(i <= Len(r))
          /\ n + (i - Len(text)) = i - Len(r)
      BY <1>1, <1>2, <2>3
    <3>2. l[i] = rest[i - Len(text)] /\ rest[i - Len(text)] = q[n + (i - Len(text))]
      BY <1>1, <1>4, <2>0, <3>1
    <3> QED
      BY <1>3, <3>1, <3>2
  <2> QED
    BY <1>2, <2>0, <2>1, <2>2, <2>3
<1>7. l = m
  BY <1>3, <1>4, <1>5, <1>6, SeqEqual
<1> QED
  BY <1>7 DEF l, m, text, rest

\* What is taken is queued behind what is queued already, and before what is left.
LEMMA TakenInOrder ==
    ASSUME NEW c \in Client, NEW text \in Seq(Unit), NEW rest \in Seq(Unit),
           Accepted(text), NEW queue \in Seq(Command), NEW last, NEW known,
           InOrder(queue, known), Ascending(c, text \o rest, last, known),
           Behind(c, text \o rest, queue), Parsed(text).kind = "channel"
    PROVE  LET command == [client |-> c, no |-> Parsed(text).no]
           IN  /\ InOrder(Append(queue, command), known)
               /\ Behind(c, rest, Append(queue, command))
<1> DEFINE command == [client |-> c, no |-> Parsed(text).no]
           stream == text \o rest
           longer == Append(queue, command)
<1>1. PICK h \in DOMAIN text : h = (CHOOSE i \in DOMAIN text : text[i].part = "head")
                               /\ text[h].part = "head"
  <2>1. \E i \in DOMAIN text : text[i].part = "head"
    BY DEF Accepted
  <2> QED
    BY <2>1
<1>2. Parsed(text) = text[h] /\ text[h] \in Unit /\ IsHead(text[h])
  BY <1>1, RangeFacts DEF Parsed, IsHead
<1>3. command \in Command
  BY <1>2 DEF Command, Unit
<1>4. /\ stream \in Seq(Unit) /\ Len(stream) = Len(text) + Len(rest)
      /\ \A i \in 1..(Len(text) + Len(rest)) :
            stream[i] = IF i <= Len(text) THEN text[i] ELSE rest[i - Len(text)]
  BY ConcatProperties
<1>5. /\ Len(text) \in Nat /\ Len(rest) \in Nat /\ h \in 1..Len(text)
      /\ DOMAIN rest = 1..Len(rest) /\ DOMAIN stream = 1..(Len(text) + Len(rest))
  BY <1>4, RangeFacts
<1>6. h \in DOMAIN stream /\ stream[h] = text[h]
  BY <1>4, <1>5
<1>7. \A j \in DOMAIN rest : /\ Len(text) + j \in DOMAIN stream /\ h < Len(text) + j
                             /\ stream[Len(text) + j] = rest[j]
  <2> SUFFICES ASSUME NEW j \in DOMAIN rest
               PROVE  /\ Len(text) + j \in DOMAIN stream /\ h < Len(text) + j
                      /\ stream[Len(text) + j] = rest[j]
    OBVIOUS
  <2>1. /\ Len(text) + j \in 1..(Len(text) + Len(rest)) /\ ~(Len(text) + j <= Len(text))
        /\ (Len(text) + j) - Len(text) = j /\ h < Len(text) + j
    BY <1>5
  <2> QED
    BY <1>4, <1>5, <2>1
<1> HIDE DEF stream
<1>8. command.client = c /\ command.no = text[h].no /\ command \in known
  BY <1>2, <1>6 DEF Ascending, stream
<1>9. \A j \in DOMAIN rest : IsHead(rest[j]) => command.no < rest[j].no
  BY <1>2, <1>6, <1>7, <1>8 DEF Ascending, stream
<1>a. \A k \in DOMAIN queue : queue[k].client = c => queue[k].no < command.no
  BY <1>2, <1>6, <1>8 DEF Behind, stream
<1>b. \A j \in DOMAIN rest, k \in DOMAIN queue :
          IsHead(rest[j]) /\ queue[k].client = c => queue[k].no < rest[j].no
  BY <1>7 DEF Behind, stream
<1> HIDE DEF command
<1>c. /\ DOMAIN longer = 1..(Len(queue) + 1) /\ Range(longer) = Range(queue) \cup {command}
      /\ \A i \in 1..Len(queue) : longer[i] = queue[i]
      /\ longer[Len(queue) + 1] = command
      /\ Len(queue) \in Nat /\ DOMAIN queue = 1..Len(queue)
  BY <1>3, PushFacts, RangeFacts
<1> HIDE DEF longer
<1>d. \A k \in DOMAIN longer : k \in DOMAIN queue \/ k = Len(queue) + 1
  BY <1>c
<1>e. ASSUME NEW i \in DOMAIN longer, NEW j \in DOMAIN longer, i < j,
             longer[i].client = longer[j].client
      PROVE  longer[i].no < longer[j].no
  <2>1. i \in DOMAIN queue /\ longer[i] = queue[i]
    BY <1>c, <1>e
  <2>2. CASE j \in DOMAIN queue
    BY <1>c, <1>e, <2>1, <2>2 DEF InOrder
  <2>3. CASE j = Len(queue) + 1
    BY <1>8, <1>a, <1>c, <1>e, <2>1, <2>3
  <2> QED
    BY <1>d, <2>2, <2>3
<1>f. Range(longer) \subseteq known
  BY <1>8, <1>c DEF InOrder
<1>g. ASSUME NEW j \in DOMAIN rest, NEW k \in DOMAIN longer, IsHead(rest[j]),
             longer[k].client = c
      PROVE  longer[k].no < rest[j].no
  BY <1>9, <1>b, <1>c, <1>d, <1>g
<1>h. InOrder(longer, known) /\ Behind(c, rest, longer)
  BY <1>e, <1>f, <1>g DEF InOrder, Behind
<1> QED
  BY <1>h DEF longer, command

\* A line that is typed is the last one.
LEMMA TypedAscends ==
    ASSUME NEW c \in Client, NEW stream \in Seq(Unit), NEW last \in Nat, NEW known, NEW more,
           NEW kind \in Kind, last + 1 \in 1..MaxLines, NEW queue \in Seq(Command),
           Ascending(c, stream, last, known), Behind(c, stream, queue),
           known \subseteq more, \A k \in DOMAIN queue : queue[k].no <= last,
           kind = "channel" => [client |-> c, no |-> last + 1] \in more
    PROVE  /\ Ascending(c, stream \o Line(last + 1, kind), last + 1, more)
           /\ Behind(c, stream \o Line(last + 1, kind), queue)
<1> DEFINE line == Line(last + 1, kind)
           long == stream \o line
<1>1. line \in Seq(Unit)
  BY LineTyped
<1>2. /\ \A i \in DOMAIN line : IsHead(line[i]) => /\ i = 1 /\ line[i].no = last + 1
                                                   /\ line[i].kind = kind
  <2>1. CASE kind = "blank"
    <3>0. Len(line) = 2 /\ line[1].part = "cr" /\ line[2].part = "lf"
      BY <2>1, LineFacts
    <3>1. DOMAIN line = 1..2 /\ line[1].part = "cr" /\ line[2].part = "lf"
      BY <1>1, <3>0, RangeFacts
    <3> HIDE DEF line
    <3>2. \A i \in DOMAIN line : i = 1 \/ i = 2
      BY <3>1
    <3> QED
      BY <3>1, <3>2 DEF IsHead
  <2>2. CASE kind # "blank"
    <3>1. /\ DOMAIN line = 1..4
          /\ line[1] = [no |-> last + 1, kind |-> kind, part |-> "head"]
          /\ line[2].part = "tail" /\ line[3].part = "cr" /\ line[4].part = "lf"
      BY <1>1, <2>2, LineFacts, RangeFacts
    <3> HIDE DEF line
    <3>2. \A i \in DOMAIN line : i = 1 \/ i = 2 \/ i = 3 \/ i = 4
      BY <3>1
    <3> QED
      BY <3>1, <3>2 DEF IsHead
  <2> QED
    BY <2>1, <2>2
<1> HIDE DEF line
<1>3. /\ long \in Seq(Unit) /\ Len(long) = Len(stream) + Len(line)
      /\ \A i \in 1..(Len(stream) + Len(line)) :
            long[i] = IF i <= Len(stream) THEN stream[i] ELSE line[i - Len(stream)]
  BY <1>1, ConcatProperties
<1>4. /\ Len(stream) \in Nat /\ Len(line) \in Nat /\ DOMAIN stream = 1..Len(stream)
      /\ DOMAIN line = 1..Len(line) /\ DOMAIN long = 1..(Len(stream) + Len(line))
  BY <1>1, <1>3, RangeFacts
<1> HIDE DEF long
<1>5. ASSUME NEW i \in DOMAIN long, IsHead(long[i])
      PROVE  \/ i \in DOMAIN stream /\ long[i] = stream[i]
             \/ /\ i = Len(stream) + 1 /\ long[i].no = last + 1 /\ long[i].kind = kind
  <2>1. CASE i <= Len(stream)
    BY <1>3, <1>4, <2>1
  <2>2. CASE ~(i <= Len(stream))
    <3>1. i - Len(stream) \in DOMAIN line /\ long[i] = line[i - Len(stream)]
      BY <1>3, <1>4, <2>2
    <3>2. i - Len(stream) = 1 /\ long[i].no = last + 1 /\ long[i].kind = kind
      BY <1>2, <1>5, <3>1
    <3> QED
      BY <1>4, <3>2
  <2> QED
    BY <2>1, <2>2
<1>6. \A i \in DOMAIN stream : stream[i].no \in Nat
  <2>1. \A i \in DOMAIN stream : stream[i] \in Unit
    BY RangeFacts
  <2> QED
    BY <2>1 DEF Unit
<1>7. ASSUME NEW i \in DOMAIN long, NEW j \in DOMAIN long, i < j,
             IsHead(long[i]), IsHead(long[j])
      PROVE  long[i].no < long[j].no
  <2>1. i \in DOMAIN stream /\ long[i] = stream[i]
    BY <1>4, <1>5, <1>7
  <2>2. CASE j \in DOMAIN stream /\ long[j] = stream[j]
    BY <1>7, <2>1, <2>2 DEF Ascending
  <2>3. CASE long[j].no = last + 1
    <3>1. stream[i].no <= last
      BY <1>7, <2>1 DEF Ascending
    <3> QED
      BY <1>6, <2>1, <2>3, <3>1
  <2> QED
    BY <1>5, <1>7, <2>2, <2>3
<1>8. ASSUME NEW i \in DOMAIN long, IsHead(long[i])
      PROVE  /\ long[i].no <= last + 1
             /\ long[i].kind = "channel" => [client |-> c, no |-> long[i].no] \in more
  <2>1. CASE i \in DOMAIN stream /\ long[i] = stream[i]
    <3>1. /\ stream[i].no <= last
          /\ stream[i].kind = "channel" => [client |-> c, no |-> stream[i].no] \in known
      BY <1>8, <2>1 DEF Ascending
    <3> QED
      BY <1>6, <2>1, <3>1
  <2>2. CASE long[i].no = last + 1 /\ long[i].kind = kind
    BY <2>2
  <2> QED
    BY <1>5, <1>8, <2>1, <2>2
<1>9. ASSUME NEW i \in DOMAIN long, NEW k \in DOMAIN queue, IsHead(long[i]),
             queue[k].client = c
      PROVE  queue[k].no < long[i].no
  <2>1. CASE i \in DOMAIN stream /\ long[i] = stream[i]
    BY <1>9, <2>1 DEF Behind
  <2>2. CASE long[i].no = last + 1
    <3>1. queue[k].no \in Nat /\ queue[k].no <= last
      <4>1. queue[k] \in Command
        BY RangeFacts
      <4> QED
        BY <4>1 DEF Command
    <3> QED
      BY <2>2, <3>1
  <2> QED
    BY <1>5, <1>9, <2>1, <2>2
<1> QED
  BY <1>7, <1>8, <1>9 DEF Ascending, Behind, long, line

\* Nothing was typed.
LEMMA OrderInit == Init => OrderKept
<1> SUFFICES ASSUME Init PROVE OrderKept
  OBVIOUS
<1>1. /\ executed = <<>> /\ events_ = <<>> /\ commands = {}
      /\ \A c \in Client : network[c] = <<>> /\ req_[c] = <<>>
  BY DEF Init, TelnetInit
<1>2. Queued = <<>>
  BY <1>1 DEF Queued
<1>3. InOrder(Queued, commands)
  BY <1>1, <1>2 DEF InOrder, Range
<1>4. ASSUME NEW c \in Client
      PROVE  Ascending(c, Stream(c), typed, commands) /\ Behind(c, Stream(c), Queued)
  <2>1. Stream(c) = <<>>
    BY <1>1 DEF Stream
  <2> QED
    BY <2>1 DEF Ascending, Behind
<1> QED
  BY <1>1, <1>3, <1>4 DEF OrderKept

\* Steps that neither type nor queue anything, and at most lose units of a stream.
LEMMA OrderFrame ==
    ASSUME TypeOK, TypeOK', OrderKept, UNCHANGED <<typed, commands>>, Queued' = Queued,
           \A c \in Client : Stretch(Stream(c)', Stream(c))
    PROVE  OrderKept'
<1>1. ASSUME NEW c \in Client
      PROVE  Ascending(c, Stream(c)', typed, commands) /\ Behind(c, Stream(c)', Queued)
  <2>1. PICK p, q : p = Stream(c)' /\ q = Stream(c)
    OBVIOUS
  <2>2. p \in Seq(Unit) /\ q \in Seq(Unit) /\ Stretch(p, q)
    BY <2>1 DEF Stream, TypeOK
  <2>3. Ascending(c, q, typed, commands) /\ Behind(c, q, Queued)
    BY <2>1 DEF OrderKept
  <2> QED
    BY <2>1, <2>2, <2>3, StretchAscends
<1> QED
  BY <1>1 DEF OrderKept

\* A stream is a stretch of itself.
LEMMA StretchSelf == ASSUME NEW q \in Seq(Unit) PROVE Stretch(q, q)
<1>1. DOMAIN q \subseteq Nat /\ 0 \in Nat
  BY RangeFacts
<1>2. \A i \in DOMAIN q : 0 + i \in DOMAIN q /\ q[i] = q[0 + i]
  BY <1>1
<1> QED
  BY <1>1, <1>2 DEF Stretch

\* Execution moves a command from one half of the queue to the other.
LEMMA ExecuteMoves == TypeOK /\ Execute => Queued' = Queued
<1> SUFFICES ASSUME TypeOK, Execute PROVE Queued' = Queued
  OBVIOUS
<1> DEFINE e == Head(events_)
           rest == Tail(events_)
<1>1. /\ events_ \in Seq(Command) /\ events_ # <<>> /\ executed \in Seq(Command)
      /\ executed' = Append(executed, e) /\ events_' = rest
  BY DEF Execute, TakeCommand, TypeOK
<1>2. e \in Command /\ rest \in Seq(Command) /\ <<e>> \o rest = events_
  BY <1>1, PopFacts, HeadConsTail
<1> HIDE DEF e, rest
<1>3. Append(executed, e) \o rest = executed \o (<<e>> \o rest)
  <2>1. Append(executed, e) = executed \o <<e>>
    BY <1>1, <1>2
  <2>2. <<e>> \in Seq(Command)
    BY <1>2
  <2> QED
    BY <1>1, <1>2, <2>1, <2>2, ConcatAssociative
<1> QED
  BY <1>1, <1>2, <1>3 DEF Queued

\* A recv leaves the order of what it does not take, and queues what it takes.
LEMMA RecvOrder ==
    ASSUME TypeOK, TypeOK', OrderKept, NEW c \in Client, onRecv(c), Console
    PROVE  OrderKept'
<1>1. PICK n \in 1..Len(network[c]) :
          /\ network' = [network EXCEPT ![c] = SubSeq(@, n + 1, Len(@))]
          /\ Take(c, SubSeq(network[c], 1, n))
  BY DEF onRecv
<1> DEFINE text == req_[c] \o SubSeq(network[c], 1, n)
           rest == SubSeq(network[c], n + 1, Len(network[c]))
<1>2. UNCHANGED <<typed, commands, executed>>
  BY DEF onRecv, Console, operator
<1>3. network[c] \in Seq(Unit) /\ req_[c] \in Seq(Unit)
  BY DEF TypeOK
<1>4. text \in Seq(Unit) /\ rest \in Seq(Unit) /\ text \o rest = Stream(c)
  BY <1>3, RecvFacts, RecvMoves DEF Stream
<1>u. text \in Seq(Unit) /\ rest \in Seq(Unit) /\ text \o rest \in Seq(Unit)
  <2> HIDE DEF text, rest
  <2> QED
    BY <1>4, ConcatProperties
<1>5. /\ network'[c] = rest
      /\ req_'[c] = text \/ req_'[c] = <<>>
      /\ \A d \in Client \ {c} : network'[d] = network[d] /\ req_'[d] = req_[d]
      /\ \/ events_' = events_
         \/ /\ Accepted(text) /\ req_'[c] = <<>> /\ Parsed(text).kind = "channel"
            /\ events_' = Append(events_, [client |-> c, no |-> Parsed(text).no])
  <2>1. network'[c] = rest /\ \A d \in Client \ {c} : network'[d] = network[d]
    BY <1>1 DEF TypeOK
  <2>2. /\ req_'[c] = text \/ req_'[c] = <<>>
        /\ \A d \in Client \ {c} : req_'[d] = req_[d]
    BY <1>1 DEF Take, TypeOK
  <2>3. \/ events_' = events_
        \/ /\ Accepted(text) /\ req_'[c] = <<>> /\ Parsed(text).kind = "channel"
           /\ events_' = Append(events_, [client |-> c, no |-> Parsed(text).no])
    BY <1>1 DEF Take, TakeText, TypeOK
  <2> QED
    BY <2>1, <2>2, <2>3
<1> HIDE DEF text, rest
<1>6. Stream(c)' = text \o rest \/ (Stream(c)' = rest /\ req_'[c] = <<>>)
  <2>1. <<>> \o rest = rest
    BY <1>u
  <2>2. Stream(c)' = req_'[c] \o network'[c]
    BY DEF Stream
  <2> QED
    BY <1>5, <2>1, <2>2
<1>7. ASSUME req_'[c] = <<>> PROVE Stream(c)' = rest
  BY <1>4, <1>5, <1>7 DEF Stream
<1>8. \A d \in Client \ {c} : Stream(d)' = Stream(d)
  BY <1>5 DEF Stream
<1>9. \A d \in Client : Stream(d) \in Seq(Unit)
  BY DEF Stream, TypeOK
<1>a. CASE events_' = events_
  <2>1. Queued' = Queued
    BY <1>2, <1>a DEF Queued
  <2>2. ASSUME NEW d \in Client PROVE Stretch(Stream(d)', Stream(d))
    <3>1. CASE d # c
      BY <1>8, <1>9, <3>1, StretchSelf
    <3>2. CASE d = c
      <4>1. Stretch(text \o rest, text \o rest) /\ Stretch(rest, text \o rest)
        BY <1>u, StretchSelf, EndsAreStretches
      <4> QED
        BY <1>4, <1>6, <3>2, <4>1
    <3> QED
      BY <3>1, <3>2
  <2> QED
    BY <1>2, <2>1, <2>2, OrderFrame
<1>b. CASE /\ Accepted(text) /\ req_'[c] = <<>> /\ Parsed(text).kind = "channel"
           /\ events_' = Append(events_, [client |-> c, no |-> Parsed(text).no])
  <2> DEFINE command == [client |-> c, no |-> Parsed(text).no]
  <2>1. command \in Command
    <3>1. Parsed(text) \in Unit
      BY <1>4, <1>b, ParsedTyped
    <3> QED
      BY <3>1 DEF Unit, Command
  <2>2. executed \in Seq(Command) /\ events_ \in Seq(Command) /\ Queued \in Seq(Command)
    BY DEF TypeOK, Queued
  <2>3. Queued' = Append(Queued, command)
    BY <1>2, <1>b, <2>1, <2>2, ConcatPush DEF Queued
  <2>4. /\ InOrder(Queued, commands)
        /\ Ascending(c, text \o rest, typed, commands) /\ Behind(c, text \o rest, Queued)
    BY <1>4 DEF OrderKept
  <2>5. /\ InOrder(Append(Queued, command), commands)
        /\ Behind(c, rest, Append(Queued, command))
    BY <1>4, <1>b, <2>2, <2>4, TakenInOrder
  <2>6. Ascending(c, rest, typed, commands)
    <3>1. Stretch(rest, text \o rest) /\ text \o rest \in Seq(Unit)
      BY <1>4, <1>u, EndsAreStretches
    <3> QED
      BY <1>4, <2>4, <3>1, StretchAscends
  <2>7. ASSUME NEW d \in Client \ {c}
        PROVE  Ascending(d, Stream(d), typed, commands) /\ Behind(d, Stream(d), Append(Queued, command))
    <3>1. Ascending(d, Stream(d), typed, commands) /\ Behind(d, Stream(d), Queued)
      BY DEF OrderKept
    <3>2. /\ DOMAIN Append(Queued, command) = 1..(Len(Queued) + 1)
          /\ \A i \in 1..Len(Queued) : Append(Queued, command)[i] = Queued[i]
          /\ Append(Queued, command)[Len(Queued) + 1] = command
          /\ Len(Queued) \in Nat /\ DOMAIN Queued = 1..Len(Queued)
      BY <2>1, <2>2, PushFacts, RangeFacts
    <3>3. command.client # d
      OBVIOUS
    <3> HIDE DEF command
    <3>4. \A k \in DOMAIN Append(Queued, command) :
              Append(Queued, command)[k].client = d =>
                  k \in DOMAIN Queued /\ Append(Queued, command)[k] = Queued[k]
      <4>1. \A k \in DOMAIN Append(Queued, command) : k \in DOMAIN Queued \/ k = Len(Queued) + 1
        BY <3>2
      <4> QED
        BY <3>2, <3>3, <4>1
    <3> QED
      BY <3>1, <3>4 DEF Behind
  <2> HIDE DEF command
  <2>8. \A d \in Client : Ascending(d, Stream(d)', typed, commands) /\ Behind(d, Stream(d)', Queued')
    <3>1. Stream(c)' = rest
      BY <1>7, <1>b
    <3>2. Ascending(c, Stream(c)', typed, commands) /\ Behind(c, Stream(c)', Queued')
      BY <2>3, <2>5, <2>6, <3>1
    <3> QED
      BY <1>8, <2>3, <2>7, <3>2
  <2>9. InOrder(Queued', commands)
    BY <2>3, <2>5
  <2> QED
    BY <1>2, <2>8, <2>9 DEF OrderKept
<1> QED
  BY <1>5, <1>a, <1>b

\* A line that is typed goes behind all the others.
LEMMA TypeOrder ==
    ASSUME TypeOK, OrderKept, NEW c \in Client, NEW kind \in Kind, Type(c, kind), Console
    PROVE  OrderKept'
<1> DEFINE line == Line(typed + 1, kind)
<1>1. /\ typed + 1 \in 1..MaxLines /\ typed \in Nat
      /\ typed' = typed + 1 /\ network' = [network EXCEPT ![c] = @ \o line]
      /\ commands' = IF kind = "channel"
                     THEN commands \cup {[client |-> c, no |-> typed + 1]} ELSE commands
      /\ UNCHANGED <<req_, events_, executed>>
  BY LinesAssumption DEF Type, Console, console, TypeOK
<1>2. Queued' = Queued /\ commands \subseteq commands'
  BY <1>1 DEF Queued
<1>3. InOrder(Queued, commands')
  BY <1>2 DEF OrderKept, InOrder
<1>4. \A command \in commands' : command.no <= typed + 1
  <2>1. \A command \in commands : command.no \in Nat /\ command.no <= typed
    BY DEF OrderKept, TypeOK, Command
  <2> QED
    BY <1>1, <2>1
<1>5. Queued \in Seq(Command) /\ \A k \in DOMAIN Queued : Queued[k].no <= typed
  <2>1. Queued \in Seq(Command)
    BY DEF Queued, TypeOK
  <2>2. \A k \in DOMAIN Queued : Queued[k] \in commands
    BY <2>1, RangeFacts DEF OrderKept, InOrder
  <2> QED
    BY <2>1, <2>2 DEF OrderKept
<1>6. \A d \in Client : Stream(d) \in Seq(Unit)
  BY DEF Stream, TypeOK
<1>7. ASSUME NEW d \in Client \ {c}
      PROVE  Ascending(d, Stream(d), typed + 1, commands') /\ Behind(d, Stream(d), Queued)
             /\ Stream(d)' = Stream(d)
  <2>1. Ascending(d, Stream(d), typed, commands) /\ Behind(d, Stream(d), Queued)
    BY DEF OrderKept
  <2>2. \A i \in DOMAIN Stream(d) : Stream(d)[i].no \in Nat
    <3>1. \A i \in DOMAIN Stream(d) : Stream(d)[i] \in Unit
      BY <1>6, RangeFacts
    <3> QED
      BY <3>1 DEF Unit
  <2>3. Ascending(d, Stream(d), typed + 1, commands')
    BY <1>1, <1>2, <2>1, <2>2 DEF Ascending
  <2>4. Stream(d)' = Stream(d)
    BY <1>1 DEF Stream, TypeOK
  <2> QED
    BY <2>1, <2>3, <2>4
<1>8. Ascending(c, Stream(c)', typed + 1, commands') /\ Behind(c, Stream(c)', Queued)
  <2>1. PICK last, known, more, queue, stream :
            /\ last = typed /\ known = commands /\ more = commands' /\ queue = Queued
            /\ stream = Stream(c)
    OBVIOUS
  <2>2. line \in Seq(Unit)
    BY <1>1, LineTyped
  <2>3. Stream(c)' = Stream(c) \o line
    <3>1. network'[c] = network[c] \o line /\ req_'[c] = req_[c]
      BY <1>1 DEF TypeOK
    <3>2. network[c] \in Seq(Unit) /\ req_[c] \in Seq(Unit)
      BY DEF TypeOK
    <3>3. PICK p, q, l : p = req_[c] /\ q = network[c] /\ l = line
      OBVIOUS
    <3>4. p \o (q \o l) = (p \o q) \o l
      <4>1. p \in Seq(Unit) /\ q \in Seq(Unit) /\ l \in Seq(Unit)
        BY <2>2, <3>2, <3>3
      <4> QED
        BY <4>1, ConcatAssociative
    <3>5. Stream(c)' = p \o (q \o l) /\ Stream(c) = p \o q
      BY <3>1, <3>3 DEF Stream
    <3> QED
      BY <3>3, <3>4, <3>5
  <2>4. /\ Ascending(c, stream, last, known) /\ Behind(c, stream, queue)
        /\ known \subseteq more /\ (\A k \in DOMAIN queue : queue[k].no <= last)
        /\ kind = "channel" => [client |-> c, no |-> last + 1] \in more
        /\ last \in Nat /\ last + 1 \in 1..MaxLines /\ stream \in Seq(Unit) /\ queue \in Seq(Command)
    <3>1. Ascending(c, Stream(c), typed, commands) /\ Behind(c, Stream(c), Queued)
      BY DEF OrderKept
    <3> HIDE DEF line
    <3> QED
      BY <1>1, <1>2, <1>5, <1>6, <2>1, <3>1
  <2>5. /\ Ascending(c, stream \o Line(last + 1, kind), last + 1, more)
        /\ Behind(c, stream \o Line(last + 1, kind), queue)
    BY <2>4, TypedAscends
  <2> QED
    BY <2>1, <2>3, <2>5
<1> HIDE DEF line
<1>9. \A d \in Client : Ascending(d, Stream(d)', typed', commands') /\ Behind(d, Stream(d)', Queued')
  BY <1>1, <1>2, <1>7, <1>8
<1>a. InOrder(Queued', commands') /\ \A command \in commands' : command.no <= typed'
  BY <1>1, <1>2, <1>3, <1>4
<1> QED
  BY <1>9, <1>a DEF OrderKept

LEMMA OrderStep == TypeOK /\ OrderKept /\ [Next]_vars => OrderKept'
<1> SUFFICES ASSUME TypeOK, OrderKept, [Next]_vars PROVE OrderKept'
  OBVIOUS
<1>0. TypeOK'
  BY TypedStep
<1> USE DEF telnet, console, operator, slots, Console
<1>1. \A c \in Client : Stream(c) \in Seq(Unit) /\ Stretch(Stream(c), Stream(c))
  <2>1. \A c \in Client : Stream(c) \in Seq(Unit)
    BY DEF Stream, TypeOK
  <2> QED
    BY <2>1, StretchSelf
<1>2. ASSUME UNCHANGED <<typed, commands, network, req_>>, Queued' = Queued
      PROVE  OrderKept'
  <2>1. \A c \in Client : Stretch(Stream(c)', Stream(c))
    BY <1>1, <1>2 DEF Stream
  <2> QED
    BY <1>0, <1>2, <2>1, OrderFrame
<1>3. ASSUME UNCHANGED <<typed, commands, network, req_, executed, events_>> PROVE OrderKept'
  BY <1>2, <1>3 DEF Queued
<1>4. ASSUME NEW c \in Client, HangUp(c), Console PROVE OrderKept'
  <2>1. /\ UNCHANGED <<typed, commands, req_>> /\ Queued' = Queued
        /\ network' = network \/ network' = [network EXCEPT ![c] = <<>>]
    BY <1>4 DEF HangUp, Queued
  <2>2. CASE network' = network
    BY <1>2, <2>1, <2>2
  <2>3. CASE network' = [network EXCEPT ![c] = <<>>]
    <3>1. ASSUME NEW d \in Client PROVE Stretch(Stream(d)', Stream(d))
      <4>1. CASE d # c
        <5>1. Stream(d)' = Stream(d)
          BY <2>1, <2>3, <4>1 DEF Stream, TypeOK
        <5> QED
          BY <1>1, <5>1
      <4>2. CASE d = c
        <5>1. req_[c] \in Seq(Unit) /\ network[c] \in Seq(Unit)
          BY DEF TypeOK
        <5>2. Stream(c)' = req_[c]
          BY <2>1, <2>3, <5>1 DEF Stream, TypeOK
        <5>3. Stretch(req_[c], req_[c] \o network[c])
          BY <5>1, EndsAreStretches
        <5> QED
          BY <4>2, <5>2, <5>3 DEF Stream
      <4> QED
        BY <4>1, <4>2
    <3> QED
      BY <1>0, <2>1, <3>1, OrderFrame
  <2> QED
    BY <2>1, <2>2, <2>3
<1>5. ASSUME NEW c \in Client, onRecvError(c), Console PROVE OrderKept'
  <2>1. /\ UNCHANGED <<typed, commands, network>> /\ Queued' = Queued
        /\ network[c] = <<>> /\ req_' = [req_ EXCEPT ![c] = <<>>]
    BY <1>5 DEF onRecvError, Queued
  <2>2. ASSUME NEW d \in Client PROVE Stretch(Stream(d)', Stream(d))
    <3>1. CASE d # c
      <4>1. Stream(d)' = Stream(d)
        BY <2>1, <3>1 DEF Stream, TypeOK
      <4> QED
        BY <1>1, <4>1
    <3>2. CASE d = c
      <4>1. Stream(c)' = <<>>
        BY <2>1 DEF Stream, TypeOK
      <4> QED
        BY <3>2, <4>1 DEF Stretch
    <3> QED
      BY <3>1, <3>2
  <2> QED
    BY <1>0, <2>1, <2>2, OrderFrame
<1>6. ASSUME NEW c \in Client, Connect(c) \/ onAccept(c), Console PROVE OrderKept'
  BY <1>3, <1>6 DEF Connect, onAccept
<1>7. ASSUME TelnetStart \/ LoopTop \/ LoopWait, Console PROVE OrderKept'
  BY <1>3, <1>7 DEF TelnetStart, LoopTop, LoopWait
<1>8. CASE Execute
  BY <1>2, <1>8, ExecuteMoves DEF Execute
<1>9. CASE Escape \/ Ending
  BY <1>3, <1>9 DEF Escape, Ending, PublisherExits, PublisherMissing, PublisherJoined,
                    TelnetJoined, Return, SlotExits, Release
<1>10. CASE UNCHANGED vars
  BY <1>3, <1>10 DEF vars
<1> QED
  BY <1>0, <1>4, <1>5, <1>6, <1>7, <1>8, <1>9, <1>10, TypeOrder, RecvOrder
     DEF Next, Operators, telnet_service

\* However the bytes of clients are cut, and however they are mixed with those of
\* others: what main() executes was typed, once, and in the order typed.
THEOREM ExecutionInOrder == Spec => []CommandsInOrder
<1>1. OrderKept => CommandsInOrder
  BY DEF OrderKept, InOrder, CommandsInOrder
<1> QED
  BY <1>1, TypedInit, TypedStep, OrderInit, OrderStep, PTL DEF Spec

----------------------------------------------------------------------------
(* The end of the process.                                                  *)

\* What main() has gone through says what has ended.
Path ==
    /\ main \in {"joins", "release", "ended"} => publisher = "joined" /\ quit
    /\ main \in {"release", "ended"} => loop = "ended"
    /\ main = "ended" => /\ alive /\ open \subseteq released
                         /\ \A s \in Slot : threads[s] = "none"
    /\ loop = "ended" => libevent2 /\ quit
    /\ publisher = "none" <=> sdi

\* What main() releases has threads that are not joined.
SlotsHeld == \A s \in released : threads[s] # "none"

LEMMA EndInit == Init => Path /\ SlotsHeld
  BY DEF Init, TelnetInit, Path, SlotsHeld

LEMMA HeldStep == released = {} /\ Execute => SlotsHeld'
  BY DEF Execute, OpenSlot, CloseSlot, slots, SlotsHeld

\* Nothing is released before the last part of main().
EndKept == Path /\ SlotsHeld /\ (main \in {"loop", "publisher", "joins"} => released = {})

LEMMA EndStep == TypeOK /\ EndKept /\ [Next]_vars => EndKept'
<1> SUFFICES ASSUME TypeOK, EndKept, [Next]_vars PROVE EndKept'
  OBVIOUS
<1> USE DEF telnet, console, operator, slots
<1>1. ASSUME Console, UNCHANGED <<libevent2, quit, alive>>,
             loop # "ended" => (loop' = "ended" => libevent2 /\ quit),
             loop = "ended" => loop' = "ended"
      PROVE  EndKept'
  BY <1>1 DEF EndKept, Path, SlotsHeld, Console
<1>2. CASE Operators /\ Console
  BY <1>1, <1>2 DEF Operators, Connect, HangUp, Type
<1>3. CASE telnet_service /\ Console
  <2>1. CASE LoopTop \/ LoopWait \/ \E c \in Client : onRecvError(c)
    BY <1>1, <1>3, <2>1 DEF LoopTop, LoopWait, onRecvError, Called
  <2>2. CASE TelnetStart \/ \E c \in Client : onAccept(c) \/ onRecv(c)
    <3>1. /\ UNCHANGED <<libevent2, quit>> /\ loop # "ended" /\ loop' # "ended"
      BY <2>2 DEF TelnetStart, onAccept, onRecv, Called
    <3>2. main # "ended" /\ main # "release"
      BY <3>1 DEF EndKept, Path
    <3> QED
      BY <1>3, <3>1, <3>2 DEF EndKept, Path, SlotsHeld, Console
  <2> QED
    BY <1>3, <2>1, <2>2 DEF telnet_service
<1>4. CASE Execute
  <2>1. main = "loop" /\ UNCHANGED <<libevent2, console, quit, sdi, main, publisher>>
    BY <1>4 DEF Execute, TakeCommand
  <2>2. released = {} /\ released' = {}
    BY <1>4, <2>1 DEF EndKept, Execute, OpenSlot, CloseSlot
  <2>3. SlotsHeld'
    BY <1>4, <2>2, HeldStep
  <2> QED
    BY <2>1, <2>2, <2>3 DEF EndKept, Path
<1>5. CASE Escape \/ PublisherExits \/ PublisherMissing \/ PublisherJoined \/ TelnetJoined
  BY <1>5 DEF Escape, PublisherExits, PublisherMissing, PublisherJoined, TelnetJoined,
              EndKept, Path, SlotsHeld
<1>6. CASE Return
  BY <1>6 DEF Return, EndKept, Path, SlotsHeld
<1>7. ASSUME NEW s \in Slot, SlotExits(s) PROVE EndKept'
  BY <1>7 DEF SlotExits, EndKept, Path, SlotsHeld, TypeOK
<1>8. ASSUME NEW s \in Slot, Release(s) PROVE EndKept'
  BY <1>8 DEF Release, EndKept, Path, SlotsHeld
<1>9. CASE UNCHANGED vars
  BY <1>9 DEF vars, EndKept, Path, SlotsHeld
<1> QED
  BY <1>2, <1>3, <1>4, <1>5, <1>6, <1>7, <1>8, <1>9 DEF Next, Ending

\* main() returns with every thread joined, or not at all.
THEOREM CleanReturn == Spec => []ReturnIsClean
<1>1. Init => EndKept
  BY EndInit DEF EndKept, Init
<1>2. TypeOK /\ EndKept => ReturnIsClean
  BY DEF TypeOK, EndKept, Path, SlotsHeld, ReturnIsClean
<1> QED
  BY <1>1, <1>2, TypedInit, TypedStep, EndStep, PTL DEF Spec
===============================================================================


