--------------------------- MODULE AudioPath_proofs ---------------------------
(***************************************************************************)
(* Proofs about AudioPath, for every number of slots, length of a block,   *)
(* width of a sample and set of sounds.                                    *)
(***************************************************************************)
EXTENDS AudioPath, QueueFacts

----------------------------------------------------------------------------
(* Upsampling.                                                              *)

\* A division by three truncates towards zero: it leaves the range of its operands'
\* thirds alone.
LEMMA ThirdInRange ==
    ASSUME NEW x \in Int, NEW a \in Int, NEW b \in Int, 3 * a <= x, x <= 3 * b
    PROVE  Truncated(x, 3) \in Int /\ a <= Truncated(x, 3) /\ Truncated(x, 3) <= b
  BY DEF Truncated

LEMMA ThirdExact ==
    ASSUME NEW x \in Int
    PROVE  Truncated(3 * x, 3) = x
  BY DEF Truncated

\* The points on the line between two samples.
LEMMA BetweenFacts ==
    ASSUME NEW p \in Int, NEW q \in Int, NEW k \in 0..2
    PROVE  LET x == Truncated(3 * p + k * (q - p), 3)
           IN  /\ x \in Int
               /\ x <= p \/ x <= q
               /\ x >= p \/ x >= q
               /\ k = 0 => x = p
               /\ \A a, b \in Int : a <= p /\ a <= q /\ p <= b /\ q <= b => a <= x /\ x <= b
<1> DEFINE y == 3 * p + k * (q - p)
<1>1. k = 0 \/ k = 1 \/ k = 2
  OBVIOUS
<1>2. /\ k = 0 => y = 3 * p
      /\ k = 1 => y = 2 * p + q
      /\ k = 2 => y = p + 2 * q
  OBVIOUS
<1>3. y \in Int
  BY <1>1, <1>2
<1> HIDE DEF y
<1>4. ASSUME NEW a \in Int, NEW b \in Int, a <= p, a <= q, p <= b, q <= b
      PROVE  Truncated(y, 3) \in Int /\ a <= Truncated(y, 3) /\ Truncated(y, 3) <= b
  <2>1. 3 * a <= y /\ y <= 3 * b
    BY <1>1, <1>2, <1>4
  <2> QED
    BY <1>3, <2>1, ThirdInRange
<1>5. k = 0 => Truncated(y, 3) = p
  BY <1>2, ThirdExact
<1>6. CASE p <= q
  BY <1>4, <1>5, <1>6 DEF y
<1>7. CASE q <= p
  BY <1>4, <1>5, <1>7 DEF y
<1> QED
  BY <1>6, <1>7

\* Upsampling gives three samples for one.
LEMMA UpsampleTyped ==
    ASSUME NEW pcm \in Seq(Sample)
    PROVE  /\ Upsample(pcm) \in Seq(Sample)
           /\ Len(Upsample(pcm)) = 3 * Len(pcm)
<1>1. Len(pcm) \in Nat /\ \A i \in 1..Len(pcm) : pcm[i] \in Sample
  BY RangeFacts
<1>2. ASSUME NEW i \in 1..(3 * Len(pcm))
      PROVE  Upsample(pcm)[i] \in Sample
  <2> DEFINE n == (i - 1) \div 3
             k == (i - 1) % 3
             x == Truncated(3 * pcm[n] + k * (pcm[n + 1] - pcm[n]), 3)
  <2>1. n \in Nat /\ n < Len(pcm) /\ k \in 0..2
    BY <1>1
  <2>2. Upsample(pcm)[i] = IF n = 0 THEN 0 ELSE x
    BY DEF Upsample
  <2> HIDE DEF n, k
  <2>3. CASE n = 0
    BY <2>2, <2>3, LimitAssumption DEF Sample
  <2>4. CASE n # 0
    <3>1. n \in 1..Len(pcm) /\ n + 1 \in 1..Len(pcm)
      BY <1>1, <2>1, <2>4
    <3>2. pcm[n] \in Sample /\ pcm[n + 1] \in Sample
      BY <1>1, <3>1
    <3>3. /\ pcm[n] \in Int /\ pcm[n + 1] \in Int
          /\ -(Limit + 1) \in Int /\ Limit \in Int
          /\ -(Limit + 1) <= pcm[n] /\ -(Limit + 1) <= pcm[n + 1]
          /\ pcm[n] <= Limit /\ pcm[n + 1] <= Limit
      BY <3>2, LimitAssumption DEF Sample
    <3>4. x \in Int /\ -(Limit + 1) <= x /\ x <= Limit
      BY <2>1, <3>3, BetweenFacts
    <3> QED
      BY <2>2, <2>4, <3>4, LimitAssumption DEF Sample
  <2> QED
    BY <2>3, <2>4
<1>3. Upsample(pcm) \in [1..(3 * Len(pcm)) -> Sample]
  BY <1>2 DEF Upsample
<1> QED
  BY <1>1, <1>3, FunctionIsQueue

\* Every sample but the last is heard three later, with nothing louder than both
\* neighbours between it and the next.
LEMMA UpsampleIsLine ==
    ASSUME NEW pcm \in Seq(Sample), NEW n \in 1..(Len(pcm) - 1)
    PROVE  /\ Upsample(pcm)[3 * n + 1] = pcm[n]
           /\ \A k \in 1..3 : LET x == Upsample(pcm)[3 * n + k]
                              IN  /\ x <= pcm[n] \/ x <= pcm[n + 1]
                                  /\ x >= pcm[n] \/ x >= pcm[n + 1]
<1>1. Len(pcm) \in Nat /\ \A i \in 1..Len(pcm) : pcm[i] \in Sample
  BY RangeFacts
<1>2. n \in 1..Len(pcm) /\ n + 1 \in 1..Len(pcm) /\ n # 0
  BY <1>1
<1>3. pcm[n] \in Int /\ pcm[n + 1] \in Int
  <2>1. pcm[n] \in Sample /\ pcm[n + 1] \in Sample
    BY <1>1, <1>2
  <2> QED
    BY <2>1, LimitAssumption DEF Sample
<1>4. ASSUME NEW k \in 1..3
      PROVE  /\ Upsample(pcm)[3 * n + k]
                = Truncated(3 * pcm[n] + (k - 1) * (pcm[n + 1] - pcm[n]), 3)
             /\ k - 1 \in 0..2
  <2>1. /\ 3 * n + k \in 1..(3 * Len(pcm))
        /\ ((3 * n + k) - 1) \div 3 = n /\ ((3 * n + k) - 1) % 3 = k - 1
    BY <1>1
  <2> QED
    BY <1>2, <2>1 DEF Upsample
<1> DEFINE low == pcm[n]
           high == pcm[n + 1]
           out == Upsample(pcm)
<1> HIDE DEF low, high, out
<1>5. low \in Int /\ high \in Int
  BY <1>3 DEF low, high
<1>6. \A k \in 1..3 : /\ out[3 * n + k] = Truncated(3 * low + (k - 1) * (high - low), 3)
                      /\ k - 1 \in 0..2
  BY <1>4 DEF low, high, out
<1>7. Upsample(pcm)[3 * n + 1] = pcm[n]
  <2>1. 1 \in 1..3 /\ 3 * low + (1 - 1) * (high - low) = 3 * low
    BY <1>5
  <2>2. out[3 * n + 1] = Truncated(3 * low, 3)
    BY <1>6, <2>1
  <2>3. out[3 * n + 1] = low
    BY <1>5, <2>2, ThirdExact
  <2> QED
    BY <2>3 DEF low, out
<1>8. ASSUME NEW k \in 1..3
      PROVE  /\ Upsample(pcm)[3 * n + k] <= pcm[n] \/ Upsample(pcm)[3 * n + k] <= pcm[n + 1]
             /\ Upsample(pcm)[3 * n + k] >= pcm[n] \/ Upsample(pcm)[3 * n + k] >= pcm[n + 1]
  <2> DEFINE j == k - 1
             x == Truncated(3 * low + j * (high - low), 3)
  <2>1. j \in 0..2 /\ out[3 * n + k] = x
    BY <1>6
  <2> HIDE DEF j
  <2>2. (x <= low \/ x <= high) /\ (x >= low \/ x >= high)
    BY <1>5, <2>1, BetweenFacts
  <2> QED
    BY <2>1, <2>2 DEF low, high, out
<1> QED
  BY <1>7, <1>8

----------------------------------------------------------------------------
(* Types.                                                                   *)

Volume == -Limit..Limit

LEMMA TypedInit == Init => TypeOK
<1> SUFFICES ASSUME Init PROVE TypeOK
  OBVIOUS
<1>1. 0 \in Volume /\ 0 \in 0..MaxSwitches /\ 0 \in 0..MaxPackets /\ 0 \in 0..(Slots + 1)
  BY LimitAssumption, BoundAssumption, SlotsAssumption DEF Volume
<1>2. events_audio_ \in [Slot -> Seq(Packet)] /\ mixed \in Seq(Seq(Sample))
  BY EmptySeq DEF Init
<1>3. /\ room = Block /\ data \in [1..room -> Volume]
      /\ audioBuffer \in [1..(2 * Block) -> Volume]
  BY <1>1 DEF Init, Silence
<1> QED
  BY <1>1, <1>2, <1>3 DEF Init, TypeOK, Volume, Idle

\* What OnData queues is a packet.
LEMMA PushTyped ==
    ASSUME TypeOK, NEW s \in Slot, NEW source \in Sources, NEW pcm \in Seq(Sample),
           push_event(s, source, pcm)
    PROVE  /\ pushed' \in [Slot -> Nat]
           /\ events_audio_' \in [Slot -> Seq(Packet)]
<1> DEFINE e == [no |-> pushed[s] + 1, source |-> source, pcm |-> pcm]
<1>1. /\ pushed \in [Slot -> Nat] /\ events_audio_ \in [Slot -> Seq(Packet)]
  BY DEF TypeOK
<1>2. e \in Packet
  BY <1>1 DEF Packet
<1>3. /\ pushed' = [pushed EXCEPT ![s] = @ + 1]
      /\ events_audio_' = [events_audio_ EXCEPT ![s] = Append(@, e)]
  BY DEF push_event
<1> HIDE DEF e
<1>4. Append(events_audio_[s], e) \in Seq(Packet)
  BY <1>1, <1>2, PushFacts
<1> QED
  BY <1>1, <1>3, <1>4

\* The sums stay within 16 bits.
LEMMA AddTyped ==
    ASSUME TypeOK, NEW s, NEW pcm \in Seq(Sample), Add(s, pcm)
    PROVE  /\ data' \in [1..room -> Volume]
           /\ audioBuffer' \in [1..(2 * Block) -> Volume]
           /\ mixed' \in Seq(Seq(Sample))
           /\ alive' \in BOOLEAN
<1>0. alive \in BOOLEAN /\ (~sdi => room = Block)
  BY DEF TypeOK
<1>1. /\ data \in [1..room -> Volume] /\ audioBuffer \in [1..(2 * Block) -> Volume]
      /\ mixed \in Seq(Seq(Sample))
  BY DEF TypeOK, Volume
<1>2. CASE s \in isDraw /\ Len(pcm) = Block
  <2>1. /\ data' = [n \in 1..room |->
               IF n <= Block THEN Saturated(data[n] + pcm[n]) ELSE data[n]]
        /\ audioBuffer' = [n \in 1..(2 * Block) |->
               IF ~sdi /\ n % 2 = 1 THEN data'[(n + 1) \div 2] ELSE audioBuffer[n]]
        /\ mixed' = Append(mixed, pcm)
        /\ alive' \in BOOLEAN
    BY <1>2 DEF Add
  <2>2. ASSUME NEW x \in Int PROVE Saturated(x) \in Volume
    BY LimitAssumption DEF Saturated, Volume
  <2>3. \A n \in 1..room : data[n] \in Volume /\ data[n] \in Int
    BY <1>1, LimitAssumption DEF Volume
  <2>4. ASSUME NEW n \in 1..room, n <= Block
        PROVE  Saturated(data[n] + pcm[n]) \in Volume
    <3>1. n \in 1..Len(pcm)
      BY <1>2, <2>4
    <3>2. pcm[n] \in Sample
      BY <3>1, RangeFacts
    <3>3. data[n] + pcm[n] \in Int
      BY <2>3, <3>2, LimitAssumption DEF Sample
    <3> QED
      BY <2>2, <3>3
  <2>8. data' \in [1..room -> Volume]
    BY <2>1, <2>3, <2>4
  <2>5. \A n \in 1..(2 * Block) : n % 2 = 1 => (n + 1) \div 2 \in 1..Block
    BY BlockAssumption
  <2>6. audioBuffer' \in [1..(2 * Block) -> Volume]
    BY <1>0, <1>1, <2>1, <2>5, <2>8
  <2>7. mixed' \in Seq(Seq(Sample))
    BY <1>1, <2>1, PushFacts
  <2> QED
    BY <2>1, <2>6, <2>7, <2>8
<1>3. CASE ~(s \in isDraw /\ Len(pcm) = Block)
  BY <1>0, <1>1, <1>3 DEF Add
<1> QED
  BY <1>2, <1>3

LEMMA TypedStep == TypeOK /\ [Next]_vars => TypeOK'
<1> SUFFICES ASSUME TypeOK, [Next]_vars PROVE TypeOK'
  OBVIOUS
<1> USE DEF Volume
<1>1. CASE audioInit
  BY <1>1 DEF audioInit, TypeOK, queue, mix
<1>2. ASSUME NEW s \in Slot, Switch(s)
      PROVE  TypeOK'
  <2>1. open' \subseteq Slot /\ isDraw' \subseteq Slot /\ switches' \in 0..MaxSwitches
    BY <1>2, BoundAssumption DEF Switch, TypeOK
  <2> QED
    BY <1>2, <2>1 DEF Switch, TypeOK, queue, mix
<1>3. ASSUME NEW s \in Slot, NEW source \in Sources, OnData(s, source)
      PROVE  TypeOK'
  <2>1. UNCHANGED <<alive, main, taken, mix>> /\ calls' \in 0..MaxPackets
    BY <1>3, BoundAssumption DEF OnData, TypeOK
  <2>2. source.pcm \in Seq(Sample)
    BY SourcesAssumption
  <2>3. pushed' \in [Slot -> Nat] /\ events_audio_' \in [Slot -> Seq(Packet)]
    <3>1. CASE push_event(s, source, source.pcm)
      BY <2>2, <3>1, PushTyped
    <3>2. CASE push_event(s, source, Upsample(source.pcm))
      BY <2>2, <3>2, PushTyped, UpsampleTyped
    <3>3. CASE UNCHANGED <<pushed, events_audio_>>
      BY <3>3 DEF TypeOK
    <3> QED
      BY <1>3, <3>1, <3>2, <3>3 DEF OnData
  <2> QED
    BY <2>1, <2>3 DEF TypeOK, main, mix
<1>4. CASE CallbackBegin
  <2>1. 1 \in 0..(Slots + 1) /\ 0 \in Volume
    BY SlotsAssumption, LimitAssumption
  <2>2. /\ data' \in [1..room' -> Volume] /\ audioBuffer' \in [1..(2 * Block) -> Volume]
        /\ mixed' \in Seq(Seq(Sample))
        /\ room' \in Rooms \cup {Block} /\ (~sdi => room' = Block)
    BY <1>4, <2>1, EmptySeq DEF CallbackBegin, Silence
  <2> QED
    BY <1>4, <2>1, <2>2 DEF CallbackBegin, TypeOK, main, queue
<1>5. CASE CallbackSlot
  <2>1. /\ at' \in 0..(Slots + 1) /\ at \in Slot
        /\ UNCHANGED <<main, calls, pushed, room, published>>
    BY <1>5, SlotsAssumption DEF CallbackSlot, Slot
  <2>2. CASE at \in open /\ events_audio_[at] # <<>>
    <3> DEFINE q == events_audio_[at]
               e == Head(q)
    <3>1. /\ events_audio_' = [events_audio_ EXCEPT ![at] = Tail(q)]
          /\ taken' = [taken EXCEPT ![at] = e.no]
          /\ Add(at, e.pcm)
      BY <1>5, <2>2 DEF CallbackSlot
    <3>2. q \in Seq(Packet) /\ q # <<>>
      BY <2>1, <2>2 DEF TypeOK
    <3> HIDE DEF q
    <3>3. e \in Packet /\ Tail(q) \in Seq(Packet)
      BY <3>2, PopFacts
    <3>4. e.no \in Nat /\ e.pcm \in Seq(Sample)
      BY <3>3 DEF Packet
    <3>5. taken' \in [Slot -> Nat] /\ events_audio_' \in [Slot -> Seq(Packet)]
      BY <3>1, <3>3, <3>4 DEF TypeOK
    <3>6. /\ data' \in [1..room -> Volume] /\ audioBuffer' \in [1..(2 * Block) -> Volume]
          /\ mixed' \in Seq(Seq(Sample)) /\ alive' \in BOOLEAN
      BY <3>1, <3>4, AddTyped
    <3> QED
      BY <2>1, <3>5, <3>6 DEF TypeOK, main
  <2>3. CASE ~(at \in open /\ events_audio_[at] # <<>>)
    <3>1. UNCHANGED <<alive, events_audio_, taken, data, audioBuffer, mixed>>
      BY <1>5, <2>3 DEF CallbackSlot
    <3> QED
      BY <2>1, <3>1 DEF TypeOK, main
  <2> QED
    BY <2>2, <2>3
<1>6. CASE CallbackEnd
  BY <1>6 DEF CallbackEnd, TypeOK, main, queue, Idle, Nothing
<1>7. CASE UNCHANGED vars
  BY <1>7 DEF vars, TypeOK, main, queue, mix
<1> QED
  BY <1>1, <1>2, <1>3, <1>4, <1>5, <1>6, <1>7 DEF Next, Callback

\* Every variable keeps its type: the mix and what is published stay within 16 bits.
THEOREM TypeCorrect == Spec => []TypeOK
  BY TypedInit, TypedStep, PTL DEF Spec

----------------------------------------------------------------------------
(* The queues.                                                              *)

LEMMA NoneLostInit == Init => NoneLostNoneTwice
<1> SUFFICES ASSUME Init, NEW s \in Slot
    PROVE  /\ pushed[s] = taken[s] + Len(events_audio_[s])
           /\ \A i \in DOMAIN events_audio_[s] : events_audio_[s][i].no = taken[s] + i
  BY DEF NoneLostNoneTwice
<1> QED
  BY DEF Init

\* A packet that is queued follows on the last one.
LEMMA PushKeeps ==
    ASSUME TypeOK, NoneLostNoneTwice, NEW s \in Slot, NEW source \in Sources,
           NEW pcm \in Seq(Sample), push_event(s, source, pcm), UNCHANGED taken
    PROVE  NoneLostNoneTwice'
<1> DEFINE e == [no |-> pushed[s] + 1, source |-> source, pcm |-> pcm]
           q == events_audio_[s]
<1>1. /\ pushed \in [Slot -> Nat] /\ events_audio_ \in [Slot -> Seq(Packet)]
      /\ taken \in [Slot -> Nat]
  BY DEF TypeOK
<1>2. e \in Packet /\ e.no = pushed[s] + 1
  BY <1>1 DEF Packet
<1>3. /\ pushed' = [pushed EXCEPT ![s] = @ + 1]
      /\ events_audio_' = [events_audio_ EXCEPT ![s] = Append(q, e)]
  BY DEF push_event
<1> HIDE DEF e
<1>4. q \in Seq(Packet)
  BY <1>1
<1>5. /\ pushed[s] = taken[s] + Len(q) /\ Len(q) \in Nat /\ DOMAIN q = 1..Len(q)
      /\ \A i \in DOMAIN q : q[i].no = taken[s] + i
  BY <1>4, RangeFacts DEF NoneLostNoneTwice
<1> HIDE DEF q
<1>6. /\ Len(Append(q, e)) = Len(q) + 1 /\ DOMAIN Append(q, e) = 1..(Len(q) + 1)
      /\ \A i \in 1..Len(q) : Append(q, e)[i] = q[i]
      /\ Append(q, e)[Len(q) + 1] = e
  BY <1>2, <1>4, PushFacts
<1>7. ASSUME NEW i \in 1..(Len(q) + 1)
      PROVE  Append(q, e)[i].no = taken[s] + i
  <2>1. CASE i = Len(q) + 1
    <3>1. Append(q, e)[i] = e
      BY <1>6, <2>1
    <3>2. taken[s] \in Nat /\ e.no = (taken[s] + Len(q)) + 1
      BY <1>1, <1>2, <1>5
    <3>3. (taken[s] + Len(q)) + 1 = taken[s] + i
      BY <1>5, <2>1, <3>2
    <3> QED
      BY <3>1, <3>2, <3>3
  <2>2. CASE i # Len(q) + 1
    <3>1. i \in 1..Len(q)
      BY <1>5, <2>2
    <3>2. Append(q, e)[i] = q[i]
      BY <1>6, <3>1
    <3>3. q[i].no = taken[s] + i
      BY <1>5, <3>1
    <3> QED
      BY <3>2, <3>3
  <2> QED
    BY <2>1, <2>2
<1>8. ASSUME NEW r \in Slot
      PROVE  /\ pushed'[r] = taken'[r] + Len(events_audio_'[r])
             /\ \A i \in DOMAIN events_audio_'[r] : events_audio_'[r][i].no = taken'[r] + i
  <2>1. CASE r = s
    <3>1. events_audio_'[r] = Append(q, e) /\ pushed'[r] = pushed[s] + 1 /\ taken'[r] = taken[s]
      BY <1>1, <1>3, <2>1
    <3>2. taken[s] \in Nat
      BY <1>1
    <3>3. \A i \in DOMAIN Append(q, e) : Append(q, e)[i].no = taken[s] + i
      BY <1>6, <1>7
    <3> QED
      BY <1>5, <1>6, <2>1, <3>1, <3>2, <3>3, SMTT(30)
  <2>2. CASE r # s
    <3>1. events_audio_'[r] = events_audio_[r] /\ pushed'[r] = pushed[r] /\ taken'[r] = taken[r]
      BY <1>1, <1>3, <2>2
    <3> QED
      BY <3>1 DEF NoneLostNoneTwice
  <2> QED
    BY <2>1, <2>2
<1> QED
  BY <1>8 DEF NoneLostNoneTwice

\* A packet that is taken is the one that follows on the last one taken.
LEMMA TakeKeeps ==
    ASSUME TypeOK, NoneLostNoneTwice, CallbackSlot
    PROVE  NoneLostNoneTwice'
<1> DEFINE q == events_audio_[at]
           e == Head(q)
<1>1. /\ pushed \in [Slot -> Nat] /\ events_audio_ \in [Slot -> Seq(Packet)]
      /\ taken \in [Slot -> Nat] /\ at \in Slot /\ pushed' = pushed
  BY DEF TypeOK, CallbackSlot
<1>2. CASE at \in open /\ q # <<>>
  <2>1. /\ events_audio_' = [events_audio_ EXCEPT ![at] = Tail(q)]
        /\ taken' = [taken EXCEPT ![at] = e.no]
    BY <1>2 DEF CallbackSlot
  <2>2. q \in Seq(Packet) /\ q # <<>>
    BY <1>1, <1>2
  <2>3. /\ pushed[at] = taken[at] + Len(q) /\ DOMAIN q = 1..Len(q)
        /\ \A i \in DOMAIN q : q[i].no = taken[at] + i
    BY <1>1, <2>2, RangeFacts DEF NoneLostNoneTwice
  <2> HIDE DEF q
  <2>4. /\ e = q[1] /\ Len(q) \in Nat \ {0} /\ Len(Tail(q)) = Len(q) - 1
        /\ \A i \in 1..(Len(q) - 1) : Tail(q)[i] = q[i + 1]
        /\ Tail(q) \in Seq(Packet)
    BY <2>2, PopFacts
  <2>5. DOMAIN Tail(q) = 1..(Len(q) - 1)
    BY <2>4, RangeFacts
  <2> HIDE DEF e
  <2>6. e.no = taken[at] + 1
    BY <2>3, <2>4
  <2>7. ASSUME NEW i \in 1..(Len(q) - 1)
        PROVE  Tail(q)[i].no = (taken[at] + 1) + i
    <3>1. i + 1 \in DOMAIN q /\ Tail(q)[i] = q[i + 1]
      BY <2>3, <2>4
    <3>2. taken[at] \in Nat /\ q[i + 1].no = taken[at] + (i + 1)
      BY <1>1, <2>3, <3>1
    <3> QED
      BY <3>1, <3>2
  <2>8. ASSUME NEW r \in Slot
        PROVE  /\ pushed'[r] = taken'[r] + Len(events_audio_'[r])
               /\ \A i \in DOMAIN events_audio_'[r] : events_audio_'[r][i].no = taken'[r] + i
    <3>1. CASE r = at
      <4>1. events_audio_'[r] = Tail(q) /\ taken'[r] = taken[at] + 1 /\ pushed'[r] = pushed[at]
        BY <1>1, <2>1, <2>6, <3>1
      <4>2. taken[at] \in Nat
        BY <1>1
      <4> QED
        BY <2>3, <2>4, <2>5, <2>7, <4>1, <4>2
    <3>2. CASE r # at
      <4>1. /\ events_audio_'[r] = events_audio_[r] /\ taken'[r] = taken[r]
            /\ pushed'[r] = pushed[r]
        BY <1>1, <2>1, <3>2
      <4> QED
        BY <4>1 DEF NoneLostNoneTwice
    <3> QED
      BY <3>1, <3>2
  <2> QED
    BY <2>8 DEF NoneLostNoneTwice
<1>3. CASE ~(at \in open /\ q # <<>>)
  <2>1. UNCHANGED <<events_audio_, taken>>
    BY <1>3 DEF CallbackSlot
  <2> QED
    BY <1>1, <2>1 DEF NoneLostNoneTwice
<1> QED
  BY <1>2, <1>3

LEMMA NoneLostStep == TypeOK /\ NoneLostNoneTwice /\ [Next]_vars => NoneLostNoneTwice'
<1> SUFFICES ASSUME TypeOK, NoneLostNoneTwice, [Next]_vars PROVE NoneLostNoneTwice'
  OBVIOUS
<1>1. UNCHANGED <<pushed, events_audio_, taken>> => NoneLostNoneTwice'
  BY DEF NoneLostNoneTwice
<1>2. CASE audioInit \/ CallbackBegin \/ CallbackEnd \/ UNCHANGED vars
  BY <1>1, <1>2 DEF audioInit, CallbackBegin, CallbackEnd, vars, queue
<1>3. ASSUME NEW s \in Slot, Switch(s)
      PROVE  NoneLostNoneTwice'
  BY <1>1, <1>3 DEF Switch, queue
<1>4. ASSUME NEW s \in Slot, NEW source \in Sources, OnData(s, source)
      PROVE  NoneLostNoneTwice'
  <2>1. source.pcm \in Seq(Sample) /\ UNCHANGED taken
    BY <1>4, SourcesAssumption DEF OnData
  <2>2. CASE push_event(s, source, source.pcm)
    BY <2>1, <2>2, PushKeeps
  <2>3. CASE push_event(s, source, Upsample(source.pcm))
    BY <2>1, <2>3, PushKeeps, UpsampleTyped
  <2>4. CASE UNCHANGED <<pushed, events_audio_>>
    BY <1>1, <2>1, <2>4
  <2> QED
    BY <1>4, <2>2, <2>3, <2>4 DEF OnData
<1>5. CASE CallbackSlot
  BY <1>5, TakeKeeps
<1> QED
  BY <1>2, <1>3, <1>4, <1>5 DEF Next, Callback

\* No packet is lost between two threads, heard twice or overtaken, however slots open
\* and close.
THEOREM QueuesCorrect == Spec => []NoneLostNoneTwice
<1>1. Init => NoneLostNoneTwice
  BY NoneLostInit
<1>2. TypeOK /\ NoneLostNoneTwice /\ [Next]_vars => NoneLostNoneTwice'
  BY NoneLostStep
<1> QED
  BY <1>1, <1>2, TypeCorrect, PTL DEF Spec

----------------------------------------------------------------------------
(* What is queued at 16 kHz.                                                *)

Stretched(e) == e.source.rate = 16000 => e.pcm = Upsample(e.source.pcm)

QueuesStretched ==
    \A s \in Slot : \A i \in DOMAIN events_audio_[s] : Stretched(events_audio_[s][i])

LEMMA StretchedStep ==
    TypeOK /\ TypeOK' /\ QueuesStretched /\ [Next]_vars => QueuesStretched'
<1> SUFFICES ASSUME TypeOK, TypeOK', QueuesStretched, [Next]_vars PROVE QueuesStretched'
  OBVIOUS
<1>0. events_audio_ \in [Slot -> Seq(Packet)]
  BY DEF TypeOK
<1>1. UNCHANGED events_audio_ => QueuesStretched'
  BY DEF QueuesStretched
<1>2. CASE audioInit \/ CallbackBegin \/ CallbackEnd \/ UNCHANGED vars
  BY <1>1, <1>2 DEF audioInit, CallbackBegin, CallbackEnd, vars, queue
<1>3. ASSUME NEW s \in Slot, Switch(s)
      PROVE  QueuesStretched'
  BY <1>1, <1>3 DEF Switch, queue
<1>4. ASSUME NEW s \in Slot, NEW source \in Sources, OnData(s, source)
      PROVE  QueuesStretched'
  <2>1. ASSUME NEW pcm, push_event(s, source, pcm), pcm \in Seq(Sample),
               source.rate = 16000 => pcm = Upsample(source.pcm)
        PROVE  QueuesStretched'
    <3> DEFINE e == [no |-> pushed[s] + 1, source |-> source, pcm |-> pcm]
               q == events_audio_[s]
    <3>1. events_audio_' = [events_audio_ EXCEPT ![s] = Append(q, e)]
      BY <2>1 DEF push_event
    <3>2. Stretched(e)
      BY <2>1 DEF Stretched
    <3>3. e \in Packet
      <4>1. pushed[s] + 1 \in Nat \ {0}
        <5>1. pushed \in [Slot -> Nat]
          BY DEF TypeOK
        <5> QED
          BY <5>1
      <4> QED
        BY <2>1, <4>1 DEF Packet
    <3>4. q \in Seq(Packet)
      BY <1>0
    <3>5. \A i \in DOMAIN q : Stretched(q[i])
      BY DEF QueuesStretched
    <3> HIDE DEF e, q
    <3>6. /\ Len(q) \in Nat /\ DOMAIN q = 1..Len(q) /\ DOMAIN Append(q, e) = 1..(Len(q) + 1)
          /\ \A i \in 1..Len(q) : Append(q, e)[i] = q[i]
          /\ Append(q, e)[Len(q) + 1] = e
      BY <3>3, <3>4, PushFacts, RangeFacts
    <3>7. \A i \in DOMAIN Append(q, e) : Append(q, e)[i] = e \/ (i \in DOMAIN q /\ Append(q, e)[i] = q[i])
      BY <3>6
    <3>8. \A i \in DOMAIN Append(q, e) : Stretched(Append(q, e)[i])
      BY <3>2, <3>5, <3>7
    <3> QED
      BY <1>0, <3>1, <3>8 DEF QueuesStretched
  <2>2. source.pcm \in Seq(Sample)
    BY SourcesAssumption
  <2>3. CASE source.rate = 48000 /\ push_event(s, source, source.pcm)
    BY <2>1, <2>2, <2>3
  <2>4. CASE push_event(s, source, Upsample(source.pcm))
    BY <2>1, <2>2, <2>4, UpsampleTyped
  <2>5. CASE UNCHANGED <<pushed, events_audio_>>
    BY <1>1, <2>5
  <2> QED
    BY <1>4, <2>3, <2>4, <2>5 DEF OnData
<1>5. CASE CallbackSlot
  <2>1. CASE at \in open /\ events_audio_[at] # <<>>
    <3> DEFINE q == events_audio_[at]
    <3>1. events_audio_' = [events_audio_ EXCEPT ![at] = Tail(q)] /\ at \in Slot
      BY <1>5, <2>1 DEF CallbackSlot
    <3>2. q \in Seq(Packet) /\ q # <<>>
      BY <1>0, <2>1, <3>1
    <3>3. \A i \in DOMAIN q : Stretched(q[i])
      BY <3>1 DEF QueuesStretched
    <3> HIDE DEF q
    <3>4. /\ Len(q) \in Nat \ {0} /\ DOMAIN q = 1..Len(q)
          /\ \A i \in 1..(Len(q) - 1) : Tail(q)[i] = q[i + 1]
          /\ Tail(q) \in Seq(Packet) /\ Len(Tail(q)) = Len(q) - 1
      BY <3>2, PopFacts, RangeFacts
    <3>5. DOMAIN Tail(q) = 1..(Len(q) - 1)
      BY <3>4, RangeFacts
    <3>6. \A i \in DOMAIN Tail(q) : i + 1 \in DOMAIN q /\ Tail(q)[i] = q[i + 1]
      BY <3>4, <3>5
    <3>7. \A i \in DOMAIN Tail(q) : Stretched(Tail(q)[i])
      BY <3>3, <3>6
    <3> QED
      BY <1>0, <3>1, <3>7 DEF QueuesStretched
  <2>2. CASE ~(at \in open /\ events_audio_[at] # <<>>)
    BY <1>1, <1>5, <2>2 DEF CallbackSlot
  <2> QED
    BY <2>1, <2>2
<1> QED
  BY <1>2, <1>3, <1>4, <1>5 DEF Next, Callback

LEMMA StretchedKeeps == TypeOK /\ QueuesStretched => UpsampleKeeps
<1> SUFFICES ASSUME TypeOK, QueuesStretched, NEW s \in Slot, NEW i \in DOMAIN events_audio_[s],
                    events_audio_[s][i].source.rate = 16000,
                    NEW n \in 1..(Len(events_audio_[s][i].source.pcm) - 1)
    PROVE  /\ events_audio_[s][i].pcm[3 * n + 1] = events_audio_[s][i].source.pcm[n]
           /\ \A k \in 1..3 :
                LET x == events_audio_[s][i].pcm[3 * n + k]
                    in == events_audio_[s][i].source.pcm
                IN  /\ x <= in[n] \/ x <= in[n + 1]
                    /\ x >= in[n] \/ x >= in[n + 1]
  BY DEF UpsampleKeeps
<1> DEFINE e == events_audio_[s][i]
<1>1. e \in Packet
  <2>1. events_audio_[s] \in Seq(Packet)
    BY DEF TypeOK
  <2> QED
    BY <2>1, RangeFacts
<1>2. e.source.pcm \in Seq(Sample)
  BY <1>1, SourcesAssumption DEF Packet
<1>3. e.pcm = Upsample(e.source.pcm)
  BY DEF QueuesStretched, Stretched
<1> HIDE DEF e
<1>4. n \in 1..(Len(e.source.pcm) - 1)
  BY DEF e
<1>5. /\ e.pcm[3 * n + 1] = e.source.pcm[n]
      /\ \A k \in 1..3 : LET x == e.pcm[3 * n + k]
                         IN  /\ x <= e.source.pcm[n] \/ x <= e.source.pcm[n + 1]
                             /\ x >= e.source.pcm[n] \/ x >= e.source.pcm[n + 1]
  <2> DEFINE in == e.source.pcm
  <2>1. in \in Seq(Sample) /\ n \in 1..(Len(in) - 1)
    BY <1>2, <1>4
  <2> HIDE DEF in
  <2>2. /\ Upsample(in)[3 * n + 1] = in[n]
        /\ \A k \in 1..3 : LET x == Upsample(in)[3 * n + k]
                           IN  /\ x <= in[n] \/ x <= in[n + 1]
                               /\ x >= in[n] \/ x >= in[n + 1]
    BY <2>1, UpsampleIsLine
  <2> QED
    BY <1>3, <2>2 DEF in
<1> QED
  BY <1>5 DEF e

\* Upsampling only stretches what comes at 16 kHz, whatever its length.
THEOREM UpsampleCorrect == Spec => []UpsampleKeeps
<1>1. Init => QueuesStretched
  BY DEF Init, QueuesStretched
<1>2. TypeOK /\ TypeOK' /\ QueuesStretched /\ [Next]_vars => QueuesStretched'
  BY StretchedStep
<1>3. TypeOK /\ QueuesStretched => UpsampleKeeps
  BY StretchedKeeps
<1> QED
  BY <1>1, <1>2, <1>3, TypeCorrect, PTL DEF Spec

----------------------------------------------------------------------------
(* The mix.  SumOf is a recursive function: to the provers, whatever       *)
(* satisfies its equation.  IsSum says that the equation has a solution    *)
(* and what every solution ends in; it is shown for the empty sequence and *)
(* for one element more, and carried along by the callback.                *)

Sums(q, sum) == sum = [i \in 0..Len(q) |-> IF i = 0 THEN 0 ELSE sum[i - 1] + q[i]]

IsSum(q, v) ==
    /\ \E sum : Sums(q, sum)
    /\ \A sum : Sums(q, sum) => sum[Len(q)] = v

LEMMA SumIs ==
    ASSUME NEW q, NEW v, IsSum(q, v)
    PROVE  SumOf(q) = v
<1> DEFINE sum == CHOOSE sum : Sums(q, sum)
<1>1. Sums(q, sum)
  BY DEF IsSum
<1>2. sum[Len(q)] = v
  BY <1>1 DEF IsSum
<1>3. SumOf(q) = sum[Len(q)]
  BY DEF SumOf, Sums
<1> QED
  BY <1>2, <1>3

\* Nothing adds up to nothing.
LEMMA EmptySum == IsSum(<<>>, 0)
<1>1. Sums(<<>>, [i \in 0..0 |-> 0])
  BY DEF Sums
<1>2. ASSUME NEW sum, Sums(<<>>, sum) PROVE sum[0] = 0
  BY <1>2 DEF Sums
<1> QED
  BY <1>1, <1>2 DEF IsSum

\* One element more adds to the sum.
LEMMA PushSum ==
    ASSUME NEW q \in Seq(Int), NEW x \in Int, NEW v \in Int, IsSum(q, v)
    PROVE  IsSum(Append(q, x), v + x)
<1> DEFINE long == Append(q, x)
           len == Len(q)
<1>1. /\ len \in Nat /\ Len(long) = len + 1 /\ long[len + 1] = x
      /\ \A i \in 1..len : long[i] = q[i]
  BY PushFacts
<1> HIDE DEF long
<1>2. \E sum : Sums(long, sum)
  <2>1. PICK sum : Sums(q, sum)
    BY DEF IsSum
  <2>2. sum[len] = v
    BY <2>1 DEF IsSum
  <2>3. /\ sum[0] = 0
        /\ \A i \in 1..len : sum[i] = sum[i - 1] + q[i]
    <3>1. sum = [i \in 0..len |-> IF i = 0 THEN 0 ELSE sum[i - 1] + q[i]]
      BY <2>1 DEF Sums
    <3> HIDE DEF len
    <3>2. 0 \in 0..len /\ \A i \in 1..len : i \in 0..len /\ i # 0
      BY <1>1
    <3> QED
      BY <3>1, <3>2
  <2> DEFINE more == [i \in 0..(len + 1) |-> IF i <= len THEN sum[i] ELSE v + x]
  <2>4. ASSUME NEW i \in 0..(len + 1)
        PROVE  more[i] = IF i = 0 THEN 0 ELSE more[i - 1] + long[i]
    <3>1. CASE i = 0
      BY <1>1, <2>3, <3>1
    <3>2. CASE i \in 1..len
      BY <1>1, <2>3, <3>2
    <3>3. CASE i = len + 1
      BY <1>1, <2>2, <3>3
    <3> QED
      BY <1>1, <3>1, <3>2, <3>3
  <2>5. more = [i \in 0..(len + 1) |-> more[i]]
    OBVIOUS
  <2> HIDE DEF more
  <2>6. more = [i \in 0..(len + 1) |-> IF i = 0 THEN 0 ELSE more[i - 1] + long[i]]
    BY <2>4, <2>5
  <2> QED
    BY <1>1, <2>6 DEF Sums
<1>3. ASSUME NEW sum, Sums(long, sum)
      PROVE  sum[len + 1] = v + x
  <2>1. /\ sum[0] = 0
        /\ \A i \in 1..(len + 1) : sum[i] = sum[i - 1] + long[i]
    <3>1. sum = [i \in 0..(len + 1) |-> IF i = 0 THEN 0 ELSE sum[i - 1] + long[i]]
      BY <1>1, <1>3 DEF Sums
    <3> HIDE DEF len
    <3>2. 0 \in 0..(len + 1) /\ \A i \in 1..(len + 1) : i \in 0..(len + 1) /\ i # 0
      BY <1>1
    <3> QED
      BY <3>1, <3>2
  <2> DEFINE less == [i \in 0..len |-> sum[i]]
  <2>2. \A i \in 0..len : less[i] = IF i = 0 THEN 0 ELSE less[i - 1] + q[i]
    BY <1>1, <2>1
  <2>3. Sums(q, less)
    BY <2>2 DEF Sums
  <2>4. sum[len] = v
    BY <1>1, <2>3 DEF IsSum
  <2> QED
    BY <1>1, <2>1, <2>4
<1> QED
  BY <1>1, <1>2, <1>3 DEF IsSum, long

\* The mix of one packet more: what is heard of it, and how loud.
LEMMA HeardPush ==
    ASSUME NEW packets \in Seq(Seq(Sample)), NEW pcm \in Seq(Sample), NEW n \in 1..Block,
           Len(pcm) = Block, \A i \in 1..Len(packets) : Len(packets[i]) = Block
    PROVE  /\ Heard(packets, n) \in Seq(Int) /\ Loudness(packets, n) \in Seq(Int)
           /\ Heard(Append(packets, pcm), n) = Append(Heard(packets, n), pcm[n])
           /\ Loudness(Append(packets, pcm), n) = Append(Loudness(packets, n), Abs(pcm[n]))
<1> DEFINE long == Append(packets, pcm)
           len == Len(packets)
<1>1. /\ len \in Nat /\ DOMAIN packets = 1..len
      /\ DOMAIN long = 1..(len + 1) /\ long[len + 1] = pcm
      /\ \A i \in 1..len : long[i] = packets[i]
  BY PushFacts, RangeFacts
<1>2. /\ pcm[n] \in Int
      /\ \A i \in 1..len : packets[i][n] \in Int
  <2>1. Sample \subseteq Int
    BY LimitAssumption DEF Sample
  <2>2. \A p \in Seq(Sample) : Len(p) = Block => p[n] \in Sample
    BY RangeFacts
  <2>3. \A i \in 1..len : packets[i] \in Seq(Sample)
    BY RangeFacts
  <2> QED
    BY <2>1, <2>2, <2>3
<1> HIDE DEF long
<1> DEFINE h == Heard(packets, n)
           l == Loudness(packets, n)
<1>3. /\ h \in [1..len -> Int] /\ l \in [1..len -> Int]
      /\ \A i \in 1..len : h[i] = packets[i][n] /\ l[i] = Abs(packets[i][n])
  BY <1>1, <1>2 DEF Heard, Loudness, Abs
<1>4. Abs(pcm[n]) \in Int
  BY <1>2 DEF Abs
<1>5. h \in Seq(Int) /\ l \in Seq(Int) /\ Len(h) = len /\ Len(l) = len
  BY <1>1, <1>3, FunctionIsQueue
<1>6. Heard(long, n) = [i \in 1..(len + 1) |-> long[i][n]]
      /\ Loudness(long, n) = [i \in 1..(len + 1) |-> Abs(long[i][n])]
  BY <1>1 DEF Heard, Loudness
<1> HIDE DEF h, l
<1>7. /\ Append(h, pcm[n]) = [i \in 1..(len + 1) |-> IF i <= len THEN h[i] ELSE pcm[n]]
      /\ Append(l, Abs(pcm[n])) =
             [i \in 1..(len + 1) |-> IF i <= len THEN l[i] ELSE Abs(pcm[n])]
  BY <1>1, <1>5
<1>8. \A i \in 1..(len + 1) :
          /\ long[i][n] = IF i <= len THEN h[i] ELSE pcm[n]
          /\ Abs(long[i][n]) = IF i <= len THEN l[i] ELSE Abs(pcm[n])
  BY <1>1, <1>3
<1>9. Heard(long, n) = Append(h, pcm[n]) /\ Loudness(long, n) = Append(l, Abs(pcm[n]))
  BY <1>6, <1>7, <1>8
<1> QED
  BY <1>5, <1>9 DEF h, l, long

\* The sums at one sample: v of what is heard, l of how loud it is.
SummedAt(packets, n, v, l) ==
    /\ IsSum(Heard(packets, n), v) /\ IsSum(Loudness(packets, n), l)
    /\ -l <= v /\ v <= l

\* What the callback keeps while it goes through the slots: of the buffer, and of the
\* publisher's block.
SummedMix(packets, length, block) ==
    /\ \A i \in 1..Len(packets) : Len(packets[i]) = Block
    /\ \A n \in 1..length :
           IF n <= Block
           THEN \E v, l \in Int : SummedAt(packets, n, v, l) /\ (l <= Limit => block[n] = v)
           ELSE block[n] = 0

Copied(block, buffer) ==
    \A n \in 1..Block : buffer[2 * n - 1] = block[n] /\ buffer[2 * n] = 0

Summed == SummedMix(mixed, room, data) /\ (~sdi => Copied(data, audioBuffer))

\* An empty mix.
LEMMA SummedEmpty ==
    ASSUME NEW n \in 1..Block
    PROVE  SummedAt(<<>>, n, 0, 0)
<1>1. Heard(<<>>, n) = <<>> /\ Loudness(<<>>, n) = <<>>
  BY DEF Heard, Loudness
<1> QED
  BY <1>1, EmptySum DEF SummedAt

LEMMA SilenceSummed ==
    ASSUME NEW length \in Nat
    PROVE  SummedMix(<<>>, length, Silence(length))
<1> DEFINE block == Silence(length)
<1>1. \A n \in 1..length : block[n] = 0
  BY DEF Silence
<1> HIDE DEF block
<1>2. ASSUME NEW n \in 1..length, n <= Block
      PROVE  \E v, l \in Int : SummedAt(<<>>, n, v, l) /\ (l <= Limit => block[n] = v)
  <2>1. SummedAt(<<>>, n, 0, 0)
    BY <1>2, SummedEmpty, BlockAssumption
  <2> QED
    BY <1>1, <2>1
<1>3. \A i \in 1..Len(<<>>) : Len(<<>>[i]) = Block
  OBVIOUS
<1>4. SummedMix(<<>>, length, block)
  BY <1>1, <1>2, <1>3 DEF SummedMix
<1> QED
  BY <1>4 DEF block

LEMMA SilenceCopied == Copied(Silence(Block), Silence(2 * Block))
<1>1. ASSUME NEW n \in 1..Block
      PROVE  2 * n - 1 \in 1..(2 * Block) /\ 2 * n \in 1..(2 * Block)
  BY BlockAssumption
<1> QED
  BY <1>1 DEF Copied, Silence

\* A packet that is heard is added; as long as the packets together are no louder
\* than 16 bits, nothing is cut off on the way.
LEMMA AddSummed ==
    ASSUME TypeOK, Summed, NEW s, NEW pcm \in Seq(Sample), Add(s, pcm),
           UNCHANGED <<sdi, room>>
    PROVE  Summed'
<1>1. CASE ~(s \in isDraw /\ Len(pcm) = Block)
  BY <1>1 DEF Add, Summed
<1>2. CASE s \in isDraw /\ Len(pcm) = Block
  <2>0. room \in Nat /\ (~sdi => room = Block) /\ UNCHANGED <<room, sdi>>
    BY RoomsAssumption, BlockAssumption DEF TypeOK
  <2>1. /\ data' = [n \in 1..room |->
               IF n <= Block THEN Saturated(data[n] + pcm[n]) ELSE data[n]]
        /\ audioBuffer' = [n \in 1..(2 * Block) |->
               IF ~sdi /\ n % 2 = 1 THEN data'[(n + 1) \div 2] ELSE audioBuffer[n]]
        /\ mixed' = Append(mixed, pcm)
    BY <1>2 DEF Add
  <2>2. /\ mixed \in Seq(Seq(Sample)) /\ data \in [1..room -> Int]
        /\ \A i \in 1..Len(mixed) : Len(mixed[i]) = Block
    BY DEF TypeOK, Summed, SummedMix
  <2>3. \A i \in 1..Len(mixed') : Len(mixed'[i]) = Block
    <3> SUFFICES ASSUME NEW i \in 1..Len(mixed') PROVE Len(mixed'[i]) = Block
      OBVIOUS
    <3>1. Len(mixed) \in Nat /\ Len(mixed') = Len(mixed) + 1
      BY <2>1, <2>2
    <3>2. CASE i \in 1..Len(mixed)
      <4>1. mixed'[i] = mixed[i]
        BY <2>1, <2>2, <3>2
      <4> QED
        BY <2>2, <3>2, <4>1
    <3>3. CASE i = Len(mixed) + 1
      <4>1. mixed'[i] = pcm
        BY <2>1, <2>2, <3>3
      <4> QED
        BY <1>2, <4>1
    <3> QED
      BY <3>1, <3>2, <3>3
  <2>4. ASSUME NEW n \in 1..room, n <= Block
        PROVE  \E v, l \in Int : SummedAt(mixed', n, v, l) /\ (l <= Limit => data'[n] = v)
    <3>0. n \in 1..Block
      BY <2>0, <2>4, BlockAssumption
    <3>1. PICK v \in Int, l \in Int : SummedAt(mixed, n, v, l) /\ (l <= Limit => data[n] = v)
      BY <2>4 DEF Summed, SummedMix
    <3>2. /\ Heard(mixed, n) \in Seq(Int) /\ Loudness(mixed, n) \in Seq(Int)
          /\ Heard(mixed', n) = Append(Heard(mixed, n), pcm[n])
          /\ Loudness(mixed', n) = Append(Loudness(mixed, n), Abs(pcm[n]))
      BY <1>2, <2>1, <2>2, <3>0, HeardPush
    <3>3. pcm[n] \in Int /\ Abs(pcm[n]) \in Int
      <4>1. pcm[n] \in Sample
        BY <1>2, <3>0, RangeFacts
      <4> QED
        BY <4>1, LimitAssumption DEF Sample, Abs
    <3>4. SummedAt(mixed', n, v + pcm[n], l + Abs(pcm[n]))
      <4>1. IsSum(Heard(mixed', n), v + pcm[n]) /\ IsSum(Loudness(mixed', n), l + Abs(pcm[n]))
        <5>1. IsSum(Heard(mixed, n), v) /\ IsSum(Loudness(mixed, n), l)
          BY <3>1 DEF SummedAt
        <5>2. IsSum(Append(Heard(mixed, n), pcm[n]), v + pcm[n])
          BY <3>1, <3>2, <3>3, <5>1, PushSum
        <5>3. IsSum(Append(Loudness(mixed, n), Abs(pcm[n])), l + Abs(pcm[n]))
          BY <3>1, <3>2, <3>3, <5>1, PushSum
        <5> QED
          BY <3>2, <5>2, <5>3
      <4>2. /\ -(l + Abs(pcm[n])) <= v + pcm[n]
            /\ v + pcm[n] <= l + Abs(pcm[n])
        <5>1. -l <= v /\ v <= l
          BY <3>1 DEF SummedAt
        <5>2. -Abs(pcm[n]) <= pcm[n] /\ pcm[n] <= Abs(pcm[n])
          BY <3>3 DEF Abs
        <5> QED
          BY <3>1, <3>3, <5>1, <5>2
      <4> QED
        BY <4>1, <4>2 DEF SummedAt
    <3>5. l + Abs(pcm[n]) <= Limit => data'[n] = v + pcm[n]
      <4>1. l <= l + Abs(pcm[n]) /\ l + Abs(pcm[n]) \in Int
        BY <3>1, <3>3 DEF Abs
      <4>2. data'[n] = Saturated(data[n] + pcm[n])
        BY <2>1, <2>4
      <4>3. ASSUME l + Abs(pcm[n]) <= Limit
            PROVE  data[n] = v /\ -Limit <= v + pcm[n] /\ v + pcm[n] <= Limit
        <5>1. -(l + Abs(pcm[n])) <= v + pcm[n] /\ v + pcm[n] <= l + Abs(pcm[n])
          BY <3>4 DEF SummedAt
        <5> QED
          BY <3>1, <3>3, <4>1, <4>3, <5>1, LimitAssumption
      <4> QED
        BY <3>1, <3>3, <4>2, <4>3, LimitAssumption DEF Saturated
    <3>6. v + pcm[n] \in Int /\ l + Abs(pcm[n]) \in Int
      BY <3>1, <3>3
    <3> QED
      BY <3>4, <3>5, <3>6
  <2>5. ASSUME NEW n \in 1..room, ~(n <= Block)
        PROVE  data'[n] = 0
    <3>1. data'[n] = data[n]
      BY <2>1, <2>5
    <3>2. data[n] = 0
      BY <2>5 DEF Summed, SummedMix
    <3> QED
      BY <3>1, <3>2
  <2>6. SummedMix(mixed', room, data')
    BY <2>3, <2>4, <2>5 DEF SummedMix
  <2>7. ASSUME ~sdi, NEW n \in 1..Block
        PROVE  audioBuffer'[2 * n - 1] = data'[n] /\ audioBuffer'[2 * n] = 0
    <3>1. /\ 2 * n - 1 \in 1..(2 * Block) /\ 2 * n \in 1..(2 * Block)
          /\ (2 * n - 1) % 2 = 1 /\ (2 * n) % 2 = 0 /\ ((2 * n - 1) + 1) \div 2 = n
      BY BlockAssumption
    <3>2. audioBuffer'[2 * n - 1] = data'[n] /\ audioBuffer'[2 * n] = audioBuffer[2 * n]
      BY <2>1, <2>7, <3>1
    <3>3. audioBuffer[2 * n] = 0
      BY <2>7 DEF Summed, Copied
    <3> QED
      BY <3>2, <3>3
  <2>8. ~sdi => Copied(data', audioBuffer')
    BY <2>7 DEF Copied
  <2> QED
    BY <2>0, <2>6, <2>8 DEF Summed
<1> QED
  BY <1>1, <1>2

LEMMA SummedStep == TypeOK /\ Summed /\ [Next]_vars => Summed'
<1> SUFFICES ASSUME TypeOK, Summed, [Next]_vars PROVE Summed'
  OBVIOUS
<1>1. CASE UNCHANGED <<sdi, room, data, audioBuffer, mixed>>
  BY <1>1 DEF Summed
<1>2. CASE CallbackBegin
  <2>1. /\ mixed' = <<>> /\ data' = Silence(room') /\ audioBuffer' = Silence(2 * Block)
        /\ sdi' = sdi /\ room' \in Nat /\ (~sdi => room' = Block)
    BY <1>2, RoomsAssumption, BlockAssumption DEF CallbackBegin, main
  <2>2. SummedMix(mixed', room', data')
    BY <2>1, SilenceSummed
  <2>3. ~sdi' => Copied(data', audioBuffer')
    BY <2>1, SilenceCopied
  <2> QED
    BY <2>2, <2>3 DEF Summed
<1>3. CASE CallbackSlot /\ at \in open /\ events_audio_[at] # <<>>
  <2>1. /\ at \in Slot /\ Add(at, Head(events_audio_[at]).pcm)
        /\ UNCHANGED <<sdi, room>>
    BY <1>3 DEF CallbackSlot, main
  <2>2. events_audio_[at] \in Seq(Packet) /\ events_audio_[at] # <<>>
    BY <1>3, <2>1 DEF TypeOK
  <2>3. Head(events_audio_[at]).pcm \in Seq(Sample)
    <3>1. Head(events_audio_[at]) \in Packet
      BY <2>2, PopFacts
    <3> QED
      BY <3>1 DEF Packet
  <2> QED
    BY <2>1, <2>3, AddSummed
<1>4. CASE CallbackSlot /\ ~(at \in open /\ events_audio_[at] # <<>>)
  BY <1>1, <1>4 DEF CallbackSlot, main
<1>5. CASE audioInit \/ CallbackEnd \/ UNCHANGED vars
  BY <1>1, <1>5 DEF audioInit, CallbackEnd, vars, mix, main
<1>6. ASSUME NEW s \in Slot, Switch(s) \/ \E source \in Sources : OnData(s, source)
      PROVE  Summed'
  BY <1>1, <1>6 DEF Switch, OnData, mix, main
<1> QED
  BY <1>2, <1>3, <1>4, <1>5, <1>6 DEF Next, Callback

LEMMA SummedIsMix == Summed => MixIsSum
<1> SUFFICES ASSUME Summed, NEW n \in 1..room
    PROVE  /\ n <= Block /\ SumOf(Loudness(mixed, n)) <= Limit
                  => data[n] = SumOf(Heard(mixed, n))
           /\ n > Block => data[n] = 0
  BY DEF MixIsSum, Summed, Copied
<1>0. CASE ~(n <= Block)
  BY <1>0 DEF Summed, SummedMix
<1> SUFFICES ASSUME n <= Block, SumOf(Loudness(mixed, n)) <= Limit
    PROVE  data[n] = SumOf(Heard(mixed, n))
  BY <1>0, BlockAssumption, RoomsAssumption
<1>1. PICK v \in Int, l \in Int : SummedAt(mixed, n, v, l) /\ (l <= Limit => data[n] = v)
  BY DEF Summed, SummedMix
<1>2. SumOf(Heard(mixed, n)) = v /\ SumOf(Loudness(mixed, n)) = l
  <2>1. IsSum(Heard(mixed, n), v) /\ IsSum(Loudness(mixed, n), l)
    BY <1>1 DEF SummedAt
  <2>2. SumOf(Heard(mixed, n)) = v
    BY <2>1, SumIs
  <2>3. SumOf(Loudness(mixed, n)) = l
    BY <2>1, SumIs
  <2> QED
    BY <2>2, <2>3
<1> QED
  BY <1>1, <1>2, LimitAssumption

\* However much SDL or the card asks for, what is played is the sum of the packets heard
\* as long as they are together no louder than 16 bits, then silence, and what is
\* published is the same.
THEOREM MixCorrect == Spec => []MixIsSum
<1>1. Init => Summed
  <2>1. ASSUME Init
        PROVE  /\ mixed = <<>> /\ room = Block /\ data = Silence(Block)
               /\ audioBuffer = Silence(2 * Block) /\ Block \in Nat
    BY <2>1, BlockAssumption DEF Init
  <2> QED
    BY <2>1, SilenceSummed, SilenceCopied DEF Summed
<1> QED
  BY <1>1, TypedInit, TypedStep, SummedStep, SummedIsMix, PTL DEF Spec
=============================================================================
