------------------------- MODULE ImageQueues_proofs -------------------------
(***************************************************************************)
(* Proofs about ImageQueues, for every number of tracks, every pool size   *)
(* and every bound.                                                        *)
(***************************************************************************)
EXTENDS ImageQueues, QueueFacts, FiniteSetTheorems

-----------------------------------------------------------------------------
\* event_init appends buffers that did not exist before.
LEMMA FreshFacts ==
    ASSUME NEW n \in Nat, NEW k \in Nat, NEW q \in Seq(1..n)
    PROVE  LET new == q \o [i \in 1..k |-> n + i]
           IN  /\ new \in Seq(1..(n + k))
               /\ Len(new) = Len(q) + k
               /\ Range(new) = Range(q) \cup (n + 1)..(n + k)
               /\ IsInjective(q) => IsInjective(new)
<1> DEFINE fresh == [i \in 1..k |-> n + i]
           new == q \o fresh
<1>1. fresh \in Seq(1..(n + k)) /\ Len(fresh) = k
  <2>1. fresh \in [1..k -> 1..(n + k)]
    OBVIOUS
  <2> QED
    BY <2>1
<1>2. q \in Seq(1..(n + k))
  BY SeqMonotonic, 1..n \subseteq 1..(n + k)
<1>3. /\ new \in Seq(1..(n + k))
      /\ Len(new) = Len(q) + k
      /\ \A i \in 1..(Len(q) + k) :
            new[i] = IF i <= Len(q) THEN q[i] ELSE fresh[i - Len(q)]
  BY <1>1, <1>2, ConcatProperties
<1>4. Len(q) \in Nat /\ DOMAIN q = 1..Len(q) /\ \A i \in 1..Len(q) : q[i] \in 1..n
  BY RangeFacts
<1>5. DOMAIN new = 1..(Len(q) + k)
  BY <1>3, LenProperties
<1>6. \A i \in 1..Len(q) : new[i] = q[i]
  BY <1>3, <1>4
<1>7. \A j \in 1..k : new[Len(q) + j] = n + j
  <2> SUFFICES ASSUME NEW j \in 1..k PROVE new[Len(q) + j] = n + j
    OBVIOUS
  <2>1. Len(q) + j \in 1..(Len(q) + k) /\ ~(Len(q) + j <= Len(q)) /\ (Len(q) + j) - Len(q) = j
    BY <1>4
  <2> QED
    BY <1>3, <2>1
<1>8. \A i \in 1..(Len(q) + k) : i \in 1..Len(q) \/ \E j \in 1..k : i = Len(q) + j
  <2> SUFFICES ASSUME NEW i \in 1..(Len(q) + k), i \notin 1..Len(q)
               PROVE  \E j \in 1..k : i = Len(q) + j
    OBVIOUS
  <2>1. i - Len(q) \in 1..k /\ i = Len(q) + (i - Len(q))
    BY <1>4
  <2> QED
    BY <2>1
<1>9. Range(new) = Range(q) \cup (n + 1)..(n + k)
  <2>1. ASSUME NEW x \in Range(new)
        PROVE  x \in Range(q) \cup (n + 1)..(n + k)
    <3>1. PICK i \in 1..(Len(q) + k) : x = new[i]
      BY <1>5 DEF Range
    <3>2. CASE i \in 1..Len(q)
      BY <1>4, <1>6, <3>1, <3>2 DEF Range
    <3>3. CASE i \notin 1..Len(q)
      <4>1. PICK j \in 1..k : i = Len(q) + j
        BY <1>8, <3>3
      <4>2. x = n + j
        BY <1>7, <3>1, <4>1
      <4> QED
        BY <4>2
    <3> QED
      BY <3>2, <3>3
  <2>2. ASSUME NEW x \in Range(q)
        PROVE  x \in Range(new)
    <3>1. PICK i \in 1..Len(q) : x = q[i]
      BY <1>4 DEF Range
    <3>2. i \in 1..(Len(q) + k) /\ new[i] = x
      BY <1>4, <1>6, <3>1
    <3> QED
      BY <1>5, <3>2 DEF Range
  <2>3. ASSUME NEW x \in (n + 1)..(n + k)
        PROVE  x \in Range(new)
    <3>1. x - n \in 1..k /\ n + (x - n) = x /\ Len(q) + (x - n) \in 1..(Len(q) + k)
      BY <1>4
    <3>2. new[Len(q) + (x - n)] = x
      BY <1>7, <3>1
    <3> QED
      BY <1>5, <3>1, <3>2 DEF Range
  <2> QED
    BY <2>1, <2>2, <2>3
<1>10. ASSUME IsInjective(q)
       PROVE  IsInjective(new)
  <2> SUFFICES ASSUME NEW a \in 1..(Len(q) + k), NEW b \in 1..(Len(q) + k),
                      new[a] = new[b]
               PROVE  a = b
    BY <1>5 DEF IsInjective
  <2>1. CASE a \in 1..Len(q) /\ b \in 1..Len(q)
    BY <1>4, <1>6, <1>10, <2>1 DEF IsInjective
  <2>2. CASE a \in 1..Len(q) /\ b \notin 1..Len(q)
    <3>1. PICK j \in 1..k : b = Len(q) + j
      BY <1>8, <2>2
    <3>2. new[b] = n + j /\ new[a] \in 1..n
      BY <1>4, <1>6, <1>7, <2>2, <3>1
    <3> QED
      BY <3>2
  <2>3. CASE a \notin 1..Len(q) /\ b \in 1..Len(q)
    <3>1. PICK j \in 1..k : a = Len(q) + j
      BY <1>8, <2>3
    <3>2. new[a] = n + j /\ new[b] \in 1..n
      BY <1>4, <1>6, <1>7, <2>3, <3>1
    <3> QED
      BY <3>2
  <2>4. CASE a \notin 1..Len(q) /\ b \notin 1..Len(q)
    <3>1. PICK j \in 1..k : a = Len(q) + j
      BY <1>8, <2>4
    <3>2. PICK l \in 1..k : b = Len(q) + l
      BY <1>8, <2>4
    <3>3. new[a] = n + j /\ new[b] = n + l
      BY <1>7, <3>1, <3>2
    <3> QED
      BY <1>4, <3>1, <3>2, <3>3
  <2> QED
    BY <2>1, <2>2, <2>3, <2>4
<1> QED
  BY <1>3, <1>9, <1>10

-----------------------------------------------------------------------------
(* Types.                                                                   *)

\* main() holds a buffer exactly while it copies.
CopyHoldsBuffer == pc = "copy" <=> pframe # NoBuffer

Typed == TypeOK /\ CopyHoldsBuffer

\* The picture of a still image is a picture.
LEMMA StillImageType == \A n \in 0..MaxSessions : StillImage(n) \in Picture
  BY BoundAssumption DEF StillImage, Picture

\* A free slot without buffers is well typed.
LEMMA TypedInit == Init => Typed
<1> SUFFICES ASSUME Init PROVE Typed
  OBVIOUS
<1> USE BoundAssumption DEF Init
<1>1. pixels \in [Buffer -> Picture] /\ lastTextureBuffer \in Picture
  BY StillImageType
<1>2. events_image_empty \in Seq(1..pool) /\ events_image_current \in Seq(1..pool)
  BY EmptySeq
<1>3. rgb \in [Sink -> 0..pool] /\ pool \in 0..MaxBuffers /\ pframe \in 0..pool
  BY DEF NoBuffer
<1>4. CopyHoldsBuffer
  BY DEF CopyHoldsBuffer
<1>5. instance_enum \in {"MIN", "CHANNEL", "LOCAL"} /\ pc \in {"loop", "copy", "join"}
  OBVIOUS
<1>6. image_path \in BOOLEAN
  OBVIOUS
<1>7. /\ session \in 0..MaxSessions /\ threads \in 0..session /\ peer \in 0..session
      /\ frames \in 0..MaxFrames
  BY DEF BoundAssumption
<1> QED
  BY <1>1, <1>2, <1>3, <1>4, <1>5, <1>6, <1>7 DEF Typed, TypeOK

\* No command, decoder step or collection breaks the types.
LEMMA TypedStep == Typed /\ [Next]_vars => Typed'
<1> SUFFICES ASSUME Typed, [Next]_vars PROVE Typed'
  OBVIOUS
<1> USE BoundAssumption, PoolAssumption DEF Typed, CopyHoldsBuffer, NoBuffer
<1>1. CASE subscribeSideAddChannel
  <2>1. events_image_empty' \in Seq(1..pool')
    BY <1>1, FreshFacts DEF TypeOK, subscribeSideAddChannel, event_init
  <2>2. events_image_current' \in Seq(1..pool')
    BY <1>1, SeqMonotonic, 1..pool \subseteq 1..(pool + PoolSize)
       DEF TypeOK, subscribeSideAddChannel, event_init
  <2>3. rgb' \in [Sink -> 0..pool'] /\ pframe' \in 0..pool' /\ pool' \in 0..MaxBuffers
    BY <1>1 DEF TypeOK, subscribeSideAddChannel, event_init, decoder, main
  <2> QED
    BY <1>1, <2>1, <2>2, <2>3 DEF TypeOK, subscribeSideAddChannel, decoder, main
<1>2. CASE DeleteChannelBegin
  BY <1>2 DEF TypeOK, DeleteChannelBegin, queues, decoder
<1>3. CASE DeleteChannelEnd
  BY <1>3 DEF TypeOK, DeleteChannelEnd, queues, decoder
<1>4. CASE resourceAddStaticImage
  <2>1. lastTextureBuffer' \in Picture
    BY <1>4, StillImageType DEF TypeOK, resourceAddStaticImage
  <2> QED
    BY <1>4, <2>1 DEF TypeOK, resourceAddStaticImage, queues, decoder
<1>5. CASE resourceDeleteStaticImage
  BY <1>5 DEF TypeOK, resourceDeleteStaticImage, queues, decoder, main
<1>6. CASE webrtc_event
  BY <1>6 DEF TypeOK, webrtc_event, slot, queues, decoder, main
<1>7. CASE CollectBegin
  <2>1. pframe' \in 1..pool /\ events_image_current' \in Seq(1..pool)
    BY <1>7, PopFacts DEF TypeOK, CollectBegin
  <2> QED
    BY <1>7, <2>1 DEF TypeOK, CollectBegin, slot, decoder
<1>8. CASE CollectEnd
  <2>1. pframe \in 1..pool /\ pframe \in Buffer
    BY <1>8 DEF TypeOK, CollectEnd, Buffer
  <2>2. lastTextureBuffer' \in Picture
    BY <1>8, <2>1 DEF TypeOK, CollectEnd
  <2>3. events_image_empty' \in Seq(1..pool)
    BY <1>8, <2>1, PushFacts DEF TypeOK, CollectEnd
  <2> QED
    BY <1>8, <2>2, <2>3 DEF TypeOK, CollectEnd, slot, decoder
<1>9. CASE CollectNothing
  BY <1>9 DEF TypeOK, CollectNothing, vars, slot, queues, decoder, main
<1>10. ASSUME NEW s \in Sink, OnFrameBegin(s)
       PROVE  Typed'
  <2>1. /\ Head(events_image_empty) \in 1..pool
        /\ events_image_empty' \in Seq(1..pool)
    BY <1>10, PopFacts DEF TypeOK, OnFrameBegin
  <2>2. rgb' \in [Sink -> 0..pool] /\ frames' \in 0..MaxFrames
    BY <1>10, <2>1 DEF TypeOK, OnFrameBegin
  <2>3. [sink |-> s, session |-> peer, no |-> frames + 1, whole |-> FALSE] \in Picture
    BY <1>10 DEF TypeOK, OnFrameBegin, Picture
  <2>4. pixels' \in [Buffer -> Picture]
    BY <1>10, <2>3 DEF TypeOK, OnFrameBegin
  <2> QED
    BY <1>10, <2>1, <2>2, <2>4 DEF TypeOK, OnFrameBegin, slot, main
<1>11. ASSUME NEW s \in Sink, OnFrameDrop(s)
       PROVE  Typed'
  BY <1>11 DEF TypeOK, OnFrameDrop, slot, queues, main
<1>12. ASSUME NEW s \in Sink, OnFrameEnd(s)
       PROVE  Typed'
  <2>1. rgb[s] \in 1..pool /\ rgb[s] \in Buffer
    BY <1>12 DEF TypeOK, OnFrameEnd, Buffer
  <2>2. events_image_current' \in Seq(1..pool)
    BY <1>12, <2>1, PushFacts DEF TypeOK, OnFrameEnd
  <2>3. rgb' \in [Sink -> 0..pool]
    BY <1>12 DEF TypeOK, OnFrameEnd
  <2>4. pixels' \in [Buffer -> Picture]
    BY <1>12, <2>1 DEF TypeOK, OnFrameEnd, Picture
  <2> QED
    BY <1>12, <2>2, <2>3, <2>4 DEF TypeOK, OnFrameEnd, slot, main
<1>13. CASE UNCHANGED vars
  BY <1>13 DEF TypeOK, vars, slot, queues, decoder, main
<1> QED
  BY <1>1, <1>2, <1>3, <1>4, <1>5, <1>6, <1>7, <1>8, <1>9, <1>10, <1>11, <1>12, <1>13
     DEF Next, Command, Collect, OnFrame

\* Every reachable state is well typed: no OnFrame and no memcpy ever uses a
\* pointer that event_init did not malloc.
THEOREM TypeCorrect == Spec => []TypeOK
<1>1. Init => Typed
  BY TypedInit
<1>2. Typed /\ [Next]_vars => Typed'
  BY TypedStep
<1>3. Typed => TypeOK
  BY DEF Typed
<1> QED
  BY <1>1, <1>2, <1>3, PTL DEF Spec

-----------------------------------------------------------------------------
(* Ownership of the buffers.                                                *)

\* Before the first event_init there is no buffer to share.
LEMMA OnceInit == Init => EachBufferOnce
  BY DEF Init, EachBufferOnce, IsInjective, Range, Converting

\* Every push, pop and conversion moves a buffer from one holder to one other.
LEMMA OnceStep == Typed /\ EachBufferOnce /\ [Next]_vars => EachBufferOnce'
<1> SUFFICES ASSUME Typed, EachBufferOnce, [Next]_vars PROVE EachBufferOnce'
  OBVIOUS
<1> USE DEF Typed, CopyHoldsBuffer, NoBuffer
<1>1. CASE subscribeSideAddChannel
  <2>1. /\ Range(events_image_empty') =
               Range(events_image_empty) \cup (pool + 1)..(pool + PoolSize)
        /\ IsInjective(events_image_empty')
    BY <1>1, FreshFacts, PoolAssumption
       DEF TypeOK, EachBufferOnce, subscribeSideAddChannel, event_init
  <2>2. /\ Range(events_image_current) \subseteq 1..pool
        /\ pframe \in 0..pool /\ pool \in Nat
        /\ \A s \in Sink : rgb[s] \in 0..pool
    BY RangeFacts DEF TypeOK
  <2>3. /\ UNCHANGED <<events_image_current, rgb, pframe>>
    BY <1>1 DEF subscribeSideAddChannel, event_init, decoder, main
  <2> QED
    BY <2>1, <2>2, <2>3, PoolAssumption DEF EachBufferOnce, Converting
<1>2. ASSUME UNCHANGED <<queues, rgb, pframe>>
      PROVE  EachBufferOnce'
  BY <1>2 DEF EachBufferOnce, Converting, queues
<1>3. CASE CollectBegin
  <2>1. /\ Head(events_image_current) \in Range(events_image_current)
        /\ Head(events_image_current) \in 1..pool
        /\ Range(events_image_current') \subseteq Range(events_image_current)
        /\ IsInjective(events_image_current')
        /\ Head(events_image_current) \notin Range(events_image_current')
    BY <1>3, PopFacts DEF TypeOK, EachBufferOnce, CollectBegin
  <2>2. pframe' = Head(events_image_current) /\ UNCHANGED <<events_image_empty, rgb>>
    BY <1>3 DEF CollectBegin, decoder
  <2> QED
    BY <2>1, <2>2 DEF EachBufferOnce, Converting
<1>4. CASE CollectEnd
  <2>1. pframe # NoBuffer /\ pframe \in 1..pool
    BY <1>4 DEF TypeOK, CollectEnd
  <2>2. /\ Range(events_image_empty') = Range(events_image_empty) \cup {pframe}
        /\ IsInjective(events_image_empty')
    BY <1>4, <2>1, PushFacts DEF TypeOK, EachBufferOnce, CollectEnd
  <2>3. pframe' = NoBuffer /\ UNCHANGED <<events_image_current, rgb>>
    BY <1>4 DEF CollectEnd, decoder
  <2> QED
    BY <2>1, <2>2, <2>3 DEF EachBufferOnce, Converting
<1>5. ASSUME NEW s \in Sink, OnFrameBegin(s)
      PROVE  EachBufferOnce'
  <2> DEFINE b == Head(events_image_empty)
  <2>1. /\ b \in Range(events_image_empty) /\ b \in 1..pool
        /\ Range(events_image_empty') \subseteq Range(events_image_empty)
        /\ IsInjective(events_image_empty')
        /\ b \notin Range(events_image_empty')
    BY <1>5, PopFacts DEF TypeOK, EachBufferOnce, OnFrameBegin
  <2>2. /\ UNCHANGED <<events_image_current, pframe>>
        /\ \A t \in Sink : rgb'[t] = IF t = s THEN b ELSE rgb[t]
        /\ rgb[s] = NoBuffer
    BY <1>5 DEF TypeOK, OnFrameBegin, main
  <2>3. b # pframe
    BY <2>1 DEF EachBufferOnce
  <2> QED
    BY <2>1, <2>2, <2>3 DEF EachBufferOnce, Converting
<1>6. ASSUME NEW s \in Sink, OnFrameEnd(s)
      PROVE  EachBufferOnce'
  <2>1. rgb[s] \in 1..pool /\ s \in Converting
    BY <1>6 DEF TypeOK, OnFrameEnd, Converting
  <2>2. /\ Range(events_image_current') = Range(events_image_current) \cup {rgb[s]}
        /\ IsInjective(events_image_current')
    BY <1>6, <2>1, PushFacts DEF TypeOK, EachBufferOnce, OnFrameEnd
  <2>3. /\ UNCHANGED <<events_image_empty, pframe>>
        /\ \A t \in Sink : rgb'[t] = IF t = s THEN NoBuffer ELSE rgb[t]
    BY <1>6 DEF TypeOK, OnFrameEnd, main
  <2> QED
    BY <2>1, <2>2, <2>3 DEF EachBufferOnce, Converting
<1>7. CASE \/ DeleteChannelBegin \/ DeleteChannelEnd \/ resourceAddStaticImage
           \/ resourceDeleteStaticImage \/ webrtc_event \/ CollectNothing
           \/ \E s \in Sink : OnFrameDrop(s)
  BY <1>2, <1>7 DEF DeleteChannelBegin, DeleteChannelEnd, resourceAddStaticImage,
       resourceDeleteStaticImage, webrtc_event, CollectNothing, OnFrameDrop,
       decoder, main, vars
<1> QED
  BY <1>1, <1>2, <1>3, <1>4, <1>5, <1>6, <1>7
     DEF Next, Command, Collect, OnFrame, vars, decoder, main

\* No buffer is ever in the hands of two decoders, or of a decoder and of the
\* openGL loop, or in a queue twice.
THEOREM OwnershipCorrect == Spec => []EachBufferOnce
<1>1. Init => Typed /\ EachBufferOnce
  BY TypedInit, OnceInit
<1>2. Typed /\ EachBufferOnce /\ [Next]_vars => Typed' /\ EachBufferOnce'
  BY TypedStep, OnceStep
<1> QED
  BY <1>1, <1>2, PTL DEF Spec

-----------------------------------------------------------------------------
(* Conservation of the buffers.                                             *)

\* The decoders at work can be counted.
LEMMA ConvertingFinite == IsFiniteSet(Converting) /\ Cardinality(Converting) \in Nat
<1>1. IsFiniteSet(Converting)
  BY SinkAssumption, FS_Subset DEF Converting
<1> QED
  BY <1>1, FS_CardinalityType

\* Before the first event_init nothing is in circulation.
LEMMA LostInit == Init => NoBufferLost
<1> SUFFICES ASSUME Init PROVE NoBufferLost
  OBVIOUS
<1>1. Converting = {}
  BY DEF Init, Converting
<1> QED
  BY <1>1, FS_EmptySet DEF Init, NoBufferLost

\* Every step moves a buffer or mallocs PoolSize new ones.
LEMMA LostStep == Typed /\ NoBufferLost /\ [Next]_vars => NoBufferLost'
<1> SUFFICES ASSUME Typed, NoBufferLost, [Next]_vars PROVE NoBufferLost'
  OBVIOUS
<1> USE DEF Typed, CopyHoldsBuffer, NoBuffer
<1>a. /\ Len(events_image_empty) \in Nat /\ Len(events_image_current) \in Nat
      /\ Cardinality(Converting) \in Nat /\ pool \in Nat
  BY LenProperties, ConvertingFinite DEF TypeOK
<1>1. CASE subscribeSideAddChannel
  <2>1. Len(events_image_empty') = Len(events_image_empty) + PoolSize
    BY <1>1, FreshFacts, PoolAssumption DEF TypeOK, subscribeSideAddChannel, event_init
  <2>2. /\ UNCHANGED <<events_image_current, rgb, pframe>>
        /\ pool' = pool + PoolSize
    BY <1>1 DEF subscribeSideAddChannel, event_init, decoder, main
  <2>3. Converting' = Converting
    BY <2>2 DEF Converting
  <2> QED
    BY <1>a, <2>1, <2>2, <2>3, PoolAssumption DEF NoBufferLost
<1>2. ASSUME UNCHANGED <<queues, rgb, pframe, pool>>
      PROVE  NoBufferLost'
  <2>1. Converting' = Converting
    BY <1>2 DEF Converting
  <2> QED
    BY <1>2, <2>1 DEF NoBufferLost, queues
<1>3. CASE CollectBegin
  <2>1. /\ Len(events_image_current') = Len(events_image_current) - 1
        /\ Head(events_image_current) \in 1..pool
    BY <1>3, PopFacts DEF TypeOK, CollectBegin
  <2>2. /\ pframe = NoBuffer /\ pframe' = Head(events_image_current)
        /\ UNCHANGED <<events_image_empty, rgb, pool>>
    BY <1>3 DEF CollectBegin, decoder
  <2>3. Converting' = Converting
    BY <2>2 DEF Converting
  <2> QED
    BY <1>a, <2>1, <2>2, <2>3 DEF NoBufferLost
<1>4. CASE CollectEnd
  <2>1. pframe # NoBuffer /\ pframe \in 1..pool
    BY <1>4 DEF TypeOK, CollectEnd
  <2>2. Len(events_image_empty') = Len(events_image_empty) + 1
    BY <1>4, <2>1, PushFacts DEF TypeOK, CollectEnd
  <2>3. pframe' = NoBuffer /\ UNCHANGED <<events_image_current, rgb, pool>>
    BY <1>4 DEF CollectEnd, decoder
  <2>4. Converting' = Converting
    BY <2>3 DEF Converting
  <2> QED
    BY <1>a, <2>1, <2>2, <2>3, <2>4 DEF NoBufferLost
<1>5. ASSUME NEW s \in Sink, OnFrameBegin(s)
      PROVE  NoBufferLost'
  <2>1. /\ Head(events_image_empty) \in 1..pool
        /\ Len(events_image_empty') = Len(events_image_empty) - 1
    BY <1>5, PopFacts DEF TypeOK, OnFrameBegin
  <2>2. /\ UNCHANGED <<events_image_current, pframe, pool>>
        /\ \A t \in Sink : rgb'[t] = IF t = s THEN Head(events_image_empty) ELSE rgb[t]
        /\ rgb[s] = NoBuffer
    BY <1>5 DEF TypeOK, OnFrameBegin, main
  <2>3. Converting' = Converting \cup {s} /\ s \notin Converting
    BY <2>1, <2>2 DEF Converting
  <2>4. Cardinality(Converting') = Cardinality(Converting) + 1
    BY <2>3, ConvertingFinite, FS_AddElement
  <2> QED
    BY <1>a, <2>1, <2>2, <2>4 DEF NoBufferLost
<1>6. ASSUME NEW s \in Sink, OnFrameEnd(s)
      PROVE  NoBufferLost'
  <2>1. rgb[s] \in 1..pool /\ s \in Converting
    BY <1>6 DEF TypeOK, OnFrameEnd, Converting
  <2>2. Len(events_image_current') = Len(events_image_current) + 1
    BY <1>6, <2>1, PushFacts DEF TypeOK, OnFrameEnd
  <2>3. /\ UNCHANGED <<events_image_empty, pframe, pool>>
        /\ \A t \in Sink : rgb'[t] = IF t = s THEN NoBuffer ELSE rgb[t]
    BY <1>6 DEF TypeOK, OnFrameEnd, main
  <2>4. Converting' = Converting \ {s}
    BY <2>3 DEF Converting
  <2>5. Cardinality(Converting') = Cardinality(Converting) - 1
    BY <2>1, <2>4, ConvertingFinite, FS_RemoveElement
  <2> QED
    BY <1>a, <2>2, <2>3, <2>5 DEF NoBufferLost
<1>7. CASE \/ DeleteChannelBegin \/ DeleteChannelEnd \/ resourceAddStaticImage
           \/ resourceDeleteStaticImage \/ webrtc_event \/ CollectNothing
           \/ \E s \in Sink : OnFrameDrop(s)
  BY <1>2, <1>7 DEF DeleteChannelBegin, DeleteChannelEnd, resourceAddStaticImage,
       resourceDeleteStaticImage, webrtc_event, CollectNothing, OnFrameDrop,
       decoder, main, vars
<1> QED
  BY <1>1, <1>2, <1>3, <1>4, <1>5, <1>6, <1>7
     DEF Next, Command, Collect, OnFrame, vars, decoder, main

\* No buffer leaks while the slot is opened, closed and opened again under the
\* decoders.
THEOREM ConservationCorrect == Spec => []NoBufferLost
<1>1. Init => Typed /\ NoBufferLost
  BY TypedInit, LostInit
<1>2. Typed /\ NoBufferLost /\ [Next]_vars => Typed' /\ NoBufferLost'
  BY TypedStep, LostStep
<1> QED
  BY <1>1, <1>2, PTL DEF Spec

-----------------------------------------------------------------------------
(* The queue main() works off.                                              *)

Owned == Typed /\ EachBufferOnce

\* What the decoders and the queues hold are malloc'd buffers.
LEMMA HeldFacts ==
    ASSUME Typed
    PROVE  LET held == IF pframe = NoBuffer THEN <<>> ELSE <<pframe>>
           IN  /\ held \in Seq(1..pool)
               /\ Len(held) = (IF pframe = NoBuffer THEN 0 ELSE 1)
               /\ pframe # NoBuffer => held[1] = pframe
<1>1. CASE pframe = NoBuffer
  BY <1>1, EmptySeq
<1>2. CASE pframe # NoBuffer
  <2>1. pframe \in 1..pool
    BY <1>2 DEF Typed, TypeOK, NoBuffer
  <2>2. <<pframe>> \in Seq(1..pool) /\ Len(<<pframe>>) = 1 /\ <<pframe>>[1] = pframe
    BY <2>1
  <2> QED
    BY <1>2, <2>2
<1> QED
  BY <1>1, <1>2

\* The frames main() has still to show are distinct buffers, none of them
\* free or being converted.
LEMMA WaitingFacts ==
    ASSUME Owned
    PROVE  /\ Waiting \in Seq(1..pool)
           /\ Len(Waiting) \in Nat
           /\ DOMAIN Waiting = 1..Len(Waiting)
           /\ Len(Waiting) = Len(events_image_current)
                               + (IF pframe = NoBuffer THEN 0 ELSE 1)
           /\ \A i \in DOMAIN Waiting :
                 /\ Waiting[i] \in 1..pool
                 /\ Waiting[i] \in Buffer
                 /\ Waiting[i] \notin Range(events_image_empty)
                 /\ \A s \in Converting : Waiting[i] # rgb[s]
<1> USE DEF Owned, Typed
<1> DEFINE held == IF pframe = NoBuffer THEN <<>> ELSE <<pframe>>
<1>0. /\ held \in Seq(1..pool)
      /\ Len(held) = (IF pframe = NoBuffer THEN 0 ELSE 1)
      /\ pframe # NoBuffer => held[1] = pframe
  BY HeldFacts
<1>1. /\ Waiting \in Seq(1..pool)
      /\ Len(Waiting) = Len(held) + Len(events_image_current)
      /\ \A i \in 1..(Len(held) + Len(events_image_current)) :
            Waiting[i] = IF i <= Len(held) THEN held[i]
                                           ELSE events_image_current[i - Len(held)]
  BY <1>0, ConcatProperties DEF TypeOK, Waiting
<1>2. /\ Len(Waiting) \in Nat /\ DOMAIN Waiting = 1..Len(Waiting)
      /\ \A i \in 1..Len(Waiting) : Waiting[i] \in 1..pool
  BY <1>1, LenProperties, ElementOfSeq
<1>3. /\ Len(events_image_current) \in Nat
      /\ \A i \in 1..Len(events_image_current) :
             events_image_current[i] \in Range(events_image_current)
  BY RangeFacts DEF TypeOK
<1>4. ASSUME NEW i \in DOMAIN Waiting
      PROVE  \/ pframe # NoBuffer /\ Waiting[i] = pframe
             \/ Waiting[i] \in Range(events_image_current)
  <2>1. CASE i <= Len(held)
    BY <1>0, <1>1, <1>2, <2>1 DEF TypeOK
  <2>2. CASE ~(i <= Len(held))
    <3>1. i - Len(held) \in 1..Len(events_image_current)
      BY <1>0, <1>1, <1>2, <1>3, <2>2
    <3> QED
      BY <1>1, <1>2, <1>3, <2>2, <3>1
  <2> QED
    BY <2>1, <2>2
<1>5. \A b \in 1..pool : b \in Buffer
  BY BoundAssumption DEF TypeOK, Buffer
<1>6. ASSUME NEW i \in DOMAIN Waiting
      PROVE  /\ Waiting[i] \notin Range(events_image_empty)
             /\ \A s \in Converting : Waiting[i] # rgb[s]
  BY <1>4 DEF EachBufferOnce
<1> QED
  BY <1>0, <1>1, <1>2, <1>3, <1>5, <1>6

\* Taking a frame for the memcpy leaves it first in the queue.
LEMMA WaitingCollectBegin ==
    ASSUME Owned, CollectBegin
    PROVE  Waiting' = Waiting
<1> USE DEF Owned, Typed
<1>1. pframe = NoBuffer /\ pframe' = Head(events_image_current)
  BY DEF CollectBegin, CopyHoldsBuffer
<1>2. /\ events_image_current \in Seq(1..pool) /\ events_image_current # <<>>
      /\ events_image_current' = Tail(events_image_current)
  BY DEF CollectBegin, TypeOK
<1>3. pframe' # NoBuffer
  <2>1. Head(events_image_current) \in 1..pool
    BY <1>2, PopFacts
  <2> QED
    BY <1>1, <2>1 DEF NoBuffer
<1>4. Waiting = events_image_current
  BY <1>1, <1>2, ConcatEmptySeq DEF Waiting
<1>5. Waiting' = <<Head(events_image_current)>> \o Tail(events_image_current)
  BY <1>1, <1>2, <1>3 DEF Waiting
<1>6. <<Head(events_image_current)>> \o Tail(events_image_current) = events_image_current
  BY <1>2, HeadConsTail
<1> QED
  BY <1>4, <1>5, <1>6

\* When the buffer goes back, the second frame becomes the first.
LEMMA WaitingCollectEnd ==
    ASSUME Owned, CollectEnd
    PROVE  /\ Waiting # <<>>
           /\ Waiting[1] = pframe
           /\ Waiting' = Tail(Waiting)
<1> USE DEF Owned, Typed
<1>1. /\ pframe # NoBuffer /\ pframe' = NoBuffer
      /\ events_image_current' = events_image_current
      /\ events_image_current \in Seq(1..pool)
      /\ pframe \in 1..pool
  BY DEF CollectEnd, CopyHoldsBuffer, TypeOK, NoBuffer
<1>2. Waiting = <<pframe>> \o events_image_current
  BY <1>1 DEF Waiting
<1>3. Waiting' = events_image_current
  BY <1>1, ConcatEmptySeq DEF Waiting
<1>4. <<pframe>> \in Seq(1..pool) /\ Len(<<pframe>>) = 1
  BY <1>1
<1>5. /\ Waiting \in Seq(1..pool) /\ Len(Waiting) = 1 + Len(events_image_current)
      /\ \A i \in 1..(1 + Len(events_image_current)) :
            Waiting[i] = IF i <= 1 THEN <<pframe>>[i] ELSE events_image_current[i - 1]
  BY <1>1, <1>2, <1>4, ConcatProperties
<1>6. Len(events_image_current) \in Nat
  BY <1>1, LenProperties
<1>7. Waiting[1] = pframe /\ Waiting # <<>>
  BY <1>5, <1>6, EmptySeq
<1>8. /\ Tail(Waiting) \in Seq(1..pool) /\ Len(Tail(Waiting)) = Len(events_image_current)
      /\ \A i \in 1..Len(events_image_current) :
            Tail(Waiting)[i] = Waiting[i + 1]
  BY <1>5, <1>6, <1>7, HeadTailProperties
<1>9. \A i \in 1..Len(events_image_current) : Waiting[i + 1] = events_image_current[i]
  BY <1>5, <1>6
<1>10. Tail(Waiting) = events_image_current
  BY <1>1, <1>8, <1>9, SeqEqual
<1> QED
  BY <1>3, <1>7, <1>10

\* A converted frame is queued behind all others.
LEMMA WaitingFrameEnd ==
    ASSUME Owned, NEW s \in Sink, OnFrameEnd(s)
    PROVE  Waiting' = Append(Waiting, rgb[s])
<1> USE DEF Owned, Typed
<1> DEFINE held == IF pframe = NoBuffer THEN <<>> ELSE <<pframe>>
           q == events_image_current
<1>1. held \in Seq(1..pool)
  BY HeldFacts
<1>2. /\ q \in Seq(1..pool) /\ rgb[s] \in 1..pool
      /\ pframe' = pframe /\ q' = Append(q, rgb[s])
  BY DEF OnFrameEnd, TypeOK, NoBuffer, main
<1>3. Waiting = held \o q /\ Waiting' = held \o Append(q, rgb[s])
  BY <1>2 DEF Waiting
<1>4. held \o Append(q, rgb[s]) = Append(held \o q, rgb[s])
  BY <1>1, <1>2, ConcatPush
<1> QED
  BY <1>3, <1>4

-----------------------------------------------------------------------------
(* Pictures: complete, dated and in order.                                  *)

\* No picture is younger than the last OnFrame call.
PicturesDated == /\ \A b \in Buffer : pixels[b].no <= frames
                 /\ lastTextureBuffer.no <= frames

\* A buffer in use is marked with the track that fills or filled it.
TracksNamed == /\ \A i \in DOMAIN Waiting : pixels[Waiting[i]].sink \in Sink
               /\ \A s \in Converting : pixels[rgb[s]].sink = s

Pictures == OnlyWholePictures /\ InArrivalOrder /\ PicturesDated /\ TracksNamed

\* Nothing is queued or converted, and the drawn picture is blank.
LEMMA PicturesInit == Init => Pictures
<1> SUFFICES ASSUME Init PROVE Pictures
  OBVIOUS
<1>1. Waiting = <<>>
  BY DEF Init, Waiting
<1>2. Converting = {}
  BY DEF Init, Converting
<1>3. /\ lastTextureBuffer.whole /\ lastTextureBuffer.no = 0
      /\ \A b \in Buffer : pixels[b].no = 0
      /\ frames = 0
  BY DEF Init, StillImage
<1> QED
  BY <1>1, <1>2, <1>3
     DEF Pictures, OnlyWholePictures, InArrivalOrder, PicturesDated, TracksNamed

\* Numbers of pictures and of frames are natural numbers.
LEMMA PictureTypes ==
    ASSUME Typed
    PROVE  /\ \A b \in Buffer : pixels[b].no \in Nat
           /\ lastTextureBuffer.no \in Nat
           /\ frames \in Nat
           /\ \A s \in Converting : rgb[s] \in Buffer
<1>1. /\ pixels \in [Buffer -> Picture] /\ lastTextureBuffer \in Picture
      /\ pool \in 0..MaxBuffers /\ frames \in 0..MaxFrames
      /\ rgb \in [Sink -> 0..pool]
  BY DEF Typed, TypeOK
<1>2. \A p \in Picture : p.no \in Nat
  BY BoundAssumption DEF Picture
<1>3. \A s \in Converting : rgb[s] \in Buffer
  BY <1>1, BoundAssumption DEF Converting, NoBuffer, Buffer
<1> QED
  BY <1>1, <1>2, <1>3, BoundAssumption

\* Conversions, pushes, copies and reuse of the slot keep pictures whole and in
\* order.
LEMMA PicturesStep == Owned /\ Pictures /\ [Next]_vars => Pictures'
<1> SUFFICES ASSUME Owned, Pictures, [Next]_vars PROVE Pictures'
  OBVIOUS
<1> USE PictureTypes DEF Owned, Pictures
<1>a. ASSUME UNCHANGED <<events_image_current, pframe>>
      PROVE  Waiting' = Waiting
  BY <1>a DEF Waiting
<1>b. ASSUME UNCHANGED rgb
      PROVE  Converting' = Converting
  BY <1>b DEF Converting
<1>1. ASSUME UNCHANGED <<events_image_current, pframe, decoder, lastTextureBuffer>>
      PROVE  Pictures'
  BY <1>1, <1>a, <1>b DEF decoder, OnlyWholePictures, InArrivalOrder, PicturesDated, TracksNamed
<1>2. CASE resourceAddStaticImage
  <2>1. /\ UNCHANGED <<events_image_current, pframe, rgb, frames, pixels>>
        /\ lastTextureBuffer' = StillImage(session + 1)
    BY <1>2 DEF resourceAddStaticImage, queues, decoder
  <2>2. /\ lastTextureBuffer'.sink = NoSink /\ lastTextureBuffer'.no = 0
        /\ lastTextureBuffer'.whole
    BY <2>1 DEF StillImage
  <2>3. Waiting' = Waiting /\ Converting' = Converting
    BY <1>a, <1>b, <2>1
  <2>4. \A s \in Converting : s # NoSink
    BY SinkAssumption DEF Converting
  <2>5. \A i \in DOMAIN Waiting : pixels[Waiting[i]].sink # NoSink
    BY SinkAssumption DEF TracksNamed
  <2> QED
    BY <2>1, <2>2, <2>3, <2>4, <2>5
       DEF OnlyWholePictures, InArrivalOrder, PicturesDated, TracksNamed
<1>3. CASE CollectBegin
  <2>1. Waiting' = Waiting
    BY <1>3, WaitingCollectBegin
  <2>2. UNCHANGED <<rgb, frames, pixels, lastTextureBuffer>>
    BY <1>3 DEF CollectBegin, decoder
  <2> QED
    BY <1>b, <2>1, <2>2 DEF OnlyWholePictures, InArrivalOrder, PicturesDated, TracksNamed
<1>4. CASE CollectEnd
  <2>1. /\ UNCHANGED <<rgb, frames, pixels>>
        /\ lastTextureBuffer' = pixels[pframe]
    BY <1>4 DEF CollectEnd, decoder
  <2>2. Waiting # <<>> /\ Waiting[1] = pframe /\ Waiting' = Tail(Waiting)
    BY <1>4, WaitingCollectEnd
  <2>3. /\ Waiting \in Seq(1..pool) /\ Len(Waiting) \in Nat
        /\ DOMAIN Waiting = 1..Len(Waiting)
        /\ \A i \in DOMAIN Waiting : Waiting[i] \in Buffer
    BY WaitingFacts
  <2>4. /\ 1 \in DOMAIN Waiting
        /\ DOMAIN Waiting' = 1..(Len(Waiting) - 1)
        /\ \A i \in 1..(Len(Waiting) - 1) : Waiting'[i] = Waiting[i + 1]
    <3>1. /\ Len(Waiting) \in Nat \ {0} /\ Tail(Waiting) \in Seq(1..pool)
          /\ Len(Tail(Waiting)) = Len(Waiting) - 1
          /\ \A i \in 1..(Len(Waiting) - 1) : Tail(Waiting)[i] = Waiting[i + 1]
      BY <2>2, <2>3, PopFacts
    <3>2. DOMAIN Tail(Waiting) = 1..(Len(Waiting) - 1)
      BY <3>1, LenProperties
    <3> QED
      BY <2>2, <2>3, <3>1, <3>2
  <2>5. \A i \in DOMAIN Waiting' : /\ i \in Nat /\ i + 1 \in DOMAIN Waiting /\ 1 < i + 1
                                   /\ Waiting'[i] = Waiting[i + 1]
    BY <2>3, <2>4
  <2>6. Converting' = Converting
    BY <1>b, <2>1
  <2>7. OnlyWholePictures'
    BY <2>1, <2>2, <2>4, <2>5 DEF OnlyWholePictures
  <2>8. InArrivalOrder'
    <3>1. ASSUME NEW i \in DOMAIN Waiting', NEW j \in DOMAIN Waiting', i < j,
                 pixels'[Waiting'[i]].sink = pixels'[Waiting'[j]].sink
          PROVE  pixels'[Waiting'[i]].no < pixels'[Waiting'[j]].no
      <4>1. i + 1 < j + 1
        BY <2>5, <3>1
      <4> QED
        BY <2>1, <2>5, <3>1, <4>1 DEF InArrivalOrder
    <3>2. ASSUME NEW i \in DOMAIN Waiting', NEW s \in Converting',
                 pixels'[Waiting'[i]].sink = s
          PROVE  pixels'[Waiting'[i]].no < pixels'[rgb'[s]].no
      BY <2>1, <2>5, <2>6, <3>2 DEF InArrivalOrder
    <3>3. ASSUME NEW i \in DOMAIN Waiting', pixels'[Waiting'[i]].sink = lastTextureBuffer'.sink
          PROVE  lastTextureBuffer'.no < pixels'[Waiting'[i]].no
      BY <2>1, <2>2, <2>4, <2>5, <3>3 DEF InArrivalOrder
    <3>4. ASSUME NEW s \in Converting', lastTextureBuffer'.sink = s
          PROVE  lastTextureBuffer'.no < pixels'[rgb'[s]].no
      BY <2>1, <2>2, <2>4, <2>6, <3>4 DEF InArrivalOrder
    <3> QED
      BY <3>1, <3>2, <3>3, <3>4 DEF InArrivalOrder
  <2>9. PicturesDated' /\ TracksNamed'
    BY <2>1, <2>2, <2>3, <2>4, <2>5, <2>6 DEF PicturesDated, TracksNamed, Buffer
  <2> QED
    BY <2>7, <2>8, <2>9
<1>5. ASSUME NEW s \in Sink, OnFrameBegin(s)
      PROVE  Pictures'
  <2> DEFINE b == Head(events_image_empty)
  <2>1. /\ UNCHANGED <<events_image_current, pframe, lastTextureBuffer>>
        /\ frames' = frames + 1
        /\ rgb[s] = NoBuffer
        /\ \A t \in Sink : rgb'[t] = IF t = s THEN b ELSE rgb[t]
        /\ \A c \in Buffer : pixels'[c] =
              IF c = b THEN [sink |-> s, session |-> peer, no |-> frames + 1, whole |-> FALSE]
                       ELSE pixels[c]
    BY <1>5 DEF OnFrameBegin, Typed, TypeOK, main
  <2>2. b \in 1..pool /\ b \in Range(events_image_empty)
    BY <1>5, PopFacts DEF OnFrameBegin, Typed, TypeOK
  <2>3. Waiting' = Waiting
    BY <1>a, <2>1
  <2>4. \A i \in DOMAIN Waiting : /\ Waiting[i] \in Buffer /\ Waiting[i] # b
                                  /\ pixels'[Waiting[i]] = pixels[Waiting[i]]
    BY <2>1, <2>2, WaitingFacts
  <2>5. b \in Buffer
    BY <2>2, BoundAssumption DEF Typed, TypeOK, Buffer
  <2>6. /\ pixels'[b].sink = s /\ pixels'[b].no = frames + 1
        /\ \A t \in Converting' : t = s \/ (t \in Converting /\ t # s)
        /\ \A t \in Converting : t \in Sink /\ t # s /\ rgb[t] # b
                                 /\ rgb'[t] = rgb[t] /\ pixels'[rgb[t]] = pixels[rgb[t]]
        /\ rgb'[s] = b
    BY <2>1, <2>2, <2>5 DEF Converting, EachBufferOnce
  <2>7. OnlyWholePictures'
    BY <2>1, <2>3, <2>4 DEF OnlyWholePictures
  <2>8. InArrivalOrder'
    <3>1. ASSUME NEW i \in DOMAIN Waiting, NEW t \in Converting',
                 pixels'[Waiting[i]].sink = t
          PROVE  pixels'[Waiting[i]].no < pixels'[rgb'[t]].no
      <4>1. pixels[Waiting[i]].no <= frames /\ pixels[Waiting[i]].no \in Nat
        BY <2>4 DEF PicturesDated
      <4>2. CASE t = s
        BY <2>4, <2>6, <4>1, <4>2
      <4>3. CASE t # s
        BY <2>4, <2>6, <3>1, <4>3 DEF InArrivalOrder
      <4> QED
        BY <4>2, <4>3
    <3>2. ASSUME NEW t \in Converting', lastTextureBuffer.sink = t
          PROVE  lastTextureBuffer.no < pixels'[rgb'[t]].no
      <4>1. lastTextureBuffer.no <= frames
        BY DEF PicturesDated
      <4>2. CASE t = s
        BY <2>6, <4>1, <4>2
      <4>3. CASE t # s
        BY <2>6, <3>2, <4>3 DEF InArrivalOrder
      <4> QED
        BY <4>2, <4>3
    <3>3. ASSUME NEW i \in DOMAIN Waiting, NEW j \in DOMAIN Waiting, i < j,
                 pixels'[Waiting[i]].sink = pixels'[Waiting[j]].sink
          PROVE  pixels'[Waiting[i]].no < pixels'[Waiting[j]].no
      BY <2>4, <3>3 DEF InArrivalOrder
    <3>4. ASSUME NEW i \in DOMAIN Waiting,
                 pixels'[Waiting[i]].sink = lastTextureBuffer.sink
          PROVE  lastTextureBuffer.no < pixels'[Waiting[i]].no
      BY <2>4, <3>4 DEF InArrivalOrder
    <3> QED
      BY <2>1, <2>3, <3>1, <3>2, <3>3, <3>4 DEF InArrivalOrder
  <2>9. PicturesDated'
    BY <2>1, <2>6 DEF PicturesDated, Buffer
  <2>10. TracksNamed'
    BY <2>3, <2>4, <2>6 DEF TracksNamed
  <2> QED
    BY <2>7, <2>8, <2>9, <2>10
<1>6. ASSUME NEW s \in Sink, OnFrameDrop(s)
      PROVE  Pictures'
  <2>1. /\ UNCHANGED <<events_image_current, pframe, rgb, pixels, lastTextureBuffer>>
        /\ frames' = frames + 1
    BY <1>6 DEF OnFrameDrop, queues, main
  <2>2. Waiting' = Waiting /\ Converting' = Converting
    BY <1>a, <1>b, <2>1
  <2> QED
    BY <2>1, <2>2 DEF OnlyWholePictures, InArrivalOrder, PicturesDated, TracksNamed, Buffer
<1>7. ASSUME NEW s \in Sink, OnFrameEnd(s)
      PROVE  Pictures'
  <2>1. /\ UNCHANGED <<pframe, frames, lastTextureBuffer>>
        /\ s \in Converting /\ rgb[s] \in Buffer /\ rgb[s] \in 1..pool
        /\ \A t \in Sink : rgb'[t] = IF t = s THEN NoBuffer ELSE rgb[t]
        /\ \A c \in Buffer : c # rgb[s] => pixels'[c] = pixels[c]
        /\ pixels'[rgb[s]].sink = pixels[rgb[s]].sink
        /\ pixels'[rgb[s]].no = pixels[rgb[s]].no
        /\ pixels'[rgb[s]].whole
    <3>1. /\ UNCHANGED <<pframe, frames, lastTextureBuffer>>
          /\ \A t \in Sink : rgb'[t] = IF t = s THEN NoBuffer ELSE rgb[t]
      BY <1>7 DEF OnFrameEnd, Typed, TypeOK, main
    <3>2. s \in Converting /\ rgb[s] \in Buffer
      BY <1>7 DEF OnFrameEnd, Converting
    <3>3. rgb[s] \in 1..pool
      BY <1>7 DEF OnFrameEnd, Typed, TypeOK, NoBuffer
    <3>4. /\ pixels \in [Buffer -> Picture]
          /\ pixels' = [pixels EXCEPT ![rgb[s]] = [pixels[rgb[s]] EXCEPT !.whole = TRUE]]
      BY <1>7 DEF OnFrameEnd, Typed, TypeOK
    <3>5. /\ \A c \in Buffer : c # rgb[s] => pixels'[c] = pixels[c]
          /\ pixels'[rgb[s]] = [pixels[rgb[s]] EXCEPT !.whole = TRUE]
      BY <3>2, <3>4
    <3>6. pixels[rgb[s]] \in Picture
      BY <3>2, <3>4
    <3>7. /\ pixels'[rgb[s]].whole
          /\ pixels'[rgb[s]].sink = pixels[rgb[s]].sink
          /\ pixels'[rgb[s]].no = pixels[rgb[s]].no
      BY <3>5, <3>6 DEF Picture
    <3> QED
      BY <3>1, <3>2, <3>3, <3>5, <3>7
  <2>a. \A c \in Buffer : /\ pixels'[c].sink = pixels[c].sink
                          /\ pixels'[c].no = pixels[c].no
    BY <2>1
  <2>2. Waiting' = Append(Waiting, rgb[s])
    BY <1>7, WaitingFrameEnd
  <2>3. /\ Waiting \in Seq(1..pool) /\ Len(Waiting) \in Nat
        /\ DOMAIN Waiting = 1..Len(Waiting)
        /\ \A i \in DOMAIN Waiting : Waiting[i] \in Buffer /\ Waiting[i] # rgb[s]
    BY <2>1, WaitingFacts
  <2>4. /\ DOMAIN Waiting' = 1..(Len(Waiting) + 1)
        /\ \A i \in DOMAIN Waiting : Waiting'[i] = Waiting[i]
        /\ Waiting'[Len(Waiting) + 1] = rgb[s]
    BY <2>1, <2>2, <2>3, PushFacts
  <2>5. \A i \in DOMAIN Waiting' : \/ i \in DOMAIN Waiting /\ Waiting'[i] = Waiting[i]
                                   \/ i = Len(Waiting) + 1 /\ Waiting'[i] = rgb[s]
    BY <2>3, <2>4
  <2>6. /\ Converting' = Converting \ {s}
        /\ \A t \in Converting' : rgb'[t] = rgb[t] /\ rgb[t] \in Buffer
    BY <2>1 DEF Converting
  <2>7. OnlyWholePictures'
    BY <2>1, <2>3, <2>5 DEF OnlyWholePictures
  <2>8. InArrivalOrder'
    <3>0. \A i \in DOMAIN Waiting' : Waiting'[i] \in Buffer
      BY <2>1, <2>3, <2>5
    <3>1. ASSUME NEW i \in DOMAIN Waiting', NEW j \in DOMAIN Waiting', i < j,
                 pixels[Waiting'[i]].sink = pixels[Waiting'[j]].sink
          PROVE  pixels[Waiting'[i]].no < pixels[Waiting'[j]].no
      <4>1. i \in DOMAIN Waiting /\ Waiting'[i] = Waiting[i]
        BY <2>3, <2>4, <2>5, <3>1
      <4>2. CASE j \in DOMAIN Waiting /\ Waiting'[j] = Waiting[j]
        BY <3>1, <4>1, <4>2 DEF InArrivalOrder
      <4>3. CASE Waiting'[j] = rgb[s]
        BY <2>1, <3>1, <4>1, <4>3 DEF InArrivalOrder, TracksNamed
      <4> QED
        BY <2>5, <4>2, <4>3
    <3>2. ASSUME NEW i \in DOMAIN Waiting', NEW t \in Converting',
                 pixels[Waiting'[i]].sink = t
          PROVE  pixels[Waiting'[i]].no < pixels[rgb'[t]].no
      <4>1. t \in Converting /\ t # s /\ rgb'[t] = rgb[t]
        BY <2>6
      <4>2. pixels[rgb[s]].sink = s
        BY <2>1 DEF TracksNamed
      <4> QED
        BY <2>5, <3>2, <4>1, <4>2 DEF InArrivalOrder
    <3>3. ASSUME NEW i \in DOMAIN Waiting',
                 pixels[Waiting'[i]].sink = lastTextureBuffer.sink
          PROVE  lastTextureBuffer.no < pixels[Waiting'[i]].no
      <4>1. pixels[rgb[s]].sink = s
        BY <2>1 DEF TracksNamed
      <4> QED
        BY <2>1, <2>5, <3>3, <4>1 DEF InArrivalOrder
    <3>4. ASSUME NEW t \in Converting', lastTextureBuffer.sink = t
          PROVE  lastTextureBuffer.no < pixels[rgb'[t]].no
      BY <2>6, <3>4 DEF InArrivalOrder
    <3>5. /\ \A i \in DOMAIN Waiting' : /\ pixels'[Waiting'[i]].sink = pixels[Waiting'[i]].sink
                                       /\ pixels'[Waiting'[i]].no = pixels[Waiting'[i]].no
          /\ \A t \in Converting' : pixels'[rgb'[t]].no = pixels[rgb'[t]].no
      BY <2>a, <2>6, <3>0
    <3> QED
      BY <2>6, <2>1, <3>1, <3>2, <3>3, <3>4, <3>5 DEF InArrivalOrder
  <2>9. PicturesDated'
    BY <2>1 DEF PicturesDated, Buffer
  <2>10. TracksNamed'
    <3>1. pixels[rgb[s]].sink = s /\ s \in Sink
      BY <2>1 DEF TracksNamed, Converting
    <3>2. ASSUME NEW i \in DOMAIN Waiting'
          PROVE  pixels'[Waiting'[i]].sink \in Sink
      BY <2>1, <2>a, <2>3, <2>5, <3>1 DEF TracksNamed
    <3>3. ASSUME NEW t \in Converting'
          PROVE  pixels'[rgb'[t]].sink = t
      BY <2>a, <2>6 DEF TracksNamed
    <3> QED
      BY <3>2, <3>3 DEF TracksNamed
  <2> QED
    BY <2>7, <2>8, <2>9, <2>10
<1>8. CASE \/ subscribeSideAddChannel \/ DeleteChannelBegin \/ DeleteChannelEnd
           \/ resourceDeleteStaticImage \/ webrtc_event \/ CollectNothing
           \/ UNCHANGED vars
  BY <1>1, <1>8 DEF subscribeSideAddChannel, event_init, DeleteChannelBegin,
       DeleteChannelEnd, resourceDeleteStaticImage, webrtc_event, CollectNothing,
       queues, main, vars
<1> QED
  BY <1>2, <1>3, <1>4, <1>5, <1>6, <1>7, <1>8 DEF Next, Command, Collect, OnFrame

\* The inductive invariant of ImageQueues.
IInv == Typed /\ EachBufferOnce /\ NoBufferLost /\ Pictures

\* The inductive invariant holds in every reachable state.
LEMMA IInvCorrect == Spec => []IInv
<1>1. Init => IInv
  BY TypedInit, OnceInit, LostInit, PicturesInit DEF IInv
<1>2. IInv /\ [Next]_vars => IInv'
  BY TypedStep, OnceStep, LostStep, PicturesStep DEF IInv, Owned
<1> QED
  BY <1>1, <1>2, PTL DEF Spec

\* A frame whose conversion is under way is never queued for the screen, copied
\* or drawn.
THEOREM PicturesWhole == Spec => []OnlyWholePictures
<1>1. IInv => OnlyWholePictures
  BY DEF IInv, Pictures
<1> QED
  BY <1>1, IInvCorrect, PTL

\* The frames of a track are queued and drawn in the order of their arrival.
THEOREM ArrivalOrderKept == Spec => []InArrivalOrder
<1>1. IInv => InArrivalOrder
  BY DEF IInv, Pictures
<1> QED
  BY <1>1, IInvCorrect, PTL

\* A decoder that finds no buffer is not converting itself, so at most one buffer for
\* each other track and one for the copy are missing from the backlog.
THEOREM DropsExplained == Spec => DropsMeanBacklog
<1>1. ASSUME IInv, NEW s \in Sink, OnFrameDrop(s)
      PROVE  Len(events_image_current) + Cardinality(Sink) >= pool
  <2>1. events_image_empty = <<>> /\ s \notin Converting
    BY <1>1 DEF OnFrameDrop, Converting
  <2>2. /\ Cardinality(Sink) \in Nat /\ IsFiniteSet(Sink \ {s})
        /\ Cardinality(Sink \ {s}) = Cardinality(Sink) - 1
    BY SinkAssumption, FS_CardinalityType, FS_RemoveElement
  <2>3. Converting \in SUBSET (Sink \ {s})
    BY <2>1 DEF Converting
  <2>4. Cardinality(Converting) <= Cardinality(Sink) - 1 /\ Cardinality(Converting) \in Nat
    BY <2>2, <2>3, FS_Subset, ConvertingFinite
  <2>5. Len(events_image_current) \in Nat /\ pool \in Nat
    BY <1>1, LenProperties DEF IInv, Typed, TypeOK
  <2>6. Len(events_image_current) + Cardinality(Converting)
            + (IF pframe = NoBuffer THEN 0 ELSE 1) = pool
    BY <1>1, <2>1, <2>4, <2>5 DEF IInv, NoBufferLost
  <2> QED
    BY <2>2, <2>4, <2>5, <2>6
<1>2. IInv => [\A s \in Sink : OnFrameDrop(s) =>
                   Len(events_image_current) + Cardinality(Sink) >= pool]_vars
  BY <1>1
<1> QED
  BY <1>2, IInvCorrect, PTL DEF DropsMeanBacklog

\* A picture of a track is only ever replaced on the screen by a later one of this
\* track: the next frame waits behind it, a still image has no track.
THEOREM ScreenCorrect == Spec => ScreenGoesForward
<1> DEFINE Forward == lastTextureBuffer'.sink = lastTextureBuffer.sink
                         /\ lastTextureBuffer.sink \in Sink
                      => \/ UNCHANGED lastTextureBuffer
                         \/ lastTextureBuffer.no < lastTextureBuffer'.no
<1>1. ASSUME IInv, CollectEnd
      PROVE  Forward
  <2>1. Waiting # <<>> /\ Waiting[1] = pframe
    BY <1>1, WaitingCollectEnd DEF IInv, Owned
  <2>2. 1 \in DOMAIN Waiting
    <3>1. Waiting \in Seq(1..pool) /\ DOMAIN Waiting = 1..Len(Waiting) /\ Len(Waiting) \in Nat
      BY <1>1, WaitingFacts DEF IInv, Owned
    <3>2. Len(Waiting) # 0
      BY <2>1, <3>1, EmptySeq
    <3> QED
      BY <3>1, <3>2
  <2>3. lastTextureBuffer' = pixels[Waiting[1]]
    BY <1>1, <2>1 DEF CollectEnd
  <2> QED
    BY <1>1, <2>2, <2>3 DEF IInv, Pictures, InArrivalOrder
<1>2. ASSUME resourceAddStaticImage
      PROVE  Forward
  <2>1. lastTextureBuffer'.sink = NoSink
    BY <1>2 DEF resourceAddStaticImage, StillImage
  <2> QED
    BY <2>1, SinkAssumption
<1>3. ASSUME [Next]_vars, ~CollectEnd, ~resourceAddStaticImage
      PROVE  UNCHANGED lastTextureBuffer
  BY <1>3 DEF Next, Command, Collect, OnFrame, subscribeSideAddChannel, DeleteChannelBegin,
       DeleteChannelEnd, resourceDeleteStaticImage, webrtc_event, OnFrameBegin, OnFrameDrop,
       OnFrameEnd, CollectBegin, CollectNothing, vars, main
<1>4. IInv /\ [Next]_vars => [Forward]_vars
  BY <1>1, <1>2, <1>3
<1> HIDE DEF Forward
<1>5. Spec => [][Forward]_vars
  BY <1>4, IInvCorrect, PTL DEF Spec
<1> QED
  BY <1>5 DEF ScreenGoesForward, Forward

-----------------------------------------------------------------------------
(* The image path implements FrameFifo.                                     *)

Contents == [i \in DOMAIN Waiting |-> pixels[Waiting[i]]]

ContentsMatch == /\ Contents \in Seq(Picture)
                 /\ Len(Contents) = Len(Waiting)
                 /\ DOMAIN Contents = 1..Len(Waiting)
                 /\ \A i \in 1..Len(Waiting) : Contents[i] = pixels[Waiting[i]]

\* The abstract FIFO has the pictures of the waiting frames, in their order.
LEMMA ContentsFacts == Owned => ContentsMatch
<1> SUFFICES ASSUME Owned PROVE ContentsMatch
  OBVIOUS
<1>1. /\ Len(Waiting) \in Nat /\ DOMAIN Waiting = 1..Len(Waiting)
      /\ \A i \in 1..Len(Waiting) : Waiting[i] \in Buffer
  BY WaitingFacts
<1>2. \A i \in 1..Len(Waiting) : pixels[Waiting[i]] \in Picture
  BY <1>1 DEF Owned, Typed, TypeOK
<1>3. Contents \in [1..Len(Waiting) -> Picture]
  BY <1>1, <1>2 DEF Contents
<1> QED
  BY <1>1, <1>3 DEF Contents, ContentsMatch

\* The same after a step.
LEMMA ContentsFactsNext == Owned' => ContentsMatch'
  BY ContentsFacts, PTL

\* The initial state is an empty FIFO with a still picture on screen.
LEMMA FifoInit == Init => Fifo!Init
<1> SUFFICES ASSUME Init PROVE Fifo!Init
  OBVIOUS
<1>1. Owned
  BY TypedInit, OnceInit DEF Owned
<1>2. Waiting = <<>>
  BY DEF Init, Waiting
<1>3. Contents = <<>>
  <2>1. Contents \in Seq(Picture) /\ Len(Contents) = 0
    BY <1>1, <1>2, ContentsFacts DEF ContentsMatch
  <2> QED
    BY <2>1, EmptySeq
<1>4. lastTextureBuffer = StillImage(0) /\ 0 \in 0..MaxSessions
  BY BoundAssumption DEF Init
<1> QED
  BY <1>3, <1>4 DEF Fifo!Init, Contents

\* OnFrameEnd delivers, CollectEnd shows, a new still image replaces; every other
\* step leaves the FIFO as it is.
LEMMA FifoStep == IInv /\ IInv' /\ [Next]_vars => [Fifo!Next]_(Fifo!vars)
<1> SUFFICES ASSUME IInv, IInv', [Next]_vars PROVE [Fifo!Next]_(Fifo!vars)
  OBVIOUS
<1>o. Owned /\ Owned'
  BY DEF IInv, Owned
<1>1. ASSUME UNCHANGED <<Contents, lastTextureBuffer>>
      PROVE  [Fifo!Next]_(Fifo!vars)
  BY <1>1 DEF Fifo!vars, Contents
<1>2. CASE CollectEnd
  <2>1. /\ Waiting # <<>> /\ Waiting[1] = pframe /\ Waiting' = Tail(Waiting)
        /\ lastTextureBuffer' = pixels[pframe] /\ UNCHANGED pixels
    BY <1>2, <1>o, WaitingCollectEnd DEF CollectEnd, decoder
  <2>2. /\ Waiting \in Seq(1..pool) /\ Len(Waiting) \in Nat \ {0}
        /\ Len(Waiting') = Len(Waiting) - 1
        /\ \A i \in 1..(Len(Waiting) - 1) : Waiting'[i] = Waiting[i + 1]
    <3>1. Waiting \in Seq(1..pool)
      BY <1>o, WaitingFacts
    <3>2. /\ Len(Waiting) \in Nat \ {0} /\ Len(Tail(Waiting)) = Len(Waiting) - 1
          /\ \A i \in 1..(Len(Waiting) - 1) : Tail(Waiting)[i] = Waiting[i + 1]
      BY <2>1, <3>1, PopFacts
    <3> QED
      BY <2>1, <3>1, <3>2
  <2>3. /\ Contents \in Seq(Picture) /\ Len(Contents) = Len(Waiting)
        /\ \A i \in 1..Len(Waiting) : Contents[i] = pixels[Waiting[i]]
        /\ Contents' \in Seq(Picture) /\ Len(Contents') = Len(Waiting) - 1
        /\ \A i \in 1..(Len(Waiting) - 1) : Contents'[i] = pixels'[Waiting'[i]]
    BY <1>o, <2>2, ContentsFacts, ContentsFactsNext DEF ContentsMatch
  <2>4. Contents # <<>>
    BY <2>2, <2>3, EmptySeq
  <2>5. /\ Head(Contents) = Contents[1] /\ Tail(Contents) \in Seq(Picture)
        /\ Len(Tail(Contents)) = Len(Contents) - 1
        /\ \A i \in 1..(Len(Contents) - 1) : Tail(Contents)[i] = Contents[i + 1]
    BY <2>3, <2>4, PopFacts
  <2>6. lastTextureBuffer' = Head(Contents)
    BY <2>1, <2>2, <2>3, <2>5
  <2>7. Contents' = Tail(Contents)
    <3>1. ASSUME NEW i \in 1..(Len(Waiting) - 1)
          PROVE  Contents'[i] = Tail(Contents)[i]
      <4>1. i + 1 \in 1..Len(Waiting)
        BY <2>2
      <4>2. Contents'[i] = pixels[Waiting[i + 1]]
        BY <2>1, <2>2, <2>3
      <4>3. Tail(Contents)[i] = Contents[i + 1]
        BY <2>3, <2>5
      <4> QED
        BY <2>3, <4>1, <4>2, <4>3
    <3> QED
      BY <2>3, <2>5, <3>1, SeqEqual
  <2>8. Fifo!Show
    BY <2>4, <2>6, <2>7 DEF Fifo!Show, Contents
  <2> QED
    BY <2>8 DEF Fifo!Next
<1>3. ASSUME NEW s \in Sink, OnFrameEnd(s)
      PROVE  [Fifo!Next]_(Fifo!vars)
  <2> DEFINE p == pixels'[rgb[s]]
  <2>1. Waiting' = Append(Waiting, rgb[s]) /\ UNCHANGED lastTextureBuffer
    BY <1>3, <1>o, WaitingFrameEnd DEF OnFrameEnd, main
  <2>2. /\ rgb[s] \in Buffer /\ rgb[s] \in 1..pool /\ s \in Converting
        /\ \A b \in Buffer : b # rgb[s] => pixels'[b] = pixels[b]
    <3>1. s \in Converting
      BY <1>3 DEF OnFrameEnd, Converting
    <3> QED
      BY <1>3, <1>o, <3>1, PictureTypes DEF OnFrameEnd, Owned, Typed, TypeOK, NoBuffer
  <2>3. /\ Waiting \in Seq(1..pool) /\ Len(Waiting) \in Nat
        /\ \A i \in 1..Len(Waiting) : Waiting[i] \in Buffer /\ Waiting[i] # rgb[s]
        /\ Len(Waiting) = Len(events_image_current) + (IF pframe = NoBuffer THEN 0 ELSE 1)
    BY <1>o, <2>2, WaitingFacts
  <2>4. /\ Len(Waiting') = Len(Waiting) + 1
        /\ \A i \in 1..Len(Waiting) : Waiting'[i] = Waiting[i]
        /\ Waiting'[Len(Waiting) + 1] = rgb[s]
    BY <2>1, <2>2, <2>3, PushFacts
  <2>5. /\ Contents \in Seq(Picture) /\ Len(Contents) = Len(Waiting)
        /\ \A i \in 1..Len(Waiting) : Contents[i] = pixels[Waiting[i]]
        /\ Contents' \in Seq(Picture) /\ Len(Contents') = Len(Waiting) + 1
        /\ \A i \in 1..(Len(Waiting) + 1) : Contents'[i] = pixels'[Waiting'[i]]
    BY <1>o, <2>4, ContentsFacts, ContentsFactsNext DEF ContentsMatch
  <2>6. p \in {q \in Picture : q.whole /\ q.sink \in Sink}
    <3>1. Len(Waiting) + 1 \in DOMAIN Waiting' /\ Waiting'[Len(Waiting) + 1] = rgb[s]
      BY <1>o, <2>3, <2>4, WaitingFacts
    <3>2. p.whole /\ p.sink \in Sink
      BY <3>1 DEF IInv, Pictures, OnlyWholePictures, TracksNamed
    <3>3. p \in Picture
      BY <2>2, <1>o DEF Owned, Typed, TypeOK
    <3> QED
      BY <3>2, <3>3
  <2>7. Len(Contents) < MaxBuffers
    <3>1. Cardinality(Converting) \in Nat \ {0}
      BY <2>2, ConvertingFinite, FS_EmptySet
    <3>2. /\ Len(events_image_empty) \in Nat /\ Len(events_image_current) \in Nat
          /\ pool \in 0..MaxBuffers
      BY <1>o, LenProperties DEF Owned, Typed, TypeOK
    <3> QED
      BY <2>3, <2>5, <3>1, <3>2, BoundAssumption DEF IInv, NoBufferLost
  <2>8. Contents' = Append(Contents, p)
    <3>1. /\ Append(Contents, p) \in Seq(Picture)
          /\ Len(Append(Contents, p)) = Len(Contents) + 1
          /\ \A i \in 1..Len(Contents) : Append(Contents, p)[i] = Contents[i]
          /\ Append(Contents, p)[Len(Contents) + 1] = p
      BY <2>5, <2>6, PushFacts
    <3>2. ASSUME NEW i \in 1..(Len(Waiting) + 1)
          PROVE  Contents'[i] = Append(Contents, p)[i]
      <4>1. CASE i \in 1..Len(Waiting)
        <5>1. Contents'[i] = pixels[Waiting[i]]
          BY <2>2, <2>3, <2>4, <2>5, <4>1
        <5>2. Append(Contents, p)[i] = Contents[i]
          BY <2>5, <3>1, <4>1
        <5>3. Contents[i] = pixels[Waiting[i]]
          BY <2>5, <4>1
        <5> QED
          BY <5>1, <5>2, <5>3
      <4>2. CASE i = Len(Waiting) + 1
        <5>1. Contents'[i] = pixels'[Waiting'[i]] /\ Waiting'[i] = rgb[s]
          BY <2>4, <2>5, <4>2
        <5>2. Append(Contents, p)[i] = p
          BY <2>5, <3>1, <4>2
        <5> QED
          BY <5>1, <5>2
      <4>3. i \in 1..Len(Waiting) \/ i = Len(Waiting) + 1
        <5>1. Len(Waiting) \in Nat
          BY <2>3
        <5> QED
          BY <5>1
      <4> HIDE DEF p
      <4> QED
        BY <4>1, <4>2, <4>3
    <3> QED
      BY <2>5, <3>1, <3>2, SeqEqual
  <2>9. Fifo!Deliver
    BY <2>1, <2>6, <2>7, <2>8 DEF Fifo!Deliver, Contents
  <2> QED
    BY <2>9 DEF Fifo!Next
<1>4. CASE resourceAddStaticImage
  <2>1. /\ UNCHANGED <<pframe, events_image_current, pixels>>
        /\ lastTextureBuffer' = StillImage(session + 1)
        /\ session + 1 \in 0..MaxSessions
    BY <1>4, <1>o, BoundAssumption
       DEF resourceAddStaticImage, queues, decoder, Owned, Typed, TypeOK
  <2>2. Contents' = Contents
    BY <2>1 DEF Contents, Waiting
  <2>3. Fifo!Replace
    BY <2>1, <2>2 DEF Fifo!Replace, Contents
  <2> QED
    BY <2>3 DEF Fifo!Next
<1>5. CASE CollectBegin
  <2>1. Waiting' = Waiting /\ UNCHANGED <<pixels, lastTextureBuffer>>
    BY <1>5, <1>o, WaitingCollectBegin DEF CollectBegin, decoder
  <2> QED
    BY <1>1, <2>1 DEF Contents
<1>6. ASSUME NEW s \in Sink, OnFrameBegin(s)
      PROVE  [Fifo!Next]_(Fifo!vars)
  <2> DEFINE b == Head(events_image_empty)
  <2>1. UNCHANGED <<events_image_current, pframe, lastTextureBuffer>>
    BY <1>6 DEF OnFrameBegin, main
  <2>2. \A c \in Buffer : c # b => pixels'[c] = pixels[c]
    BY <1>6, <1>o DEF OnFrameBegin, Owned, Typed, TypeOK
  <2>3. b \in Range(events_image_empty)
    BY <1>6, <1>o, PopFacts DEF OnFrameBegin, Owned, Typed, TypeOK
  <2>4. Waiting' = Waiting
    BY <2>1 DEF Waiting
  <2>5. \A i \in DOMAIN Waiting : pixels'[Waiting[i]] = pixels[Waiting[i]]
    BY <1>o, <2>2, <2>3, WaitingFacts
  <2>6. Contents' = Contents
    BY <2>4, <2>5 DEF Contents
  <2> QED
    BY <1>1, <2>1, <2>6
<1>7. CASE \/ subscribeSideAddChannel \/ DeleteChannelBegin \/ DeleteChannelEnd
           \/ resourceDeleteStaticImage \/ webrtc_event \/ CollectNothing
           \/ UNCHANGED vars \/ \E s \in Sink : OnFrameDrop(s)
  <2>1. UNCHANGED <<events_image_current, pframe, pixels, lastTextureBuffer>>
    BY <1>7 DEF subscribeSideAddChannel, event_init, DeleteChannelBegin,
         DeleteChannelEnd, resourceDeleteStaticImage, webrtc_event, CollectNothing,
         OnFrameDrop, queues, main, decoder, vars
  <2>2. Contents' = Contents
    BY <2>1 DEF Contents, Waiting
  <2> QED
    BY <1>1, <2>1, <2>2
<1> QED
  BY <1>2, <1>3, <1>4, <1>5, <1>6, <1>7 DEF Next, Command, Collect, OnFrame

\* Decoders, queues, the copying loop and the commands together behave like a
\* bounded FIFO of complete pictures.
THEOREM FifoImplemented == Spec => FifoSpec
<1>1. IInv /\ IInv' /\ [Next]_vars => [Fifo!Next]_(Fifo!vars)
  BY FifoStep
<1> QED
  BY <1>1, FifoInit, IInvCorrect, PTL DEF Spec, FifoSpec, Fifo!Spec
=============================================================================
