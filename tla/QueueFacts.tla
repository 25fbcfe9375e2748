----------------------------- MODULE QueueFacts -----------------------------
(***************************************************************************)
(* What pushing to and popping from a queue does to its elements.  Every   *)
(* queue of the program is a std::vector or a std::deque used first in,    *)
(* first out, and modelled as a sequence.                                  *)
(***************************************************************************)
EXTENDS Integers, Sequences, Functions, SequenceTheorems, FiniteSetTheorems, TLAPS

\* A function on 1..n is a queue of n elements.
LEMMA FunctionIsQueue ==
    ASSUME NEW S, NEW n \in Nat, NEW f \in [1..n -> S]
    PROVE  f \in Seq(S) /\ Len(f) = n /\ DOMAIN f = 1..n
  OBVIOUS

\* A push keeps the elements and adds the new one.
LEMMA PushFacts ==
    ASSUME NEW S, NEW q \in Seq(S), NEW x \in S
    PROVE  /\ Append(q, x) \in Seq(S)
           /\ Len(Append(q, x)) = Len(q) + 1
           /\ Append(q, x) # <<>>
           /\ DOMAIN Append(q, x) = 1..(Len(q) + 1)
           /\ \A i \in 1..Len(q) : Append(q, x)[i] = q[i]
           /\ Append(q, x)[Len(q) + 1] = x
           /\ Range(Append(q, x)) = Range(q) \cup {x}
           /\ IsInjective(q) /\ x \notin Range(q) => IsInjective(Append(q, x))
<1>1. /\ Append(q, x) \in Seq(S)
      /\ Len(Append(q, x)) = Len(q) + 1
      /\ Append(q, x) # <<>>
      /\ DOMAIN Append(q, x) = 1..(Len(q) + 1)
      /\ \A i \in 1..Len(q) : Append(q, x)[i] = q[i]
      /\ Append(q, x)[Len(q) + 1] = x
  OBVIOUS
<1>2. Len(q) \in Nat /\ DOMAIN q = 1..Len(q)
  BY LenProperties
<1>3. Range(Append(q, x)) = Range(q) \cup {x}
  BY <1>1, <1>2 DEF Range
<1>4. ASSUME IsInjective(q), x \notin Range(q)
      PROVE  IsInjective(Append(q, x))
  BY <1>1, <1>2, <1>4 DEF IsInjective, Range
<1> QED
  BY <1>1, <1>3, <1>4

\* A pop removes the first element.
LEMMA PopFacts ==
    ASSUME NEW S, NEW q \in Seq(S), q # <<>>
    PROVE  /\ Head(q) \in S
           /\ Head(q) \in Range(q)
           /\ Head(q) = q[1]
           /\ Tail(q) \in Seq(S)
           /\ Len(q) \in Nat \ {0}
           /\ Len(Tail(q)) = Len(q) - 1
           /\ \A i \in 1..(Len(q) - 1) : Tail(q)[i] = q[i + 1]
           /\ Range(Tail(q)) \subseteq Range(q)
           /\ IsInjective(q) => /\ IsInjective(Tail(q))
                                /\ Head(q) \notin Range(Tail(q))
<1>1. /\ Head(q) \in S
      /\ Tail(q) \in Seq(S)
      /\ Len(Tail(q)) = Len(q) - 1
      /\ \A i \in 1..(Len(q) - 1) : Tail(q)[i] = q[i + 1]
  BY HeadTailProperties
<1>2. Len(q) \in Nat \ {0} /\ DOMAIN q = 1..Len(q)
  BY LenProperties, EmptySeq
<1>3. Head(q) = q[1]
  BY <1>2
<1>4. DOMAIN Tail(q) = 1..(Len(q) - 1)
  BY <1>1, LenProperties
<1>5. Head(q) \in Range(q) /\ Range(Tail(q)) \subseteq Range(q)
  BY <1>1, <1>2, <1>3, <1>4 DEF Range
<1>6. ASSUME IsInjective(q)
      PROVE  IsInjective(Tail(q)) /\ Head(q) \notin Range(Tail(q))
  BY <1>1, <1>2, <1>3, <1>4, <1>6 DEF IsInjective, Range
<1> QED
  BY <1>1, <1>2, <1>3, <1>5, <1>6

\* A queue is its first element followed by the others.
LEMMA HeadConsTail ==
    ASSUME NEW S, NEW q \in Seq(S), q # <<>>
    PROVE  <<Head(q)>> \o Tail(q) = q
<1> DEFINE r == <<Head(q)>> \o Tail(q)
<1>1. /\ Head(q) \in S /\ Tail(q) \in Seq(S) /\ Head(q) = q[1]
      /\ Len(q) \in Nat \ {0} /\ Len(Tail(q)) = Len(q) - 1
      /\ \A i \in 1..(Len(q) - 1) : Tail(q)[i] = q[i + 1]
  BY PopFacts
<1>2. <<Head(q)>> \in Seq(S) /\ Len(<<Head(q)>>) = 1 /\ <<Head(q)>>[1] = Head(q)
  BY <1>1
<1>3. /\ r \in Seq(S) /\ Len(r) = 1 + Len(Tail(q))
      /\ \A i \in 1..(1 + Len(Tail(q))) :
            r[i] = IF i <= 1 THEN <<Head(q)>>[i] ELSE Tail(q)[i - 1]
  BY <1>1, <1>2, ConcatProperties
<1>4. Len(r) = Len(q)
  BY <1>1, <1>3
<1>5. ASSUME NEW i \in 1..Len(r) PROVE r[i] = q[i]
  <2>1. CASE i = 1
    BY <1>1, <1>2, <1>3, <2>1
  <2>2. CASE i # 1
    <3>1. i - 1 \in 1..(Len(q) - 1) /\ ~(i <= 1) /\ (i - 1) + 1 = i
      BY <1>1, <1>4, <2>2
    <3>2. r[i] = Tail(q)[i - 1]
      BY <1>3, <3>1
    <3> QED
      BY <1>1, <3>1, <3>2
  <2> QED
    BY <2>1, <2>2
<1> HIDE DEF r
<1>6. r = q
  BY <1>3, <1>4, <1>5, SeqEqual
<1> QED
  BY <1>6 DEF r

\* A push to the second of two queues in a row is a push to their concatenation.
LEMMA ConcatPush ==
    ASSUME NEW S, NEW p \in Seq(S), NEW q \in Seq(S), NEW x \in S
    PROVE  p \o Append(q, x) = Append(p \o q, x)
<1> DEFINE l == p \o Append(q, x)
           r == Append(p \o q, x)
<1>1. /\ Append(q, x) \in Seq(S) /\ Len(Append(q, x)) = Len(q) + 1
      /\ \A i \in 1..Len(q) : Append(q, x)[i] = q[i]
      /\ Append(q, x)[Len(q) + 1] = x
  BY PushFacts
<1>2. /\ l \in Seq(S) /\ Len(l) = Len(p) + Len(Append(q, x))
      /\ \A i \in 1..(Len(p) + Len(Append(q, x))) :
            l[i] = IF i <= Len(p) THEN p[i] ELSE Append(q, x)[i - Len(p)]
  BY <1>1, ConcatProperties
<1>3. /\ p \o q \in Seq(S) /\ Len(p \o q) = Len(p) + Len(q)
      /\ \A i \in 1..(Len(p) + Len(q)) :
            (p \o q)[i] = IF i <= Len(p) THEN p[i] ELSE q[i - Len(p)]
  BY ConcatProperties
<1>4. /\ r \in Seq(S) /\ Len(r) = Len(p \o q) + 1
      /\ \A i \in 1..Len(p \o q) : r[i] = (p \o q)[i]
      /\ r[Len(p \o q) + 1] = x
  BY <1>3, PushFacts
<1>5. Len(p) \in Nat /\ Len(q) \in Nat
  BY LenProperties
<1> HIDE DEF l, r
<1>a. Len(l) = Len(p) + Len(q) + 1 /\ Len(r) = Len(p) + Len(q) + 1
  BY <1>1, <1>2, <1>3, <1>4, <1>5
<1>6. ASSUME NEW i \in 1..Len(l) PROVE l[i] = r[i]
  <2>0. i \in 1..(Len(p) + Len(q) + 1) /\ i \in 1..(Len(p) + Len(Append(q, x)))
    BY <1>1, <1>5, <1>a
  <2>1. CASE i <= Len(p)
    <3>1. i \in 1..(Len(p) + Len(q)) /\ i \in 1..Len(p \o q)
      BY <1>3, <1>5, <2>0, <2>1
    <3>2. l[i] = p[i]
      BY <1>2, <2>0, <2>1
    <3> QED
      BY <1>3, <1>4, <2>1, <3>1, <3>2
  <2>2. CASE ~(i <= Len(p)) /\ i <= Len(p) + Len(q)
    <3>1. i - Len(p) \in 1..Len(q) /\ i \in 1..(Len(p) + Len(q)) /\ i \in 1..Len(p \o q)
      BY <1>3, <1>5, <2>0, <2>2
    <3>2. l[i] = q[i - Len(p)]
      BY <1>1, <1>2, <2>0, <2>2, <3>1
    <3>3. r[i] = q[i - Len(p)]
      BY <1>3, <1>4, <2>2, <3>1
    <3> QED
      BY <3>2, <3>3
  <2>3. CASE i = Len(p) + Len(q) + 1
    <3>1. i - Len(p) = Len(q) + 1 /\ ~(i <= Len(p)) /\ i = Len(p \o q) + 1
      BY <1>3, <1>5, <2>3
    <3>2. l[i] = x
      BY <1>1, <1>2, <2>0, <3>1
    <3> QED
      BY <1>4, <3>1, <3>2
  <2> QED
    BY <1>5, <2>0, <2>1, <2>2, <2>3
<1>8. l = r
  BY <1>2, <1>4, <1>6, <1>a, SeqEqual
<1> QED
  BY <1>8 DEF l, r

\* Every element of a queue is of the queue's type.
LEMMA RangeFacts ==
    ASSUME NEW S, NEW q \in Seq(S)
    PROVE  /\ Len(q) \in Nat
           /\ DOMAIN q = 1..Len(q)
           /\ Range(q) \subseteq S
           /\ \A i \in 1..Len(q) : q[i] \in S /\ q[i] \in Range(q)
  BY LenProperties, ElementOfSeq DEF Range

\* Two queues in a row hold each element once iff each does and they share none.
LEMMA ConcatFacts ==
    ASSUME NEW S, NEW p \in Seq(S), NEW q \in Seq(S)
    PROVE  /\ Range(p \o q) = Range(p) \cup Range(q)
           /\ IsInjective(p \o q) <=> /\ IsInjective(p) /\ IsInjective(q)
                                      /\ Range(p) \cap Range(q) = {}
<1> DEFINE r == p \o q
<1>1. /\ r \in Seq(S) /\ Len(r) = Len(p) + Len(q)
      /\ \A i \in 1..(Len(p) + Len(q)) : r[i] = IF i <= Len(p) THEN p[i] ELSE q[i - Len(p)]
  BY ConcatProperties
<1>2. /\ Len(p) \in Nat /\ DOMAIN p = 1..Len(p) /\ Len(q) \in Nat /\ DOMAIN q = 1..Len(q)
      /\ DOMAIN r = 1..(Len(p) + Len(q))
  BY <1>1, RangeFacts
<1> HIDE DEF r
<1>3. \A i \in DOMAIN p : i \in DOMAIN r /\ r[i] = p[i]
  BY <1>1, <1>2
<1>4. ASSUME NEW i \in DOMAIN q
      PROVE  Len(p) + i \in DOMAIN r /\ r[Len(p) + i] = q[i]
  <2>1. Len(p) + i \in 1..(Len(p) + Len(q)) /\ ~(Len(p) + i <= Len(p)) /\ (Len(p) + i) - Len(p) = i
    BY <1>2
  <2> QED
    BY <1>1, <1>2, <2>1
<1>5. ASSUME NEW k \in DOMAIN r
      PROVE  k \in DOMAIN p \/ \E i \in DOMAIN q : k = Len(p) + i
  <2>1. CASE k <= Len(p)
    BY <1>2, <2>1
  <2>2. CASE ~(k <= Len(p))
    <3>1. k - Len(p) \in DOMAIN q /\ k = Len(p) + (k - Len(p))
      BY <1>2, <2>2
    <3> QED
      BY <3>1
  <2> QED
    BY <2>1, <2>2
<1>6. Range(r) = Range(p) \cup Range(q)
  <2>1. ASSUME NEW x \in Range(r) PROVE x \in Range(p) \cup Range(q)
    <3>1. PICK k \in DOMAIN r : x = r[k]
      BY DEF Range
    <3>2. CASE k \in DOMAIN p
      BY <1>3, <3>1, <3>2 DEF Range
    <3>3. CASE \E i \in DOMAIN q : k = Len(p) + i
      BY <1>4, <3>1, <3>3 DEF Range
    <3> QED
      BY <1>5, <3>2, <3>3
  <2>2. ASSUME NEW x \in Range(p) PROVE x \in Range(r)
    BY <1>3 DEF Range
  <2>3. ASSUME NEW x \in Range(q) PROVE x \in Range(r)
    <3>1. PICK i \in DOMAIN q : x = q[i]
      BY DEF Range
    <3> QED
      BY <1>4, <3>1 DEF Range
  <2> QED
    BY <2>1, <2>2, <2>3
<1>7. ASSUME IsInjective(r)
      PROVE  IsInjective(p) /\ IsInjective(q) /\ Range(p) \cap Range(q) = {}
  <2>1. IsInjective(p)
    BY <1>3, <1>7 DEF IsInjective
  <2>2. ASSUME NEW i \in DOMAIN q, NEW j \in DOMAIN q, q[i] = q[j]
        PROVE  i = j
    <3>1. Len(p) + i = Len(p) + j
      BY <1>4, <1>7, <2>2 DEF IsInjective
    <3> QED
      BY <1>2, <3>1
  <2>3. ASSUME NEW i \in DOMAIN p, NEW j \in DOMAIN q
        PROVE  p[i] # q[j]
    <3>1. i # Len(p) + j
      BY <1>2
    <3> QED
      BY <1>3, <1>4, <1>7, <3>1 DEF IsInjective
  <2> QED
    BY <2>1, <2>2, <2>3 DEF IsInjective, Range
<1>8. ASSUME IsInjective(p), IsInjective(q), Range(p) \cap Range(q) = {}
      PROVE  IsInjective(r)
  <2> SUFFICES ASSUME NEW k \in DOMAIN r, NEW l \in DOMAIN r, r[k] = r[l]
               PROVE  k = l
    BY DEF IsInjective
  <2>1. \A i \in DOMAIN p, j \in DOMAIN q : p[i] # q[j]
    BY <1>8 DEF Range
  <2>2. CASE k \in DOMAIN p /\ l \in DOMAIN p
    BY <1>3, <1>8, <2>2 DEF IsInjective
  <2>3. CASE k \in DOMAIN p /\ l \notin DOMAIN p
    <3>1. PICK j \in DOMAIN q : l = Len(p) + j
      BY <1>5, <2>3
    <3> QED
      BY <1>3, <1>4, <2>1, <2>3, <3>1
  <2>4. CASE k \notin DOMAIN p /\ l \in DOMAIN p
    <3>1. PICK i \in DOMAIN q : k = Len(p) + i
      BY <1>5, <2>4
    <3> QED
      BY <1>3, <1>4, <2>1, <2>4, <3>1
  <2>5. CASE k \notin DOMAIN p /\ l \notin DOMAIN p
    <3>1. PICK i \in DOMAIN q : k = Len(p) + i
      BY <1>5, <2>5
    <3>2. PICK j \in DOMAIN q : l = Len(p) + j
      BY <1>5, <2>5
    <3>3. q[i] = q[j]
      BY <1>4, <3>1, <3>2
    <3> QED
      BY <1>8, <3>1, <3>2, <3>3 DEF IsInjective
  <2> QED
    BY <2>2, <2>3, <2>4, <2>5
<1> QED
  BY <1>6, <1>7, <1>8 DEF r

\* A pop from a queue of distinct elements takes exactly the first of them.
LEMMA PopRange ==
    ASSUME NEW S, NEW q \in Seq(S), q # <<>>, IsInjective(q)
    PROVE  /\ Head(q) \in Range(q)
           /\ Range(Tail(q)) = Range(q) \ {Head(q)}
           /\ IsInjective(Tail(q))
<1>1. /\ Head(q) \in Range(q) /\ Head(q) = q[1] /\ Head(q) \notin Range(Tail(q))
      /\ Range(Tail(q)) \subseteq Range(q) /\ IsInjective(Tail(q))
      /\ Len(q) \in Nat \ {0} /\ Len(Tail(q)) = Len(q) - 1 /\ Tail(q) \in Seq(S)
      /\ \A i \in 1..(Len(q) - 1) : Tail(q)[i] = q[i + 1]
  BY PopFacts
<1>2. ASSUME NEW x \in Range(q), x # Head(q)
      PROVE  x \in Range(Tail(q))
  <2>1. PICK k \in 1..Len(q) : x = q[k]
    BY RangeFacts DEF Range
  <2>2. k - 1 \in 1..(Len(q) - 1) /\ (k - 1) + 1 = k
    BY <1>1, <1>2, <2>1
  <2>3. DOMAIN Tail(q) = 1..(Len(q) - 1)
    BY <1>1, RangeFacts
  <2> QED
    BY <1>1, <2>1, <2>2, <2>3 DEF Range
<1> QED
  BY <1>1, <1>2

\* A queue that holds each element once is as long as it has elements.
LEMMA RangeCount ==
    ASSUME NEW S, NEW q \in Seq(S), IsInjective(q)
    PROVE  IsFiniteSet(Range(q)) /\ Cardinality(Range(q)) = Len(q)
<1>1. Len(q) \in Nat /\ DOMAIN q = 1..Len(q) /\ q \in [1..Len(q) -> S]
  BY RangeFacts
<1>2. q \in [1..Len(q) -> Range(q)]
  BY <1>1 DEF Range
<1>3. q \in Injection(1..Len(q), Range(q)) /\ q \in Surjection(1..Len(q), Range(q))
  BY <1>1, <1>2 DEF Injection, Surjection, Range
<1>4. ExistsBijection(1..Len(q), Range(q))
  BY <1>3 DEF Bijection, ExistsBijection
<1>5. IsFiniteSet(1..Len(q))
  BY <1>1, FS_Interval
<1> QED
  BY <1>1, <1>4, <1>5, FS_Bijection, FS_CountingElements

----------------------------------------------------------------------------
(* Queues of places, seen through what the places hold.                     *)

Mapped(h, q) == [i \in DOMAIN q |-> h[q[i]]]

Images(h, S) == {h[x] : x \in S}

LEMMA MappedFacts ==
    ASSUME NEW S, NEW h, NEW q \in Seq(S)
    PROVE  Mapped(h, q) \in Seq(Images(h, S)) /\ Len(Mapped(h, q)) = Len(q)
<1>1. Len(q) \in Nat /\ DOMAIN q = 1..Len(q) /\ \A i \in 1..Len(q) : q[i] \in S
  BY RangeFacts
<1>2. Mapped(h, q) \in [1..Len(q) -> Images(h, S)]
  BY <1>1 DEF Mapped, Images
<1> QED
  BY <1>1, <1>2, FunctionIsQueue

LEMMA MappedAt ==
    ASSUME NEW S, NEW h, NEW q \in Seq(S), NEW i \in 1..Len(q)
    PROVE  Mapped(h, q)[i] = h[q[i]]
  BY RangeFacts DEF Mapped

\* A push of a place pushes what it holds.
LEMMA MappedPush ==
    ASSUME NEW S, NEW h, NEW q \in Seq(S), NEW x \in S
    PROVE  Mapped(h, Append(q, x)) = Append(Mapped(h, q), h[x])
<1> DEFINE m == Mapped(h, q)
           long == Append(q, x)
           l == Mapped(h, long)
           r == Append(m, h[x])
<1>1. /\ m \in Seq(Images(h, S)) /\ Len(m) = Len(q) /\ \A i \in 1..Len(q) : m[i] = h[q[i]]
  BY MappedFacts, MappedAt
<1>0. h[x] \in Images(h, S)
  BY DEF Images
<1>2. /\ long \in Seq(S) /\ Len(long) = Len(q) + 1 /\ long[Len(q) + 1] = x
      /\ \A i \in 1..Len(q) : long[i] = q[i]
  BY PushFacts
<1> HIDE DEF m, long
<1>3. l \in Seq(Images(h, S)) /\ Len(l) = Len(long) /\ \A i \in 1..Len(long) : l[i] = h[long[i]]
  BY <1>2, MappedFacts, MappedAt
<1>4. /\ r \in Seq(Images(h, S)) /\ Len(r) = Len(m) + 1 /\ r[Len(m) + 1] = h[x]
      /\ \A i \in 1..Len(m) : r[i] = m[i]
  BY <1>0, <1>1, PushFacts
<1> HIDE DEF l, r
<1>5. Len(q) \in Nat
  BY LenProperties
<1>6. Len(l) = Len(r)
  BY <1>1, <1>2, <1>3, <1>4
<1>7. ASSUME NEW i \in 1..Len(l)
      PROVE  l[i] = r[i]
  <2>1. CASE i = Len(q) + 1
    BY <1>1, <1>2, <1>3, <1>4, <1>5, <2>1
  <2>2. CASE i # Len(q) + 1
    <3>1. i \in 1..Len(q)
      BY <1>2, <1>3, <1>5, <2>2
    <3> QED
      BY <1>1, <1>2, <1>3, <1>4, <3>1
  <2> QED
    BY <2>1, <2>2
<1>8. l = r
  BY <1>3, <1>4, <1>6, <1>7, SeqEqual
<1> QED
  BY <1>8 DEF l, r, m, long

\* So does a pop.
LEMMA MappedPop ==
    ASSUME NEW S, NEW h, NEW q \in Seq(S), q # <<>>
    PROVE  /\ Mapped(h, Tail(q)) = Tail(Mapped(h, q))
           /\ Mapped(h, q) # <<>> /\ Head(Mapped(h, q)) = h[Head(q)]
<1> DEFINE m == Mapped(h, q)
           short == Tail(q)
           l == Mapped(h, short)
           r == Tail(m)
<1>1. m \in Seq(Images(h, S)) /\ Len(m) = Len(q) /\ \A i \in 1..Len(q) : m[i] = h[q[i]]
  BY MappedFacts, MappedAt
<1>2. /\ short \in Seq(S) /\ Len(short) = Len(q) - 1 /\ Len(q) \in Nat \ {0}
      /\ \A i \in 1..(Len(q) - 1) : short[i] = q[i + 1]
      /\ Head(q) = q[1]
  BY PopFacts
<1> HIDE DEF m, short
<1>3. m # <<>>
  BY <1>1, <1>2, EmptySeq
<1>4. l \in Seq(Images(h, S)) /\ Len(l) = Len(short) /\ \A i \in 1..Len(short) : l[i] = h[short[i]]
  <2>1. short \in Seq(S)
    BY <1>2
  <2> QED
    BY <2>1, MappedFacts, MappedAt
<1>5. /\ r \in Seq(Images(h, S)) /\ Len(r) = Len(m) - 1 /\ Head(m) = m[1]
      /\ \A i \in 1..(Len(m) - 1) : r[i] = m[i + 1]
  BY <1>1, <1>3, PopFacts
<1> HIDE DEF l, r
<1>6. ASSUME NEW i \in 1..Len(l)
      PROVE  l[i] = r[i]
  <2>1. i \in 1..(Len(q) - 1) /\ i + 1 \in 1..Len(q)
    BY <1>2, <1>4
  <2> QED
    BY <1>1, <1>2, <1>4, <1>5, <2>1
<1>7. l = r
  BY <1>1, <1>2, <1>4, <1>5, <1>6, SeqEqual
<1>8. Head(m) = h[Head(q)]
  BY <1>1, <1>2, <1>5
<1> QED
  BY <1>3, <1>7, <1>8 DEF l, r, m, short

\* A place that is not queued may be written.
LEMMA MappedWrite ==
    ASSUME NEW S, NEW h, NEW q \in Seq(S), NEW x, x \notin Range(q), NEW v
    PROVE  Mapped([h EXCEPT ![x] = v], q) = Mapped(h, q)
<1>1. \A i \in DOMAIN q : q[i] \in S /\ q[i] # x
  BY RangeFacts DEF Range
<1>2. \A i \in DOMAIN q : [h EXCEPT ![x] = v][q[i]] = h[q[i]]
  BY <1>1
<1> QED
  BY <1>2 DEF Mapped
=============================================================================
