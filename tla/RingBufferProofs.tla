-------------------------- MODULE RingBufferProofs --------------------------
(***************************************************************************)
(* RingBuffer is a queue, for slices of any size and with any growth.      *)
(***************************************************************************)
EXTENDS RingBuffer, TLAPS, SequenceTheorems

----------------------------------------------------------------------------
(* Slots and lengths, of any slice. *)

\* An index that ran at most once round the slice wraps by one subtraction.
LEMMA ModWrap ==
  ASSUME NEW s \in Nat \ {0}, NEW x \in Nat, x < 2 * s
  PROVE  x % s = IF x < s THEN x ELSE x - s
<1>1. CASE x < s
  BY <1>1, SMT
<1>2. CASE x >= s
  BY <1>2, SMT
<1> QED  BY <1>1, <1>2

SlotOf(h, s, k) == IF h + k < s THEN h + k ELSE (h + k) - s

LenOf(h, t, s) == IF h <= t THEN t - h ELSE (s - h) + t

\* Slot i of the slice is between head and tail, going round.
Between(h, t, i) == IF h <= t THEN h <= i /\ i < t ELSE h <= i \/ i < t

ContentsOf(h, t, s, e) == [i \in 1..LenOf(h, t, s) |-> e[(h + i - 1) % s]]

LEMMA SlotOfType ==
  ASSUME NEW s \in Nat \ {0}, NEW h \in 0..(s - 1), NEW k \in 0..s
  PROVE  (h + k) % s = SlotOf(h, s, k) /\ SlotOf(h, s, k) \in 0..(s - 1)
<1>1. h + k \in Nat /\ h + k < 2 * s
  OBVIOUS
<1>2. (h + k) % s = IF h + k < s THEN h + k ELSE (h + k) - s
  BY <1>1, ModWrap
<1> QED  BY <1>1, <1>2 DEF SlotOf

\* One slot is always free.
LEMMA LenOfType ==
  ASSUME NEW s \in Nat \ {0}, NEW h \in 0..(s - 1), NEW t \in 0..(s - 1)
  PROVE  LenOf(h, t, s) \in 0..(s - 1)
  BY DEF LenOf

\* The slots between head and tail are those the contents lie in.
LEMMA BetweenSlots ==
  ASSUME NEW s \in Nat \ {0}, NEW h \in 0..(s - 1), NEW t \in 0..(s - 1),
         NEW i \in 0..(s - 1)
  PROVE  Between(h, t, i) <=> \E k \in 0..(LenOf(h, t, s) - 1) : i = SlotOf(h, s, k)
<1>1. ASSUME Between(h, t, i)
      PROVE  \E k \in 0..(LenOf(h, t, s) - 1) : i = SlotOf(h, s, k)
  <2> DEFINE k == IF h <= i THEN i - h ELSE (i + s) - h
  <2>1. k \in 0..(LenOf(h, t, s) - 1)
    BY <1>1 DEF Between, LenOf
  <2>2. i = SlotOf(h, s, k)
    BY DEF SlotOf
  <2> QED  BY <2>1, <2>2
<1>2. ASSUME NEW k \in 0..(LenOf(h, t, s) - 1), i = SlotOf(h, s, k)
      PROVE  Between(h, t, i)
  BY <1>2 DEF Between, LenOf, SlotOf
<1> QED  BY <1>1, <1>2

\* The slots the contents lie in.
LEMMA SlotIndex ==
  ASSUME NEW s \in Nat \ {0}, NEW h \in 0..(s - 1), NEW t \in 0..(s - 1),
         NEW i \in 1..LenOf(h, t, s)
  PROVE  (h + i - 1) % s = SlotOf(h, s, i - 1) /\ SlotOf(h, s, i - 1) \in 0..(s - 1)
<1>1. i - 1 \in 0..s /\ h + i - 1 = h + (i - 1)
  BY LenOfType
<1> QED  BY <1>1, SlotOfType

\* The contents are a sequence as long as the ring.
LEMMA ContentsOfType ==
  ASSUME NEW S, NEW s \in Nat \ {0}, NEW h \in 0..(s - 1), NEW t \in 0..(s - 1),
         NEW e \in [0..(s - 1) -> S]
  PROVE  /\ ContentsOf(h, t, s, e) \in Seq(S)
         /\ Len(ContentsOf(h, t, s, e)) = LenOf(h, t, s)
<1> DEFINE n == LenOf(h, t, s)
<1>1. n \in Nat
  BY LenOfType
<1>2. \A i \in 1..n : e[(h + i - 1) % s] \in S
  BY SlotIndex
<1> HIDE DEF n
<1>3. ContentsOf(h, t, s, e) \in Seq(S)
  <2> DEFINE c == [i \in 1..n |-> e[(h + i - 1) % s]]
  <2>1. c \in [1..n -> S]
    BY <1>2
  <2>2. ContentsOf(h, t, s, e) = c
    BY DEF ContentsOf, n
  <2> HIDE DEF c
  <2>3. c \in Seq(S)
    BY <1>1, <2>1, IsASeq
  <2> QED  BY <2>2, <2>3
<1>4. DOMAIN ContentsOf(h, t, s, e) = 1..n
  BY DEF ContentsOf, n
<1>5. Len(ContentsOf(h, t, s, e)) = n
  BY <1>1, <1>3, <1>4, LenProperties
<1> QED  BY <1>3, <1>5 DEF n

\* Sequences of one length with the same elements.
LEMMA SameElements ==
  ASSUME NEW S, NEW s \in Seq(S), NEW t \in Seq(S), NEW n, Len(s) = n, Len(t) = n,
         \A i \in 1..n : s[i] = t[i]
  PROVE  s = t
  BY SeqEqual, Zenon

\* The operators of the model, before and after a step, in these terms.
LEMMA RingIs ==
  /\ RingLen = LenOf(head, tail, size)
  /\ RingLen' = LenOf(head', tail', size')
  /\ Contents = ContentsOf(head, tail, size, elements)
  /\ Contents' = ContentsOf(head', tail', size', elements')
  BY DEF RingLen, LenOf, Contents, ContentsOf

----------------------------------------------------------------------------
(* The invariant. *)

\* A slot holds an element exactly when it is between head and tail.
SlotsInv ==
  \A i \in 0..(size - 1) : elements[i] \in Elem <=> Between(head, tail, i)

RingInv == TypeOK /\ SlotsInv

\* The invariant in the words of the model.
LEMMA RingInvProperties ==
  ASSUME RingInv
  PROVE  /\ size \in Nat \ {0, 1} /\ head \in 0..(size - 1) /\ tail \in 0..(size - 1)
         /\ elements \in [0..(size - 1) -> Elem \cup {Zero}]
         /\ RingLen \in 0..(size - 1)
         /\ \A k \in 0..size : Advance(head, k) = SlotOf(head, size, k)
         /\ \A k \in 0..size : Advance(tail, k) = SlotOf(tail, size, k)
         /\ Contents \in Seq(Elem) /\ Len(Contents) = RingLen
         /\ \A i \in 1..RingLen :
              /\ SlotOf(head, size, i - 1) \in 0..(size - 1)
              /\ Contents[i] = elements[SlotOf(head, size, i - 1)]
<1>1. /\ size \in Nat \ {0, 1} /\ head \in 0..(size - 1) /\ tail \in 0..(size - 1)
      /\ elements \in [0..(size - 1) -> Elem \cup {Zero}]
  BY DEF RingInv, TypeOK
<1>2. RingLen \in 0..(size - 1)
  BY <1>1, RingIs, LenOfType
<1>3. /\ \A k \in 0..size : Advance(head, k) = SlotOf(head, size, k)
      /\ \A k \in 0..size : Advance(tail, k) = SlotOf(tail, size, k)
  BY <1>1, SlotOfType DEF Advance
<1>4. /\ Contents \in Seq(Elem \cup {Zero}) /\ Len(Contents) = RingLen
      /\ \A i \in 1..RingLen :
           /\ SlotOf(head, size, i - 1) \in 0..(size - 1)
           /\ Contents[i] = elements[SlotOf(head, size, i - 1)]
  <2> DEFINE c == ContentsOf(head, tail, size, elements)
             n == LenOf(head, tail, size)
  <2>1. /\ c \in Seq(Elem \cup {Zero}) /\ Len(c) = n
        /\ \A i \in 1..n : /\ SlotOf(head, size, i - 1) \in 0..(size - 1)
                           /\ c[i] = elements[SlotOf(head, size, i - 1)]
    <3> DEFINE V == Elem \cup {Zero}
    <3>1. /\ size \in Nat \ {0} /\ elements \in [0..(size - 1) -> V]
          /\ head \in 0..(size - 1) /\ tail \in 0..(size - 1)
      BY <1>1
    <3> HIDE DEF V
    <3>2. c \in Seq(V)
      BY <3>1, ContentsOfType, Zenon
    <3>3. Len(c) = n
      BY <3>1, ContentsOfType, ZenonT(60)
    <3>4. ASSUME NEW i \in 1..n
          PROVE  /\ SlotOf(head, size, i - 1) \in 0..(size - 1)
                 /\ c[i] = elements[SlotOf(head, size, i - 1)]
      BY <3>1, SlotIndex DEF ContentsOf
    <3> QED  BY <3>2, <3>3, <3>4 DEF V
  <2>2. Contents = c /\ RingLen = n
    BY RingIs
  <2> HIDE DEF c, n
  <2> QED  BY <2>1, <2>2
<1>5. \A i \in 1..RingLen : Contents[i] \in Elem
  <2> SUFFICES ASSUME NEW i \in 1..RingLen PROVE Contents[i] \in Elem
    OBVIOUS
  <2>1. i - 1 \in 0..(LenOf(head, tail, size) - 1)
    BY <1>2, RingIs
  <2>2. Between(head, tail, SlotOf(head, size, i - 1))
    BY <1>1, <1>4, <2>1, BetweenSlots
  <2> QED  BY <1>4, <2>2 DEF RingInv, SlotsInv
<1>6. Contents \in Seq(Elem)
  <2>1. Contents = [i \in 1..RingLen |-> Contents[i]]
    BY DEF Contents
  <2>2. RingLen \in Nat
    BY <1>2
  <2> HIDE DEF Contents
  <2>3. [i \in 1..RingLen |-> Contents[i]] \in Seq(Elem)
    BY <1>5, <2>2, IsASeq
  <2> QED  BY <2>1, <2>3
<1> QED  BY <1>1, <1>2, <1>3, <1>4, <1>6

\* How to show that the contents after a step are a given sequence.
LEMMA ContentsAfter ==
  ASSUME RingInv', NEW q \in Seq(Elem), Len(q) = RingLen',
         \A i \in 1..Len(q) : q[i] = elements'[SlotOf(head', size', i - 1)]
  PROVE  Contents' = q
<1>1. /\ size' \in Nat \ {0} /\ head' \in 0..(size' - 1) /\ tail' \in 0..(size' - 1)
      /\ elements' \in [0..(size' - 1) -> Elem \cup {Zero}]
  BY DEF RingInv, TypeOK
<1>2. /\ Contents' \in Seq(Elem \cup {Zero}) /\ Len(Contents') = RingLen'
      /\ \A i \in 1..RingLen' : Contents'[i] = elements'[SlotOf(head', size', i - 1)]
  <2> DEFINE c == ContentsOf(head', tail', size', elements')
             n == LenOf(head', tail', size')
  <2>1. /\ c \in Seq(Elem \cup {Zero}) /\ Len(c) = n
        /\ \A i \in 1..n : c[i] = elements'[SlotOf(head', size', i - 1)]
    <3> DEFINE V == Elem \cup {Zero}
    <3>1. /\ size' \in Nat \ {0} /\ elements' \in [0..(size' - 1) -> V]
          /\ head' \in 0..(size' - 1) /\ tail' \in 0..(size' - 1)
      BY <1>1
    <3> HIDE DEF V
    <3>2. c \in Seq(V)
      BY <3>1, ContentsOfType, Zenon
    <3>3. Len(c) = n
      BY <3>1, ContentsOfType, ZenonT(60)
    <3>4. ASSUME NEW i \in 1..n
          PROVE  c[i] = elements'[SlotOf(head', size', i - 1)]
      BY <3>1, SlotIndex DEF ContentsOf
    <3> QED  BY <3>2, <3>3, <3>4 DEF V
  <2>2. Contents' = c /\ RingLen' = n
    BY RingIs
  <2> HIDE DEF c, n
  <2> QED  BY <2>1, <2>2
<1>3. q \in Seq(Elem \cup {Zero})
  BY SeqMonotonic
<1> HIDE DEF Contents
<1> QED  BY <1>2, <1>3, SeqEqual

----------------------------------------------------------------------------
(* Walking the ring. *)

\* A stretch of the slice, forwards and backwards.
LEMMA SliceType ==
  ASSUME RingInv, NEW from \in 0..size, NEW to \in from..size
  PROVE  /\ Slice(from, to) \in Seq(Elem \cup {Zero})
         /\ Len(Slice(from, to)) = to - from
         /\ \A i \in 1..(to - from) : Slice(from, to)[i] = elements[from + i - 1]
         /\ SliceReverse(from, to) \in Seq(Elem \cup {Zero})
         /\ Len(SliceReverse(from, to)) = to - from
         /\ \A i \in 1..(to - from) : SliceReverse(from, to)[i] = elements[to - i]
<1>1. size \in Nat /\ elements \in [0..(size - 1) -> Elem \cup {Zero}]
  BY RingInvProperties
<1>2. to - from \in Nat
  BY <1>1
<1>3. \A i \in 1..(to - from) : from + i - 1 \in 0..(size - 1) /\ to - i \in 0..(size - 1)
  BY <1>1
<1>4. \A i \in 1..(to - from) : /\ elements[from + i - 1] \in Elem \cup {Zero}
                               /\ elements[to - i] \in Elem \cup {Zero}
  BY <1>1, <1>3
<1>5. Slice(from, to) \in Seq(Elem \cup {Zero})
  BY <1>2, <1>4, IsASeq DEF Slice
<1>6. SliceReverse(from, to) \in Seq(Elem \cup {Zero})
  BY <1>2, <1>4, IsASeq DEF SliceReverse
<1>7. DOMAIN Slice(from, to) = 1..(to - from)
      /\ DOMAIN SliceReverse(from, to) = 1..(to - from)
  BY DEF Slice, SliceReverse
<1>8. Len(Slice(from, to)) = to - from /\ Len(SliceReverse(from, to)) = to - from
  BY <1>2, <1>5, <1>6, <1>7, LenProperties
<1>9. \A i \in 1..(to - from) : /\ Slice(from, to)[i] = elements[from + i - 1]
                               /\ SliceReverse(from, to)[i] = elements[to - i]
  BY DEF Slice, SliceReverse
<1> QED  BY <1>5, <1>6, <1>8, <1>9

\* A buffer that is not empty holds its contents in one stretch, or in two.
LEMMA TwoStretches ==
  ASSUME RingInv, RingLen # 0
  PROVE  (IF head < tail THEN Slice(head, tail)
          ELSE Slice(head, size) \o Slice(0, tail)) = Contents
<1>1. /\ size \in Nat \ {0, 1} /\ head \in 0..(size - 1) /\ tail \in 0..(size - 1)
      /\ RingLen \in 0..(size - 1)
      /\ Contents \in Seq(Elem) /\ Len(Contents) = RingLen
      /\ \A i \in 1..RingLen : Contents[i] = elements[SlotOf(head, size, i - 1)]
  BY RingInvProperties
<1>2. Contents \in Seq(Elem \cup {Zero})
  BY <1>1, SeqMonotonic
<1> HIDE DEF Contents
<1>3. CASE head < tail
  <2>1. head \in 0..size /\ tail \in head..size /\ RingLen = tail - head
    BY <1>1, <1>3 DEF RingLen
  <2>2. /\ Slice(head, tail) \in Seq(Elem \cup {Zero})
        /\ Len(Slice(head, tail)) = tail - head
        /\ \A i \in 1..(tail - head) : Slice(head, tail)[i] = elements[head + i - 1]
    BY <2>1, SliceType
  <2>3. \A i \in 1..RingLen : SlotOf(head, size, i - 1) = head + i - 1
    BY <1>1, <1>3, <2>1 DEF SlotOf
  <2>4. Slice(head, tail) = Contents
    <3> DEFINE s == Slice(head, tail)
               c == Contents
               S == Elem \cup {Zero}
    <3>1. s \in Seq(S) /\ c \in Seq(S) /\ Len(s) = RingLen /\ Len(c) = RingLen
      BY <1>1, <1>2, <2>1, <2>2, Zenon
    <3>2. \A i \in 1..RingLen : s[i] = c[i]
      BY <1>1, <2>1, <2>2, <2>3, Zenon
    <3> HIDE DEF s, c, S
    <3>3. s = c
      BY <3>1, <3>2, SameElements
    <3> QED  BY <3>3 DEF s, c
  <2> QED  BY <1>3, <2>4
<1>4. CASE ~(head < tail)
  <2>1. RingLen = (size - head) + tail
    BY <1>1, <1>4 DEF RingLen
  <2>2. head \in 0..size /\ size \in head..size /\ 0 \in 0..size /\ tail \in 0..size
    BY <1>1
  <2> DEFINE a == Slice(head, size)
             b == Slice(0, tail)
  <2>3. /\ a \in Seq(Elem \cup {Zero}) /\ Len(a) = size - head
        /\ \A i \in 1..(size - head) : a[i] = elements[head + i - 1]
    BY <2>2, SliceType
  <2>4. /\ b \in Seq(Elem \cup {Zero}) /\ Len(b) = tail - 0
        /\ \A i \in 1..(tail - 0) : b[i] = elements[0 + i - 1]
    BY <2>2, SliceType
  <2> HIDE DEF a, b
  <2>5. tail - 0 = tail /\ \A i \in 1..tail : 0 + i - 1 = i - 1
    BY <1>1
  <2>6. /\ a \o b \in Seq(Elem \cup {Zero}) /\ Len(a \o b) = RingLen
        /\ \A i \in 1..RingLen :
             (a \o b)[i] = IF i <= size - head THEN a[i] ELSE b[i - (size - head)]
    <3>1. /\ a \o b \in Seq(Elem \cup {Zero}) /\ Len(a \o b) = Len(a) + Len(b)
          /\ \A i \in 1..Len(a) + Len(b) :
               (a \o b)[i] = IF i <= Len(a) THEN a[i] ELSE b[i - Len(a)]
      BY <2>3, <2>4, ConcatProperties, Zenon
    <3>2. Len(a) = size - head /\ Len(a) + Len(b) = RingLen
      BY <1>1, <2>1, <2>3, <2>4, <2>5
    <3> QED  BY <3>1, <3>2, Zenon
  <2>7. ASSUME NEW i \in 1..RingLen PROVE (a \o b)[i] = Contents[i]
    <3>1. CASE i <= size - head
      <4>1. i \in 1..(size - head) /\ SlotOf(head, size, i - 1) = head + i - 1
        BY <1>1, <3>1 DEF SlotOf
      <4>2. (a \o b)[i] = a[i] /\ a[i] = elements[head + i - 1]
        BY <2>3, <2>6, <3>1, <4>1, Zenon
      <4>3. Contents[i] = elements[head + i - 1]
        BY <1>1, <4>1, Zenon
      <4> QED  BY <4>2, <4>3
    <3>2. CASE ~(i <= size - head)
      <4> DEFINE j == i - (size - head)
      <4>1. j \in 1..tail /\ SlotOf(head, size, i - 1) = j - 1
        BY <1>1, <2>1, <3>2 DEF SlotOf
      <4>2. (a \o b)[i] = b[j]
        BY <2>6, <3>2, Zenon
      <4> HIDE DEF j
      <4>3. b[j] = elements[j - 1]
        BY <2>4, <2>5, <4>1
      <4>4. Contents[i] = elements[j - 1]
        BY <1>1, <4>1, Zenon
      <4> QED  BY <4>2, <4>3, <4>4
    <3> QED  BY <3>1, <3>2
  <2>8. a \o b = Contents
    <3> DEFINE s == a \o b
               c == Contents
               S == Elem \cup {Zero}
    <3>1. s \in Seq(S) /\ c \in Seq(S) /\ Len(s) = RingLen /\ Len(c) = RingLen
      BY <1>1, <1>2, <2>6, Zenon
    <3>2. \A i \in 1..RingLen : s[i] = c[i]
      BY <2>7, Zenon
    <3> HIDE DEF s, c, S
    <3>3. s = c
      BY <3>1, <3>2, SameElements
    <3> QED  BY <3>3 DEF s, c
  <2> QED  BY <1>4, <2>8 DEF a, b
<1> QED  BY <1>3, <1>4

\* ForEach visits the contents in order.
LEMMA ForEachIsContents == RingInv => ForEach = Contents
<1> SUFFICES ASSUME RingInv PROVE ForEach = Contents
  OBVIOUS
<1>1. Contents \in Seq(Elem) /\ Len(Contents) = RingLen
  BY RingInvProperties
<1>2. CASE RingLen = 0
  <2>1. Contents = <<>>
    BY <1>1, <1>2, EmptySeq
  <2> QED  BY <1>2, <2>1 DEF ForEach
<1>3. CASE RingLen # 0
  BY <1>3, TwoStretches DEF ForEach
<1> QED  BY <1>2, <1>3

\* ForEachReverse visits them from the newest to the oldest.
LEMMA ForEachReverseIsContents == RingInv => ForEachReverse = Reverse(Contents)
<1> SUFFICES ASSUME RingInv PROVE ForEachReverse = Reverse(Contents)
  OBVIOUS
<1>1. /\ size \in Nat \ {0, 1} /\ head \in 0..(size - 1) /\ tail \in 0..(size - 1)
      /\ RingLen \in 0..(size - 1)
      /\ Contents \in Seq(Elem) /\ Len(Contents) = RingLen
      /\ \A i \in 1..RingLen : Contents[i] = elements[SlotOf(head, size, i - 1)]
  BY RingInvProperties
<1> HIDE DEF Contents
<1> DEFINE rev == Reverse(Contents)
           S == Elem \cup {Zero}
<1>2. /\ rev \in Seq(S) /\ Len(rev) = RingLen
      /\ \A i \in 1..RingLen : rev[i] = elements[SlotOf(head, size, RingLen - i)]
  <2>1. rev = [i \in 1..RingLen |-> Contents[(RingLen - i) + 1]]
    BY <1>1 DEF Reverse
  <2>2. \A i \in 1..RingLen : (RingLen - i) + 1 \in 1..RingLen
                             /\ ((RingLen - i) + 1) - 1 = RingLen - i
    BY <1>1
  <2>3. \A i \in 1..RingLen : Contents[(RingLen - i) + 1] \in S
    BY <1>1, <2>2, ElementOfSeq
  <2> HIDE DEF S, rev
  <2>4. RingLen \in Nat
    BY <1>1
  <2>5. rev \in Seq(S)
    BY <2>1, <2>3, <2>4, IsASeq
  <2>6. DOMAIN rev = 1..RingLen
    BY <2>1
  <2>7. Len(rev) = RingLen
    BY <2>4, <2>5, <2>6, LenProperties
  <2>8. \A i \in 1..RingLen : rev[i] = elements[SlotOf(head, size, RingLen - i)]
    BY <1>1, <2>1, <2>2
  <2> QED  BY <2>5, <2>7, <2>8
<1> HIDE DEF rev
<1>3. CASE RingLen = 0
  <2>1. rev = <<>>
    BY <1>2, <1>3, EmptySeq
  <2> QED  BY <1>3, <2>1 DEF ForEachReverse, rev
<1>4. CASE RingLen # 0 /\ head < tail
  <2>1. head \in 0..size /\ tail \in head..size /\ RingLen = tail - head
    BY <1>1, <1>4 DEF RingLen
  <2>2. /\ SliceReverse(head, tail) \in Seq(S)
        /\ Len(SliceReverse(head, tail)) = tail - head
        /\ \A i \in 1..(tail - head) : SliceReverse(head, tail)[i] = elements[tail - i]
    BY <2>1, SliceType
  <2>3. \A i \in 1..RingLen : SlotOf(head, size, RingLen - i) = tail - i
    BY <1>1, <1>4, <2>1 DEF SlotOf
  <2> HIDE DEF S
  <2>4. \A i \in 1..RingLen : SliceReverse(head, tail)[i] = rev[i]
    BY <1>2, <2>1, <2>2, <2>3
  <2>5. SliceReverse(head, tail) = rev
    BY <1>2, <2>1, <2>2, <2>4, SeqEqual
  <2> QED  BY <1>4, <2>5 DEF ForEachReverse, rev
<1>5. CASE RingLen # 0 /\ ~(head < tail)
  <2>1. RingLen = (size - head) + tail
    BY <1>1, <1>5 DEF RingLen
  <2>2. head \in 0..size /\ size \in head..size /\ 0 \in 0..size /\ tail \in 0..size
    BY <1>1
  <2> DEFINE a == SliceReverse(0, tail)
             b == SliceReverse(head, size)
  <2>3. /\ b \in Seq(S) /\ Len(b) = size - head
        /\ \A i \in 1..(size - head) : b[i] = elements[size - i]
    BY <2>2, SliceType
  <2>4. /\ a \in Seq(S) /\ Len(a) = tail - 0
        /\ \A i \in 1..(tail - 0) : a[i] = elements[tail - i]
    BY <2>2, SliceType
  <2> HIDE DEF a, b, S
  <2>5. tail - 0 = tail
    BY <1>1
  <2>6. /\ a \o b \in Seq(S) /\ Len(a \o b) = RingLen
        /\ \A i \in 1..RingLen : (a \o b)[i] = IF i <= tail THEN a[i] ELSE b[i - tail]
    <3>1. /\ a \o b \in Seq(S) /\ Len(a \o b) = Len(a) + Len(b)
          /\ \A i \in 1..Len(a) + Len(b) :
               (a \o b)[i] = IF i <= Len(a) THEN a[i] ELSE b[i - Len(a)]
      BY <2>3, <2>4, ConcatProperties, Zenon
    <3>2. Len(a) = tail /\ Len(a) + Len(b) = RingLen
      BY <1>1, <2>1, <2>3, <2>4, <2>5
    <3> QED  BY <3>1, <3>2
  <2>7. ASSUME NEW i \in 1..RingLen PROVE (a \o b)[i] = rev[i]
    <3>1. CASE i <= tail
      <4>1. i \in 1..tail /\ SlotOf(head, size, RingLen - i) = tail - i
        BY <1>1, <2>1, <3>1 DEF SlotOf
      <4>2. (a \o b)[i] = a[i]
        BY <2>6, <3>1, Zenon
      <4>3. a[i] = elements[tail - i]
        BY <2>4, <2>5, <4>1
      <4>4. rev[i] = elements[tail - i]
        BY <1>2, <4>1, Zenon
      <4> QED  BY <4>2, <4>3, <4>4
    <3>2. CASE ~(i <= tail)
      <4> DEFINE j == i - tail
      <4>1. j \in 1..(size - head) /\ SlotOf(head, size, RingLen - i) = size - j
        BY <1>1, <2>1, <3>2 DEF SlotOf
      <4>2. (a \o b)[i] = b[j]
        BY <2>6, <3>2, Zenon
      <4> HIDE DEF j
      <4>3. b[j] = elements[size - j]
        BY <2>3, <4>1, Zenon
      <4>4. rev[i] = elements[size - j]
        BY <1>2, <4>1, Zenon
      <4> QED  BY <4>2, <4>3, <4>4
    <3> QED  BY <3>1, <3>2
  <2>8. a \o b = rev
    <3> DEFINE s == a \o b
    <3>1. s \in Seq(S) /\ rev \in Seq(S) /\ Len(s) = RingLen /\ Len(rev) = RingLen
      BY <1>1, <1>2, <2>6, Zenon DEF S
    <3>2. \A i \in 1..RingLen : s[i] = rev[i]
      BY <2>7, Zenon
    <3> HIDE DEF s, rev
    <3>3. s = rev
      BY <3>1, <3>2, SameElements
    <3> QED  BY <3>3 DEF s
  <2> QED  BY <1>5, <2>8 DEF ForEachReverse, a, b, rev
<1> QED  BY <1>3, <1>4, <1>5

----------------------------------------------------------------------------
(* The operations. *)

\* grow makes the slice larger.
LEMMA GrownSizeType ==
  ASSUME RingInv
  PROVE  GrownSize \in Nat /\ GrownSize > size
<1>1. size \in Nat \ {0, 1}
  BY RingInvProperties
<1>2. RINGBUFFER_MIN \in Nat /\ RINGBUFFER_EXP \in Nat
  BY RingAssumption
<1>3. (size + 9) \div 10 \in Nat /\ (size + 9) \div 10 >= 1
  BY <1>1
<1> QED  BY <1>1, <1>2, <1>3 DEF GrownSize

\* A full buffer has one slot free.
LEMMA FullLen ==
  ASSUME RingInv
  PROVE  IsFull <=> RingLen = size - 1
<1>1. /\ size \in Nat \ {0, 1} /\ head \in 0..(size - 1) /\ tail \in 0..(size - 1)
      /\ Advance(tail, 1) = SlotOf(tail, size, 1)
  <2>1. 1 \in 0..size
    BY RingInvProperties
  <2> QED  BY <2>1, RingInvProperties
<1> QED  BY <1>1 DEF IsFull, RingLen, SlotOf

\* Push into a slice with room.
LEMMA PushRoom ==
  ASSUME RingInv, NEW v \in Elem, Push(v), ~IsFull
  PROVE  RingInv' /\ Contents' = Append(Contents, v)
<1>1. /\ size \in Nat \ {0, 1} /\ head \in 0..(size - 1) /\ tail \in 0..(size - 1)
      /\ elements \in [0..(size - 1) -> Elem \cup {Zero}]
      /\ RingLen \in 0..(size - 1)
      /\ Contents \in Seq(Elem) /\ Len(Contents) = RingLen
      /\ \A i \in 1..RingLen :
           /\ SlotOf(head, size, i - 1) \in 0..(size - 1)
           /\ Contents[i] = elements[SlotOf(head, size, i - 1)]
  BY RingInvProperties
<1>2. Advance(tail, 1) = SlotOf(tail, size, 1)
  <2>1. 1 \in 0..size
    BY <1>1
  <2> QED  BY <2>1, RingInvProperties
<1>3. /\ elements' = [elements EXCEPT ![tail] = v]
      /\ tail' = SlotOf(tail, size, 1) /\ head' = head /\ size' = size
  BY <1>2 DEF Push
<1>4. SlotOf(tail, size, 1) # head
  BY <1>2 DEF IsFull
<1>5. tail' \in 0..(size - 1)
  BY <1>1, <1>3 DEF SlotOf
<1>6. \A i \in 0..(size - 1) : Between(head, tail', i) <=> Between(head, tail, i) \/ i = tail
  BY <1>1, <1>3, <1>4 DEF Between, SlotOf
<1>7. ~Between(head, tail, tail)
  BY <1>1 DEF Between
<1>8. RingInv'
  <2>1. TypeOK'
    BY <1>1, <1>3, <1>5 DEF TypeOK
  <2>2. ASSUME NEW i \in 0..(size - 1)
        PROVE  elements'[i] \in Elem <=> Between(head, tail', i)
    BY <1>1, <1>3, <1>6, <1>7 DEF RingInv, SlotsInv
  <2>3. SlotsInv'
    BY <1>3, <2>2 DEF SlotsInv
  <2> QED  BY <2>1, <2>3 DEF RingInv
<1>9. RingLen' = RingLen + 1
  BY <1>1, <1>3, <1>4 DEF RingLen, SlotOf
<1>10. /\ \A i \in 1..RingLen : SlotOf(head, size, i - 1) # tail
       /\ SlotOf(head, size, RingLen) = tail
  BY <1>1 DEF RingLen, SlotOf
<1> DEFINE q == Append(Contents, v)
<1> HIDE DEF Contents
<1>11. /\ q \in Seq(Elem) /\ Len(q) = RingLen + 1
       /\ \A i \in 1..RingLen : q[i] = Contents[i]
       /\ q[RingLen + 1] = v
  BY <1>1, AppendProperties
<1> HIDE DEF q
<1>12. ASSUME NEW i \in 1..(RingLen + 1)
       PROVE  q[i] = elements'[SlotOf(head, size, i - 1)]
  <2>1. CASE i \in 1..RingLen
    BY <1>1, <1>3, <1>10, <1>11, <2>1
  <2>2. CASE i = RingLen + 1
    <3>1. SlotOf(head, size, i - 1) = tail
      BY <1>1, <1>10, <2>2
    <3> QED  BY <1>1, <1>3, <1>11, <2>2, <3>1
  <2> QED  BY <1>1, <2>1, <2>2
<1>13. Contents' = q
  BY <1>3, <1>8, <1>9, <1>11, <1>12, ContentsAfter
<1> QED  BY <1>8, <1>13 DEF q

\* Push into a full slice: grow unrolls the ring into a larger one.
LEMMA PushGrow ==
  ASSUME RingInv, NEW v \in Elem, Push(v), IsFull
  PROVE  RingInv' /\ Contents' = Append(Contents, v)
<1>1. /\ size \in Nat \ {0, 1}
      /\ RingLen = size - 1
      /\ Contents \in Seq(Elem) /\ Len(Contents) = RingLen
  BY RingInvProperties, FullLen
<1> DEFINE n == RingLen
           G == GrownSize
<1>2. G \in Nat /\ G > size /\ n \in Nat /\ n + 1 = size
  BY <1>1, GrownSizeType
<1>3. GrownContents = Contents
  <2>1. RingLen # 0
    BY <1>1
  <2> QED  BY <2>1, TwoStretches DEF GrownContents
<1>4. /\ size' = G /\ head' = 0 /\ tail' = (n + 1) % G
      /\ elements' = [i \in 0..(G - 1) |->
                        IF i < n THEN Contents[i + 1] ELSE IF i = n THEN v ELSE Zero]
  BY <1>3 DEF Push
<1> HIDE DEF n, G, Contents
<1>5. tail' = n + 1
  <2>1. (n + 1) % G = IF n + 1 < G THEN n + 1 ELSE (n + 1) - G
    BY <1>2, ModWrap
  <2> QED  BY <1>2, <1>4, <2>1
<1>6. \A i \in 0..(G - 1) : i < n => i + 1 \in 1..Len(Contents)
  BY <1>1, <1>2 DEF n
<1>7. \A i \in 0..(G - 1) : i < n => Contents[i + 1] \in Elem
  BY <1>1, <1>6, ElementOfSeq
<1>8. RingInv'
  <2>1. TypeOK'
    <3>1. elements' \in [0..(G - 1) -> Elem \cup {Zero}]
      BY <1>4, <1>7
    <3> QED  BY <1>1, <1>2, <1>4, <1>5, <3>1 DEF TypeOK
  <2>2. ASSUME NEW i \in 0..(G - 1)
        PROVE  elements'[i] \in Elem <=> Between(0, n + 1, i)
    <3>1. Between(0, n + 1, i) <=> i <= n
      BY <1>2 DEF Between
    <3>2. CASE i < n
      BY <1>2, <1>4, <1>7, <3>1, <3>2
    <3>3. CASE i = n
      BY <1>2, <1>4, <3>1, <3>3
    <3>4. CASE i > n
      BY <1>2, <1>4, <3>1, <3>4, RingAssumption
    <3> QED  BY <1>2, <3>2, <3>3, <3>4
  <2>3. SlotsInv'
    BY <1>4, <1>5, <2>2 DEF SlotsInv
  <2> QED  BY <2>1, <2>3 DEF RingInv
<1>9. RingLen' = n + 1
  BY <1>2, <1>4, <1>5 DEF RingLen
<1> DEFINE q == Append(Contents, v)
<1>10. /\ q \in Seq(Elem) /\ Len(q) = n + 1
       /\ \A i \in 1..n : q[i] = Contents[i]
       /\ q[n + 1] = v
  BY <1>1, AppendProperties DEF n
<1> HIDE DEF q
<1>11. ASSUME NEW i \in 1..(n + 1)
       PROVE  q[i] = elements'[SlotOf(0, G, i - 1)]
  <2>1. SlotOf(0, G, i - 1) = i - 1 /\ i - 1 \in 0..(G - 1)
    BY <1>2 DEF SlotOf
  <2>2. CASE i \in 1..n
    <3>1. i - 1 < n /\ (i - 1) + 1 = i
      BY <1>2, <2>2
    <3> QED  BY <1>4, <1>10, <2>1, <2>2, <3>1
  <2>3. CASE i = n + 1
    <3>1. i - 1 = n
      BY <1>2, <2>3
    <3> QED  BY <1>2, <1>4, <1>10, <2>1, <2>3, <3>1
  <2> QED  BY <1>2, <2>2, <2>3
<1>12. Contents' = q
  BY <1>4, <1>8, <1>9, <1>10, <1>11, ContentsAfter
<1> QED  BY <1>8, <1>12 DEF q

\* Pop of a buffer that is not empty.
LEMMA PopFirst ==
  ASSUME RingInv, Pop, RingLen # 0
  PROVE  RingInv' /\ Contents' = Tail(Contents) /\ result' = <<Head(Contents), TRUE>>
<1>1. /\ size \in Nat \ {0, 1} /\ head \in 0..(size - 1) /\ tail \in 0..(size - 1)
      /\ elements \in [0..(size - 1) -> Elem \cup {Zero}]
      /\ RingLen \in 0..(size - 1)
      /\ Contents \in Seq(Elem) /\ Len(Contents) = RingLen
      /\ \A i \in 1..RingLen :
           /\ SlotOf(head, size, i - 1) \in 0..(size - 1)
           /\ Contents[i] = elements[SlotOf(head, size, i - 1)]
  BY RingInvProperties
<1>2. Advance(head, 1) = SlotOf(head, size, 1)
  <2>1. 1 \in 0..size
    BY <1>1
  <2> QED  BY <2>1, RingInvProperties
<1>3. /\ elements' = [elements EXCEPT ![head] = Zero]
      /\ head' = SlotOf(head, size, 1) /\ tail' = tail /\ size' = size
      /\ result' = <<elements[head], TRUE>>
  BY <1>2 DEF Pop
<1>4. head # tail
  BY <1>1 DEF RingLen
<1>5. head' \in 0..(size - 1)
  BY <1>1, <1>3 DEF SlotOf
<1>6. \A i \in 0..(size - 1) : Between(head', tail, i) <=> Between(head, tail, i) /\ i # head
  BY <1>1, <1>3, <1>4 DEF Between, SlotOf
<1>7. RingInv'
  <2>1. TypeOK'
    BY <1>1, <1>3, <1>5 DEF TypeOK
  <2>2. ASSUME NEW i \in 0..(size - 1)
        PROVE  elements'[i] \in Elem <=> Between(head', tail, i)
    BY <1>1, <1>3, <1>6, RingAssumption DEF RingInv, SlotsInv
  <2>3. SlotsInv'
    BY <1>3, <2>2 DEF SlotsInv
  <2> QED  BY <2>1, <2>3 DEF RingInv
<1>8. RingLen' = RingLen - 1
  BY <1>1, <1>3, <1>4 DEF RingLen, SlotOf
<1> HIDE DEF Contents
<1>9. Contents # <<>>
  BY <1>1, EmptySeq
<1> DEFINE q == Tail(Contents)
<1>10. /\ q \in Seq(Elem) /\ Len(q) = RingLen - 1
       /\ \A i \in 1..(RingLen - 1) : q[i] = Contents[i + 1]
  BY <1>1, <1>9, HeadTailProperties
<1> HIDE DEF q
<1>11. ASSUME NEW i \in 1..(RingLen - 1)
       PROVE  q[i] = elements'[SlotOf(head', size, i - 1)]
  <2>1. i + 1 \in 1..RingLen /\ (i + 1) - 1 = i
    BY <1>1
  <2>2. SlotOf(head', size, i - 1) = SlotOf(head, size, i) /\ SlotOf(head, size, i) # head
    BY <1>1, <1>3 DEF SlotOf
  <2>3. q[i] = elements[SlotOf(head, size, i)] /\ SlotOf(head, size, i) \in 0..(size - 1)
    BY <1>1, <1>10, <2>1
  <2> QED  BY <1>1, <1>3, <2>2, <2>3
<1>12. Contents' = q
  BY <1>3, <1>7, <1>8, <1>10, <1>11, ContentsAfter
<1>13. Head(Contents) = elements[head]
  <2>1. 1 \in 1..RingLen /\ SlotOf(head, size, 1 - 1) = head
    BY <1>1 DEF SlotOf
  <2>2. Contents[1] = elements[head]
    BY <1>1, <2>1
  <2> QED  BY <1>1, <1>9, <2>2
<1> QED  BY <1>3, <1>7, <1>12, <1>13 DEF q

\* A cleared slice is an empty ring.
LEMMA ClearedIsEmpty ==
  ASSUME RingInv, head' = 0, tail' = 0, elements' = Cleared, size' = size
  PROVE  RingInv' /\ Contents' = <<>>
<1>1. size \in Nat \ {0, 1}
  BY RingInvProperties
<1>2. elements' = [i \in 0..(size - 1) |-> Zero]
  BY DEF Cleared
<1>3. TypeOK'
  BY <1>1, <1>2 DEF TypeOK
<1>4. \A i \in 0..(size - 1) : ~Between(0, 0, i)
  BY <1>1 DEF Between
<1>5. SlotsInv'
  BY <1>2, <1>4, RingAssumption DEF SlotsInv
<1>6. RingLen' = 0
  BY DEF RingLen
<1>7. RingInv'
  BY <1>3, <1>5 DEF RingInv
<1>8. <<>> \in Seq(Elem) /\ Len(<<>>) = 0
  BY EmptySeq
<1>9. \A i \in 1..Len(<<>>) : <<>>[i] = elements'[SlotOf(head', size', i - 1)]
  BY <1>8
<1> QED  BY <1>6, <1>7, <1>8, <1>9, ContentsAfter

\* Discard of fewer elements than there are.
LEMMA DiscardSome ==
  ASSUME RingInv, NEW n \in Nat, n < RingLen, size' = size, tail' = tail,
         head' = Advance(head, n), elements' = Discarded(n)
  PROVE  RingInv' /\ Contents' = SubSeq(Contents, n + 1, Len(Contents))
<1>1. /\ size \in Nat \ {0, 1} /\ head \in 0..(size - 1) /\ tail \in 0..(size - 1)
      /\ elements \in [0..(size - 1) -> Elem \cup {Zero}]
      /\ RingLen \in 0..(size - 1)
      /\ Contents \in Seq(Elem) /\ Len(Contents) = RingLen
      /\ \A i \in 1..RingLen :
           /\ SlotOf(head, size, i - 1) \in 0..(size - 1)
           /\ Contents[i] = elements[SlotOf(head, size, i - 1)]
      /\ \A k \in 0..size : Advance(head, k) = SlotOf(head, size, k)
  BY RingInvProperties
<1>2. head' = SlotOf(head, size, n)
  BY <1>1
<1>3. \A i \in 0..(size - 1) :
        elements'[i] = IF \E k \in 0..(n - 1) : i = SlotOf(head, size, k)
                       THEN Zero ELSE elements[i]
  <2>1. \A k \in 0..(n - 1) : Advance(head, k) = SlotOf(head, size, k)
    BY <1>1
  <2> QED  BY <2>1 DEF Discarded
<1>4. elements' \in [0..(size - 1) -> Elem \cup {Zero}]
  <2>1. elements' = [i \in 0..(size - 1) |-> elements'[i]]
    BY DEF Discarded
  <2>2. \A i \in 0..(size - 1) : elements'[i] \in Elem \cup {Zero}
    BY <1>1, <1>3
  <2> QED  BY <2>1, <2>2
<1>5. head' \in 0..(size - 1)
  BY <1>1, <1>2 DEF SlotOf
<1>6. ASSUME NEW i \in 0..(size - 1)
      PROVE  Between(head', tail, i) <=>
               Between(head, tail, i) /\ ~ \E k \in 0..(n - 1) : i = SlotOf(head, size, k)
  <2>1. (\E k \in 0..(n - 1) : i = SlotOf(head, size, k)) <=>
          IF head + n <= size THEN head <= i /\ i < head + n
          ELSE head <= i \/ i < (head + n) - size
    <3>1. ASSUME NEW k \in 0..(n - 1), i = SlotOf(head, size, k)
          PROVE  IF head + n <= size THEN head <= i /\ i < head + n
                 ELSE head <= i \/ i < (head + n) - size
      BY <1>1, <3>1 DEF SlotOf
    <3>2. ASSUME IF head + n <= size THEN head <= i /\ i < head + n
                 ELSE head <= i \/ i < (head + n) - size
          PROVE  \E k \in 0..(n - 1) : i = SlotOf(head, size, k)
      <4> DEFINE k == IF head <= i THEN i - head ELSE (i + size) - head
      <4>1. k \in 0..(n - 1) /\ i = SlotOf(head, size, k)
        BY <1>1, <3>2 DEF SlotOf
      <4> QED  BY <4>1
    <3> QED  BY <3>1, <3>2
  <2>2. Between(head', tail, i) <=>
          Between(head, tail, i) /\ ~(IF head + n <= size THEN head <= i /\ i < head + n
                                      ELSE head <= i \/ i < (head + n) - size)
    BY <1>1, <1>2 DEF Between, SlotOf, RingLen
  <2> QED  BY <2>1, <2>2
<1>7. RingInv'
  <2>1. TypeOK'
    BY <1>1, <1>4, <1>5 DEF TypeOK
  <2>2. ASSUME NEW i \in 0..(size - 1)
        PROVE  elements'[i] \in Elem <=> Between(head', tail, i)
    BY <1>3, <1>6, RingAssumption DEF RingInv, SlotsInv
  <2>3. SlotsInv'
    BY <2>2 DEF SlotsInv
  <2> QED  BY <2>1, <2>3 DEF RingInv
<1>8. RingLen' = RingLen - n
  BY <1>1, <1>2 DEF RingLen, SlotOf
<1> HIDE DEF Contents
<1> DEFINE q == SubSeq(Contents, n + 1, RingLen)
<1>9. /\ q \in Seq(Elem) /\ Len(q) = RingLen - n
      /\ \A i \in 1..(RingLen - n) : q[i] = Contents[n + i]
  <2>1. \A i \in (n + 1)..RingLen : Contents[i] \in Elem
    BY <1>1, ElementOfSeq
  <2>2. n + 1 \in Int /\ RingLen \in Int
    BY <1>1
  <2>3. /\ q \in Seq(Elem)
        /\ Len(q) = IF n + 1 <= RingLen THEN RingLen - (n + 1) + 1 ELSE 0
        /\ \A i \in 1..(RingLen - (n + 1) + 1) : q[i] = Contents[(n + 1) + i - 1]
    BY <2>1, <2>2, SubSeqProperties
  <2>4. RingLen - (n + 1) + 1 = RingLen - n /\ n + 1 <= RingLen
        /\ \A i \in 1..(RingLen - n) : (n + 1) + i - 1 = n + i
    BY <1>1
  <2> HIDE DEF q
  <2> QED  BY <2>3, <2>4
<1> HIDE DEF q
<1>10. ASSUME NEW i \in 1..(RingLen - n)
       PROVE  q[i] = elements'[SlotOf(head', size, i - 1)]
  <2> DEFINE s == SlotOf(head, size, (n + i) - 1)
  <2>1. n + i \in 1..RingLen
    BY <1>1
  <2>2. q[i] = elements[s] /\ s \in 0..(size - 1)
    BY <1>1, <1>9, <2>1
  <2>3. SlotOf(head', size, i - 1) = s
    BY <1>1, <1>2 DEF SlotOf
  <2>4. \A k \in 0..(n - 1) : s # SlotOf(head, size, k)
    BY <1>1 DEF SlotOf
  <2> HIDE DEF s
  <2> QED  BY <1>3, <2>2, <2>3, <2>4
<1>11. Contents' = q
  BY <1>7, <1>8, <1>9, <1>10, ContentsAfter
<1> QED  BY <1>1, <1>7, <1>11 DEF q

----------------------------------------------------------------------------
(* Theorems. *)

LEMMA InitRing == Init => RingInv /\ Contents = <<>>
<1> SUFFICES ASSUME Init PROVE RingInv /\ Contents = <<>>
  OBVIOUS
<1>1. size \in Nat \ {0, 1}
  BY RingAssumption DEF Init
<1>2. /\ head = 0 /\ tail = 0 /\ elements = [i \in 0..(size - 1) |-> Zero]
  BY DEF Init, Cleared
<1>3. RingInv
  BY <1>1, <1>2, RingAssumption DEF RingInv, TypeOK, SlotsInv, Between
<1>4. RingLen = 0
  BY <1>2 DEF RingLen
<1>5. Contents = <<>>
  BY <1>3, <1>4, RingInvProperties, EmptySeq
<1> QED  BY <1>3, <1>5

\* Every operation is one of the queue's, and keeps the invariant.
LEMMA NextRing == RingInv /\ [Next]_vars => RingInv' /\ [Queue!Next]_<<Contents, result>>
<1> SUFFICES ASSUME RingInv, [Next]_vars
             PROVE  RingInv' /\ [Queue!Next]_<<Contents, result>>
  OBVIOUS
<1>1. CASE UNCHANGED vars
  BY <1>1 DEF vars, RingInv, TypeOK, SlotsInv, Contents, RingLen
<1>2. ASSUME NEW v \in Elem, Push(v) PROVE RingInv' /\ Queue!Push(v)
  <2>1. RingInv' /\ Contents' = Append(Contents, v)
    BY <1>2, PushRoom, PushGrow
  <2>2. result' = <<>>
    BY <1>2 DEF Push
  <2> QED  BY <2>1, <2>2 DEF Queue!Push
<1>3. CASE Pop
  <2>1. CASE RingLen = 0
    <3>1. result' = <<Zero, FALSE>> /\ UNCHANGED <<head, tail, size, elements>>
      BY <1>3, <2>1 DEF Pop
    <3>2. RingInv' /\ Contents' = Contents
      BY <3>1 DEF RingInv, TypeOK, SlotsInv, Contents, RingLen
    <3>3. Contents = <<>>
      BY <2>1, RingInvProperties, EmptySeq
    <3> QED  BY <3>1, <3>2, <3>3 DEF Queue!Next, Queue!Pop
  <2>2. CASE RingLen # 0
    <3>1. RingInv' /\ Contents' = Tail(Contents) /\ result' = <<Head(Contents), TRUE>>
      BY <1>3, <2>2, PopFirst
    <3>2. Contents # <<>>
      BY <2>2, RingInvProperties, EmptySeq
    <3> QED  BY <3>1, <3>2 DEF Queue!Next, Queue!Pop
  <2> QED  BY <2>1, <2>2
<1>4. CASE Clear
  <2>1. RingInv' /\ Contents' = <<>>
    BY <1>4, ClearedIsEmpty DEF Clear
  <2> QED  BY <1>4, <2>1 DEF Clear, Queue!Next, Queue!Clear
<1>5. ASSUME NEW arg \in 0..MaxDiscard, Discard(arg)
      PROVE  RingInv' /\ \E n \in 0..Len(Contents) : Queue!Discard(n)
  <2> DEFINE n == IF arg <= RingLen THEN arg ELSE RingLen
  <2>1. /\ RingLen \in Nat /\ Len(Contents) = RingLen /\ Contents \in Seq(Elem)
        /\ arg \in Nat
    BY RingInvProperties, RingAssumption
  <2>2. n \in 0..RingLen
    BY <2>1
  <2>3. /\ IF n = RingLen
           THEN head' = 0 /\ tail' = 0 /\ elements' = Cleared
           ELSE head' = Advance(head, n) /\ elements' = Discarded(n) /\ tail' = tail
        /\ result' = <<n>> /\ size' = size
    BY <1>5 DEF Discard
  <2> HIDE DEF n, Contents
  <2>4. RingInv' /\ Contents' = SubSeq(Contents, n + 1, Len(Contents))
    <3>1. CASE n = RingLen
      <4>1. RingInv' /\ Contents' = <<>>
        BY <2>3, <3>1, ClearedIsEmpty
      <4>2. SubSeq(Contents, n + 1, Len(Contents)) = <<>>
        BY <2>1, <3>1, SubSeqEmpty
      <4> QED  BY <4>1, <4>2
    <3>2. CASE n # RingLen
      <4>1. n \in Nat /\ n < RingLen
        BY <2>1, <2>2, <3>2
      <4> QED  BY <2>3, <3>2, <4>1, DiscardSome
    <3> QED  BY <3>1, <3>2
  <2> QED  BY <2>1, <2>2, <2>3, <2>4 DEF Queue!Discard
<1> QED  BY <1>1, <1>2, <1>3, <1>4, <1>5 DEF Next, Queue!Next

LEMMA RingInvariant == Spec => []RingInv
<1>1. Init => RingInv
  BY InitRing
<1>2. RingInv /\ [Next]_vars => RingInv'
  BY NextRing
<1> QED  BY <1>1, <1>2, PTL DEF Spec

\* head and tail stay slots of the slice, through every wrap and growth.
THEOREM RingTypeCorrect == Spec => []TypeOK
<1>1. RingInv => TypeOK
  BY DEF RingInv
<1> QED  BY <1>1, RingInvariant, PTL

\* Through wrapping, growing and clearing the ring is a queue.
THEOREM RingIsQueue == Spec => IsQueue
<1>1. Init => Queue!Init
  BY InitRing DEF Queue!Init, Init
<1>2. RingInv /\ [Next]_vars => [Queue!Next]_<<Contents, result>>
  BY NextRing
<1> QED  BY <1>1, <1>2, RingInvariant, PTL DEF Spec, IsQueue, Queue!Spec

\* ForEach and ForEachReverse visit every element once, in order and in
\* reverse order, wherever the ring is wrapped.
THEOREM RingIterates == Spec => []IterationInOrder
<1>1. RingInv => IterationInOrder
  BY ForEachIsContents, ForEachReverseIsContents DEF IterationInOrder
<1> QED  BY <1>1, RingInvariant, PTL

\* The slots outside the contents are zero, those inside are not: neither Pop
\* nor Discard nor grow leaves a reference behind.
THEOREM RingKeepsNothing == Spec => []NoStaleSlots
<1>1. RingInv => NoStaleSlots
  <2> SUFFICES ASSUME RingInv, NEW i \in 0..(size - 1)
               PROVE  elements[i] = Zero <=>
                        ~ \E k \in 0..(RingLen - 1) : i = (head + k) % size
    BY DEF NoStaleSlots
  <2>1. /\ size \in Nat \ {0, 1} /\ head \in 0..(size - 1) /\ tail \in 0..(size - 1)
        /\ elements \in [0..(size - 1) -> Elem \cup {Zero}]
        /\ RingLen \in 0..(size - 1) /\ RingLen = LenOf(head, tail, size)
    BY RingInvProperties, RingIs
  <2>2. \A k \in 0..(RingLen - 1) : (head + k) % size = SlotOf(head, size, k)
    BY <2>1, SlotOfType
  <2>3. Between(head, tail, i) <=> \E k \in 0..(RingLen - 1) : i = SlotOf(head, size, k)
    BY <2>1, BetweenSlots
  <2>4. elements[i] = Zero <=> ~Between(head, tail, i)
    BY <2>1, RingAssumption DEF RingInv, SlotsInv
  <2> QED  BY <2>2, <2>3, <2>4
<1> QED  BY <1>1, RingInvariant, PTL

==========================================================================
