----------------------------- MODULE RingBuffer -----------------------------
(***************************************************************************)
(* RingBuffer[T] (ringbuffer.go), the queue under snd_queue, snd_buf and   *)
(* rcv_queue: a slice used in a circle, with one slot always free, that    *)
(* doubles, and above RINGBUFFER_EXP grows by a tenth, when it is full.    *)
(***************************************************************************)
EXTENDS Integers, Sequences, SequencesExt

CONSTANTS
  Elem,             \* the elements
  Zero,             \* the zero value of T
  RINGBUFFER_MIN,   \* least size of the slice (8)
  RINGBUFFER_EXP,   \* size from which growth slows down (1024)
  InitialSize,      \* the argument of NewRingBuffer
  MaxSize,          \* bound: no Push that would grow the slice beyond it
  MaxDiscard        \* bound: the argument of Discard

ASSUME RingAssumption ==
  /\ Zero \notin Elem
  /\ RINGBUFFER_MIN \in Nat \ {0, 1}
  /\ RINGBUFFER_EXP \in Nat
  /\ InitialSize \in Nat
  /\ MaxSize \in Nat
  /\ MaxDiscard \in Nat

VARIABLES
  head,      \* index of the next element to be popped
  tail,      \* index of the next empty slot to push into
  size,      \* len(elements)
  elements,  \* the slice: 0..size-1 -> Elem or Zero
  result     \* what the last call returned

vars == <<head, tail, size, elements, result>>

----------------------------------------------------------------------------

\* Len: the second case is len(elements[head:]) + len(elements[:tail]).
RingLen == IF head <= tail THEN tail - head ELSE (size - head) + tail

\* Mutant: an index runs off the end of the slice.
AdvanceUnwrapped(i, k) == i + k

\* The slot k places after slot i.
Advance(i, k) == (i + k) % size

IsFull == Advance(tail, 1) = head

\* The values of a stretch [from, to) of the slice.
Slice(from, to) == [i \in 1..(to - from) |-> elements[from + i - 1]]

\* ForEach, and what grow copies: one stretch, or two when wrapped.
ForEach ==
  IF RingLen = 0 THEN <<>>
  ELSE IF head < tail THEN Slice(head, tail)
  ELSE Slice(head, size) \o Slice(0, tail)

SliceReverse(from, to) == [i \in 1..(to - from) |-> elements[to - i]]

\* Mutant: the stretches of a wrapped buffer are walked the wrong way round.
ForEachReverseUnwrapped ==
  IF RingLen = 0 THEN <<>>
  ELSE IF head < tail THEN SliceReverse(head, tail)
  ELSE SliceReverse(head, size) \o SliceReverse(0, tail)

ForEachReverse ==
  IF RingLen = 0 THEN <<>>
  ELSE IF head < tail THEN SliceReverse(head, tail)
  ELSE SliceReverse(0, tail) \o SliceReverse(head, size)

\* Mutant: a wrapped buffer is copied as it lies.
GrownContentsUnwrapped == Slice(0, tail) \o Slice(head, size)

\* grow's copy: contiguous, or the end of the slice and then its beginning.
GrownContents ==
  IF head < tail THEN Slice(head, tail)
  ELSE Slice(head, size) \o Slice(0, tail)

GrownSize ==
  IF size < RINGBUFFER_MIN THEN RINGBUFFER_MIN
  ELSE IF size < RINGBUFFER_EXP THEN size * 2
  ELSE size + (size + 9) \div 10

\* Push, growing first when full.
Push(v) ==
  IF IsFull
  THEN LET all == GrownContents
           n   == RingLen
       IN  /\ GrownSize <= MaxSize
           /\ size' = GrownSize
           /\ head' = 0
           /\ tail' = (n + 1) % GrownSize
           /\ elements' = [i \in 0..(GrownSize - 1) |->
                             IF i < n THEN all[i + 1]
                             ELSE IF i = n THEN v ELSE Zero]
           /\ result' = <<>>
  ELSE /\ elements' = [elements EXCEPT ![tail] = v]
       /\ tail' = Advance(tail, 1)
       /\ result' = <<>>
       /\ UNCHANGED <<head, size>>

Pop ==
  IF RingLen = 0
  THEN result' = <<Zero, FALSE>> /\ UNCHANGED <<head, tail, size, elements>>
  ELSE /\ result' = <<elements[head], TRUE>>
       /\ elements' = [elements EXCEPT ![head] = Zero]
       /\ head' = Advance(head, 1)
       /\ UNCHANGED <<tail, size>>

Cleared == [i \in 0..(size - 1) |-> Zero]

Clear ==
  /\ head' = 0 /\ tail' = 0
  /\ elements' = Cleared
  /\ result' = <<>>
  /\ UNCHANGED size

\* Mutant: the slots are given up without being cleared.
DiscardedUncleared(n) == elements

\* The loop of Discard clears the n slots from head on.
Discarded(n) ==
  [i \in 0..(size - 1) |->
     IF \E k \in 0..(n - 1) : i = Advance(head, k) THEN Zero ELSE elements[i]]

Discard(arg) ==
  LET n == IF arg <= RingLen THEN arg ELSE RingLen
  IN  /\ IF n = RingLen
         THEN head' = 0 /\ tail' = 0 /\ elements' = Cleared
         ELSE /\ head' = Advance(head, n)
              /\ elements' = Discarded(n)
              /\ UNCHANGED tail
      /\ result' = <<n>>
      /\ UNCHANGED size

\* NewRingBuffer
Init ==
  /\ head = 0 /\ tail = 0
  /\ size = IF InitialSize <= RINGBUFFER_MIN THEN RINGBUFFER_MIN ELSE InitialSize
  /\ elements = Cleared
  /\ result = <<>>

Next ==
  \/ \E v \in Elem : Push(v)
  \/ Pop
  \/ Clear
  \/ \E n \in 0..MaxDiscard : Discard(n)

Spec == Init /\ [][Next]_vars

----------------------------------------------------------------------------
(* Properties. *)

\* The logical contents, oldest first, whatever the indices.
Contents == [i \in 1..RingLen |-> elements[(head + i - 1) % size]]

\* head and tail are slots of the slice, and one slot is free.
TypeOK ==
  /\ size \in Nat \ {0, 1}
  /\ head \in 0..(size - 1)
  /\ tail \in 0..(size - 1)
  /\ elements \in [0..(size - 1) -> Elem \cup {Zero}]

Queue == INSTANCE FifoQueue WITH queue <- Contents

\* Through wrapping, growing and clearing, the ring is a queue: Push, Pop and
\* Discard keep the order of the elements and lose none.
IsQueue == Queue!Spec

\* ForEach and ForEachReverse, by which parse_ack, parse_una and flush walk
\* snd_buf, visit every element once, in order and in reverse order.
IterationInOrder ==
  ForEach = Contents /\ ForEachReverse = Reverse(Contents)

\* A slot outside the contents holds the zero value, so the ring keeps no
\* reference to a segment it gave up; a slot inside holds an element.
NoStaleSlots ==
  \A i \in 0..(size - 1) :
    elements[i] = Zero <=> ~ \E k \in 0..(RingLen - 1) : i = (head + k) % size

============================================================================
