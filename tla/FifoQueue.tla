----------------------------- MODULE FifoQueue -----------------------------
(***************************************************************************)
(* What RingBuffer promises: an unbounded queue, first in, first out.      *)
(***************************************************************************)
EXTENDS Naturals, Sequences

CONSTANTS Elem, Zero

VARIABLES
  queue,   \* the elements, oldest first
  result   \* what the last call returned

Init == queue = <<>> /\ result = <<>>

Push(v) ==
  /\ queue' = Append(queue, v)
  /\ result' = <<>>

\* The oldest element, or the zero value and false.
Pop ==
  IF queue = <<>>
  THEN UNCHANGED queue /\ result' = <<Zero, FALSE>>
  ELSE queue' = Tail(queue) /\ result' = <<Head(queue), TRUE>>

\* The oldest n elements go.
Discard(n) ==
  /\ queue' = SubSeq(queue, n + 1, Len(queue))
  /\ result' = <<n>>

Clear == queue' = <<>> /\ result' = <<>>

Next ==
  \/ \E v \in Elem : Push(v)
  \/ Pop
  \/ \E n \in 0..Len(queue) : Discard(n)
  \/ Clear

Spec == Init /\ [][Next]_<<queue, result>>

============================================================================
