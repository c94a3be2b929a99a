------------------------------- MODULE Serial -------------------------------
(***************************************************************************)
(* Sequence numbers in KCP (kcp.go) are uint32 and wrap.  Kcp.tla numbers  *)
(* the segments by naturals; this module shows what that rests on.  One    *)
(* end sends to the other with numbers modulo SnMod, compared by           *)
(* _itimediff, and a history knows each segment by its true number.        *)
(*                                                                         *)
(* The network loses, repeats and reorders datagrams, but keeps no PUSH    *)
(* more than Lifetime segments beyond its own number, and no ACK more than *)
(* that beyond its una.  A retransmission is as old as its segment: it may *)
(* be kept for less than Lifetime, by a window at most.                    *)
(***************************************************************************)
EXTENDS Integers, Sequences, FiniteSets

CONSTANTS
  SnMod,     \* 2^32
  Wnd,       \* the window of both ends
  Lifetime,  \* datagrams are forgotten so many segments after the one they name
  Total,     \* bound: segments sent
  NetSize    \* bound: datagrams on the way

ASSUME SerialAssumption ==
  /\ {SnMod, Wnd, Lifetime, Total, NetSize} \subseteq Nat \ {0}
  /\ 2 * Wnd < SnMod /\ 2 * Lifetime <= SnMod

VARIABLES
  snd_una, snd_nxt,  \* the sender's window
  snd_buf,           \* its segments: [sn, acked], and the true number no
  rcv_nxt,           \* the next number expected
  rcv_buf,           \* segmentHeap: segments out of order
  rcv_queue,         \* segments to be read
  net,               \* datagrams on the way
  sent, moved        \* history: segments sent, and moved to rcv_queue

vars == <<snd_una, snd_nxt, snd_buf, rcv_nxt, rcv_buf, rcv_queue, net, sent, moved>>

----------------------------------------------------------------------------
(* Serial number arithmetic *)

Sn(n) == n % SnMod

\* Mutant: the difference is not cut to the width.
_itimediffWide(later, earlier) == later - earlier

\* int32(later - earlier)
_itimediff(later, earlier) ==
  LET d == Sn(later - earlier) IN IF 2 * d >= SnMod THEN d - SnMod ELSE d

----------------------------------------------------------------------------
(* segmentHeap *)

\* Mutant: compared as plain numbers.
LessPlain(s, t) == s.sn < t.sn

Less(s, t) == _itimediff(t.sn, s.sn) > 0

\* heap.Pop, n times: the segment that n - 1 others are less than.
Nth(buf, n) == CHOOSE s \in buf : Cardinality({t \in buf : Less(t, s)}) = n - 1

Has(buf, sn) == \E s \in buf : s.sn = sn

----------------------------------------------------------------------------
(* The sender *)

\* A new datagram; those more than Lifetime segments old are gone.
Transmit(m, n) ==
  net' = {d \in net \cup {m} : n - d.age <= Lifetime}

\* As old as its number, also when it is sent again.
Push(s) == [cmd |-> "PUSH", sn |-> s.sn, no |-> s.no, age |-> s.no]

\* Mutant: off by one.
SlidePast ==
  LET s == [sn |-> snd_nxt, acked |-> FALSE, no |-> sent] IN
  /\ sent < Total /\ Cardinality(net) < NetSize
  /\ _itimediff(snd_nxt, Sn(snd_una + Wnd)) <= 0
  /\ snd_buf' = Append(snd_buf, s)
  /\ snd_nxt' = Sn(snd_nxt + 1)
  /\ sent' = sent + 1
  /\ Transmit(Push(s), sent')
  /\ UNCHANGED <<snd_una, rcv_nxt, rcv_buf, rcv_queue, moved>>

\* flush: the next segment, while the window has room.
Slide ==
  LET s == [sn |-> snd_nxt, acked |-> FALSE, no |-> sent] IN
  /\ sent < Total /\ Cardinality(net) < NetSize
  /\ _itimediff(snd_nxt, Sn(snd_una + Wnd)) < 0
  /\ snd_buf' = Append(snd_buf, s)
  /\ snd_nxt' = Sn(snd_nxt + 1)
  /\ sent' = sent + 1
  /\ Transmit(Push(s), sent')
  /\ UNCHANGED <<snd_una, rcv_nxt, rcv_buf, rcv_queue, moved>>

\* flush: a segment that is not acknowledged, once more.
Retransmit ==
  /\ Cardinality(net) < NetSize
  /\ \E i \in DOMAIN snd_buf :
       ~snd_buf[i].acked /\ Transmit(Push(snd_buf[i]), sent)
  /\ UNCHANGED <<snd_una, snd_nxt, snd_buf, rcv_nxt, rcv_buf, rcv_queue, sent, moved>>

\* Mutant: the segments before the one that una names.
PassedByUnlessNamed(una, buf) ==
  {k \in 0..Len(buf) : \A i \in 1..k : buf[i].sn # una}

\* parse_una: the leading segments that una is past.
PassedBy(una, buf) ==
  {k \in 0..Len(buf) : \A i \in 1..k : _itimediff(una, buf[i].sn) > 0}

parse_una(una, buf) ==
  LET k == CHOOSE k \in PassedBy(una, buf) : \A j \in PassedBy(una, buf) : j <= k
  IN  SubSeq(buf, k + 1, Len(buf))

shrink_buf(buf) == IF buf = <<>> THEN snd_nxt ELSE buf[1].sn

\* parse_ack: the segment is marked, and waits for una.
parse_ack(sn, una, buf) ==
  IF _itimediff(sn, una) < 0 \/ _itimediff(sn, snd_nxt) >= 0 THEN buf
  ELSE [i \in DOMAIN buf |-> IF buf[i].sn = sn THEN [buf[i] EXCEPT !.acked = TRUE]
                             ELSE buf[i]]

\* Input of an ACK.
InputAck(m) ==
  LET buf == parse_una(m.una, snd_buf)
  IN  /\ m.cmd = "ACK"
      /\ snd_una' = shrink_buf(buf)
      /\ snd_buf' = parse_ack(m.sn, snd_una', buf)
      /\ \/ net' = net \ {m}
         \/ UNCHANGED net
      /\ UNCHANGED <<snd_nxt, rcv_nxt, rcv_buf, rcv_queue, sent, moved>>

----------------------------------------------------------------------------
(* The receiver *)

\* Mutant: whatever the heap pops is moved.
MovableUnchecked(buf, sn, room) == {k \in 0..room : k <= Cardinality(buf)}

\* How many segments the loop below may move: those the heap pops in a row
\* that are the next ones, and that there is room for.
Movable(buf, sn, room) ==
  {k \in 0..room : /\ k <= Cardinality(buf)
                   /\ \A n \in 1..k : Nth(buf, n).sn = Sn(sn + n - 1)}

\* The loop of parse_data and Recv: rcv_buf -> rcv_queue.
Move(buf, queue) ==
  LET ks == Movable(buf, rcv_nxt, Wnd - Len(queue))
      k  == CHOOSE k \in ks : \A j \in ks : j <= k
      next == [n \in 1..k |-> Nth(buf, n)]
  IN  /\ rcv_queue' = queue \o next
      /\ rcv_buf' = buf \ {next[n] : n \in 1..k}
      /\ rcv_nxt' = Sn(rcv_nxt + k)
      /\ moved' = moved \o [n \in 1..k |-> next[n].no]

\* The two tests of Input and parse_data.
InWindow(sn) == _itimediff(sn, Sn(rcv_nxt + Wnd)) < 0

NotBefore(sn) == _itimediff(sn, rcv_nxt) >= 0

Stored(m) == [sn |-> m.sn, no |-> m.no]

\* Input of a PUSH, and the ACK that goes out at once, if the net has room.
InputPush(m) ==
  /\ m.cmd = "PUSH"
  /\ IF InWindow(m.sn) /\ NotBefore(m.sn)
     THEN Move(IF Has(rcv_buf, m.sn) THEN rcv_buf ELSE rcv_buf \cup {Stored(m)},
               rcv_queue)
     ELSE UNCHANGED <<rcv_nxt, rcv_buf, rcv_queue, moved>>
  /\ LET ack == [cmd |-> "ACK", sn |-> m.sn, no |-> m.no, una |-> rcv_nxt',
                 age |-> Len(moved')]
     IN  \E kept \in {net, net \ {m}} :
           net' = IF InWindow(m.sn) /\ Cardinality(kept) < NetSize
                  THEN kept \cup {ack} ELSE kept
  /\ UNCHANGED <<snd_una, snd_nxt, snd_buf, sent>>

\* Recv, and the loop at its end.
Recv ==
  /\ rcv_queue # <<>>
  /\ Move(rcv_buf, Tail(rcv_queue))
  /\ UNCHANGED <<snd_una, snd_nxt, snd_buf, net, sent>>

Lose == /\ \E m \in net : net' = net \ {m}
        /\ UNCHANGED <<snd_una, snd_nxt, snd_buf, rcv_nxt, rcv_buf, rcv_queue,
                       sent, moved>>

----------------------------------------------------------------------------

Init ==
  /\ snd_una = 0 /\ snd_nxt = 0 /\ snd_buf = <<>>
  /\ rcv_nxt = 0 /\ rcv_buf = {} /\ rcv_queue = <<>>
  /\ net = {} /\ sent = 0 /\ moved = <<>>

Next ==
  \/ Slide \/ Retransmit \/ Recv \/ Lose
  \/ \E m \in net : InputAck(m) \/ InputPush(m)

Spec == Init /\ [][Next]_vars

----------------------------------------------------------------------------
(* Properties *)

Numbers == 0..SnMod - 1

\* Type invariant.
TypeOK ==
  /\ {snd_una, snd_nxt, rcv_nxt} \subseteq Numbers
  /\ snd_buf \in Seq([sn : Numbers, acked : BOOLEAN, no : Nat]) /\ Len(snd_buf) <= Wnd
  /\ rcv_buf \subseteq [sn : Numbers, no : Nat]
  /\ rcv_queue \in Seq([sn : Numbers, no : Nat]) /\ Len(rcv_queue) <= Wnd
  /\ moved \in Seq(Nat)

(***************************************************************************)
(* The numbers wrap and the stream does not: what parse_data and Recv move *)
(* to rcv_queue is the stream that was sent, however old the segments are  *)
(* that arrive in between.                                                 *)
(***************************************************************************)
MovedInOrder == \A i \in 1..Len(moved) : moved[i] = i - 1

(***************************************************************************)
(* Neither an old una nor an old ACK frees a segment of the present round  *)
(* of the numbers that the other end does not have.                        *)
(***************************************************************************)
FreedWereReceived ==
  /\ sent - Len(snd_buf) <= Len(moved)
  /\ \A i \in DOMAIN snd_buf :
       snd_buf[i].acked => \/ snd_buf[i].no < Len(moved)
                           \/ \E s \in rcv_buf : s.no = snd_buf[i].no

(***************************************************************************)
(* The wrap stops nobody: the oldest segment the sender keeps is taken by  *)
(* the receiver, or the receiver has it and its una would free it.         *)
(***************************************************************************)
OldestIsUnderstood ==
  snd_buf # <<>> =>
    LET s == snd_buf[1] IN
    IF s.no < Len(moved) THEN _itimediff(rcv_nxt, s.sn) > 0
    ELSE InWindow(s.sn) /\ NotBefore(s.sn)

(***************************************************************************)
(* The heap's order is right across the wrap: the segment that is next     *)
(* never stays behind one with a smaller number of the next round.         *)
(***************************************************************************)
NextIsNotHeldBack == Has(rcv_buf, rcv_nxt) => Len(rcv_queue) = Wnd
=============================================================================
