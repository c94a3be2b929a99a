-------------------------------- MODULE Kcp --------------------------------
(***************************************************************************)
(* The reliable half of a kcp2k session: two KCP state machines (kcp.go),  *)
(* one per end of the session, driven by KcpPeer (peer.go) and joined by a *)
(* UDP network that loses, duplicates and reorders datagrams.              *)
(*                                                                         *)
(* One action is one critical section of KcpPeer.lock, with one exception: *)
(* the loop of KCP.Input over the segments of a datagram takes one step    *)
(* per segment.  The lock is held throughout, so between Deliver and       *)
(* InputEnd no other action of that end is enabled.                        *)
(*                                                                         *)
(* Abstractions (the data, never the control):                             *)
(*  - a message is the sequence of its mss-sized chunks, a chunk a value;  *)
(*  - sequence numbers are naturals: _itimediff agrees with their          *)
(*    difference as long as they are less than 2^31 apart, and the windows *)
(*    keep them together;                                                  *)
(*  - there is no clock: which retransmission timers have expired, whether *)
(*    the probe timer has, and which segments are older than the time      *)
(*    stamp of an acknowledgement, are chosen by the environment;          *)
(*  - segments have no sizes: flush cuts its output into datagrams of at   *)
(*    most SegsPerDatagram segments anywhere, not only where the MTU says. *)
(***************************************************************************)
EXTENDS Integers, Sequences, FiniteSets, SequencesExt

CONSTANTS
  A, B,             \* the two ends of the session
  Payload,          \* the chunks of user data
  Messages,         \* the messages the users may send: sequences of chunks
  Nil,              \* data of a segment whose buffer went back to the pool
  SndWnd, RcvWnd,   \* KcpConfig.SendWindowSize, ReceiveWindowSize, per end
  IKCP_WND_RCV,     \* the remote window NewKCP presumes (32)
  FastResend,       \* KcpConfig.FastResend (0 turns fast resend off)
  NoCwnd,           \* ~ KcpConfig.CongestionWindow
  DeadLink,         \* KcpConfig.MaxRetransmits
  Mss,              \* bytes of user data in a full segment
  UMod,             \* 2^32, the modulus of uint32 arithmetic
  SegsPerDatagram,  \* segments that fit in one MTU
  NetCap,           \* bound: datagrams in flight
  MaxSent           \* bound: messages each end sends

End == {A, B}

FRG_MAX == 255
IKCP_THRESH_INIT == 2
IKCP_THRESH_MIN == 2
FrgMod == 256     \* frg is a uint8
WndMod == 65536   \* wnd is a uint16 on the wire

ASSUME EndsAssumption == A # B

ASSUME ConfigAssumption ==
  /\ SndWnd \in [End -> Nat \ {0}]
  /\ RcvWnd \in [End -> Nat \ {0}]
  /\ IKCP_WND_RCV \in Nat \ {0}
  /\ FastResend \in Nat
  /\ NoCwnd \in BOOLEAN
  /\ DeadLink \in Nat \ {0}
  /\ Mss \in Nat \ {0}
  /\ UMod \in Nat \ {0}
  /\ SegsPerDatagram \in Nat \ {0}

ASSUME MessagesAssumption ==
  /\ \A m \in Messages : m \in Seq(Payload) /\ m # <<>>
  /\ Nil \notin Payload

ASSUME BoundsAssumption ==
  /\ NetCap \in Nat
  /\ MaxSent \in [End -> Nat]

VARIABLES
  sent,        \* history: the messages KCP.Send accepted
  stream,      \* history: their fragments in order, each with its message
  delivered,   \* history: the messages KCP.Recv returned
  snd_queue,   \* segments waiting for the send window
  snd_buf,     \* segments in flight: sn -> segment
  snd_una,     \* first unacknowledged sequence number
  snd_nxt,     \* next sequence number to send
  rcv_nxt,     \* next sequence number to receive
  rcv_buf,     \* segments received out of order: sn -> segment (segmentHeap)
  rcv_queue,   \* segments received in order and not yet read
  acklist,     \* sequence numbers to acknowledge
  rmt_wnd,     \* receive window the other end last advertised
  cc,          \* congestion control: cwnd, ssthresh, incr
  probe,       \* window probes to send at the next flush
  probe_wait,  \* probe_wait # 0: the probe timer is running
  state,       \* TRUE: 0xFFFFFFFF, some segment reached dead_link
  gone,        \* KcpPeer.State is KcpDisconnected
  input,       \* the call of KCP.Input in progress, if any
  net          \* datagrams in flight

sndVars ==
  <<snd_queue, snd_buf, snd_una, snd_nxt, rmt_wnd, cc, probe_wait, state, gone>>
rcvVars == <<rcv_nxt, rcv_buf, rcv_queue, acklist, probe>>
vars == <<sent, stream, delivered, sndVars, rcvVars, input, net>>

----------------------------------------------------------------------------
(* Helpers. *)

Other(p) == IF p = A THEN B ELSE A

NoInput == [busy |-> FALSE, segs |-> <<>>, una0 |-> 0, slides |-> FALSE]

\* KcpPeer.lock is free: no Input is between two of its segments.
Idle(p) == ~input[p].busy

_imin_(a, b) == IF a <= b THEN a ELSE b
_imax_(a, b) == IF a >= b THEN a ELSE b

\* The increasing enumerations of a finite set of integers: there is one.
Increasing(S) ==
  LET n == Cardinality(S)
  IN  {f \in [1..n -> S] : \A i, j \in 1..n : i < j => f[i] < f[j]}

\* KCP.Send in message mode: the fragments of m, numbered down to 0.
Fragments(m) ==
  [i \in 1..Len(m) |-> [frg |-> Len(m) - i, data |-> m[i]]]

\* kcpSendBuffer and kcpMessageBuffer hold 1 + ReliableMaxMessageSize bytes:
\* one chunk less than the window, frg's range permitting.
FitsBuffer(p, chunks) ==
  chunks <= _imax_(1, _imin_(RcvWnd[p], FRG_MAX) - 1)

WaitSnd(p) == Cardinality(DOMAIN snd_buf[p]) + Len(snd_queue[p])

wnd_unused(p) ==
  IF Len(rcv_queue[p]) < RcvWnd[p]
  THEN (RcvWnd[p] - Len(rcv_queue[p])) % WndMod ELSE 0

\* One segment on the wire, with the window and una every segment carries.
WireSegment(p, cmd, sn, frg, data) ==
  [cmd |-> cmd, sn |-> sn, frg |-> frg, data |-> data,
   wnd |-> wnd_unused(p), una |-> rcv_nxt[p]]

\* The datagrams flush hands to output: out, cut after every position in
\* ends.
Datagrams(p, out, ends) ==
  {[to |-> Other(p), segs |-> SubSeq(out, ij[1], ij[2])] :
     ij \in {ij \in (1..Len(out)) \X ends :
              /\ ij[1] = 1 \/ ij[1] - 1 \in ends
              /\ ij[1] <= ij[2]
              /\ \A e \in ends : ij[1] <= e => ij[2] <= e}}

\* The network: of the datagrams in flight, old and new, it keeps any set
\* within its capacity and loses the rest.
Transmit(p, out, lossless) ==
  \E ends \in SUBSET (1..Len(out)) :
    LET all == Datagrams(p, out, ends)
    IN  /\ Len(out) \in ends \cup {0}
        /\ \A d \in all : Len(d.segs) <= SegsPerDatagram
        /\ net' \in SUBSET (net \cup all)
        /\ Cardinality(net') <= NetCap
        /\ lossless => all \subseteq net'

----------------------------------------------------------------------------
(* KCP.flush *)

\* Of the pending acknowledgements, those una does not cover, and the last.
AckIndices(p) ==
  {i \in 1..Len(acklist[p]) :
     acklist[p][i] >= rcv_nxt[p] \/ i = Len(acklist[p])}

AckSegments(p, idx) ==
  [i \in DOMAIN idx |-> WireSegment(p, "ACK", acklist[p][idx[i]], 0, Nil)]

\* flush(true)
FlushAcks(p, prompt) ==
  \E idx \in Increasing(AckIndices(p)) :
    /\ Transmit(p, AckSegments(p, idx), prompt)
    /\ acklist' = [acklist EXCEPT ![p] = <<>>]

\* Mutant: the advertised window is not part of the minimum.
EffectiveWindowUnadvertised(p, c) ==
  IF NoCwnd THEN SndWnd[p] ELSE _imin_(c.cwnd, SndWnd[p])

\* The send window: configured, advertised, and congestion window.
EffectiveWindow(p, c) ==
  LET w == _imin_(SndWnd[p], rmt_wnd[p])
  IN  IF NoCwnd THEN w ELSE _imin_(c.cwnd, w)

\* How many segments of a queue of length len the window lets through.
SlideCount(p, win, len) ==
  _imax_(0, _imin_(snd_una[p] + win - snd_nxt[p], len))

\* snd_buf after the first n segments of sq got their sequence numbers.
SlideInto(p, sq, n) ==
  [sn \in DOMAIN snd_buf[p] \cup (snd_nxt[p] .. snd_nxt[p] + n - 1) |->
     IF sn \in DOMAIN snd_buf[p] THEN snd_buf[p][sn]
     ELSE [frg |-> sq[sn - snd_nxt[p] + 1].frg,
           data |-> sq[sn - snd_nxt[p] + 1].data,
           xmit |-> 0, fastack |-> 0, acked |-> FALSE]]

\* fastresend <= 0 turns fast retransmission off: resent = 0xffffffff.
Resent == IF FastResend <= 0 THEN UMod - 1 ELSE FastResend

\* Mutant: flush does not skip the acknowledged segments.
UnackedUnskipped(buf) == DOMAIN buf

\* Segments flush still cares about.
Unacked(buf) == {sn \in DOMAIN buf : ~buf[sn].acked}

\* The segment whose loss holds everything up.
Oldest(buf) == {sn \in Unacked(buf) : \A t \in Unacked(buf) : sn <= t}

Initial(buf) == {sn \in Unacked(buf) : buf[sn].xmit = 0}

FastRetransmit(buf) ==
  {sn \in Unacked(buf) \ Initial(buf) : buf[sn].fastack >= Resent}

EarlyRetransmit(buf, newSegsCount) ==
  {sn \in Unacked(buf) \ (Initial(buf) \cup FastRetransmit(buf)) :
     buf[sn].fastack > 0 /\ newSegsCount = 0}

\* xmit is only compared with 0 and dead_link: it saturates at dead_link.
Transmitted(buf, send) ==
  [sn \in DOMAIN buf |->
     IF sn \in send
     THEN [buf[sn] EXCEPT !.xmit = _imin_(@ + 1, DeadLink), !.fastack = 0]
     ELSE buf[sn]]

\* Congestion control at the end of flush.
CwndAfterFlush(c, change, lost, inflight, win) ==
  LET th   == _imax_(inflight \div 2, IKCP_THRESH_MIN)
      cw   == (th + Resent) % UMod
      rate == IF change
              THEN [ssthresh |-> th, cwnd |-> cw, incr |-> (cw * Mss) % UMod]
              ELSE c
      loss == IF lost
              THEN [ssthresh |-> _imax_(win \div 2, IKCP_THRESH_MIN),
                    cwnd |-> 1, incr |-> Mss]
              ELSE rate
  IN  IF NoCwnd THEN c
      ELSE IF loss.cwnd < 1 THEN [loss EXCEPT !.cwnd = 1, !.incr = Mss]
      ELSE loss

\* Mutant: a closed window is never probed.
ProbeSegmentsUnasked(p, due) ==
  IF probe[p] THEN <<WireSegment(p, "WINS", 0, 0, Nil)>> ELSE <<>>

\* The probes flush sends: WASK when the probe timer is due, WINS on request.
ProbeSegments(p, due) ==
  LET ask  == IF rmt_wnd[p] = 0 /\ probe_wait[p] /\ due
              THEN <<WireSegment(p, "WASK", 0, 0, Nil)>> ELSE <<>>
      tell == IF probe[p]
              THEN <<WireSegment(p, "WINS", 0, 0, Nil)>> ELSE <<>>
  IN  ask \o tell

PushSegments(p, buf, sns) ==
  [i \in DOMAIN sns |->
     WireSegment(p, "PUSH", sns[i], buf[sns[i]].frg, buf[sns[i]].data)]

(***************************************************************************)
(* flush(false), called with snd_queue = sq and the congestion state c.    *)
(* "prompt" is a flush in which the timer of the oldest segment and the    *)
(* probe timer have expired and nothing is lost: fairness is about these.  *)
(***************************************************************************)
Flush(p, sq, c, prompt) ==
  LET win == EffectiveWindow(p, c)
      n   == SlideCount(p, win, Len(sq))
      buf == SlideInto(p, sq, n)
      due == Initial(buf) \cup FastRetransmit(buf) \cup EarlyRetransmit(buf, n)
  IN  \E expired \in SUBSET (Unacked(buf) \ due), probeDue \in BOOLEAN,
         idx \in Increasing(AckIndices(p)) :
        /\ prompt => probeDue /\ Oldest(buf) \subseteq due \cup expired
        /\ \E sns \in Increasing(due \cup expired) :
             Transmit(p, AckSegments(p, idx) \o ProbeSegments(p, probeDue)
                           \o PushSegments(p, buf, sns), prompt)
        /\ snd_queue' = [snd_queue EXCEPT ![p] = SubSeq(sq, n + 1, Len(sq))]
        /\ snd_buf' = [snd_buf EXCEPT ![p] = Transmitted(buf, due \cup expired)]
        /\ snd_nxt' = [snd_nxt EXCEPT ![p] = @ + n]
        /\ acklist' = [acklist EXCEPT ![p] = <<>>]
        /\ probe' = [probe EXCEPT ![p] = FALSE]
        /\ probe_wait' = [probe_wait EXCEPT ![p] = (rmt_wnd[p] = 0)]
        /\ state' = [state EXCEPT ![p] =
             @ \/ \E sn \in due \cup expired : buf[sn].xmit + 1 >= DeadLink]
        /\ cc' = [cc EXCEPT ![p] =
             CwndAfterFlush(c,
               FastRetransmit(buf) \cup EarlyRetransmit(buf, n) # {},
               expired # {}, snd_nxt[p] + n - snd_una[p], win)]

----------------------------------------------------------------------------
(* The user's and the scheduler's calls. *)

\* SendReliable: refused when too large or when the windows are full;
\* flushes at once when the message fills the window.
SendReliable(p, m) ==
  LET sq      == snd_queue[p] \o Fragments(m)
      waitsnd == WaitSnd(p) + Len(m)
  IN  /\ Idle(p)
      /\ Len(sent[p]) < MaxSent[p]
      /\ FitsBuffer(p, Len(m))
      /\ WaitSnd(p) < SndWnd[p] /\ WaitSnd(p) < rmt_wnd[p]
      /\ sent' = [sent EXCEPT ![p] = Append(@, m)]
      /\ stream' = [stream EXCEPT ![p] = @ \o
           [i \in 1..Len(m) |-> [frg |-> Len(m) - i, data |-> m[i],
                                msg |-> Len(sent[p]) + 1]]]
      /\ IF waitsnd >= SndWnd[p] \/ waitsnd >= rmt_wnd[p]
         THEN Flush(p, sq, cc[p], FALSE)
         ELSE /\ snd_queue' = [snd_queue EXCEPT ![p] = sq]
              /\ UNCHANGED <<snd_buf, snd_nxt, acklist, probe, probe_wait,
                             state, cc, net>>
      /\ UNCHANGED <<delivered, snd_una, rmt_wnd, rcv_nxt, rcv_buf, rcv_queue,
                     gone, input>>

\* TickOutgoing of a peer that is not disconnected: HandleDeadLink may
\* disconnect it, and the flush goes on.
TickOutgoing(p, prompt) ==
  /\ Idle(p) /\ ~gone[p]
  /\ gone' = [gone EXCEPT ![p] = state[p]]
  /\ Flush(p, snd_queue[p], cc[p], prompt)
  /\ UNCHANGED <<sent, stream, delivered, snd_una, rmt_wnd, rcv_nxt, rcv_buf,
                 rcv_queue, input>>

\* Mutant: the move stops one short of a full queue.
MovableOneShort(p, n, q, buf) ==
  LET room == _imax_(RcvWnd[p] - Len(q) - 1, 0)
  IN  /\ n <= room
      /\ \A i \in 0..(n - 1) : rcv_nxt[p] + i \in DOMAIN buf
      /\ n = room \/ rcv_nxt[p] + n \notin DOMAIN buf

(***************************************************************************)
(* The loop that moves segments from rcv_buf to rcv_queue: n is the number *)
(* of iterations.  The heap yields its least element, so the loop stops at *)
(* a gap, at a full queue, and at any stale element.                       *)
(***************************************************************************)
Movable(p, n, q, buf) ==
  LET room == RcvWnd[p] - Len(q)
      nxt  == rcv_nxt[p]
  IN  /\ n <= room
      /\ \A i \in 0..(n - 1) : nxt + i \in DOMAIN buf
      /\ n > 0 => \A sn \in DOMAIN buf : sn >= nxt
      /\ \/ n = room
         \/ nxt + n \notin DOMAIN buf
         \/ \E sn \in DOMAIN buf : sn < nxt

\* Mutant: rcv_nxt is not advanced.
MoveToQueueUncounted(p, n, q, buf) ==
  /\ rcv_queue' = [rcv_queue EXCEPT ![p] =
       q \o [i \in 1..n |-> buf[rcv_nxt[p] + i - 1]]]
  /\ rcv_buf' = [rcv_buf EXCEPT ![p] =
       [sn \in DOMAIN buf \ (rcv_nxt[p] .. rcv_nxt[p] + n - 1) |-> buf[sn]]]
  /\ UNCHANGED rcv_nxt

MoveToQueue(p, n, q, buf) ==
  /\ rcv_queue' = [rcv_queue EXCEPT ![p] =
       q \o [i \in 1..n |-> buf[rcv_nxt[p] + i - 1]]]
  /\ rcv_buf' = [rcv_buf EXCEPT ![p] =
       [sn \in DOMAIN buf \ (rcv_nxt[p] .. rcv_nxt[p] + n - 1) |-> buf[sn]]]
  /\ rcv_nxt' = [rcv_nxt EXCEPT ![p] = @ + n]

\* Mutant: PeekSize does not wait for the remaining fragments.
ReadableTooSoon(q) == q # <<>>

\* PeekSize >= 0: the queue holds all fragments of its first message.
Readable(q) ==
  /\ q # <<>>
  /\ Head(q).frg = 0 \/ Len(q) >= (Head(q).frg + 1) % FrgMod

\* ReceiveNextReliable and KCP.Recv: k segments make the message.  A
\* message larger than kcpMessageBuffer ends the session instead.
Recv(p) ==
  LET q == rcv_queue[p]
  IN  /\ Idle(p)
      /\ ~gone[p]
      /\ Readable(q)
      /\ \E k \in 1..Len(q), n \in 0..RcvWnd[p] :
           LET rest == SubSeq(q, k + 1, Len(q))
           IN  /\ \A i \in 1..(k - 1) : q[i].frg # 0
               /\ q[k].frg = 0 \/ k = Len(q)
               /\ FitsBuffer(p, k)
               /\ Movable(p, n, rest, rcv_buf[p])
               /\ MoveToQueue(p, n, rest, rcv_buf[p])
               /\ delivered' = [delivered EXCEPT ![p] =
                    Append(@, [i \in 1..k |-> q[i].data])]
               /\ probe' = [probe EXCEPT ![p] =
                    @ \/ (Len(q) >= RcvWnd[p] /\ Len(rest) + n < RcvWnd[p])]
      /\ UNCHANGED <<sent, stream, sndVars, acklist, input, net>>

(***************************************************************************)
(* HandleDeadLink in TickIncoming, and the Disconnect it calls, without    *)
(* the lock.  That tick reads on, which makes no difference to reading     *)
(* first; SendReliable and Input do not look at State, and go on until the *)
(* owner forgets the peer.  An end that hears of it stops (Session).       *)
(***************************************************************************)
HandleDeadLink(p) ==
  /\ state[p] /\ ~gone[p]
  /\ gone' = [gone EXCEPT ![p] = TRUE]
  /\ UNCHANGED <<sent, stream, delivered, snd_queue, snd_buf, snd_una, snd_nxt,
                 rmt_wnd, cc, probe_wait, state, rcvVars, input, net>>

----------------------------------------------------------------------------
(* KCP.Input *)

\* RawInput takes a datagram off the socket.  It stays in flight, so it may
\* be delivered again, until the network loses it.
Deliver(p, d) ==
  /\ Idle(p)
  /\ d \in net /\ d.to = p
  /\ input' = [input EXCEPT ![p] =
       [busy |-> TRUE, segs |-> d.segs, una0 |-> snd_una[p], slides |-> FALSE]]
  /\ UNCHANGED <<sent, stream, delivered, sndVars, rcvVars, net>>

\* Mutant: una is taken for the last sequence number received.
parse_unaInclusive(buf, una) ==
  [sn \in {s \in DOMAIN buf : s > una} |-> buf[sn]]

parse_una(buf, una) == [sn \in {s \in DOMAIN buf : s >= una} |-> buf[sn]]

shrink_buf(buf, nxt) == IF DOMAIN buf = {} THEN nxt ELSE Min(DOMAIN buf)

\* The segment stays in snd_buf until una passes it; its data is recycled.
parse_ack(buf, una, nxt, sn) ==
  IF sn >= una /\ sn < nxt /\ sn \in DOMAIN buf
  THEN [buf EXCEPT ![sn].acked = TRUE, ![sn].data = Nil]
  ELSE buf

\* fastack is only compared with 0 and resent: it saturates.
FastackMax == _imax_(FastResend, 1)

parse_fastack(buf, una, nxt, sn, older) ==
  IF sn >= una /\ sn < nxt
  THEN [s \in DOMAIN buf |->
          IF s \in older /\ s < sn
          THEN [buf[s] EXCEPT !.fastack = _imin_(@ + 1, FastackMax)]
          ELSE buf[s]]
  ELSE buf

\* Every segment: window update, parse_una and shrink_buf.
InputHeader(p, seg) ==
  LET buf == parse_una(snd_buf[p], seg.una)
  IN  /\ rmt_wnd' = [rmt_wnd EXCEPT ![p] = seg.wnd]
      /\ snd_una' = [snd_una EXCEPT ![p] = shrink_buf(buf, snd_nxt[p])]
      /\ input' = [input EXCEPT ![p].segs = Tail(@),
                                ![p].slides = @ \/ buf # snd_buf[p]]

InputNext(p, cmd) ==
  /\ input[p].busy
  /\ input[p].segs # <<>>
  /\ Head(input[p].segs).cmd = cmd
  /\ InputHeader(p, Head(input[p].segs))

InputAck(p) ==
  LET seg == Head(input[p].segs)
      buf == parse_una(snd_buf[p], seg.una)
      una == shrink_buf(buf, snd_nxt[p])
      mrk == parse_ack(buf, una, snd_nxt[p], seg.sn)
  IN  /\ InputNext(p, "ACK")
      /\ \E older \in SUBSET Unacked(mrk) :
           snd_buf' = [snd_buf EXCEPT ![p] =
             parse_fastack(mrk, una, snd_nxt[p], seg.sn, older)]
      /\ UNCHANGED <<sent, stream, delivered, snd_queue, snd_nxt, cc, probe_wait,
                     state, gone, rcvVars, net>>

\* parse_data: a segment in the window and not yet in rcv_buf is stored.
parse_data(buf, seg) ==
  IF seg.sn \in DOMAIN buf THEN buf
  ELSE [sn \in DOMAIN buf \cup {seg.sn} |->
          IF sn = seg.sn THEN [frg |-> seg.frg, data |-> seg.data]
          ELSE buf[sn]]

\* Mutant: a segment below rcv_nxt is stored again.
NotYetReceivedUnchecked(p, sn) == TRUE

BelowWindowEnd(p, sn) == sn < rcv_nxt[p] + RcvWnd[p]
NotYetReceived(p, sn) == sn >= rcv_nxt[p]

InputPush(p) ==
  LET seg == Head(input[p].segs)
      buf == parse_data(rcv_buf[p], seg)
  IN  /\ InputNext(p, "PUSH")
      /\ snd_buf' = [snd_buf EXCEPT ![p] = parse_una(@, seg.una)]
      /\ acklist' = [acklist EXCEPT ![p] =
           IF BelowWindowEnd(p, seg.sn) THEN Append(@, seg.sn) ELSE @]
      /\ IF BelowWindowEnd(p, seg.sn) /\ NotYetReceived(p, seg.sn)
         THEN \E n \in 0..RcvWnd[p] :
                /\ Movable(p, n, rcv_queue[p], buf)
                /\ MoveToQueue(p, n, rcv_queue[p], buf)
         ELSE UNCHANGED <<rcv_nxt, rcv_buf, rcv_queue>>
      /\ UNCHANGED <<sent, stream, delivered, snd_queue, snd_nxt, cc, probe_wait,
                     state, gone, probe, net>>

\* WASK asks for a WINS at the next flush; WINS only carries its window.
InputProbe(p) ==
  LET seg == Head(input[p].segs)
  IN  /\ InputNext(p, "WASK") \/ InputNext(p, "WINS")
      /\ snd_buf' = [snd_buf EXCEPT ![p] = parse_una(@, seg.una)]
      /\ probe' = [probe EXCEPT ![p] = @ \/ seg.cmd = "WASK"]
      /\ UNCHANGED <<sent, stream, delivered, snd_queue, snd_nxt, cc, probe_wait,
                     state, gone, rcv_nxt, rcv_buf, rcv_queue, acklist, net>>

\* cwnd update when a datagram moved snd_una: slow start below ssthresh,
\* then one mss per window, never above the advertised window.
CwndAfterInput(c, una0, una, rmt) ==
  LET incr == _imax_(c.incr, Mss) + (Mss * Mss) \div _imax_(c.incr, Mss)
                + Mss \div 16
      grow == IF c.cwnd < c.ssthresh
              THEN [c EXCEPT !.cwnd = @ + 1, !.incr = @ + Mss]
              ELSE [c EXCEPT !.incr = incr,
                             !.cwnd = IF (@ + 1) * Mss <= incr
                                      THEN (incr + Mss - 1) \div Mss ELSE @]
  IN  IF NoCwnd \/ una <= una0 \/ c.cwnd >= rmt THEN c
      ELSE IF grow.cwnd > rmt
      THEN [grow EXCEPT !.cwnd = rmt, !.incr = rmt * Mss]
      ELSE grow

\* The tail of Input: cwnd, then flush if the window slid, else flush the
\* acknowledgements (OnRawInputReliable passes ackNoDelay = true).
InputEnd(p, prompt) ==
  LET c == CwndAfterInput(cc[p], input[p].una0, snd_una[p], rmt_wnd[p])
  IN  /\ input[p].busy
      /\ input[p].segs = <<>>
      /\ IF input[p].slides
         THEN Flush(p, snd_queue[p], c, prompt)
         ELSE /\ cc' = [cc EXCEPT ![p] = c]
              /\ IF acklist[p] # <<>>
                 THEN FlushAcks(p, prompt)
                 ELSE UNCHANGED <<acklist, net>>
              /\ UNCHANGED <<snd_queue, snd_buf, snd_nxt, probe, probe_wait,
                             state>>
      /\ input' = [input EXCEPT ![p] = NoInput]
      /\ UNCHANGED <<sent, stream, delivered, snd_una, rmt_wnd, rcv_nxt, rcv_buf,
                     rcv_queue, gone>>

----------------------------------------------------------------------------
(* The specification. *)

\* NewKCP, and WndSize and NoDelay as Reset calls them.
Init ==
  /\ sent = [p \in End |-> <<>>]
  /\ stream = [p \in End |-> <<>>]
  /\ delivered = [p \in End |-> <<>>]
  /\ snd_queue = [p \in End |-> <<>>]
  /\ snd_buf = [p \in End |-> <<>>]
  /\ snd_una = [p \in End |-> 0]
  /\ snd_nxt = [p \in End |-> 0]
  /\ rcv_nxt = [p \in End |-> 0]
  /\ rcv_buf = [p \in End |-> <<>>]
  /\ rcv_queue = [p \in End |-> <<>>]
  /\ acklist = [p \in End |-> <<>>]
  /\ rmt_wnd = [p \in End |-> IKCP_WND_RCV]
  /\ cc = [p \in End |-> [cwnd |-> 0, ssthresh |-> IKCP_THRESH_INIT, incr |-> 0]]
  /\ probe = [p \in End |-> FALSE]
  /\ probe_wait = [p \in End |-> FALSE]
  /\ state = [p \in End |-> FALSE]
  /\ gone = [p \in End |-> FALSE]
  /\ input = [p \in End |-> NoInput]
  /\ net = {}

Next ==
  \E p \in End :
    \/ \E m \in Messages : SendReliable(p, m)
    \/ TickOutgoing(p, FALSE)
    \/ Recv(p)
    \/ HandleDeadLink(p)
    \/ \E d \in net : Deliver(p, d)
    \/ InputAck(p)
    \/ InputPush(p)
    \/ InputProbe(p)
    \/ InputEnd(p, FALSE)

Spec == Init /\ [][Next]_vars

----------------------------------------------------------------------------
(* Properties. *)

Segment == [frg : Nat, data : Payload]
SentSegment ==
  [frg : Nat, data : Payload, xmit : Nat, fastack : Nat, acked : {FALSE}]
    \cup [frg : Nat, data : {Nil}, xmit : Nat, fastack : Nat, acked : {TRUE}]
WireSegments ==
  [cmd : {"PUSH"}, sn : Nat, frg : Nat, data : Payload, wnd : Nat, una : Nat]
    \cup [cmd : {"ACK", "WASK", "WINS"}, sn : Nat, frg : Nat, data : {Nil},
          wnd : Nat, una : Nat]
Datagram == [to : End, segs : Seq(WireSegments)]

\* f maps a finite set of naturals to members of S.
IsNatMap(f, S) ==
  /\ DOMAIN f \subseteq Nat /\ IsFiniteSet(DOMAIN f)
  /\ \A n \in DOMAIN f : f[n] \in S

\* The shape of the two KCP structs, of the call of Input in progress and of
\* the datagrams in flight.  snd_buf holds exactly the send window; only an
\* acknowledged segment has lost its buffer, and no PUSH is sent without one.
TypeOK ==
  /\ sent \in [End -> Seq(Messages)]
  /\ stream \in [End -> Seq([frg : Nat, data : Payload, msg : Nat])]
  /\ delivered \in [End -> Seq(Seq(Payload))]
  /\ snd_queue \in [End -> Seq(Segment)]
  /\ DOMAIN snd_buf = End
  /\ \A p \in End : /\ IsNatMap(snd_buf[p], SentSegment)
                     /\ snd_una[p] <= snd_nxt[p]
                     /\ DOMAIN snd_buf[p] = snd_una[p] .. (snd_nxt[p] - 1)
  /\ snd_una \in [End -> Nat]
  /\ snd_nxt \in [End -> Nat]
  /\ rcv_nxt \in [End -> Nat]
  /\ DOMAIN rcv_buf = End /\ \A p \in End : IsNatMap(rcv_buf[p], Segment)
  /\ rcv_queue \in [End -> Seq(Segment)]
  /\ acklist \in [End -> Seq(Nat)]
  /\ rmt_wnd \in [End -> Nat]
  /\ cc \in [End -> [cwnd : Nat, ssthresh : Nat, incr : Nat]]
  /\ probe \in [End -> BOOLEAN]
  /\ probe_wait \in [End -> BOOLEAN]
  /\ state \in [End -> BOOLEAN]
  /\ gone \in [End -> BOOLEAN]
  /\ input \in [End -> [busy : BOOLEAN, segs : Seq(WireSegments),
                       una0 : Nat, slides : BOOLEAN]]
  /\ net \subseteq Datagram

\* The segments on their way to p: in datagrams, or in the datagram Input is
\* working on.
OnTheWay(p) ==
  (UNION {Range(d.segs) : d \in {e \in net : e.to = p}})
    \cup Range(input[p].segs)

\* Whatever the network does, Recv returns whole messages, unaltered, each
\* once and in the order Send accepted them.
InOrderDelivery ==
  \A p \in End : IsPrefix(delivered[Other(p)], sent[p])

Channel == INSTANCE ReliableChannel

\* Two KCP ends and the network between them implement a reliable channel.
ImplementsChannel == Channel!Spec

\* p has received sequence number sn: it is below rcv_nxt or in rcv_buf.
Received(p, sn) == sn < rcv_nxt[p] \/ sn \in DOMAIN rcv_buf[p]

\* parse_una and parse_ack recycle only what the other end already holds.
NothingFreedEarly ==
  \A p \in End :
    /\ \A sn \in 0..(snd_una[p] - 1) : Received(Other(p), sn)
    /\ \A sn \in DOMAIN snd_buf[p] :
         snd_buf[p][sn].acked => Received(Other(p), sn)

\* A PUSH on the wire carries the chunk and the fragment number its sequence
\* number stands for: no renumbering on retransmission, and never a buffer
\* that recycleSegment already returned to the pool.
WireMatchesStream ==
  \A p \in End : \A seg \in OnTheWay(p) :
    seg.cmd = "PUSH" =>
      /\ seg.sn + 1 \in DOMAIN stream[Other(p)]
      /\ seg.frg = stream[Other(p)][seg.sn + 1].frg
      /\ seg.data = stream[Other(p)][seg.sn + 1].data

\* Between the window advertised in ACKs and WINS that arrive late or out of
\* order and the window of the receiver: no segment is sent that parse_data
\* must refuse, provided NewKCP's initial rmt_wnd is no overestimate.
NeverOverrun ==
  \A p \in End :
    IKCP_WND_RCV <= RcvWnd[Other(p)] =>
      snd_nxt[p] <= rcv_nxt[Other(p)] + RcvWnd[Other(p)]

\* snd_buf, rcv_buf and rcv_queue stay within the configured windows, and the
\* backlog of SendReliable within a window and one message.
WindowsBounded ==
  \A p \in End :
    /\ snd_nxt[p] - snd_una[p] <= SndWnd[p]
    /\ DOMAIN rcv_buf[p] \subseteq rcv_nxt[p] .. rcv_nxt[p] + RcvWnd[p] - 1
    /\ Len(rcv_queue[p]) <= RcvWnd[p]
    /\ WaitSnd(p) <= SndWnd[p] + RcvWnd[p] - 1

\* A segment that is next in order waits in rcv_buf only while rcv_queue is
\* full, so that reading a message always moves it on.
NothingHeldBack ==
  \A p \in End : rcv_nxt[p] \in DOMAIN rcv_buf[p] => Len(rcv_queue[p]) >= RcvWnd[p]

\* No step sends a segment that an ACK or una had already confirmed, and none
\* moves snd_una or rcv_nxt back.
NoStepBack ==
  [][\A p \in End :
       /\ snd_una'[p] >= snd_una[p] /\ rcv_nxt'[p] >= rcv_nxt[p]
       /\ \A d \in net' \ net : \A seg \in Range(d.segs) :
            d.to = Other(p) /\ seg.cmd = "PUSH" /\ seg.sn < snd_nxt[p] =>
              seg.sn \in DOMAIN snd_buf[p] /\ ~snd_buf[p][seg.sn].acked]_vars

----------------------------------------------------------------------------
(* Liveness. *)

\* What the sender p needs: its lock is released, it is ticked, its timers
\* expire, and of the window updates sent again and again one gets through.
\* PUSH and ACK need no such luck: HandleDeadLink ends their retries.
SenderFairness(p) ==
  /\ WF_vars(InputAck(p) \/ InputPush(p) \/ InputProbe(p) \/ InputEnd(p, FALSE))
  /\ SF_vars(Idle(Other(p)) /\ TickOutgoing(p, TRUE))
  /\ SF_vars(\E d \in net : Deliver(p, d) /\ Last(d.segs).wnd > rmt_wnd[p])

\* What the receiver p needs: its user reads, its window updates leave, and
\* of the window probes one gets through.
ReceiverFairness(p) ==
  /\ WF_vars(InputAck(p) \/ InputPush(p) \/ InputProbe(p) \/ InputEnd(p, FALSE))
  /\ SF_vars(Idle(Other(p)) /\ probe[p] /\ TickOutgoing(p, TRUE))
  /\ SF_vars(Recv(p))
  /\ SF_vars(\E d \in net :
       Deliver(p, d) /\ \E seg \in Range(d.segs) : seg.cmd = "WASK")

\* No datagram is duplicated for ever, and Input takes microseconds of a
\* tick: again and again everything sent has arrived or is lost.
Quiet == net = {} /\ Idle(A) /\ Idle(B)

FairSpec ==
  Spec /\ SenderFairness(A) /\ ReceiverFairness(B) /\ []<>Quiet

\* Every message Send accepted at A reaches the user of B or A gives the link
\* up as dead, through lost segments, acknowledgements and window updates: a
\* closed window never leaves A waiting.
EventuallyDelivered ==
  \A k \in 1..MaxSent[A] : Len(sent[A]) >= k ~> Len(delivered[B]) >= k \/ gone[A]

============================================================================
