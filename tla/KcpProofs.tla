---------------------------- MODULE KcpProofs ----------------------------
(***************************************************************************)
(* What holds of module Kcp for all window sizes, messages and networks,   *)
(* in four parts, each of which uses the ones before:                      *)
(*                                                                         *)
(*   - the state keeps its shape (TypeCorrect);                            *)
(*   - acknowledgements are safe: parse_una and parse_ack never free what  *)
(*     the other end does not hold (NeverFreedEarly), and nothing that was *)
(*     confirmed is taken back (NeverStepsBack);                           *)
(*   - the windows hold: the receiver is never sent more than it has room  *)
(*     for (ReceiverNeverOverrun), neither end keeps more than its windows *)
(*     (WindowsStayBounded), and what arrived in order is not held back    *)
(*     (NothingIsHeldBack);                                                *)
(*   - delivery: what is queued, in flight, buffered and queued at the     *)
(*     other end are the fragments of the messages sent, at their places   *)
(*     in the stream of fragments (WireIsFaithful); the stream is the      *)
(*     concatenation of the messages, and each Recv stands at the start of *)
(*     one (DeliveredInOrder).  So two KCP ends and the network between    *)
(*     them implement a reliable channel (KcpImplementsChannel).           *)
(***************************************************************************)
EXTENDS Kcp, TLAPS, SequenceTheorems, FiniteSetTheorems

----------------------------------------------------------------------------
(* Types: what each operation returns, and that every action keeps them. *)

\* Each end has one other end, whose other end it is.
LEMMA OtherType == \A p \in End : Other(p) \in End /\ Other(p) # p /\ Other(Other(p)) = p
  BY EndsAssumption DEF End, Other

\* The increasing enumeration of a finite set is a sequence over it.
LEMMA IncreasingType ==
  ASSUME NEW S, IsFiniteSet(S), NEW f \in Increasing(S)
  PROVE  f \in Seq(S)
<1>1. Cardinality(S) \in Nat
  BY FS_CardinalityType
<1>2. f \in [1..Cardinality(S) -> S]
  BY DEF Increasing
<1> QED  BY <1>1, <1>2, IsASeq

\* Whatever is lost and however output is cut, the only new datagrams in flight
\* are pieces of it, addressed to the other end.
LEMMA TransmitType ==
  ASSUME NEW p \in End, NEW S, NEW out \in Seq(S), NEW lossless,
         Transmit(p, out, lossless)
  PROVE  net' \subseteq net \cup [to : {Other(p)}, segs : Seq(S)]
<1>1. PICK ends \in SUBSET (1..Len(out)) :
        net' \in SUBSET (net \cup Datagrams(p, out, ends))
  BY DEF Transmit
<1>2. ASSUME NEW i \in 1..Len(out), NEW j \in ends
      PROVE  SubSeq(out, i, j) \in Seq(S)
  BY LenProperties, SubSeqProperties
<1>3. Datagrams(p, out, ends) \subseteq [to : {Other(p)}, segs : Seq(S)]
  <2> SUFFICES ASSUME NEW d \in Datagrams(p, out, ends)
               PROVE  d \in [to : {Other(p)}, segs : Seq(S)]
    OBVIOUS
  <2>1. PICK ij \in (1..Len(out)) \X ends :
          d = [to |-> Other(p), segs |-> SubSeq(out, ij[1], ij[2])]
    BY DEF Datagrams
  <2>2. ij[1] \in 1..Len(out) /\ ij[2] \in ends
    BY <2>1
  <2> QED  BY <1>2, <2>1, <2>2
<1> QED  BY <1>1, <1>3

CCType == [cwnd : Nat, ssthresh : Nat, incr : Nat]

\* Division and remainder of naturals are naturals.
LEMMA DivModType ==
  /\ \A a \in Int, b \in Nat \ {0} : a \div b \in Int /\ a % b \in Nat
  /\ \A a \in Nat, b \in Nat \ {0} : a \div b \in Nat
  OBVIOUS

\* The threshold of fast retransmission is a number, also when it is off.
LEMMA ResentType == Resent \in Int
  BY ConfigAssumption DEF Resent

\* The congestion state after a flush is well formed.
LEMMA CwndAfterFlushType ==
  ASSUME NEW c \in CCType, NEW change, NEW lost, NEW inflight \in Int,
         NEW win \in Nat
  PROVE  CwndAfterFlush(c, change, lost, inflight, win) \in CCType
<1> DEFINE th == _imax_(inflight \div 2, IKCP_THRESH_MIN)
           cw == (th + Resent) % UMod
<1>1. th \in Nat
  BY DEF _imax_, IKCP_THRESH_MIN
<1>2. cw \in Nat
  BY <1>1, ResentType, ConfigAssumption, DivModType
<1>3. cw * Mss \in Int
  BY <1>2, ConfigAssumption
<1>4. (cw * Mss) % UMod \in Nat
  BY <1>3, ConfigAssumption, DivModType
<1>5. _imax_(win \div 2, IKCP_THRESH_MIN) \in Nat
  BY DEF _imax_, IKCP_THRESH_MIN
<1> HIDE DEF th, cw
<1>6. [ssthresh |-> th, cwnd |-> cw, incr |-> (cw * Mss) % UMod] \in CCType
  BY <1>1, <1>2, <1>4 DEF CCType
<1>7. [ssthresh |-> _imax_(win \div 2, IKCP_THRESH_MIN), cwnd |-> 1, incr |-> Mss]
        \in CCType
  BY <1>5, ConfigAssumption DEF CCType
<1>8. \A d \in CCType : [d EXCEPT !.cwnd = 1, !.incr = Mss] \in CCType
  BY ConfigAssumption DEF CCType
<1> QED  BY <1>6, <1>7, <1>8 DEF CwndAfterFlush, th, cw

\* The send window never exceeds the configured one.
LEMMA EffectiveWindowType ==
  ASSUME TypeOK, NEW p \in End, NEW c \in CCType
  PROVE  EffectiveWindow(p, c) \in 0..SndWnd[p]
<1>1. SndWnd[p] \in Nat /\ rmt_wnd[p] \in Nat /\ c.cwnd \in Nat
  BY ConfigAssumption DEF TypeOK, CCType
<1> QED  BY <1>1 DEF EffectiveWindow, _imin_

\* The advertised window is a natural number no larger than what is free.
LEMMA wnd_unusedType ==
  ASSUME TypeOK, NEW p \in End
  PROVE  wnd_unused(p) \in 0..RcvWnd[p]
<1>1. RcvWnd[p] \in Nat /\ Len(rcv_queue[p]) \in Nat
  BY ConfigAssumption, LenProperties DEF TypeOK
<1>2. \A n \in Nat : n % WndMod \in 0..n
  BY DEF WndMod
<1>3. CASE Len(rcv_queue[p]) < RcvWnd[p]
  <2>1. RcvWnd[p] - Len(rcv_queue[p]) \in 0..RcvWnd[p]
    BY <1>1, <1>3
  <2>2. (RcvWnd[p] - Len(rcv_queue[p])) % WndMod
          \in 0..(RcvWnd[p] - Len(rcv_queue[p]))
    BY <1>2, <2>1
  <2> QED  BY <1>1, <1>3, <2>1, <2>2 DEF wnd_unused
<1>4. CASE ~(Len(rcv_queue[p]) < RcvWnd[p])
  BY <1>1, <1>4 DEF wnd_unused
<1> QED  BY <1>3, <1>4

\* A segment that flush encodes has the shape of the wire format.
LEMMA WireSegmentType ==
  ASSUME TypeOK, NEW p \in End, NEW cmd \in {"PUSH", "ACK", "WASK", "WINS"},
         NEW sn \in Nat, NEW frg \in Nat, NEW data,
         IF cmd = "PUSH" THEN data \in Payload ELSE data = Nil
  PROVE  WireSegment(p, cmd, sn, frg, data) \in WireSegments
<1>1. RcvWnd[p] \in Nat /\ rcv_nxt[p] \in Nat
  BY ConfigAssumption DEF TypeOK
<1> QED  BY <1>1, wnd_unusedType DEF WireSegment, WireSegments

\* What flush may put on the wire.
AckOutput(p) ==
  {WireSegment(p, "ACK", acklist[p][i], 0, Nil) : i \in DOMAIN acklist[p]}

ProbeOutput(p) == {WireSegment(p, cmd, 0, 0, Nil) : cmd \in {"WASK", "WINS"}}

PushOutput(p, buf) ==
  {WireSegment(p, "PUSH", sn, buf[sn].frg, buf[sn].data) : sn \in Unacked(buf)}

\* flush acknowledges only sequence numbers of acklist.
LEMMA AckSegmentsType ==
  ASSUME TypeOK, NEW p \in End, NEW idx \in Increasing(AckIndices(p))
  PROVE  AckSegments(p, idx) \in Seq(AckOutput(p))
<1>1. /\ acklist[p] \in Seq(Nat)
      /\ Len(acklist[p]) \in Nat
      /\ DOMAIN acklist[p] = 1..Len(acklist[p])
  BY LenProperties DEF TypeOK
<1>2. AckIndices(p) \subseteq 1..Len(acklist[p])
  BY DEF AckIndices
<1>3. IsFiniteSet(AckIndices(p))
  <2>1. IsFiniteSet(1..Len(acklist[p]))
    BY <1>1, FS_Interval
  <2> QED  BY <1>2, <2>1, FS_Subset
<1>4. idx \in Seq(AckIndices(p))
  BY <1>3, IncreasingType
<1>5. Len(idx) \in Nat /\ DOMAIN idx = 1..Len(idx)
      /\ \A i \in 1..Len(idx) : idx[i] \in AckIndices(p)
  BY <1>4, LenProperties, ElementOfSeq
<1>6. \A i \in 1..Len(idx) :
        WireSegment(p, "ACK", acklist[p][idx[i]], 0, Nil) \in AckOutput(p)
  BY <1>1, <1>2, <1>5 DEF AckOutput
<1> QED  BY <1>5, <1>6, IsASeq DEF AckSegments

\* The PUSH segments of a flush are copies of segments in snd_buf.
LEMMA PushSegmentsType ==
  ASSUME NEW p \in End, NEW buf, NEW S \in SUBSET Unacked(buf), IsFiniteSet(S),
         NEW sns \in Increasing(S)
  PROVE  PushSegments(p, buf, sns) \in Seq(PushOutput(p, buf))
<1>1. sns \in Seq(S)
  BY IncreasingType
<1>2. Len(sns) \in Nat /\ DOMAIN sns = 1..Len(sns)
      /\ \A i \in 1..Len(sns) : sns[i] \in S
  BY <1>1, LenProperties, ElementOfSeq
<1>3. \A i \in 1..Len(sns) :
        WireSegment(p, "PUSH", sns[i], buf[sns[i]].frg, buf[sns[i]].data)
          \in PushOutput(p, buf)
  BY <1>2 DEF PushOutput
<1> QED  BY <1>2, <1>3, IsASeq DEF PushSegments

\* The probes of a flush are WASK and WINS segments.
LEMMA ProbeSegmentsType ==
  ASSUME NEW p \in End, NEW due
  PROVE  ProbeSegments(p, due) \in Seq(ProbeOutput(p))
<1>1. WireSegment(p, "WASK", 0, 0, Nil) \in ProbeOutput(p)
      /\ WireSegment(p, "WINS", 0, 0, Nil) \in ProbeOutput(p)
  BY DEF ProbeOutput
<1>2. \A x, y \in ProbeOutput(p) :
        /\ <<x>> \in Seq(ProbeOutput(p)) /\ <<>> \in Seq(ProbeOutput(p))
        /\ <<x>> \o <<y>> \in Seq(ProbeOutput(p))
        /\ <<x>> \o <<>> \in Seq(ProbeOutput(p))
        /\ <<>> \o <<y>> \in Seq(ProbeOutput(p))
        /\ <<>> \o <<>> \in Seq(ProbeOutput(p))
  BY ConcatProperties
<1> QED  BY <1>1, <1>2 DEF ProbeSegments


\* What flush(false) does, for any timers and any losses: n segments enter
\* the window, some unacknowledged ones are sent, the rest is bookkeeping.
LEMMA FlushEffect ==
  ASSUME TypeOK, NEW p \in End, NEW sq \in Seq(Segment), NEW c \in CCType,
         NEW prompt, Flush(p, sq, c, prompt)
  PROVE  \E n \in 0..Len(sq) :
           /\ n = 0 \/ snd_nxt[p] + n <= snd_una[p] + EffectiveWindow(p, c)
           /\ IsNatMap(SlideInto(p, sq, n), SentSegment)
           /\ net' \subseteq net \cup
                [to : {Other(p)},
                 segs : Seq(AckOutput(p) \cup ProbeOutput(p)
                              \cup PushOutput(p, SlideInto(p, sq, n)))]
           /\ snd_queue' = [snd_queue EXCEPT ![p] = SubSeq(sq, n + 1, Len(sq))]
           /\ \E send : snd_buf' = [snd_buf EXCEPT ![p] =
                                      Transmitted(SlideInto(p, sq, n), send)]
           /\ snd_nxt' = [snd_nxt EXCEPT ![p] = @ + n]
           /\ acklist' = [acklist EXCEPT ![p] = <<>>]
           /\ probe' \in [End -> BOOLEAN]
           /\ probe_wait' \in [End -> BOOLEAN]
           /\ state' \in [End -> BOOLEAN]
           /\ cc' \in [End -> CCType]
<1> DEFINE win == EffectiveWindow(p, c)
           n   == SlideCount(p, win, Len(sq))
           buf == SlideInto(p, sq, n)
           due == Initial(buf) \cup FastRetransmit(buf) \cup EarlyRetransmit(buf, n)
<1>1. win \in Nat /\ Len(sq) \in Nat /\ snd_una[p] \in Nat /\ snd_nxt[p] \in Nat
      /\ SndWnd[p] \in Nat
  <2>1. SndWnd[p] \in Nat
    BY ConfigAssumption
  <2>2. win \in 0..SndWnd[p]
    BY EffectiveWindowType
  <2>3. Len(sq) \in Nat
    BY LenProperties
  <2> QED  BY <2>1, <2>2, <2>3 DEF TypeOK
<1>2. /\ n \in 0..Len(sq)
      /\ n = 0 \/ snd_nxt[p] + n <= snd_una[p] + win
  BY <1>1, SMTT(30) DEF SlideCount, _imin_, _imax_
<1>3. IsNatMap(buf, SentSegment)
  <2>1. IsNatMap(snd_buf[p], SentSegment)
    BY DEF TypeOK
  <2>2. DOMAIN buf = DOMAIN snd_buf[p] \cup (snd_nxt[p] .. snd_nxt[p] + n - 1)
    BY DEF SlideInto
  <2>3. IsFiniteSet(DOMAIN snd_buf[p]) /\ DOMAIN snd_buf[p] \subseteq Nat
    BY <2>1 DEF IsNatMap
  <2>4. IsFiniteSet(snd_nxt[p] .. snd_nxt[p] + n - 1)
        /\ (snd_nxt[p] .. snd_nxt[p] + n - 1) \subseteq Nat
    <3> HIDE DEF n
    <3>1. snd_nxt[p] + n - 1 \in Int /\ snd_nxt[p] \in Int
      BY <1>1, <1>2
    <3>2. IsFiniteSet(snd_nxt[p] .. snd_nxt[p] + n - 1)
      BY <3>1, FS_Interval
    <3> QED  BY <1>1, <1>2, <3>2
  <2>5. IsFiniteSet(DOMAIN buf)
    BY <2>2, <2>3, <2>4, FS_Union
  <2>6. ASSUME NEW sn \in DOMAIN buf
        PROVE  buf[sn] \in SentSegment
    <3>1. CASE sn \in DOMAIN snd_buf[p]
      BY <2>1, <3>1 DEF SlideInto, IsNatMap
    <3>2. CASE sn \notin DOMAIN snd_buf[p]
      <4>1. sn - snd_nxt[p] + 1 \in 1..Len(sq)
        BY <1>1, <1>2, <2>2, <3>2
      <4>2. sq[sn - snd_nxt[p] + 1] \in Segment
        BY <4>1, ElementOfSeq
      <4>3. buf[sn] = [frg |-> sq[sn - snd_nxt[p] + 1].frg,
                       data |-> sq[sn - snd_nxt[p] + 1].data,
                       xmit |-> 0, fastack |-> 0, acked |-> FALSE]
        BY <3>2 DEF SlideInto
      <4> QED  BY <4>2, <4>3 DEF Segment, SentSegment
    <3> QED  BY <3>1, <3>2
  <2> QED  BY <2>2, <2>3, <2>4, <2>5, <2>6 DEF IsNatMap
<1>4. PICK expired \in SUBSET (Unacked(buf) \ due), probeDue \in BOOLEAN,
           idx \in Increasing(AckIndices(p)) :
        /\ \E sns \in Increasing(due \cup expired) :
             Transmit(p, AckSegments(p, idx) \o ProbeSegments(p, probeDue)
                           \o PushSegments(p, buf, sns), prompt)
        /\ snd_queue' = [snd_queue EXCEPT ![p] = SubSeq(sq, n + 1, Len(sq))]
        /\ snd_buf' = [snd_buf EXCEPT ![p] = Transmitted(buf, due \cup expired)]
        /\ snd_nxt' = [snd_nxt EXCEPT ![p] = @ + n]
        /\ acklist' = [acklist EXCEPT ![p] = <<>>]
        /\ probe' = [probe EXCEPT ![p] = FALSE]
        /\ probe_wait' = [probe_wait EXCEPT ![p] = (rmt_wnd[p] = 0)]
        /\ state' = [state EXCEPT ![p] =
             @ \/ \E sn \in due \cup expired : buf[sn].xmit + 1 >= DeadLink]
        /\ cc' = [cc EXCEPT ![p] =
             CwndAfterFlush(c,
               FastRetransmit(buf) \cup EarlyRetransmit(buf, n) # {},
               expired # {}, snd_nxt[p] + n - snd_una[p], win)]
  BY DEF Flush
<1>5. PICK sns \in Increasing(due \cup expired) :
        Transmit(p, AckSegments(p, idx) \o ProbeSegments(p, probeDue)
                      \o PushSegments(p, buf, sns), prompt)
  BY <1>4
<1> DEFINE out == AckSegments(p, idx) \o ProbeSegments(p, probeDue)
                    \o PushSegments(p, buf, sns)
           W == AckOutput(p) \cup ProbeOutput(p) \cup PushOutput(p, buf)
<1> HIDE DEF n, buf, win
<1>6. out \in Seq(W)
  <2>1. due \cup expired \subseteq Unacked(buf)
    BY DEF Initial, FastRetransmit, EarlyRetransmit
  <2>2. Unacked(buf) \subseteq DOMAIN buf
    BY DEF Unacked
  <2>3. IsFiniteSet(due \cup expired)
    BY <1>3, <2>1, <2>2, FS_Subset DEF IsNatMap
  <2>4. PushSegments(p, buf, sns) \in Seq(W)
    BY <2>1, <2>3, PushSegmentsType, SeqMonotonic
  <2>5. AckSegments(p, idx) \in Seq(W) /\ ProbeSegments(p, probeDue) \in Seq(W)
    BY AckSegmentsType, ProbeSegmentsType, SeqMonotonic
  <2> QED  BY <2>4, <2>5, ConcatProperties
<1>7. net' \subseteq net \cup [to : {Other(p)}, segs : Seq(W)]
  BY <1>5, <1>6, TransmitType
<1>8. /\ probe' \in [End -> BOOLEAN]
      /\ probe_wait' \in [End -> BOOLEAN]
      /\ state' \in [End -> BOOLEAN]
  BY <1>4 DEF TypeOK
<1>9. cc' \in [End -> CCType]
  <2>1. snd_nxt[p] + n - snd_una[p] \in Int
    BY <1>1, <1>2
  <2>2. CwndAfterFlush(c,
               FastRetransmit(buf) \cup EarlyRetransmit(buf, n) # {},
               expired # {}, snd_nxt[p] + n - snd_una[p], win) \in CCType
    BY <1>1, <2>1, CwndAfterFlushType
  <2>3. cc \in [End -> CCType]
    BY DEF TypeOK, CCType
  <2> QED  BY <1>4, <2>2, <2>3
<1> QED  BY <1>2, <1>3, <1>4, <1>7, <1>8, <1>9 DEF n, buf, win

\* flush(false) preserves the parts of the type invariant it touches.
LEMMA FlushType ==
  ASSUME TypeOK, NEW p \in End, NEW sq \in Seq(Segment), NEW c \in CCType,
         NEW prompt, Flush(p, sq, c, prompt)
  PROVE  /\ net' \subseteq Datagram
         /\ snd_queue' \in [End -> Seq(Segment)]
         /\ DOMAIN snd_buf' = End
         /\ \A q \in End : /\ IsNatMap(snd_buf'[q], SentSegment)
                           /\ snd_una[q] <= snd_nxt'[q]
                           /\ DOMAIN snd_buf'[q] = snd_una[q] .. (snd_nxt'[q] - 1)
         /\ snd_nxt' \in [End -> Nat]
         /\ acklist' \in [End -> Seq(Nat)]
         /\ probe' \in [End -> BOOLEAN]
         /\ probe_wait' \in [End -> BOOLEAN]
         /\ state' \in [End -> BOOLEAN]
         /\ cc' \in [End -> CCType]
<1>1. PICK n \in 0..Len(sq) :
           /\ IsNatMap(SlideInto(p, sq, n), SentSegment)
           /\ net' \subseteq net \cup
                [to : {Other(p)},
                 segs : Seq(AckOutput(p) \cup ProbeOutput(p)
                              \cup PushOutput(p, SlideInto(p, sq, n)))]
           /\ snd_queue' = [snd_queue EXCEPT ![p] = SubSeq(sq, n + 1, Len(sq))]
           /\ \E send : snd_buf' = [snd_buf EXCEPT ![p] =
                                      Transmitted(SlideInto(p, sq, n), send)]
           /\ snd_nxt' = [snd_nxt EXCEPT ![p] = @ + n]
           /\ acklist' = [acklist EXCEPT ![p] = <<>>]
           /\ probe' \in [End -> BOOLEAN]
           /\ probe_wait' \in [End -> BOOLEAN]
           /\ state' \in [End -> BOOLEAN]
           /\ cc' \in [End -> CCType]
  BY FlushEffect
<1> DEFINE buf == SlideInto(p, sq, n)
<1> HIDE DEF buf
<1>2. IsNatMap(buf, SentSegment)
  BY <1>1 DEF buf
<1>3. PICK send : snd_buf' = [snd_buf EXCEPT ![p] = Transmitted(buf, send)]
  BY <1>1 DEF buf
<1>4. IsNatMap(Transmitted(buf, send), SentSegment)
  <2>1. DOMAIN Transmitted(buf, send) = DOMAIN buf
    BY DEF Transmitted
  <2>2. ASSUME NEW sn \in DOMAIN buf
        PROVE  Transmitted(buf, send)[sn] \in SentSegment
    <3>1. buf[sn] \in SentSegment
      BY <1>2 DEF IsNatMap
    <3>2. _imin_(buf[sn].xmit + 1, DeadLink) \in Nat
      <4>1. buf[sn].xmit \in Nat
        BY <3>1 DEF SentSegment
      <4>2. DeadLink \in Nat
        BY ConfigAssumption
      <4> QED  BY <4>1, <4>2 DEF _imin_
    <3>3. [buf[sn] EXCEPT !.xmit = _imin_(@ + 1, DeadLink), !.fastack = 0]
            \in SentSegment
      BY <3>1, <3>2 DEF SentSegment
    <3> QED  BY <3>1, <3>3 DEF Transmitted
  <2> QED  BY <1>2, <2>1, <2>2 DEF IsNatMap
<1>5. /\ DOMAIN snd_buf' = End
      /\ \A q \in End : /\ IsNatMap(snd_buf'[q], SentSegment)
                        /\ snd_una[q] <= snd_nxt'[q]
                        /\ DOMAIN snd_buf'[q] = snd_una[q] .. (snd_nxt'[q] - 1)
  <2>1. n \in Nat /\ snd_nxt[p] \in Nat /\ snd_una[p] \in Nat
        /\ snd_una[p] <= snd_nxt[p]
        /\ DOMAIN snd_buf[p] = snd_una[p] .. (snd_nxt[p] - 1)
    BY LenProperties DEF TypeOK
  <2>2. DOMAIN Transmitted(buf, send) = DOMAIN buf
    BY DEF Transmitted
  <2>3. DOMAIN buf = DOMAIN snd_buf[p] \cup (snd_nxt[p] .. snd_nxt[p] + n - 1)
    BY DEF buf, SlideInto
  <2>4. DOMAIN buf = snd_una[p] .. (snd_nxt[p] + n - 1)
    BY <2>1, <2>3
  <2>5. snd_nxt'[p] = snd_nxt[p] + n /\ snd_buf'[p] = Transmitted(buf, send)
    BY <1>1, <1>3 DEF TypeOK
  <2>6. \A q \in End \ {p} : snd_nxt'[q] = snd_nxt[q] /\ snd_buf'[q] = snd_buf[q]
    BY <1>1, <1>3 DEF TypeOK
  <2>7. snd_una[p] <= snd_nxt'[p]
        /\ DOMAIN snd_buf'[p] = snd_una[p] .. (snd_nxt'[p] - 1)
    <3>1. snd_una[p] <= snd_nxt[p] + n
      BY <2>1
    <3>2. DOMAIN snd_buf'[p] = snd_una[p] .. (snd_nxt[p] + n - 1)
      BY <2>2, <2>4, <2>5
    <3>3. snd_nxt'[p] = snd_nxt[p] + n
      BY <2>5
    <3>4. snd_nxt'[p] \in Nat /\ snd_nxt[p] + n - 1 = snd_nxt'[p] - 1
      BY <2>1, <3>3
    <3> QED  BY <2>1, <3>1, <3>2, <3>3, <3>4
  <2>8. ASSUME NEW q \in End
        PROVE  /\ IsNatMap(snd_buf'[q], SentSegment)
               /\ snd_una[q] <= snd_nxt'[q]
               /\ DOMAIN snd_buf'[q] = snd_una[q] .. (snd_nxt'[q] - 1)
    <3>1. CASE q = p
      BY <1>4, <2>5, <2>7, <3>1
    <3>2. CASE q # p
      BY <2>6, <3>2 DEF TypeOK
    <3> QED  BY <3>1, <3>2
  <2> QED  BY <1>3, <2>8 DEF TypeOK
<1>6. snd_queue' \in [End -> Seq(Segment)]
  <2>1. \A i \in (n + 1)..Len(sq) : sq[i] \in Segment
    BY LenProperties, ElementOfSeq
  <2>2. SubSeq(sq, n + 1, Len(sq)) \in Seq(Segment)
    BY <2>1, LenProperties, SubSeqProperties
  <2> QED  BY <1>1, <2>2 DEF TypeOK
<1>7. snd_nxt' \in [End -> Nat] /\ acklist' \in [End -> Seq(Nat)]
  <2>1. Len(sq) \in Nat
    BY LenProperties
  <2>2. snd_nxt[p] + n \in Nat
    <3>1. snd_nxt[p] \in Nat
      BY DEF TypeOK
    <3> QED  BY <2>1, <3>1
  <2> QED  BY <1>1, <2>2, EmptySeq DEF TypeOK
<1>8. net' \subseteq Datagram
  <2>1. AckOutput(p) \subseteq WireSegments
    <3>1. \A i \in DOMAIN acklist[p] : acklist[p][i] \in Nat
      BY LenProperties, ElementOfSeq DEF TypeOK
    <3> QED  BY <3>1, WireSegmentType DEF AckOutput
  <2>2. ProbeOutput(p) \subseteq WireSegments
    BY WireSegmentType DEF ProbeOutput
  <2>3. PushOutput(p, buf) \subseteq WireSegments
    <3>1. \A sn \in Unacked(buf) : sn \in Nat /\ buf[sn].frg \in Nat
                                     /\ buf[sn].data \in Payload
      BY <1>2 DEF Unacked, IsNatMap, SentSegment
    <3> QED  BY <3>1, WireSegmentType DEF PushOutput
  <2>4. Seq(AckOutput(p) \cup ProbeOutput(p) \cup PushOutput(p, buf))
          \subseteq Seq(WireSegments)
    BY <2>1, <2>2, <2>3, SeqMonotonic
  <2>5. [to : {Other(p)}, segs : Seq(AckOutput(p) \cup ProbeOutput(p)
                                       \cup PushOutput(p, buf))] \subseteq Datagram
    BY <2>4, OtherType DEF Datagram
  <2> QED  BY <1>1, <2>5 DEF TypeOK, buf
<1> QED  BY <1>1, <1>5, <1>6, <1>7, <1>8

\* flush(true) preserves the parts of the type invariant it touches.
LEMMA FlushAcksType ==
  ASSUME TypeOK, NEW p \in End, NEW prompt, FlushAcks(p, prompt)
  PROVE  /\ net' \subseteq net \cup [to : {Other(p)}, segs : Seq(AckOutput(p))]
         /\ net' \subseteq Datagram
         /\ acklist' \in [End -> Seq(Nat)]
<1>1. PICK idx \in Increasing(AckIndices(p)) :
        /\ Transmit(p, AckSegments(p, idx), prompt)
        /\ acklist' = [acklist EXCEPT ![p] = <<>>]
  BY DEF FlushAcks
<1>2. net' \subseteq net \cup [to : {Other(p)}, segs : Seq(AckOutput(p))]
  BY <1>1, AckSegmentsType, TransmitType
<1>3. AckOutput(p) \subseteq WireSegments
  <2>1. \A i \in DOMAIN acklist[p] : acklist[p][i] \in Nat
    BY LenProperties, ElementOfSeq DEF TypeOK
  <2> QED  BY <2>1, WireSegmentType DEF AckOutput
<1>4. Seq(AckOutput(p)) \subseteq Seq(WireSegments)
  BY <1>3, SeqMonotonic
<1>5. [to : {Other(p)}, segs : Seq(AckOutput(p))] \subseteq Datagram
  BY <1>4, OtherType DEF Datagram
<1> QED  BY <1>1, <1>2, <1>5, EmptySeq DEF TypeOK

\* Moving segments from rcv_buf to rcv_queue keeps both well formed.
LEMMA MoveToQueueType ==
  ASSUME TypeOK, NEW p \in End, NEW q \in Seq(Segment), NEW buf,
         IsNatMap(buf, Segment), NEW n \in Nat,
         Movable(p, n, q, buf), MoveToQueue(p, n, q, buf)
  PROVE  /\ rcv_queue' \in [End -> Seq(Segment)]
         /\ rcv_nxt' \in [End -> Nat]
         /\ DOMAIN rcv_buf' = End
         /\ \A r \in End : IsNatMap(rcv_buf'[r], Segment)
<1>1. rcv_nxt \in [End -> Nat] /\ rcv_nxt[p] \in Nat
  BY DEF TypeOK
<1>2. \A i \in 1..n : buf[rcv_nxt[p] + i - 1] \in Segment
  <2> SUFFICES ASSUME NEW i \in 1..n PROVE buf[rcv_nxt[p] + i - 1] \in Segment
    OBVIOUS
  <2>1. i - 1 \in 0..(n - 1) /\ rcv_nxt[p] + (i - 1) = rcv_nxt[p] + i - 1
    BY <1>1
  <2> QED  BY <2>1 DEF Movable, IsNatMap
<1>3. [i \in 1..n |-> buf[rcv_nxt[p] + i - 1]] \in Seq(Segment)
  BY <1>2, IsASeq
<1>4. q \o [i \in 1..n |-> buf[rcv_nxt[p] + i - 1]] \in Seq(Segment)
  BY <1>3, ConcatProperties
<1> DEFINE rest == [sn \in DOMAIN buf \ (rcv_nxt[p] .. rcv_nxt[p] + n - 1) |-> buf[sn]]
<1>5. IsNatMap(rest, Segment)
  <2>1. DOMAIN rest \subseteq DOMAIN buf
    OBVIOUS
  <2>2. IsFiniteSet(DOMAIN rest)
    BY <2>1, FS_Subset DEF IsNatMap
  <2> QED  BY <2>1, <2>2 DEF IsNatMap
<1>6. rcv_queue' = [rcv_queue EXCEPT ![p] =
                      q \o [i \in 1..n |-> buf[rcv_nxt[p] + i - 1]]]
      /\ rcv_buf' = [rcv_buf EXCEPT ![p] = rest]
      /\ rcv_nxt' = [rcv_nxt EXCEPT ![p] = @ + n]
  BY DEF MoveToQueue
<1> HIDE DEF rest
<1>7. rcv_queue' \in [End -> Seq(Segment)]
  BY <1>4, <1>6 DEF TypeOK
<1>8. rcv_nxt' \in [End -> Nat]
  <2>1. rcv_nxt' = [rcv_nxt EXCEPT ![p] = rcv_nxt[p] + n]
    BY <1>6
  <2>2. rcv_nxt[p] + n \in Nat
    BY <1>1
  <2> QED  BY <1>1, <2>1, <2>2
<1>9. DOMAIN rcv_buf' = End /\ \A r \in End : IsNatMap(rcv_buf'[r], Segment)
  BY <1>5, <1>6 DEF TypeOK
<1> QED  BY <1>7, <1>8, <1>9

\* parse_una only removes segments.
LEMMA parse_unaType ==
  ASSUME NEW buf, NEW S, IsNatMap(buf, S), NEW una \in Nat
  PROVE  IsNatMap(parse_una(buf, una), S)
<1>1. DOMAIN parse_una(buf, una) \subseteq DOMAIN buf
  BY DEF parse_una
<1>2. IsFiniteSet(DOMAIN parse_una(buf, una))
  BY <1>1, FS_Subset DEF IsNatMap
<1> QED  BY <1>1, <1>2 DEF IsNatMap, parse_una

\* The least element of a nonempty interval is its lower end.
LEMMA IntervalMin ==
  ASSUME NEW a \in Nat, NEW b \in Int, a <= b
  PROVE  Min(a..b) = a
<1>1. a \in a..b /\ \A y \in a..b : a <= y
  OBVIOUS
<1>2. \A x \in a..b : (\A y \in a..b : x <= y) => x = a
  OBVIOUS
<1> QED  BY <1>1, <1>2 DEF Min

\* parse_una and shrink_buf leave a window in snd_buf, and move its lower end
\* up to una at most.
LEMMA ShrinkWindow ==
  ASSUME NEW buf, NEW a \in Nat, NEW b \in Nat, a <= b,
         DOMAIN buf = a..(b - 1), NEW una \in Nat
  PROVE  /\ shrink_buf(parse_una(buf, una), b) \in Nat
         /\ a <= shrink_buf(parse_una(buf, una), b)
         /\ shrink_buf(parse_una(buf, una), b) <= b
         /\ DOMAIN parse_una(buf, una) =
              shrink_buf(parse_una(buf, una), b) .. (b - 1)
         /\ \/ shrink_buf(parse_una(buf, una), b) = a
            \/ shrink_buf(parse_una(buf, una), b) <= una
         /\ \A sn \in DOMAIN parse_una(buf, una) : parse_una(buf, una)[sn] = buf[sn]
<1> DEFINE pu == parse_una(buf, una)
<1> DEFINE lo == IF una <= a THEN a ELSE IF una <= b THEN una ELSE b
<1>1. lo \in Nat /\ a <= lo /\ lo <= b /\ (lo = a \/ lo <= una)
  OBVIOUS
<1>2. DOMAIN pu = {s \in a..(b - 1) : s >= una}
  BY DEF parse_una
<1>3. DOMAIN pu = lo..(b - 1)
  BY <1>2
<1>4. \A sn \in DOMAIN pu : pu[sn] = buf[sn]
  BY DEF parse_una
<1> HIDE DEF lo, pu
<1>5. shrink_buf(pu, b) = lo
  <2>1. CASE lo = b
    <3>1. DOMAIN pu = {}
      BY <1>1, <1>3, <2>1
    <3> QED  BY <2>1, <3>1 DEF shrink_buf
  <2>2. CASE lo < b
    <3>1. lo <= b - 1 /\ b - 1 \in Int
      BY <1>1, <2>2
    <3>2. DOMAIN pu # {}
      <4>1. lo \in lo..(b - 1)
        BY <1>1, <3>1
      <4> QED  BY <1>3, <4>1
    <3>3. Min(DOMAIN pu) = lo
      BY <1>1, <1>3, <3>1, IntervalMin
    <3> QED  BY <3>2, <3>3 DEF shrink_buf
  <2> QED  BY <1>1, <2>1, <2>2
<1> QED  BY <1>1, <1>3, <1>4, <1>5 DEF pu

\* parse_ack takes the data of a segment exactly when it marks it acknowledged.
LEMMA parse_ackType ==
  ASSUME NEW buf, IsNatMap(buf, SentSegment), NEW una, NEW nxt, NEW sn
  PROVE  /\ IsNatMap(parse_ack(buf, una, nxt, sn), SentSegment)
         /\ DOMAIN parse_ack(buf, una, nxt, sn) = DOMAIN buf
<1>1. CASE sn >= una /\ sn < nxt /\ sn \in DOMAIN buf
  <2>1. buf[sn] \in SentSegment
    BY <1>1 DEF IsNatMap
  <2>2. [buf[sn] EXCEPT !.acked = TRUE, !.data = Nil] \in SentSegment
    BY <2>1 DEF SentSegment
  <2>3. parse_ack(buf, una, nxt, sn) =
          [buf EXCEPT ![sn] = [buf[sn] EXCEPT !.acked = TRUE, !.data = Nil]]
    BY <1>1, <2>1 DEF parse_ack, SentSegment
  <2> HIDE <1>1
  <2> QED  BY <2>2, <2>3 DEF IsNatMap
<1>2. CASE ~(sn >= una /\ sn < nxt /\ sn \in DOMAIN buf)
  BY <1>2 DEF parse_ack
<1> QED  BY <1>1, <1>2

\* parse_fastack only counts.
LEMMA parse_fastackType ==
  ASSUME NEW buf, IsNatMap(buf, SentSegment), NEW una, NEW nxt, NEW sn, NEW older
  PROVE  /\ IsNatMap(parse_fastack(buf, una, nxt, sn, older), SentSegment)
         /\ DOMAIN parse_fastack(buf, una, nxt, sn, older) = DOMAIN buf
         /\ \A s \in DOMAIN buf :
              LET t == parse_fastack(buf, una, nxt, sn, older)[s]
              IN  t.frg = buf[s].frg /\ t.data = buf[s].data
                    /\ t.acked = buf[s].acked
<1> DEFINE fa == parse_fastack(buf, una, nxt, sn, older)
<1>1. DOMAIN fa = DOMAIN buf
  BY DEF parse_fastack
<1>2. ASSUME NEW s \in DOMAIN buf
      PROVE  /\ fa[s] \in SentSegment
             /\ fa[s].frg = buf[s].frg /\ fa[s].data = buf[s].data
             /\ fa[s].acked = buf[s].acked
  <2>1. buf[s] \in SentSegment
    BY DEF IsNatMap
  <2>2. FastackMax \in Nat
    BY ConfigAssumption DEF FastackMax, _imax_
  <2>3. _imin_(buf[s].fastack + 1, FastackMax) \in Nat
    <3>1. buf[s].fastack \in Nat
      BY <2>1 DEF SentSegment
    <3> QED  BY <2>2, <3>1 DEF _imin_
  <2>4. fa[s] = buf[s] \/
          fa[s] = [buf[s] EXCEPT !.fastack = _imin_(@ + 1, FastackMax)]
    BY DEF parse_fastack
  <2> HIDE DEF fa
  <2> QED  BY <2>1, <2>3, <2>4 DEF SentSegment
<1> HIDE DEF fa
<1>3. IsNatMap(fa, SentSegment)
  BY <1>1, <1>2 DEF IsNatMap
<1> QED  BY <1>1, <1>2, <1>3 DEF fa

\* The congestion state after Input is well formed.
LEMMA CwndAfterInputType ==
  ASSUME NEW c \in CCType, NEW una0 \in Nat, NEW una \in Nat, NEW rmt \in Nat
  PROVE  CwndAfterInput(c, una0, una, rmt) \in CCType
<1> DEFINE im   == _imax_(c.incr, Mss)
           incr == im + (Mss * Mss) \div im + Mss \div 16
           slow == [c EXCEPT !.cwnd = @ + 1, !.incr = @ + Mss]
           cong == [c EXCEPT !.incr = incr,
                             !.cwnd = IF (@ + 1) * Mss <= incr
                                      THEN (incr + Mss - 1) \div Mss ELSE @]
           grow == IF c.cwnd < c.ssthresh THEN slow ELSE cong
<1>1. Mss \in Nat \ {0} /\ c.cwnd \in Nat /\ c.incr \in Nat
  BY ConfigAssumption DEF CCType
<1>2. im \in Nat \ {0}
  BY <1>1 DEF _imax_
<1>3. Mss * Mss \in Nat
  BY <1>1
<1> HIDE DEF im
<1>4. (Mss * Mss) \div im \in Nat /\ Mss \div 16 \in Nat
  BY <1>1, <1>2, <1>3, DivModType
<1>5. incr \in Nat
  BY <1>2, <1>4
<1> HIDE DEF incr
<1>6. (incr + Mss - 1) \div Mss \in Nat
  BY <1>1, <1>5, DivModType
<1>7. slow \in CCType
  <2>1. c.cwnd + 1 \in Nat /\ c.incr + Mss \in Nat
    BY <1>1
  <2>2. slow = [c EXCEPT !.cwnd = c.cwnd + 1, !.incr = c.incr + Mss]
    BY DEF CCType
  <2> QED  BY <2>1, <2>2 DEF CCType
<1>8. cong \in CCType
  BY <1>1, <1>5, <1>6 DEF CCType
<1> HIDE DEF slow, cong
<1>9. grow \in CCType
  BY <1>7, <1>8
<1>10. [grow EXCEPT !.cwnd = rmt, !.incr = rmt * Mss] \in CCType
  <2>1. rmt * Mss \in Nat
    BY <1>1
  <2> HIDE DEF grow
  <2> QED  BY <1>9, <2>1 DEF CCType
<1>11. CwndAfterInput(c, una0, una, rmt) \in
         {c, grow, [grow EXCEPT !.cwnd = rmt, !.incr = rmt * Mss]}
  BY DEF CwndAfterInput, slow, cong, incr, im
<1> QED  BY <1>9, <1>10, <1>11

\* The state NewKCP makes is well formed.
LEMMA InitType == Init => TypeOK
<1> SUFFICES ASSUME Init PROVE TypeOK
  OBVIOUS
<1>1. 0..(0 - 1) = {}
  OBVIOUS
<1> QED
  BY <1>1, ConfigAssumption, FS_EmptySet
  DEF Init, TypeOK, IsNatMap, NoInput, IKCP_THRESH_INIT

\* The fragments of a message are segments.
LEMMA FragmentsType ==
  ASSUME NEW m \in Messages
  PROVE  Fragments(m) \in Seq(Segment)
<1>1. m \in Seq(Payload) /\ Len(m) \in Nat /\ \A i \in 1..Len(m) : m[i] \in Payload
  BY MessagesAssumption, LenProperties, ElementOfSeq
<1>2. \A i \in 1..Len(m) : [frg |-> Len(m) - i, data |-> m[i]] \in Segment
  BY <1>1 DEF Segment
<1> QED  BY <1>1, <1>2, IsASeq DEF Fragments

\* SendReliable, with or without its flush, preserves the type invariant.
LEMMA SendReliableType ==
  ASSUME TypeOK, NEW p \in End, NEW m \in Messages, SendReliable(p, m)
  PROVE  TypeOK'
<1> DEFINE sq == snd_queue[p] \o Fragments(m)
           new == [i \in 1..Len(m) |-> [frg |-> Len(m) - i, data |-> m[i],
                                        msg |-> Len(sent[p]) + 1]]
<1>1. m \in Seq(Payload) /\ Len(m) \in Nat /\ \A i \in 1..Len(m) : m[i] \in Payload
  BY MessagesAssumption, LenProperties, ElementOfSeq
<1>2. Fragments(m) \in Seq(Segment)
  BY FragmentsType
<1>3. sq \in Seq(Segment)
  BY <1>2, ConcatProperties DEF TypeOK
<1>4. sent' \in [End -> Seq(Messages)]
  BY AppendProperties DEF TypeOK, SendReliable
<1>5. stream' \in [End -> Seq([frg : Nat, data : Payload, msg : Nat])]
  <2>1. Len(sent[p]) + 1 \in Nat
    BY LenProperties DEF TypeOK
  <2>2. \A i \in 1..Len(m) : [frg |-> Len(m) - i, data |-> m[i],
                              msg |-> Len(sent[p]) + 1]
                               \in [frg : Nat, data : Payload, msg : Nat]
    BY <1>1, <2>1
  <2>3. new \in Seq([frg : Nat, data : Payload, msg : Nat])
    BY <1>1, <2>2, IsASeq
  <2>4. stream[p] \o new \in Seq([frg : Nat, data : Payload, msg : Nat])
    BY <2>3, ConcatProperties DEF TypeOK
  <2>5. stream' = [stream EXCEPT ![p] = stream[p] \o new]
    BY DEF SendReliable
  <2> HIDE DEF new
  <2> QED  BY <2>4, <2>5 DEF TypeOK
<1> HIDE DEF sq
<1>6. cc[p] \in CCType
  BY DEF TypeOK, CCType
<1>7. UNCHANGED <<delivered, snd_una, rmt_wnd, rcv_nxt, rcv_buf, rcv_queue, input,
                  gone>>
  BY DEF SendReliable
<1>8. CASE Flush(p, sq, cc[p], FALSE)
  <2>1. /\ net' \subseteq Datagram
        /\ snd_queue' \in [End -> Seq(Segment)]
        /\ DOMAIN snd_buf' = End
        /\ \A q \in End : /\ IsNatMap(snd_buf'[q], SentSegment)
                          /\ snd_una[q] <= snd_nxt'[q]
                          /\ DOMAIN snd_buf'[q] = snd_una[q] .. (snd_nxt'[q] - 1)
        /\ snd_nxt' \in [End -> Nat]
        /\ acklist' \in [End -> Seq(Nat)]
        /\ probe' \in [End -> BOOLEAN]
        /\ probe_wait' \in [End -> BOOLEAN]
        /\ state' \in [End -> BOOLEAN]
        /\ cc' \in [End -> CCType]
    BY <1>3, <1>6, <1>8, FlushType
  <2> QED  BY <1>4, <1>5, <1>7, <2>1 DEF TypeOK, CCType
<1>9. CASE /\ snd_queue' = [snd_queue EXCEPT ![p] = sq]
           /\ UNCHANGED <<snd_buf, snd_nxt, acklist, probe, probe_wait,
                          state, cc, net>>
  <2>1. snd_queue' \in [End -> Seq(Segment)]
    BY <1>3, <1>9 DEF TypeOK
  <2> QED  BY <1>4, <1>5, <1>7, <1>9, <2>1 DEF TypeOK
<1> QED  BY <1>8, <1>9 DEF SendReliable, sq

\* TickOutgoing preserves the type invariant.
LEMMA TickOutgoingType ==
  ASSUME TypeOK, NEW p \in End, NEW prompt, TickOutgoing(p, prompt)
  PROVE  TypeOK'
<1>1. snd_queue[p] \in Seq(Segment) /\ cc[p] \in CCType
  BY DEF TypeOK, CCType
<1>2. gone' \in [End -> BOOLEAN]
  BY DEF TypeOK, TickOutgoing
<1>3. /\ net' \subseteq Datagram
      /\ snd_queue' \in [End -> Seq(Segment)]
      /\ DOMAIN snd_buf' = End
      /\ \A q \in End : /\ IsNatMap(snd_buf'[q], SentSegment)
                        /\ snd_una[q] <= snd_nxt'[q]
                        /\ DOMAIN snd_buf'[q] = snd_una[q] .. (snd_nxt'[q] - 1)
      /\ snd_nxt' \in [End -> Nat]
      /\ acklist' \in [End -> Seq(Nat)]
      /\ probe' \in [End -> BOOLEAN]
      /\ probe_wait' \in [End -> BOOLEAN]
      /\ state' \in [End -> BOOLEAN]
      /\ cc' \in [End -> CCType]
  BY <1>1, FlushType DEF TickOutgoing
<1> QED  BY <1>2, <1>3 DEF TickOutgoing, TypeOK, CCType

\* Recv preserves the type invariant.
LEMMA RecvType ==
  ASSUME TypeOK, NEW p \in End, Recv(p)
  PROVE  TypeOK'
<1> DEFINE q == rcv_queue[p]
           rest(k) == SubSeq(q, k + 1, Len(q))
<1>1. q \in Seq(Segment) /\ Len(q) \in Nat /\ RcvWnd[p] \in Nat
  BY LenProperties, ConfigAssumption DEF TypeOK
<1>2. PICK k \in 1..Len(q), n \in 0..RcvWnd[p] :
        /\ Movable(p, n, rest(k), rcv_buf[p])
        /\ MoveToQueue(p, n, rest(k), rcv_buf[p])
        /\ delivered' = [delivered EXCEPT ![p] =
             Append(@, [i \in 1..k |-> q[i].data])]
        /\ probe' = [probe EXCEPT ![p] =
             @ \/ (Len(q) >= RcvWnd[p] /\ Len(rest(k)) + n < RcvWnd[p])]
  BY DEF Recv
<1>3. rest(k) \in Seq(Segment)
  <2>1. \A i \in (k + 1)..Len(q) : q[i] \in Segment
    BY <1>1, ElementOfSeq
  <2> QED  BY <1>1, <2>1, SubSeqProperties
<1>4. IsNatMap(rcv_buf[p], Segment) /\ n \in Nat
  BY <1>1 DEF TypeOK
<1>5. /\ rcv_queue' \in [End -> Seq(Segment)]
      /\ rcv_nxt' \in [End -> Nat]
      /\ DOMAIN rcv_buf' = End
      /\ \A r \in End : IsNatMap(rcv_buf'[r], Segment)
  BY <1>2, <1>3, <1>4, MoveToQueueType
<1>6. [i \in 1..k |-> q[i].data] \in Seq(Payload)
  <2>1. \A i \in 1..k : q[i] \in Segment
    BY <1>1, ElementOfSeq
  <2>2. \A i \in 1..k : q[i].data \in Payload
    BY <2>1 DEF Segment
  <2>3. k \in Nat
    BY <1>1
  <2> HIDE DEF q
  <2> QED  BY <2>2, <2>3, IsASeq
<1>7. delivered' \in [End -> Seq(Seq(Payload))]
  <2> DEFINE msg == [i \in 1..k |-> q[i].data]
  <2>1. delivered' = [delivered EXCEPT ![p] = Append(delivered[p], msg)]
    BY <1>2
  <2> HIDE DEF msg
  <2>2. Append(delivered[p], msg) \in Seq(Seq(Payload))
    BY <1>6, AppendProperties DEF msg, TypeOK
  <2> QED  BY <2>1, <2>2 DEF TypeOK
<1>8. probe' \in [End -> BOOLEAN]
  BY <1>2 DEF TypeOK
<1>9. UNCHANGED <<sent, stream, sndVars, acklist, input, net>>
  BY DEF Recv
<1> QED  BY <1>5, <1>7, <1>8, <1>9 DEF TypeOK, sndVars

\* Taking a datagram off the socket preserves the type invariant.
LEMMA DeliverType ==
  ASSUME TypeOK, NEW p \in End, NEW d \in net, Deliver(p, d)
  PROVE  TypeOK'
<1>1. d.segs \in Seq(WireSegments)
  BY DEF TypeOK, Datagram
<1>2. snd_una[p] \in Nat
  BY DEF TypeOK
<1>3. input' \in [End -> [busy : BOOLEAN, segs : Seq(WireSegments),
                          una0 : Nat, slides : BOOLEAN]]
  BY <1>1, <1>2 DEF TypeOK, Deliver
<1> QED  BY <1>3 DEF TypeOK, Deliver, sndVars, rcvVars


\* The first segment of the datagram in hand, and snd_buf after parse_una.
Seg(p) == Head(input[p].segs)
Pruned(p) == parse_una(snd_buf[p], Seg(p).una)
NewUna(p) == shrink_buf(Pruned(p), snd_nxt[p])

InputType == [busy : BOOLEAN, segs : Seq(WireSegments), una0 : Nat,
              slides : BOOLEAN]

\* What Input does for every segment, whatever its command: the window stays
\* an interval, and snd_una moves up, to una at most.
LEMMA InputHeaderType ==
  ASSUME TypeOK, NEW p \in End, NEW cmd, InputNext(p, cmd)
  PROVE  /\ Seg(p) \in WireSegments
         /\ Seg(p).cmd = cmd
         /\ IsNatMap(Pruned(p), SentSegment)
         /\ NewUna(p) \in Nat
         /\ snd_una[p] <= NewUna(p) /\ NewUna(p) <= snd_nxt[p]
         /\ NewUna(p) = snd_una[p] \/ NewUna(p) <= Seg(p).una
         /\ DOMAIN Pruned(p) = NewUna(p) .. (snd_nxt[p] - 1)
         /\ \A sn \in DOMAIN Pruned(p) : sn \in DOMAIN snd_buf[p]
                                           /\ Pruned(p)[sn] = snd_buf[p][sn]
         /\ rmt_wnd' = [rmt_wnd EXCEPT ![p] = Seg(p).wnd]
         /\ rmt_wnd' \in [End -> Nat]
         /\ snd_una' = [snd_una EXCEPT ![p] = NewUna(p)]
         /\ snd_una' \in [End -> Nat]
         /\ input' \in [End -> InputType]
         /\ input[p].segs # <<>>
         /\ input'[p].segs = Tail(input[p].segs)
         /\ \A q \in End \ {p} : input'[q] = input[q]
<1>1. /\ input \in [End -> InputType]
      /\ IsNatMap(snd_buf[p], SentSegment)
      /\ snd_una \in [End -> Nat] /\ rmt_wnd \in [End -> Nat]
      /\ snd_una[p] \in Nat /\ snd_nxt[p] \in Nat
      /\ snd_una[p] <= snd_nxt[p]
      /\ DOMAIN snd_buf[p] = snd_una[p] .. (snd_nxt[p] - 1)
  BY DEF TypeOK, InputType
<1>2. input[p].segs \in Seq(WireSegments) /\ input[p].segs # <<>>
  BY <1>1 DEF InputNext, InputType
<1>3. Seg(p) \in WireSegments /\ Tail(input[p].segs) \in Seq(WireSegments)
  BY <1>2, HeadTailProperties DEF Seg
<1>4. Seg(p).una \in Nat /\ Seg(p).wnd \in Nat
  BY <1>3 DEF WireSegments
<1>5. Seg(p).cmd = cmd
  BY DEF InputNext, Seg
<1>6. IsNatMap(Pruned(p), SentSegment)
  BY <1>1, <1>4, parse_unaType DEF Pruned
<1>7. /\ NewUna(p) \in Nat
      /\ snd_una[p] <= NewUna(p) /\ NewUna(p) <= snd_nxt[p]
      /\ NewUna(p) = snd_una[p] \/ NewUna(p) <= Seg(p).una
      /\ DOMAIN Pruned(p) = NewUna(p) .. (snd_nxt[p] - 1)
      /\ \A sn \in DOMAIN Pruned(p) : Pruned(p)[sn] = snd_buf[p][sn]
  <2> DEFINE buf == snd_buf[p]
             a == snd_una[p]
             b == snd_nxt[p]
             una == Seg(p).una
             u == shrink_buf(parse_una(buf, una), b)
  <2>1. a \in Nat /\ b \in Nat /\ a <= b /\ DOMAIN buf = a..(b - 1)
    BY <1>1
  <2>2. una \in Nat
    BY <1>4
  <2> HIDE DEF buf, a, b, una
  <2>3. /\ u \in Nat
        /\ a <= u /\ u <= b
        /\ DOMAIN parse_una(buf, una) = u .. (b - 1)
        /\ u = a \/ u <= una
        /\ \A sn \in DOMAIN parse_una(buf, una) : parse_una(buf, una)[sn] = buf[sn]
    <3>1. u \in Nat
      BY <2>1, <2>2, ShrinkWindow
    <3>2. a <= u
      BY <2>1, <2>2, ShrinkWindow
    <3>3. u <= b
      BY <2>1, <2>2, ShrinkWindow
    <3>4. DOMAIN parse_una(buf, una) = u .. (b - 1)
      BY <2>1, <2>2, ShrinkWindow
    <3>5. u = a \/ u <= una
      BY <2>1, <2>2, ShrinkWindow
    <3>6. \A sn \in DOMAIN parse_una(buf, una) : parse_una(buf, una)[sn] = buf[sn]
      BY DEF parse_una
    <3> QED BY <3>1, <3>2, <3>3, <3>4, <3>5, <3>6
  <2> HIDE DEF u
  <2> QED  BY <2>3 DEF buf, a, b, una, u, NewUna, Pruned
<1>8. \A sn \in DOMAIN Pruned(p) : sn \in DOMAIN snd_buf[p]
  BY DEF Pruned, parse_una
<1>9. /\ rmt_wnd' = [rmt_wnd EXCEPT ![p] = Seg(p).wnd]
      /\ snd_una' = [snd_una EXCEPT ![p] = NewUna(p)]
      /\ input' = [input EXCEPT ![p].segs = Tail(@),
                                ![p].slides = @ \/ Pruned(p) # snd_buf[p]]
  BY DEF InputNext, InputHeader, NewUna, Pruned, Seg
<1>10. rmt_wnd' \in [End -> Nat] /\ snd_una' \in [End -> Nat]
  BY <1>1, <1>4, <1>7, <1>9
<1>11. /\ input' \in [End -> InputType]
       /\ input'[p].segs = Tail(input[p].segs)
       /\ \A q \in End \ {p} : input'[q] = input[q]
  <2>1. input[p].slides \in BOOLEAN
    BY <1>1 DEF InputType
  <2>2. (input[p].slides \/ Pruned(p) # snd_buf[p]) \in BOOLEAN
    BY <2>1
  <2>3. input' = [input EXCEPT ![p] =
          [@ EXCEPT !.segs = Tail(input[p].segs),
                    !.slides = input[p].slides \/ Pruned(p) # snd_buf[p]]]
    BY <1>1, <1>9 DEF InputType
  <2> QED  BY <1>1, <1>3, <2>2, <2>3, ZenonT(60) DEF InputType
<1> QED  BY <1>2, <1>3, <1>5, <1>6, <1>7, <1>8, <1>9, <1>10, <1>11

\* An Input step that leaves a segment for each sequence number of the
\* pruned window leaves snd_buf well formed.
LEMMA WindowAfterInput ==
  ASSUME TypeOK, NEW p \in End, NEW cmd, InputNext(p, cmd), NEW b,
         IsNatMap(b, SentSegment), DOMAIN b = DOMAIN Pruned(p),
         snd_buf' = [snd_buf EXCEPT ![p] = b], snd_nxt' = snd_nxt
  PROVE  /\ DOMAIN snd_buf' = End
         /\ \A q \in End : /\ IsNatMap(snd_buf'[q], SentSegment)
                           /\ snd_una'[q] <= snd_nxt'[q]
                           /\ DOMAIN snd_buf'[q] = snd_una'[q] .. (snd_nxt'[q] - 1)
<1>1. /\ NewUna(p) <= snd_nxt[p]
      /\ DOMAIN Pruned(p) = NewUna(p) .. (snd_nxt[p] - 1)
      /\ snd_una' = [snd_una EXCEPT ![p] = NewUna(p)]
  BY InputHeaderType
<1>2. DOMAIN snd_buf = End /\ DOMAIN snd_una = End
  BY DEF TypeOK
<1>3. snd_buf'[p] = b /\ snd_una'[p] = NewUna(p) /\ DOMAIN snd_buf' = End
  BY <1>1, <1>2
<1>4. \A q \in End \ {p} : snd_buf'[q] = snd_buf[q] /\ snd_una'[q] = snd_una[q]
  BY <1>1, <1>2
<1>5. \A q \in End \ {p} : /\ IsNatMap(snd_buf[q], SentSegment)
                           /\ snd_una[q] <= snd_nxt[q]
                           /\ DOMAIN snd_buf[q] = snd_una[q] .. (snd_nxt[q] - 1)
  BY DEF TypeOK
<1>6. ASSUME NEW q \in End
      PROVE  /\ IsNatMap(snd_buf'[q], SentSegment)
             /\ snd_una'[q] <= snd_nxt'[q]
             /\ DOMAIN snd_buf'[q] = snd_una'[q] .. (snd_nxt'[q] - 1)
  <2>1. CASE q = p
    BY <1>1, <1>3, <2>1
  <2>2. CASE q # p
    BY <1>4, <1>5, <2>2
  <2> QED  BY <2>1, <2>2
<1> QED  BY <1>3, <1>6

\* An ACK preserves the type invariant.
LEMMA InputAckType ==
  ASSUME TypeOK, NEW p \in End, InputAck(p)
  PROVE  TypeOK'
<1> DEFINE mrk == parse_ack(Pruned(p), NewUna(p), snd_nxt[p], Seg(p).sn)
           fa(older) == parse_fastack(mrk, NewUna(p), snd_nxt[p], Seg(p).sn, older)
<1>1. InputNext(p, "ACK")
  BY DEF InputAck
<1>2. PICK older : snd_buf' = [snd_buf EXCEPT ![p] = fa(older)]
  BY DEF InputAck, NewUna, Pruned, Seg
<1>3. IsNatMap(mrk, SentSegment) /\ DOMAIN mrk = DOMAIN Pruned(p)
  BY <1>1, InputHeaderType, parse_ackType
<1> HIDE DEF mrk
<1>4. IsNatMap(fa(older), SentSegment) /\ DOMAIN fa(older) = DOMAIN Pruned(p)
  BY <1>3, parse_fastackType
<1>5. UNCHANGED <<sent, stream, delivered, snd_queue, snd_nxt, cc, probe_wait,
                  state, gone, rcvVars, net>>
  BY DEF InputAck
<1> HIDE DEF fa
<1>6. /\ DOMAIN snd_buf' = End
      /\ \A q \in End : /\ IsNatMap(snd_buf'[q], SentSegment)
                        /\ snd_una'[q] <= snd_nxt'[q]
                        /\ DOMAIN snd_buf'[q] = snd_una'[q] .. (snd_nxt'[q] - 1)
  BY <1>1, <1>2, <1>4, <1>5, WindowAfterInput
<1>7. /\ rmt_wnd' \in [End -> Nat] /\ snd_una' \in [End -> Nat]
      /\ input' \in [End -> InputType]
  BY <1>1, InputHeaderType
<1> QED  BY <1>5, <1>6, <1>7 DEF TypeOK, rcvVars, InputType

\* parse_data adds at most the one segment to rcv_buf.
LEMMA parse_dataType ==
  ASSUME NEW buf, NEW seg, IsNatMap(buf, Segment), seg.sn \in Nat,
         [frg |-> seg.frg, data |-> seg.data] \in Segment
  PROVE  IsNatMap(parse_data(buf, seg), Segment)
<1>1. CASE seg.sn \in DOMAIN buf
  BY <1>1 DEF parse_data
<1>2. CASE seg.sn \notin DOMAIN buf
  <2> DEFINE new == [sn \in DOMAIN buf \cup {seg.sn} |->
                       IF sn = seg.sn THEN [frg |-> seg.frg, data |-> seg.data]
                       ELSE buf[sn]]
  <2>1. parse_data(buf, seg) = new
    BY <1>2 DEF parse_data
  <2>2. IsFiniteSet(DOMAIN new) /\ DOMAIN new = DOMAIN buf \cup {seg.sn}
    BY FS_AddElement DEF IsNatMap
  <2>3. \A sn \in DOMAIN new : new[sn] \in Segment
    BY DEF IsNatMap
  <2> HIDE DEF new
  <2> QED  BY <2>1, <2>2, <2>3 DEF IsNatMap
<1> QED  BY <1>1, <1>2

\* A PUSH preserves the type invariant.
LEMMA InputPushType ==
  ASSUME TypeOK, NEW p \in End, InputPush(p)
  PROVE  TypeOK'
<1> DEFINE buf == parse_data(rcv_buf[p], Seg(p))
<1>1. InputNext(p, "PUSH")
  BY DEF InputPush
<1>2. /\ rmt_wnd' \in [End -> Nat] /\ snd_una' \in [End -> Nat]
      /\ input' \in [End -> InputType]
      /\ Seg(p) \in WireSegments /\ Seg(p).cmd = "PUSH"
      /\ IsNatMap(Pruned(p), SentSegment)
  BY <1>1, InputHeaderType
<1>3. Seg(p).sn \in Nat /\ [frg |-> Seg(p).frg, data |-> Seg(p).data] \in Segment
  BY <1>2 DEF WireSegments, Segment
<1>4. IsNatMap(rcv_buf[p], Segment) /\ rcv_queue[p] \in Seq(Segment)
      /\ acklist[p] \in Seq(Nat) /\ RcvWnd[p] \in Nat
  BY ConfigAssumption DEF TypeOK
<1>5. IsNatMap(buf, Segment)
  BY <1>3, <1>4, parse_dataType
<1>6. /\ snd_buf' = [snd_buf EXCEPT ![p] = Pruned(p)]
      /\ acklist' = [acklist EXCEPT ![p] =
           IF BelowWindowEnd(p, Seg(p).sn) THEN Append(@, Seg(p).sn) ELSE @]
      /\ UNCHANGED <<sent, stream, delivered, snd_queue, snd_nxt, cc, probe_wait,
                     state, gone, probe, net>>
  BY DEF InputPush, Pruned, Seg, TypeOK
<1>7. acklist' \in [End -> Seq(Nat)]
  <2>1. Append(acklist[p], Seg(p).sn) \in Seq(Nat)
    BY <1>3, <1>4, AppendProperties
  <2> QED  BY <1>6, <2>1 DEF TypeOK
<1>8. /\ DOMAIN snd_buf' = End
      /\ \A q \in End : /\ IsNatMap(snd_buf'[q], SentSegment)
                        /\ snd_una'[q] <= snd_nxt'[q]
                        /\ DOMAIN snd_buf'[q] = snd_una'[q] .. (snd_nxt'[q] - 1)
  BY <1>1, <1>2, <1>6, WindowAfterInput
<1> HIDE DEF buf
<1>9. /\ rcv_queue' \in [End -> Seq(Segment)]
      /\ rcv_nxt' \in [End -> Nat]
      /\ DOMAIN rcv_buf' = End
      /\ \A r \in End : IsNatMap(rcv_buf'[r], Segment)
  <2>1. CASE UNCHANGED <<rcv_nxt, rcv_buf, rcv_queue>>
    BY <2>1 DEF TypeOK
  <2>2. CASE \E n \in 0..RcvWnd[p] : /\ Movable(p, n, rcv_queue[p], buf)
                                     /\ MoveToQueue(p, n, rcv_queue[p], buf)
    BY <1>4, <1>5, <2>2, MoveToQueueType
  <2> QED  BY <2>1, <2>2 DEF InputPush, buf, Seg
<1> QED  BY <1>2, <1>6, <1>7, <1>8, <1>9 DEF TypeOK, InputType

\* WASK and WINS preserve the type invariant.
LEMMA InputProbeType ==
  ASSUME TypeOK, NEW p \in End, InputProbe(p)
  PROVE  TypeOK'
<1>1. PICK cmd : InputNext(p, cmd)
  BY DEF InputProbe
<1>2. /\ rmt_wnd' \in [End -> Nat] /\ snd_una' \in [End -> Nat]
      /\ input' \in [End -> InputType]
      /\ IsNatMap(Pruned(p), SentSegment)
  BY <1>1, InputHeaderType
<1>3. /\ snd_buf' = [snd_buf EXCEPT ![p] = Pruned(p)]
      /\ probe' = [probe EXCEPT ![p] = @ \/ Seg(p).cmd = "WASK"]
      /\ UNCHANGED <<sent, stream, delivered, snd_queue, snd_nxt, cc, probe_wait,
                     state, gone, rcv_nxt, rcv_buf, rcv_queue, acklist, net>>
  BY DEF InputProbe, Pruned, Seg, TypeOK
<1>4. /\ DOMAIN snd_buf' = End
      /\ \A q \in End : /\ IsNatMap(snd_buf'[q], SentSegment)
                        /\ snd_una'[q] <= snd_nxt'[q]
                        /\ DOMAIN snd_buf'[q] = snd_una'[q] .. (snd_nxt'[q] - 1)
  BY <1>1, <1>2, <1>3, WindowAfterInput
<1>5. probe' \in [End -> BOOLEAN]
  BY <1>3 DEF TypeOK
<1> QED  BY <1>2, <1>3, <1>4, <1>5 DEF TypeOK, InputType

\* The tail of Input preserves the type invariant.
LEMMA InputEndType ==
  ASSUME TypeOK, NEW p \in End, NEW prompt, InputEnd(p, prompt)
  PROVE  TypeOK'
<1> DEFINE c == CwndAfterInput(cc[p], input[p].una0, snd_una[p], rmt_wnd[p])
<1>1. c \in CCType
  <2>1. cc[p] \in CCType /\ input[p].una0 \in Nat /\ snd_una[p] \in Nat
        /\ rmt_wnd[p] \in Nat
    BY DEF TypeOK, CCType
  <2> QED  BY <2>1, CwndAfterInputType
<1>2. input' \in [End -> InputType]
  <2>1. NoInput \in InputType
    BY EmptySeq DEF NoInput, InputType
  <2> QED  BY <2>1 DEF TypeOK, InputEnd, InputType
<1>3. UNCHANGED <<sent, stream, delivered, snd_una, rmt_wnd, rcv_nxt, rcv_buf,
                  rcv_queue, gone>>
  BY DEF InputEnd
<1> HIDE DEF c
<1>4. CASE Flush(p, snd_queue[p], c, prompt)
  <2>1. snd_queue[p] \in Seq(Segment)
    BY DEF TypeOK
  <2>2. /\ net' \subseteq Datagram
        /\ snd_queue' \in [End -> Seq(Segment)]
        /\ DOMAIN snd_buf' = End
        /\ \A q \in End : /\ IsNatMap(snd_buf'[q], SentSegment)
                          /\ snd_una[q] <= snd_nxt'[q]
                          /\ DOMAIN snd_buf'[q] = snd_una[q] .. (snd_nxt'[q] - 1)
        /\ snd_nxt' \in [End -> Nat]
        /\ acklist' \in [End -> Seq(Nat)]
        /\ probe' \in [End -> BOOLEAN]
        /\ probe_wait' \in [End -> BOOLEAN]
        /\ state' \in [End -> BOOLEAN]
        /\ cc' \in [End -> CCType]
    BY <1>1, <1>4, <2>1, FlushType
  <2> QED  BY <1>2, <1>3, <2>2 DEF TypeOK, CCType, InputType
<1>5. CASE /\ cc' = [cc EXCEPT ![p] = c]
           /\ FlushAcks(p, prompt) \/ UNCHANGED <<acklist, net>>
           /\ UNCHANGED <<snd_queue, snd_buf, snd_nxt, probe, probe_wait, state>>
  <2>1. cc' \in [End -> CCType]
    BY <1>1, <1>5 DEF TypeOK, CCType
  <2>2. acklist' \in [End -> Seq(Nat)] /\ net' \subseteq Datagram
    <3>1. CASE FlushAcks(p, prompt)
      BY <3>1, FlushAcksType
    <3>2. CASE UNCHANGED <<acklist, net>>
      BY <3>2 DEF TypeOK
    <3> QED  BY <1>5, <3>1, <3>2
  <2> QED  BY <1>2, <1>3, <1>5, <2>1, <2>2 DEF TypeOK, CCType, InputType
<1> QED  BY <1>4, <1>5 DEF InputEnd, c

\* HandleDeadLink preserves the type invariant.
LEMMA HandleDeadLinkType ==
  ASSUME TypeOK, NEW p \in End, HandleDeadLink(p)
  PROVE  TypeOK'
<1>1. gone' \in [End -> BOOLEAN]
  BY DEF TypeOK, HandleDeadLink
<1> QED  BY <1>1 DEF TypeOK, HandleDeadLink, rcvVars

\* The type invariant is inductive.
LEMMA NextType == TypeOK /\ [Next]_vars => TypeOK'
<1> SUFFICES ASSUME TypeOK, [Next]_vars PROVE TypeOK'
  OBVIOUS
<1>1. CASE UNCHANGED vars
  BY <1>1 DEF vars, sndVars, rcvVars, TypeOK
<1>2. CASE Next
  BY <1>2, SendReliableType, TickOutgoingType, RecvType, HandleDeadLinkType,
     DeliverType, InputAckType, InputPushType, InputProbeType, InputEndType
  DEF Next
<1> QED  BY <1>1, <1>2

\* In every reachable state of two KCP ends TypeOK holds: snd_buf is exactly the
\* send window, and no PUSH is sent from a buffer that went back to the pool.
THEOREM TypeCorrect == Spec => []TypeOK
<1>1. Init => TypeOK
  BY InitType
<1>2. TypeOK /\ [Next]_vars => TypeOK'
  BY NextType
<1> QED  BY <1>1, <1>2, PTL DEF Spec

----------------------------------------------------------------------------
(* What is on the wire after a step. *)

\* A segment is on its way in a datagram, or in the one Input works on.
LEMMA OnTheWayMember ==
  ASSUME NEW p, NEW seg
  PROVE  seg \in OnTheWay(p) <=>
           \/ \E d \in net : d.to = p /\ seg \in Range(d.segs)
           \/ seg \in Range(input[p].segs)
  BY DEF OnTheWay

\* The same of the state after a step.
LEMMA OnTheWayMemberPrime ==
  ASSUME NEW p, NEW seg
  PROVE  seg \in OnTheWay(p)' <=>
           \/ \E d \in net' : d.to = p /\ seg \in Range(d.segs)
           \/ seg \in Range(input'[p].segs)
  BY DEF OnTheWay

\* Segments on the wire have the shape of the wire format, before and after.
LEMMA OnTheWayType ==
  /\ TypeOK => \A p \in End : OnTheWay(p) \subseteq WireSegments
  /\ TypeOK' => \A p \in End : OnTheWay(p)' \subseteq WireSegments
<1>1. ASSUME TypeOK, NEW p \in End, NEW seg \in OnTheWay(p)
      PROVE  seg \in WireSegments
  <2>1. CASE \E d \in net : d.to = p /\ seg \in Range(d.segs)
    <3>1. PICK d \in net : seg \in Range(d.segs)
      BY <2>1
    <3>2. d.segs \in Seq(WireSegments)
      BY <1>1 DEF TypeOK, Datagram
    <3> QED  BY <3>1, <3>2, RangeOfSeq
  <2>2. CASE seg \in Range(input[p].segs)
    <3>1. input[p].segs \in Seq(WireSegments)
      BY <1>1 DEF TypeOK
    <3> QED  BY <2>2, <3>1, RangeOfSeq
  <2> QED  BY <2>1, <2>2, OnTheWayMember
<1>2. ASSUME TypeOK', NEW p \in End, NEW seg \in OnTheWay(p)'
      PROVE  seg \in WireSegments
  <2>1. CASE \E d \in net' : d.to = p /\ seg \in Range(d.segs)
    <3>1. PICK d \in net' : seg \in Range(d.segs)
      BY <2>1
    <3>2. d.segs \in Seq(WireSegments)
      BY <1>2 DEF TypeOK, Datagram
    <3> QED  BY <3>1, <3>2, RangeOfSeq
  <2>2. CASE seg \in Range(input'[p].segs)
    <3>1. input'[p].segs \in Seq(WireSegments)
      BY <1>2 DEF TypeOK
    <3> QED  BY <2>2, <3>1, RangeOfSeq
  <2> QED  BY <2>1, <2>2, OnTheWayMemberPrime
<1> QED  BY <1>1, <1>2

\* A step that transmits segments of W from p and begins no Input leaves on
\* the wire what was there before, and members of W on their way from p.
LEMMA OnTheWayStep ==
  ASSUME NEW p \in End, NEW W,
         net' \subseteq net \cup [to : {Other(p)}, segs : Seq(W)],
         \A q \in End : Range(input'[q].segs) \subseteq Range(input[q].segs)
  PROVE  \A q \in End : \A seg \in OnTheWay(q)' :
           seg \in OnTheWay(q) \/ (q = Other(p) /\ seg \in W)
<1> SUFFICES ASSUME NEW q \in End, NEW seg \in OnTheWay(q)'
             PROVE  seg \in OnTheWay(q) \/ (q = Other(p) /\ seg \in W)
  OBVIOUS
<1>1. CASE seg \in Range(input'[q].segs)
  BY <1>1, OnTheWayMember
<1>2. CASE \E d \in net' : d.to = q /\ seg \in Range(d.segs)
  <2>1. PICK d \in net' : d.to = q /\ seg \in Range(d.segs)
    BY <1>2
  <2>2. CASE d \in net
    BY <2>1, <2>2, OnTheWayMember
  <2>3. CASE d \in [to : {Other(p)}, segs : Seq(W)]
    BY <2>1, <2>3, RangeOfSeq
  <2> QED  BY <2>2, <2>3
<1> QED  BY <1>1, <1>2, OnTheWayMemberPrime

\* Taking the first segment of the datagram in hand puts nothing on the wire.
LEMMA InputOnTheWay ==
  ASSUME TypeOK, NEW p \in End, NEW cmd, InputNext(p, cmd), net' = net
  PROVE  /\ Seg(p) \in OnTheWay(p)
         /\ \A q \in End : OnTheWay(q)' \subseteq OnTheWay(q)
<1>1. input[p].segs # <<>> /\ input'[p].segs = Tail(input[p].segs)
      /\ \A q \in End \ {p} : input'[q] = input[q]
  BY InputHeaderType
<1>2. input[p].segs \in Seq(WireSegments)
  BY DEF TypeOK
<1>3. Seg(p) \in Range(input[p].segs)
  <2>1. 1 \in DOMAIN input[p].segs
    BY <1>1, <1>2, LenProperties
  <2> QED  BY <2>1 DEF Seg, Range
<1>4. Range(Tail(input[p].segs)) \subseteq Range(input[p].segs)
  <2> DEFINE s == input[p].segs
  <2>1. s \in Seq(WireSegments) /\ s # <<>>
    BY <1>1, <1>2
  <2> HIDE DEF s
  <2>2. Len(s) \in Nat \ {0} /\ DOMAIN s = 1..Len(s)
    BY <2>1, LenProperties
  <2>3. DOMAIN Tail(s) = 1..(Len(s) - 1)
        /\ \A i \in 1..(Len(s) - 1) : Tail(s)[i] = s[i + 1]
    BY <2>1, <2>2, HeadTailProperties, LenProperties
  <2>4. Range(Tail(s)) \subseteq Range(s)
    BY <2>2, <2>3 DEF Range
  <2> QED  BY <2>4 DEF s
<1>5. Seg(p) \in OnTheWay(p)
  BY <1>3, OnTheWayMember
<1>6. ASSUME NEW q \in End PROVE OnTheWay(q)' \subseteq OnTheWay(q)
  <2>1. Range(input'[q].segs) \subseteq Range(input[q].segs)
    BY <1>1, <1>4
  <2> QED  BY <2>1, OnTheWayMember, OnTheWayMemberPrime
<1> QED  BY <1>5, <1>6

\* What Deliver hands to Input was on the wire.
LEMMA DeliverOnTheWay ==
  ASSUME TypeOK, NEW p \in End, NEW d \in net, Deliver(p, d)
  PROVE  \A q \in End : OnTheWay(q)' \subseteq OnTheWay(q)
<1> SUFFICES ASSUME NEW q \in End, NEW seg \in OnTheWay(q)'
             PROVE  seg \in OnTheWay(q)
  OBVIOUS
<1>1. net' = net /\ d.to = p
  BY DEF Deliver
<1>2. input'[p].segs = d.segs /\ \A r \in End \ {p} : input'[r] = input[r]
  BY DEF Deliver, TypeOK
<1>3. CASE q = p
  BY <1>1, <1>2, <1>3, OnTheWayMember, OnTheWayMemberPrime
<1>4. CASE q # p
  BY <1>1, <1>2, <1>4, OnTheWayMember, OnTheWayMemberPrime
<1> QED  BY <1>3, <1>4

----------------------------------------------------------------------------
(* Sequence numbers stay received. *)

\* rcv_nxt only grows, and a received sequence number stays received.
Monotone ==
  \A p \in End : /\ rcv_nxt[p] <= rcv_nxt'[p]
                 /\ \A sn \in Nat : Received(p, sn) => Received(p, sn)'

\* Moving segments to rcv_queue forgets nothing that was received or is in
\* the buffer they are moved from.
LEMMA MoveMonotone ==
  ASSUME TypeOK, NEW p \in End, NEW n \in Nat, NEW q, NEW buf,
         DOMAIN rcv_buf[p] \subseteq DOMAIN buf, DOMAIN buf \subseteq Nat,
         MoveToQueue(p, n, q, buf)
  PROVE  /\ Monotone
         /\ \A sn \in DOMAIN buf : Received(p, sn)'
<1>1. rcv_nxt \in [End -> Nat] /\ DOMAIN rcv_buf = End /\ rcv_nxt[p] \in Nat
  BY DEF TypeOK
<1> DEFINE rest == [sn \in DOMAIN buf \ (rcv_nxt[p] .. rcv_nxt[p] + n - 1) |-> buf[sn]]
<1>2. rcv_nxt'[p] = rcv_nxt[p] + n /\ rcv_buf'[p] = rest
  BY <1>1 DEF MoveToQueue
<1>3. \A r \in End \ {p} : rcv_nxt'[r] = rcv_nxt[r] /\ rcv_buf'[r] = rcv_buf[r]
  BY <1>1 DEF MoveToQueue
<1>4. DOMAIN rest = DOMAIN buf \ (rcv_nxt[p] .. rcv_nxt[p] + n - 1)
  OBVIOUS
<1> HIDE DEF rest
<1>5. ASSUME NEW sn \in DOMAIN buf PROVE Received(p, sn)'
  <2>1. sn \in Nat
    OBVIOUS
  <2>2. CASE sn \in rcv_nxt[p] .. rcv_nxt[p] + n - 1
    BY <1>1, <1>2, <2>1, <2>2 DEF Received
  <2>3. CASE sn \notin rcv_nxt[p] .. rcv_nxt[p] + n - 1
    BY <1>2, <1>4, <2>3 DEF Received
  <2> QED  BY <2>2, <2>3
<1>6. ASSUME NEW r \in End
      PROVE  /\ rcv_nxt[r] <= rcv_nxt'[r]
             /\ \A sn \in Nat : Received(r, sn) => Received(r, sn)'
  <2>1. CASE r = p
    <3>1. rcv_nxt[p] <= rcv_nxt'[p]
      BY <1>1, <1>2
    <3>2. ASSUME NEW sn \in Nat, sn < rcv_nxt[p] PROVE Received(p, sn)'
      BY <1>1, <1>2, <3>2 DEF Received
    <3> QED  BY <1>5, <2>1, <3>1, <3>2 DEF Received
  <2>2. CASE r # p
    <3>1. rcv_nxt[r] \in Nat /\ rcv_nxt'[r] = rcv_nxt[r] /\ rcv_buf'[r] = rcv_buf[r]
      BY <1>1, <1>3, <2>2
    <3> QED  BY <3>1 DEF Received
  <2> QED  BY <2>1, <2>2
<1> QED  BY <1>5, <1>6 DEF Monotone

\* So does a step that leaves rcv_nxt and rcv_buf alone.
LEMMA UnchangedMonotone ==
  ASSUME TypeOK, rcv_nxt' = rcv_nxt, rcv_buf' = rcv_buf
  PROVE  Monotone
<1>1. rcv_nxt \in [End -> Nat]
  BY DEF TypeOK
<1> QED  BY <1>1 DEF Monotone, Received

----------------------------------------------------------------------------
(* The invariant. *)

\* snd_una, the acknowledged marks, whatever una and ACK are on the wire and
\* the acknowledgements still to be sent speak of received segments only.
AckInv ==
  \A p \in End :
    /\ snd_una[p] <= rcv_nxt[Other(p)]
    /\ \A sn \in DOMAIN snd_buf[p] :
         snd_buf[p][sn].acked => Received(Other(p), sn)
    /\ \A seg \in OnTheWay(p) :
         /\ seg.una <= rcv_nxt[Other(p)]
         /\ seg.cmd = "ACK" => Received(Other(p), seg.sn)
    /\ \A i \in DOMAIN acklist[p] : Received(p, acklist[p][i])

\* Every segment put on the wire carries rcv_nxt, an ACK a member of acklist.
HonestWire ==
  \A p \in End : \A seg \in OnTheWay(p)' :
    \/ seg \in OnTheWay(p)
    \/ /\ seg.una = rcv_nxt[Other(p)]
       /\ seg.cmd = "ACK" =>
            \E i \in DOMAIN acklist[Other(p)] : seg.sn = acklist[Other(p)][i]

\* Acknowledgements in acklist stay honest when nothing received is forgotten.
LEMMA AcklistMonotone ==
  ASSUME TypeOK, AckInv, Monotone, NEW q \in End, acklist'[q] = acklist[q]
  PROVE  \A i \in DOMAIN acklist'[q] : Received(q, acklist[q][i])'
<1> SUFFICES ASSUME NEW i \in DOMAIN acklist[q] PROVE Received(q, acklist[q][i])'
  OBVIOUS
<1>1. acklist[q][i] \in Nat
  <2>1. acklist[q] \in Seq(Nat)
    BY DEF TypeOK
  <2> QED  BY <2>1, ElementOfSeq, LenProperties
<1>2. Received(q, acklist[q][i])
  BY DEF AckInv
<1> QED  BY <1>1, <1>2 DEF Monotone, Received

\* What is left to show for a step once its received segments are monotone,
\* its output is honest, and its marks and acklist speak of received segments.
LEMMA AckStep ==
  ASSUME TypeOK, TypeOK', AckInv, Monotone, HonestWire,
         \A p \in End : snd_una'[p] <= rcv_nxt[Other(p)],
         \A p \in End : \A sn \in DOMAIN snd_buf'[p] :
           snd_buf'[p][sn].acked => Received(Other(p), sn),
         \A p \in End : \A i \in DOMAIN acklist'[p] :
           Received(p, acklist[p][i])'
  PROVE  AckInv'
<1> SUFFICES ASSUME NEW p \in End
             PROVE  /\ snd_una'[p] <= rcv_nxt'[Other(p)]
                    /\ \A sn \in DOMAIN snd_buf'[p] :
                         snd_buf'[p][sn].acked => Received(Other(p), sn)'
                    /\ \A seg \in OnTheWay(p)' :
                         /\ seg.una <= rcv_nxt'[Other(p)]
                         /\ seg.cmd = "ACK" => Received(Other(p), seg.sn)'
                    /\ \A i \in DOMAIN acklist'[p] : Received(p, acklist[p][i])'
  BY DEF AckInv
<1> DEFINE o == Other(p)
<1>1. o \in End /\ Other(o) = p
  BY OtherType
<1>2. rcv_nxt[o] \in Nat /\ rcv_nxt'[o] \in Nat /\ snd_una'[p] \in Nat
      /\ DOMAIN snd_buf'[p] \subseteq Nat
  BY <1>1 DEF TypeOK, IsNatMap
<1>3. rcv_nxt[o] <= rcv_nxt'[o]
      /\ \A sn \in Nat : Received(o, sn) => Received(o, sn)'
  BY <1>1 DEF Monotone
<1>4. snd_una'[p] <= rcv_nxt[o]
  OBVIOUS
<1>5. \A sn \in DOMAIN snd_buf'[p] : snd_buf'[p][sn].acked => Received(o, sn)
  OBVIOUS
<1>6. ASSUME NEW seg \in OnTheWay(p)'
      PROVE  seg.una <= rcv_nxt'[o] /\ (seg.cmd = "ACK" => Received(o, seg.sn)')
  <2>1. seg.una \in Nat /\ seg.sn \in Nat
    <3>1. seg \in WireSegments
      BY OnTheWayType
    <3> QED  BY <3>1 DEF WireSegments
  <2>2. CASE seg \in OnTheWay(p)
    <3>1. seg.una <= rcv_nxt[o] /\ (seg.cmd = "ACK" => Received(o, seg.sn))
      BY <2>2 DEF AckInv
    <3> HIDE DEF o
    <3> QED  BY <1>2, <1>3, <2>1, <3>1
  <2>3. CASE seg.una = rcv_nxt[o]
             /\ (seg.cmd = "ACK" => \E i \in DOMAIN acklist[o] : seg.sn = acklist[o][i])
    <3>1. seg.cmd = "ACK" => Received(o, seg.sn)
      BY <1>1, <2>3 DEF AckInv
    <3> HIDE DEF o
    <3> QED  BY <1>2, <1>3, <2>1, <2>3, <3>1
  <2> QED  BY <2>2, <2>3 DEF HonestWire
<1> HIDE DEF o
<1>7. snd_una'[p] <= rcv_nxt'[o]
  BY <1>2, <1>3, <1>4
<1>8. \A sn \in DOMAIN snd_buf'[p] : snd_buf'[p][sn].acked => Received(o, sn)'
  BY <1>2, <1>3, <1>5
<1> QED  BY <1>6, <1>7, <1>8 DEF o

\* What every action needs of flush(false): honest output, no new marks, an
\* empty acklist.
LEMMA FlushHonest ==
  ASSUME TypeOK, NEW p \in End, NEW sq \in Seq(Segment), NEW c \in CCType,
         NEW prompt, Flush(p, sq, c, prompt),
         \A q \in End : Range(input'[q].segs) \subseteq Range(input[q].segs)
  PROVE  /\ HonestWire
         /\ \A q \in End : \A sn \in DOMAIN snd_buf'[q] :
              snd_buf'[q][sn].acked =>
                sn \in DOMAIN snd_buf[q] /\ snd_buf[q][sn].acked
         /\ acklist' = [acklist EXCEPT ![p] = <<>>]
<1>1. PICK n \in 0..Len(sq) :
           /\ IsNatMap(SlideInto(p, sq, n), SentSegment)
           /\ net' \subseteq net \cup
                [to : {Other(p)},
                 segs : Seq(AckOutput(p) \cup ProbeOutput(p)
                              \cup PushOutput(p, SlideInto(p, sq, n)))]
           /\ \E send : snd_buf' = [snd_buf EXCEPT ![p] =
                                      Transmitted(SlideInto(p, sq, n), send)]
           /\ acklist' = [acklist EXCEPT ![p] = <<>>]
  BY FlushEffect
<1> DEFINE buf == SlideInto(p, sq, n)
           W == AckOutput(p) \cup ProbeOutput(p) \cup PushOutput(p, buf)
<1>2. \A w \in W : /\ w.una = rcv_nxt[p]
                   /\ w.cmd = "ACK" => \E i \in DOMAIN acklist[p] : w.sn = acklist[p][i]
  BY DEF AckOutput, ProbeOutput, PushOutput, WireSegment
<1> HIDE DEF buf, W
<1>3. \A q \in End : \A seg \in OnTheWay(q)' :
        seg \in OnTheWay(q) \/ (q = Other(p) /\ seg \in W)
  <2>1. net' \subseteq net \cup [to : {Other(p)}, segs : Seq(W)]
    BY <1>1 DEF W, buf
  <2> QED  BY <2>1, OnTheWayStep
<1>4. HonestWire
  <2>1. Other(Other(p)) = p
    BY OtherType
  <2> QED  BY <1>2, <1>3, <2>1 DEF HonestWire
<1>5. ASSUME NEW q \in End, NEW sn \in DOMAIN snd_buf'[q], snd_buf'[q][sn].acked
      PROVE  sn \in DOMAIN snd_buf[q] /\ snd_buf[q][sn].acked
  <2>1. PICK send : snd_buf' = [snd_buf EXCEPT ![p] = Transmitted(buf, send)]
    BY <1>1 DEF buf
  <2>2. DOMAIN snd_buf = End
    BY DEF TypeOK
  <2>3. CASE q # p
    BY <1>5, <2>1, <2>2, <2>3
  <2>4. CASE q = p
    <3>1. sn \in DOMAIN Transmitted(buf, send) /\ Transmitted(buf, send)[sn].acked
      BY <1>5, <2>1, <2>2, <2>4
    <3>2. sn \in DOMAIN buf
      BY <3>1 DEF Transmitted
    <3>3. buf[sn] \in SentSegment
      BY <1>1, <3>2 DEF IsNatMap, buf
    <3>4. buf[sn].acked
      BY <3>1, <3>2, <3>3 DEF Transmitted, SentSegment
    <3>5. sn \in DOMAIN snd_buf[p] /\ buf[sn] = snd_buf[p][sn]
      BY <3>2, <3>4 DEF buf, SlideInto
    <3> QED  BY <2>4, <3>4, <3>5
  <2> QED  BY <2>3, <2>4
<1> QED  BY <1>1, <1>4, <1>5

\* A flush with nothing else but sending and its own bookkeeping around it.
LEMMA FlushAck ==
  ASSUME TypeOK, TypeOK', AckInv, NEW p \in End, NEW sq \in Seq(Segment),
         NEW c \in CCType, NEW prompt, Flush(p, sq, c, prompt),
         \A q \in End : Range(input'[q].segs) \subseteq Range(input[q].segs),
         UNCHANGED <<snd_una, rcv_nxt, rcv_buf>>
  PROVE  AckInv'
<1>1. /\ HonestWire
      /\ \A q \in End : \A sn \in DOMAIN snd_buf'[q] :
           snd_buf'[q][sn].acked =>
             sn \in DOMAIN snd_buf[q] /\ snd_buf[q][sn].acked
      /\ acklist' = [acklist EXCEPT ![p] = <<>>]
  BY FlushHonest
<1>2. Monotone
  BY UnchangedMonotone
<1>3. \A q \in End : snd_una'[q] <= rcv_nxt[Other(q)]
  BY DEF AckInv
<1>4. \A q \in End : \A sn \in DOMAIN snd_buf'[q] :
        snd_buf'[q][sn].acked => Received(Other(q), sn)
  BY <1>1 DEF AckInv
<1>5. ASSUME NEW q \in End, NEW i \in DOMAIN acklist'[q]
      PROVE  Received(q, acklist[q][i])'
  <2>1. acklist'[p] = <<>> /\ \A r \in End \ {p} : acklist'[r] = acklist[r]
    BY <1>1 DEF TypeOK
  <2>2. q # p
    BY <2>1
  <2>3. acklist'[q] = acklist[q] /\ Received(q, acklist[q][i])
    BY <2>1, <2>2 DEF AckInv
  <2> QED  BY <2>3 DEF Received
<1> QED  BY <1>1, <1>2, <1>3, <1>4, <1>5, AckStep

----------------------------------------------------------------------------
(* Every action preserves the invariant. *)

\* A step that leaves the receivers, the marks and acklist alone and puts
\* nothing on the wire.
LEMMA QuietAck ==
  ASSUME TypeOK, TypeOK', AckInv,
         \A q \in End : OnTheWay(q)' \subseteq OnTheWay(q),
         UNCHANGED <<snd_una, snd_buf, rcv_nxt, rcv_buf, acklist>>
  PROVE  AckInv'
<1>1. Monotone
  BY UnchangedMonotone
<1>2. HonestWire
  BY DEF HonestWire
<1>3. \A q \in End : snd_una'[q] <= rcv_nxt[Other(q)]
  BY DEF AckInv
<1>4. \A q \in End : \A sn \in DOMAIN snd_buf'[q] :
        snd_buf'[q][sn].acked => Received(Other(q), sn)
  BY DEF AckInv
<1>5. \A q \in End : \A i \in DOMAIN acklist'[q] : Received(q, acklist[q][i])'
  BY DEF AckInv, Received
<1> QED  BY <1>1, <1>2, <1>3, <1>4, <1>5, AckStep

\* SendReliable acknowledges nothing by itself.
LEMMA SendReliableAck ==
  ASSUME TypeOK, TypeOK', AckInv, NEW p \in End, NEW m \in Messages,
         SendReliable(p, m)
  PROVE  AckInv'
<1> DEFINE sq == snd_queue[p] \o Fragments(m)
<1>1. UNCHANGED <<snd_una, rcv_nxt, rcv_buf, input>>
  BY DEF SendReliable
<1>2. sq \in Seq(Segment) /\ cc[p] \in CCType
  <2>1. snd_queue[p] \in Seq(Segment) /\ cc[p] \in CCType
    BY DEF TypeOK, CCType
  <2>2. Fragments(m) \in Seq(Segment)
    BY FragmentsType
  <2> QED  BY <2>1, <2>2, ConcatProperties
<1> HIDE DEF sq
<1>3. CASE Flush(p, sq, cc[p], FALSE)
  BY <1>1, <1>2, <1>3, FlushAck
<1>4. CASE UNCHANGED <<snd_buf, acklist, net>>
  <2>1. \A q \in End : OnTheWay(q)' \subseteq OnTheWay(q)
    BY <1>1, <1>4 DEF OnTheWay
  <2> QED  BY <1>1, <1>4, <2>1, QuietAck
<1> QED  BY <1>3, <1>4 DEF SendReliable, sq

\* TickOutgoing only flushes.
LEMMA TickOutgoingAck ==
  ASSUME TypeOK, TypeOK', AckInv, NEW p \in End, NEW prompt,
         TickOutgoing(p, prompt)
  PROVE  AckInv'
<1>1. snd_queue[p] \in Seq(Segment) /\ cc[p] \in CCType
  BY DEF TypeOK, CCType
<1>2. Flush(p, snd_queue[p], cc[p], prompt)
      /\ UNCHANGED <<snd_una, rcv_nxt, rcv_buf, input>>
  BY DEF TickOutgoing
<1> QED  BY <1>1, <1>2, FlushAck

\* A step that moves segments into rcv_queue keeps its acklist honest.
LEMMA RecvAck ==
  ASSUME TypeOK, TypeOK', AckInv, NEW p \in End, Recv(p)
  PROVE  AckInv'
<1>1. PICK n \in 0..RcvWnd[p] : \E q : MoveToQueue(p, n, q, rcv_buf[p])
  BY DEF Recv
<1>2. n \in Nat /\ DOMAIN rcv_buf[p] \subseteq Nat
  BY ConfigAssumption DEF TypeOK, IsNatMap
<1>3. Monotone
  BY <1>1, <1>2, MoveMonotone
<1>4. UNCHANGED <<snd_una, snd_buf, acklist, input, net>>
  BY DEF Recv, sndVars
<1>5. HonestWire
  BY <1>4 DEF HonestWire, OnTheWay
<1>6. \A r \in End : snd_una'[r] <= rcv_nxt[Other(r)]
  BY <1>4 DEF AckInv
<1>7. \A r \in End : \A sn \in DOMAIN snd_buf'[r] :
        snd_buf'[r][sn].acked => Received(Other(r), sn)
  BY <1>4 DEF AckInv
<1>8. \A r \in End : \A i \in DOMAIN acklist'[r] : Received(r, acklist[r][i])'
  BY <1>3, <1>4, AcklistMonotone
<1> QED  BY <1>3, <1>5, <1>6, <1>7, <1>8, AckStep

\* Deliver changes nothing but the datagram Input works on.
LEMMA DeliverAck ==
  ASSUME TypeOK, TypeOK', AckInv, NEW p \in End, NEW d \in net, Deliver(p, d)
  PROVE  AckInv'
<1>1. UNCHANGED <<snd_una, snd_buf, rcv_nxt, rcv_buf, acklist>>
  BY DEF Deliver, sndVars, rcvVars
<1> QED  BY <1>1, DeliverOnTheWay, QuietAck

\* parse_una frees only what the other end holds, for una came from there.
LEMMA InputUna ==
  ASSUME TypeOK, AckInv, NEW p \in End, NEW cmd, InputNext(p, cmd), net' = net
  PROVE  /\ \A q \in End : snd_una'[q] <= rcv_nxt[Other(q)]
         /\ HonestWire
         /\ Seg(p).cmd = "ACK" => Received(Other(p), Seg(p).sn)
<1>1. Seg(p) \in OnTheWay(p) /\ \A q \in End : OnTheWay(q)' \subseteq OnTheWay(q)
  BY InputOnTheWay
<1>2. /\ NewUna(p) = snd_una[p] \/ NewUna(p) <= Seg(p).una
      /\ snd_una' = [snd_una EXCEPT ![p] = NewUna(p)]
      /\ NewUna(p) \in Nat
  BY InputHeaderType
<1>3. Seg(p).una <= rcv_nxt[Other(p)]
      /\ (Seg(p).cmd = "ACK" => Received(Other(p), Seg(p).sn))
  BY <1>1 DEF AckInv
<1>4. Seg(p).una \in Nat /\ rcv_nxt[Other(p)] \in Nat /\ DOMAIN snd_una = End
  <2>1. Seg(p) \in WireSegments
    BY InputHeaderType
  <2>2. Seg(p).una \in Nat
    BY <2>1 DEF WireSegments
  <2> QED  BY <2>2, OtherType DEF TypeOK
<1>5. NewUna(p) <= rcv_nxt[Other(p)]
  <2>1. snd_una[p] <= rcv_nxt[Other(p)]
    BY DEF AckInv
  <2> QED  BY <1>2, <1>3, <1>4, <2>1
<1>6. \A q \in End : snd_una'[q] <= rcv_nxt[Other(q)]
  BY <1>2, <1>4, <1>5 DEF AckInv
<1>7. HonestWire
  BY <1>1 DEF HonestWire
<1> QED  BY <1>3, <1>6, <1>7

\* The marks left in the pruned window were there before.
LEMMA PrunedMarks ==
  ASSUME TypeOK, AckInv, NEW p \in End, NEW cmd, InputNext(p, cmd),
         snd_buf' = [snd_buf EXCEPT ![p] = Pruned(p)]
  PROVE  \A q \in End : \A sn \in DOMAIN snd_buf'[q] :
           snd_buf'[q][sn].acked => Received(Other(q), sn)
<1>1. DOMAIN snd_buf = End
  BY DEF TypeOK
<1>2. \A sn \in DOMAIN Pruned(p) : sn \in DOMAIN snd_buf[p]
                                     /\ Pruned(p)[sn] = snd_buf[p][sn]
  BY InputHeaderType
<1>3. snd_buf'[p] = Pruned(p) /\ \A q \in End \ {p} : snd_buf'[q] = snd_buf[q]
  BY <1>1
<1> QED  BY <1>2, <1>3 DEF AckInv

\* parse_ack marks the segment the ACK names, and parse_fastack none.
LEMMA InputAckAck ==
  ASSUME TypeOK, TypeOK', AckInv, NEW p \in End, InputAck(p)
  PROVE  AckInv'
<1> DEFINE mrk == parse_ack(Pruned(p), NewUna(p), snd_nxt[p], Seg(p).sn)
           fa(older) == parse_fastack(mrk, NewUna(p), snd_nxt[p], Seg(p).sn, older)
<1>1. InputNext(p, "ACK")
  BY DEF InputAck
<1>2. PICK older : snd_buf' = [snd_buf EXCEPT ![p] = fa(older)]
  BY DEF InputAck, NewUna, Pruned, Seg
<1>3. UNCHANGED <<rcv_nxt, rcv_buf, acklist, net>>
  BY DEF InputAck, rcvVars
<1>4. /\ IsNatMap(Pruned(p), SentSegment)
      /\ \A sn \in DOMAIN Pruned(p) : sn \in DOMAIN snd_buf[p]
                                     /\ Pruned(p)[sn] = snd_buf[p][sn]
      /\ Seg(p).cmd = "ACK"
  BY <1>1, InputHeaderType
<1>5. IsNatMap(mrk, SentSegment) /\ DOMAIN mrk = DOMAIN Pruned(p)
  BY <1>4, parse_ackType
<1>6. /\ \A q \in End : snd_una'[q] <= rcv_nxt[Other(q)]
      /\ HonestWire
      /\ Received(Other(p), Seg(p).sn)
  BY <1>1, <1>3, <1>4, InputUna
<1>7. ASSUME NEW sn \in DOMAIN mrk, mrk[sn].acked
      PROVE  Received(Other(p), sn)
  <2>1. sn = Seg(p).sn \/ mrk[sn] = Pruned(p)[sn]
    BY <1>5 DEF parse_ack
  <2>2. CASE mrk[sn] = Pruned(p)[sn]
    <3>1. sn \in DOMAIN snd_buf[p] /\ snd_buf[p][sn].acked
      BY <1>4, <1>5, <1>7, <2>2
    <3> QED  BY <3>1 DEF AckInv
  <2> QED  BY <1>6, <2>1, <2>2
<1> HIDE DEF mrk
<1>8. ASSUME NEW sn \in DOMAIN fa(older), fa(older)[sn].acked
      PROVE  sn \in DOMAIN mrk /\ mrk[sn].acked
  <2>1. sn \in DOMAIN mrk
    BY <1>5, parse_fastackType
  <2>2. mrk[sn] \in SentSegment
    BY <1>5, <2>1 DEF IsNatMap
  <2> QED  BY <1>8, <2>1, <2>2 DEF parse_fastack, SentSegment
<1> HIDE DEF fa
<1>9. ASSUME NEW q \in End, NEW sn \in DOMAIN snd_buf'[q], snd_buf'[q][sn].acked
      PROVE  Received(Other(q), sn)
  <2>1. DOMAIN snd_buf = End
    BY DEF TypeOK
  <2>2. CASE q = p
    BY <1>2, <1>7, <1>8, <1>9, <2>1, <2>2
  <2>3. CASE q # p
    BY <1>2, <1>9, <2>1, <2>3 DEF AckInv
  <2> QED  BY <2>2, <2>3
<1>10. Monotone
  BY <1>3, UnchangedMonotone
<1>11. \A q \in End : \A i \in DOMAIN acklist'[q] : Received(q, acklist[q][i])'
  BY <1>3, <1>10, AcklistMonotone
<1> QED  BY <1>6, <1>9, <1>10, <1>11, AckStep

\* A PUSH is acknowledged only when parse_data has stored it, or had before.
LEMMA InputPushAck ==
  ASSUME TypeOK, TypeOK', AckInv, NEW p \in End, InputPush(p)
  PROVE  AckInv'
<1> DEFINE buf == parse_data(rcv_buf[p], Seg(p))
<1>1. InputNext(p, "PUSH")
  BY DEF InputPush
<1>2. PICK sn \in Nat : sn = Seg(p).sn
  <2>1. Seg(p) \in WireSegments
    BY <1>1, InputHeaderType
  <2> QED  BY <2>1 DEF WireSegments
<1>3. DOMAIN rcv_buf[p] \subseteq Nat /\ acklist[p] \in Seq(Nat)
      /\ rcv_nxt[p] \in Nat /\ RcvWnd[p] \in Nat
  BY ConfigAssumption DEF TypeOK, IsNatMap
<1>4. DOMAIN buf = DOMAIN rcv_buf[p] \cup {sn}
  BY <1>2 DEF parse_data
<1>5. /\ snd_buf' = [snd_buf EXCEPT ![p] = Pruned(p)]
      /\ acklist' = [acklist EXCEPT ![p] =
           IF BelowWindowEnd(p, sn) THEN Append(@, sn) ELSE @]
      /\ net' = net
  BY <1>2 DEF InputPush, Pruned, Seg, TypeOK
<1>6. \/ /\ BelowWindowEnd(p, sn) /\ NotYetReceived(p, sn)
         /\ \E n \in 0..RcvWnd[p] : MoveToQueue(p, n, rcv_queue[p], buf)
      \/ /\ ~(BelowWindowEnd(p, sn) /\ NotYetReceived(p, sn))
         /\ UNCHANGED <<rcv_nxt, rcv_buf, rcv_queue>>
  BY <1>2 DEF InputPush, Seg
<1> HIDE DEF buf
<1>7. Monotone /\ (BelowWindowEnd(p, sn) => Received(p, sn)')
  <2>1. CASE \E n \in 0..RcvWnd[p] : MoveToQueue(p, n, rcv_queue[p], buf)
    <3>1. PICK n \in 0..RcvWnd[p] : MoveToQueue(p, n, rcv_queue[p], buf)
      BY <2>1
    <3>2. n \in Nat
      BY <1>3
    <3> QED  BY <1>3, <1>4, <3>1, <3>2, MoveMonotone
  <2>2. CASE /\ ~(BelowWindowEnd(p, sn) /\ NotYetReceived(p, sn))
             /\ UNCHANGED <<rcv_nxt, rcv_buf, rcv_queue>>
    <3>1. Monotone
      BY <2>2, UnchangedMonotone
    <3>2. BelowWindowEnd(p, sn) => sn < rcv_nxt[p]
      BY <1>3, <2>2 DEF NotYetReceived
    <3> QED  BY <2>2, <3>1, <3>2 DEF Received
  <2> QED  BY <1>6, <2>1, <2>2
<1>8. ASSUME NEW q \in End, NEW i \in DOMAIN acklist'[q]
      PROVE  Received(q, acklist[q][i])'
  <2>1. DOMAIN acklist = End
    BY DEF TypeOK
  <2>2. CASE q # p \/ ~BelowWindowEnd(p, sn)
    <3>1. acklist'[q] = acklist[q]
      BY <1>5, <2>1, <2>2
    <3> QED  BY <1>7, <3>1, AcklistMonotone
  <2>3. CASE q = p /\ BelowWindowEnd(p, sn)
    <3>1. acklist'[q] = Append(acklist[p], sn)
      BY <1>5, <2>1, <2>3
    <3>2. CASE acklist'[q][i] = sn
      BY <1>7, <2>3, <3>2 DEF Received
    <3>3. CASE i \in DOMAIN acklist[p] /\ acklist'[q][i] = acklist[p][i]
      <4>1. Received(p, acklist[p][i]) /\ acklist[p][i] \in Nat
        <5>1. acklist[p][i] \in Nat
          BY <1>3, <3>3, ElementOfSeq, LenProperties
        <5> QED  BY <3>3, <5>1 DEF AckInv
      <4> QED  BY <1>7, <2>3, <3>3, <4>1 DEF Monotone, Received
    <3>4. \/ acklist'[q][i] = sn
          \/ i \in DOMAIN acklist[p] /\ acklist'[q][i] = acklist[p][i]
      <4>1. i \in 1..(Len(acklist[p]) + 1) /\ Len(acklist[p]) \in Nat
        BY <1>3, <3>1, AppendProperties, LenProperties
      <4>2. DOMAIN acklist[p] = 1..Len(acklist[p])
        BY <1>3, LenProperties
      <4> QED  BY <1>3, <3>1, <4>1, <4>2, AppendProperties
    <3> QED  BY <3>2, <3>3, <3>4
  <2> QED  BY <2>2, <2>3
<1>9. /\ \A q \in End : snd_una'[q] <= rcv_nxt[Other(q)]
      /\ HonestWire
  BY <1>1, <1>5, InputUna
<1>10. \A q \in End : \A s \in DOMAIN snd_buf'[q] :
         snd_buf'[q][s].acked => Received(Other(q), s)
  BY <1>1, <1>5, PrunedMarks
<1> QED  BY <1>7, <1>8, <1>9, <1>10, AckStep

\* WASK and WINS carry una like any other segment, and mark nothing.
LEMMA InputProbeAck ==
  ASSUME TypeOK, TypeOK', AckInv, NEW p \in End, InputProbe(p)
  PROVE  AckInv'
<1>1. PICK cmd : InputNext(p, cmd)
  BY DEF InputProbe
<1>2. /\ snd_buf' = [snd_buf EXCEPT ![p] = Pruned(p)]
      /\ UNCHANGED <<rcv_nxt, rcv_buf, acklist, net>>
  BY DEF InputProbe, Pruned, Seg, TypeOK
<1>3. /\ \A q \in End : snd_una'[q] <= rcv_nxt[Other(q)]
      /\ HonestWire
  BY <1>1, <1>2, InputUna
<1>4. \A q \in End : \A sn \in DOMAIN snd_buf'[q] :
        snd_buf'[q][sn].acked => Received(Other(q), sn)
  BY <1>1, <1>2, PrunedMarks
<1>5. Monotone
  BY <1>2, UnchangedMonotone
<1>6. \A q \in End : \A i \in DOMAIN acklist'[q] : Received(q, acklist[q][i])'
  BY <1>2, <1>5, AcklistMonotone
<1> QED  BY <1>3, <1>4, <1>5, <1>6, AckStep

\* flush(true) sends acknowledgements from acklist.
LEMMA FlushAcksHonest ==
  ASSUME TypeOK, NEW p \in End, NEW prompt, FlushAcks(p, prompt),
         \A q \in End : Range(input'[q].segs) \subseteq Range(input[q].segs)
  PROVE  HonestWire
<1>1. PICK idx \in Increasing(AckIndices(p)) :
        Transmit(p, AckSegments(p, idx), prompt)
  BY DEF FlushAcks
<1>2. AckSegments(p, idx) \in Seq(AckOutput(p))
  BY AckSegmentsType
<1>3. net' \subseteq net \cup [to : {Other(p)}, segs : Seq(AckOutput(p))]
  BY <1>1, <1>2, TransmitType
<1>4. \A w \in AckOutput(p) :
        w.una = rcv_nxt[p] /\ \E i \in DOMAIN acklist[p] : w.sn = acklist[p][i]
  BY DEF AckOutput, WireSegment
<1> DEFINE W == AckOutput(p)
<1> HIDE DEF W
<1>5. \A q \in End : \A seg \in OnTheWay(q)' :
        seg \in OnTheWay(q) \/ (q = Other(p) /\ seg \in W)
  BY <1>3, OnTheWayStep DEF W
<1>6. Other(Other(p)) = p
  BY OtherType
<1> QED  BY <1>4, <1>5, <1>6 DEF HonestWire, W

\* The tail of Input flushes, one way or the other.
LEMMA InputEndAck ==
  ASSUME TypeOK, TypeOK', AckInv, NEW p \in End, NEW prompt, InputEnd(p, prompt)
  PROVE  AckInv'
<1> DEFINE c == CwndAfterInput(cc[p], input[p].una0, snd_una[p], rmt_wnd[p])
<1>1. c \in CCType /\ snd_queue[p] \in Seq(Segment)
  <2>1. cc[p] \in CCType /\ input[p].una0 \in Nat /\ snd_una[p] \in Nat
        /\ rmt_wnd[p] \in Nat /\ snd_queue[p] \in Seq(Segment)
    BY DEF TypeOK, CCType
  <2> QED  BY <2>1, CwndAfterInputType
<1>2. UNCHANGED <<snd_una, rcv_nxt, rcv_buf>>
  BY DEF InputEnd
<1>3. \A q \in End : Range(input'[q].segs) \subseteq Range(input[q].segs)
  <2>1. input'[p].segs = <<>> /\ \A q \in End \ {p} : input'[q] = input[q]
    BY DEF InputEnd, NoInput, TypeOK
  <2>2. Range(<<>>) = {}
    BY DEF Range
  <2> QED  BY <2>1, <2>2
<1> HIDE DEF c
<1>4. CASE Flush(p, snd_queue[p], c, prompt)
  BY <1>1, <1>2, <1>3, <1>4, FlushAck
<1>5. CASE FlushAcks(p, prompt) /\ snd_buf' = snd_buf
  <2>1. HonestWire
    BY <1>3, <1>5, FlushAcksHonest
  <2>2. Monotone
    BY <1>2, UnchangedMonotone
  <2>3. \A q \in End : snd_una'[q] <= rcv_nxt[Other(q)]
    BY <1>2 DEF AckInv
  <2>4. \A q \in End : \A sn \in DOMAIN snd_buf'[q] :
          snd_buf'[q][sn].acked => Received(Other(q), sn)
    BY <1>5 DEF AckInv
  <2>5. ASSUME NEW q \in End, NEW i \in DOMAIN acklist'[q]
        PROVE  Received(q, acklist[q][i])'
    <3>1. acklist'[p] = <<>> /\ \A r \in End \ {p} : acklist'[r] = acklist[r]
      BY <1>5 DEF FlushAcks, TypeOK
    <3>2. q # p
      BY <3>1
    <3>3. acklist'[q] = acklist[q]
      BY <3>1, <3>2
    <3> QED  BY <2>2, <3>3, AcklistMonotone
  <2> QED  BY <2>1, <2>2, <2>3, <2>4, <2>5, AckStep
<1>6. CASE UNCHANGED <<acklist, net, snd_buf>>
  <2>1. \A q \in End : OnTheWay(q)' \subseteq OnTheWay(q)
    BY <1>3, <1>6, OnTheWayMember, OnTheWayMemberPrime
  <2> QED  BY <1>2, <1>6, <2>1, QuietAck
<1> QED  BY <1>4, <1>5, <1>6 DEF InputEnd, c

\* Nothing is acknowledged at first.
LEMMA InitAck == Init => AckInv
<1> SUFFICES ASSUME Init PROVE AckInv
  OBVIOUS
<1>1. \A p \in End : /\ snd_una[p] = 0 /\ rcv_nxt[p] = 0
                    /\ snd_buf[p] = <<>> /\ acklist[p] = <<>>
                    /\ input[p].segs = <<>>
  BY DEF Init, NoInput
<1>2. net = {} /\ Range(<<>>) = {}
  BY DEF Init, Range
<1>3. \A p \in End : OnTheWay(p) = {}
  BY <1>1, <1>2 DEF OnTheWay
<1> QED  BY <1>1, <1>3, OtherType DEF AckInv

\* The invariant is inductive, given the type invariant.
LEMMA NextAck == TypeOK /\ TypeOK' /\ AckInv /\ [Next]_vars => AckInv'
<1> SUFFICES ASSUME TypeOK, TypeOK', AckInv, [Next]_vars PROVE AckInv'
  OBVIOUS
<1>1. CASE UNCHANGED vars \/ \E p \in End : HandleDeadLink(p)
  <2>1. UNCHANGED <<snd_una, snd_buf, rcv_nxt, rcv_buf, acklist, input, net>>
    BY <1>1 DEF vars, sndVars, rcvVars, HandleDeadLink
  <2> QED  BY <2>1 DEF AckInv, Received, OnTheWay
<1>2. CASE Next
  BY <1>1, <1>2, SendReliableAck, TickOutgoingAck, RecvAck, DeliverAck, InputAckAck,
     InputPushAck, InputProbeAck, InputEndAck
  DEF Next
<1> QED  BY <1>1, <1>2

\* parse_una and parse_ack recycle only what the other end already holds,
\* however late, repeated or overtaken the acknowledgements are.
THEOREM NeverFreedEarly == Spec => []NothingFreedEarly
<1>1. Init => AckInv
  BY InitAck
<1>2. TypeOK /\ TypeOK' /\ AckInv /\ [Next]_vars => AckInv'
  BY NextAck
<1>3. TypeOK /\ AckInv => NothingFreedEarly
  <2> SUFFICES ASSUME TypeOK, AckInv, NEW p \in End
               PROVE  /\ \A sn \in 0..(snd_una[p] - 1) : Received(Other(p), sn)
                      /\ \A sn \in DOMAIN snd_buf[p] :
                           snd_buf[p][sn].acked => Received(Other(p), sn)
    BY DEF NothingFreedEarly
  <2>1. snd_una[p] \in Nat /\ rcv_nxt[Other(p)] \in Nat
    BY OtherType DEF TypeOK
  <2>2. snd_una[p] <= rcv_nxt[Other(p)]
    BY DEF AckInv
  <2>3. \A sn \in 0..(snd_una[p] - 1) : Received(Other(p), sn)
    BY <2>1, <2>2 DEF Received
  <2> QED  BY <2>3 DEF AckInv
<1> QED  BY <1>1, <1>2, <1>3, TypeCorrect, PTL DEF Spec

----------------------------------------------------------------------------
(* No step back. *)

\* A PUSH that enters the network is new or unacknowledged at its sender.
FreshPush ==
  \A p \in End : \A d \in net' \ net : \A seg \in Range(d.segs) :
    d.to = Other(p) /\ seg.cmd = "PUSH" /\ seg.sn < snd_nxt[p] =>
      seg.sn \in DOMAIN snd_buf[p] /\ ~snd_buf[p][seg.sn].acked

\* flush(false) skips the segments marked acknowledged.
LEMMA FlushFresh ==
  ASSUME TypeOK, NEW p \in End, NEW sq \in Seq(Segment), NEW c \in CCType,
         NEW prompt, Flush(p, sq, c, prompt)
  PROVE  FreshPush
<1>1. PICK n \in 0..Len(sq) :
           net' \subseteq net \cup
                [to : {Other(p)},
                 segs : Seq(AckOutput(p) \cup ProbeOutput(p)
                              \cup PushOutput(p, SlideInto(p, sq, n)))]
  BY FlushEffect
<1> DEFINE buf == SlideInto(p, sq, n)
           W == AckOutput(p) \cup ProbeOutput(p) \cup PushOutput(p, buf)
<1>2. \A w \in W : w.cmd = "PUSH" => w.sn \in Unacked(buf)
  BY DEF AckOutput, ProbeOutput, PushOutput, WireSegment
<1>3. ASSUME NEW sn \in Unacked(buf), sn < snd_nxt[p]
      PROVE  sn \in DOMAIN snd_buf[p] /\ ~snd_buf[p][sn].acked
  <2>1. snd_nxt[p] \in Nat /\ DOMAIN snd_buf[p] \subseteq Nat /\ n \in Nat
    BY LenProperties DEF TypeOK, IsNatMap
  <2>2. sn \in DOMAIN buf /\ ~buf[sn].acked
    BY DEF Unacked
  <2>3. DOMAIN buf = DOMAIN snd_buf[p] \cup (snd_nxt[p] .. snd_nxt[p] + n - 1)
    BY DEF SlideInto
  <2>4. sn \in DOMAIN snd_buf[p]
    BY <1>3, <2>1, <2>2, <2>3
  <2>5. buf[sn] = snd_buf[p][sn]
    BY <2>2, <2>4 DEF SlideInto
  <2> QED  BY <2>2, <2>4, <2>5
<1> HIDE DEF buf
<1>4. ASSUME NEW q \in End, NEW d \in net' \ net, NEW seg \in Range(d.segs),
             d.to = Other(q), seg.cmd = "PUSH", seg.sn < snd_nxt[q]
      PROVE  seg.sn \in DOMAIN snd_buf[q] /\ ~snd_buf[q][seg.sn].acked
  <2> HIDE DEF W
  <2>1. d \in [to : {Other(p)}, segs : Seq(W)]
    BY <1>1 DEF W, buf
  <2>2. d.to = Other(p) /\ d.segs \in Seq(W)
    BY <2>1
  <2>3. seg \in W
    BY <2>2, RangeOfSeq
  <2>4. q = p
    BY <1>4, <2>2, OtherType
  <2> QED  BY <1>2, <1>3, <1>4, <2>3, <2>4 DEF W
<1> QED  BY <1>4 DEF FreshPush

\* flush(true) sends no PUSH at all.
LEMMA FlushAcksFresh ==
  ASSUME TypeOK, NEW p \in End, NEW prompt, FlushAcks(p, prompt)
  PROVE  FreshPush
<1>1. PICK idx \in Increasing(AckIndices(p)) :
        Transmit(p, AckSegments(p, idx), prompt)
  BY DEF FlushAcks
<1>2. AckSegments(p, idx) \in Seq(AckOutput(p))
  BY AckSegmentsType
<1>3. net' \subseteq net \cup [to : {Other(p)}, segs : Seq(AckOutput(p))]
  BY <1>1, <1>2, TransmitType
<1>4. \A w \in AckOutput(p) : w.cmd # "PUSH"
  BY DEF AckOutput, WireSegment
<1> DEFINE W == AckOutput(p)
<1> HIDE DEF W
<1>5. ASSUME NEW d \in net' \ net, NEW seg \in Range(d.segs)
      PROVE  seg.cmd # "PUSH"
  <2>1. d \in [to : {Other(p)}, segs : Seq(W)]
    BY <1>3 DEF W
  <2>2. seg \in W
    BY <2>1, RangeOfSeq
  <2> QED  BY <1>4, <2>2 DEF W
<1> QED  BY <1>5 DEF FreshPush

\* An Input step moves snd_una up, if at all, and sends nothing.
LEMMA InputForward ==
  ASSUME TypeOK, NEW p \in End, NEW cmd, InputNext(p, cmd), net' = net
  PROVE  (\A q \in End : snd_una'[q] >= snd_una[q]) /\ FreshPush
<1>1. /\ snd_una' = [snd_una EXCEPT ![p] = NewUna(p)]
      /\ snd_una[p] <= NewUna(p) /\ NewUna(p) \in Nat
  BY InputHeaderType
<1>2. snd_una \in [End -> Nat]
  BY DEF TypeOK
<1> QED  BY <1>1, <1>2 DEF FreshPush

\* Moving segments into rcv_queue moves rcv_nxt up.
LEMMA MoveForward ==
  ASSUME TypeOK, NEW p \in End, NEW n \in 0..RcvWnd[p], NEW q, NEW buf,
         MoveToQueue(p, n, q, buf)
  PROVE  \A r \in End : rcv_nxt'[r] >= rcv_nxt[r]
<1>1. rcv_nxt \in [End -> Nat] /\ rcv_nxt[p] \in Nat /\ n \in Nat
  BY ConfigAssumption DEF TypeOK
<1>2. rcv_nxt' = [rcv_nxt EXCEPT ![p] = rcv_nxt[p] + n]
  BY DEF MoveToQueue
<1> QED  BY <1>1, <1>2

\* Every action moves forward.
LEMMA NextForward ==
  ASSUME TypeOK, Next
  PROVE  /\ \A p \in End : snd_una'[p] >= snd_una[p] /\ rcv_nxt'[p] >= rcv_nxt[p]
         /\ FreshPush
<1> DEFINE Una == \A q \in End : snd_una'[q] >= snd_una[q]
           Nxt == \A q \in End : rcv_nxt'[q] >= rcv_nxt[q]
<1>1. PICK p \in End :
        \/ \E m \in Messages : SendReliable(p, m)
        \/ TickOutgoing(p, FALSE)
        \/ Recv(p)
        \/ HandleDeadLink(p)
        \/ \E d \in net : Deliver(p, d)
        \/ InputAck(p)
        \/ InputPush(p)
        \/ InputProbe(p)
        \/ InputEnd(p, FALSE)
  BY DEF Next
<1>2. (snd_una' = snd_una => Una) /\ (rcv_nxt' = rcv_nxt => Nxt)
  <2>1. \A q \in End : snd_una[q] \in Nat /\ rcv_nxt[q] \in Nat
    BY DEF TypeOK
  <2> QED  BY <2>1
<1>3. net' = net => FreshPush
  BY DEF FreshPush
<1>4. snd_queue[p] \in Seq(Segment) /\ cc[p] \in CCType
  BY DEF TypeOK, CCType
<1> HIDE DEF Una, Nxt
<1>5. ASSUME NEW m \in Messages, SendReliable(p, m) PROVE Una /\ Nxt /\ FreshPush
  <2> DEFINE sq == snd_queue[p] \o Fragments(m)
  <2>1. sq \in Seq(Segment)
    BY <1>4, FragmentsType, ConcatProperties
  <2> HIDE DEF sq
  <2>2. Flush(p, sq, cc[p], FALSE) \/ net' = net
    BY <1>5 DEF SendReliable, sq
  <2>3. FreshPush
    BY <1>3, <1>4, <2>1, <2>2, FlushFresh
  <2> QED  BY <1>2, <1>5, <2>3 DEF SendReliable
<1>6. ASSUME TickOutgoing(p, FALSE) PROVE Una /\ Nxt /\ FreshPush
  BY <1>2, <1>4, <1>6, FlushFresh DEF TickOutgoing
<1>7. ASSUME Recv(p) PROVE Una /\ Nxt /\ FreshPush
  <2>1. Nxt
    BY <1>7, MoveForward DEF Recv, Nxt
  <2> QED  BY <1>2, <1>3, <1>7, <2>1 DEF Recv, sndVars
<1>8. ASSUME NEW d \in net, Deliver(p, d) PROVE Una /\ Nxt /\ FreshPush
  BY <1>2, <1>3, <1>8 DEF Deliver, sndVars, rcvVars
<1>9. ASSUME InputAck(p) PROVE Una /\ Nxt /\ FreshPush
  BY <1>2, <1>9, InputForward DEF InputAck, rcvVars, Una
<1>10. ASSUME InputPush(p) PROVE Una /\ Nxt /\ FreshPush
  <2>1. Nxt
    BY <1>2, <1>10, MoveForward DEF InputPush, Nxt
  <2> QED  BY <1>10, <2>1, InputForward DEF InputPush, Una
<1>11. ASSUME InputProbe(p) PROVE Una /\ Nxt /\ FreshPush
  BY <1>2, <1>11, InputForward DEF InputProbe, Una
<1>12. ASSUME InputEnd(p, FALSE) PROVE Una /\ Nxt /\ FreshPush
  <2> DEFINE c == CwndAfterInput(cc[p], input[p].una0, snd_una[p], rmt_wnd[p])
  <2>1. c \in CCType
    <3>1. input[p].una0 \in Nat /\ snd_una[p] \in Nat /\ rmt_wnd[p] \in Nat
      BY DEF TypeOK
    <3> QED  BY <1>4, <3>1, CwndAfterInputType
  <2> HIDE DEF c
  <2>2. Flush(p, snd_queue[p], c, FALSE) \/ FlushAcks(p, FALSE) \/ net' = net
    BY <1>12 DEF InputEnd, c
  <2>3. FreshPush
    BY <1>3, <1>4, <2>1, <2>2, FlushFresh, FlushAcksFresh
  <2> QED  BY <1>2, <1>12, <2>3 DEF InputEnd
<1>13. ASSUME HandleDeadLink(p) PROVE Una /\ Nxt /\ FreshPush
  BY <1>2, <1>3, <1>13 DEF HandleDeadLink, rcvVars
<1>14. Una /\ Nxt /\ FreshPush
  BY <1>1, <1>5, <1>6, <1>7, <1>8, <1>9, <1>10, <1>11, <1>12, <1>13
<1> QED  BY <1>14 DEF Una, Nxt

\* No step sends a segment that an ACK or una had already confirmed, and none
\* moves snd_una or rcv_nxt back.
THEOREM NeverStepsBack == Spec => NoStepBack
<1>1. TypeOK /\ [Next]_vars =>
        [\A p \in End :
           /\ snd_una'[p] >= snd_una[p] /\ rcv_nxt'[p] >= rcv_nxt[p]
           /\ \A d \in net' \ net : \A seg \in Range(d.segs) :
                d.to = Other(p) /\ seg.cmd = "PUSH" /\ seg.sn < snd_nxt[p] =>
                  seg.sn \in DOMAIN snd_buf[p] /\ ~snd_buf[p][seg.sn].acked]_vars
  BY NextForward DEF FreshPush
<1> QED  BY <1>1, TypeCorrect, PTL DEF Spec, NoStepBack

----------------------------------------------------------------------------
(* The windows hold. *)

\* The backlog of SendReliable is the send window and the queue behind it.
LEMMA WaitSndIs ==
  ASSUME TypeOK, NEW p \in End
  PROVE  WaitSnd(p) = (snd_nxt[p] - snd_una[p]) + Len(snd_queue[p])
<1>1. snd_una[p] \in Nat /\ snd_nxt[p] \in Nat /\ snd_una[p] <= snd_nxt[p]
      /\ DOMAIN snd_buf[p] = snd_una[p] .. (snd_nxt[p] - 1)
  BY DEF TypeOK
<1>2. \A a, b \in Nat : a <= b => Cardinality(a..(b - 1)) = b - a
  <2> SUFFICES ASSUME NEW a \in Nat, NEW b \in Nat, a <= b
               PROVE  Cardinality(a..(b - 1)) = b - a
    OBVIOUS
  <2>1. a \in Int /\ b - 1 \in Int
    OBVIOUS
  <2>2. Cardinality(a..(b - 1)) = IF a > b - 1 THEN 0 ELSE (b - 1) - a + 1
    BY <2>1, FS_Interval
  <2> QED  BY <2>2
<1>3. Cardinality(DOMAIN snd_buf[p]) = snd_nxt[p] - snd_una[p]
  BY <1>1, <1>2
<1> QED  BY <1>3 DEF WaitSnd

\* No window on its way to p, and none p holds, exceeds the receiver's.
Advertised(p) ==
  /\ \A seg \in OnTheWay(p) : seg.wnd <= RcvWnd[Other(p)]
  /\ IKCP_WND_RCV <= RcvWnd[Other(p)] => rmt_wnd[p] <= RcvWnd[Other(p)]

\* What p has in flight fits its own window and the receiver's, and what
\* waits behind it is at most the last message accepted.
SendWindow(p) ==
  /\ snd_nxt[p] - snd_una[p] <= SndWnd[p]
  /\ (snd_nxt[p] - snd_una[p]) + Len(snd_queue[p]) <= SndWnd[p] + RcvWnd[p] - 1
  /\ IKCP_WND_RCV <= RcvWnd[Other(p)] =>
       snd_nxt[p] <= rcv_nxt[Other(p)] + RcvWnd[Other(p)]

\* rcv_buf holds sequence numbers of the receive window only, rcv_queue no
\* more than the window, and what could move from one to the other has moved.
ReceiveWindow(p) ==
  /\ DOMAIN rcv_buf[p] \subseteq rcv_nxt[p] .. rcv_nxt[p] + RcvWnd[p] - 1
  /\ Len(rcv_queue[p]) <= RcvWnd[p]
  /\ rcv_nxt[p] \in DOMAIN rcv_buf[p] => Len(rcv_queue[p]) >= RcvWnd[p]

WindowInv ==
  \A p \in End : Advertised(p) /\ SendWindow(p) /\ ReceiveWindow(p)

\* The numbers the windows are made of.
LEMMA WindowTypes ==
  ASSUME TypeOK, NEW p \in End
  PROVE  /\ SndWnd[p] \in Nat \ {0} /\ RcvWnd[p] \in Nat \ {0}
         /\ snd_una[p] \in Nat /\ snd_nxt[p] \in Nat /\ rcv_nxt[p] \in Nat
         /\ rmt_wnd[p] \in Nat /\ snd_una[p] <= snd_nxt[p]
         /\ snd_queue[p] \in Seq(Segment) /\ Len(snd_queue[p]) \in Nat
         /\ rcv_queue[p] \in Seq(Segment) /\ Len(rcv_queue[p]) \in Nat
         /\ DOMAIN rcv_buf[p] \subseteq Nat /\ IKCP_WND_RCV \in Nat
         /\ cc[p] \in CCType
<1>1. snd_queue[p] \in Seq(Segment) /\ rcv_queue[p] \in Seq(Segment)
  BY DEF TypeOK
<1>2. Len(snd_queue[p]) \in Nat /\ Len(rcv_queue[p]) \in Nat
  BY <1>1, LenProperties
<1> QED  BY <1>1, <1>2, ConfigAssumption DEF TypeOK, IsNatMap, CCType

\* Whatever a flush puts on the wire advertises no more than the window.
LEMMA OutputAdvertised ==
  ASSUME TypeOK, NEW p \in End, NEW buf
  PROVE  \A w \in AckOutput(p) \cup ProbeOutput(p) \cup PushOutput(p, buf) :
           w.wnd <= RcvWnd[p]
<1>1. wnd_unused(p) \in 0..RcvWnd[p] /\ RcvWnd[p] \in Nat
  BY wnd_unusedType, WindowTypes
<1>2. \A w \in AckOutput(p) \cup ProbeOutput(p) \cup PushOutput(p, buf) :
        w.wnd = wnd_unused(p)
  BY DEF AckOutput, ProbeOutput, PushOutput, WireSegment
<1> QED  BY <1>1, <1>2

\* A step that only sends what advertises its own window keeps windows true.
LEMMA AdvertisedStep ==
  ASSUME TypeOK, WindowInv, NEW p \in End, NEW W,
         \A w \in W : w.wnd <= RcvWnd[p],
         net' \subseteq net \cup [to : {Other(p)}, segs : Seq(W)],
         \A q \in End : Range(input'[q].segs) \subseteq Range(input[q].segs),
         rmt_wnd' = rmt_wnd
  PROVE  \A q \in End : Advertised(q)'
<1>1. \A q \in End : \A seg \in OnTheWay(q)' :
        seg \in OnTheWay(q) \/ (q = Other(p) /\ seg \in W)
  BY OnTheWayStep
<1>2. Other(Other(p)) = p
  BY OtherType
<1> QED  BY <1>1, <1>2 DEF WindowInv, Advertised

\* Of what flush(false) does, the part that concerns the windows.
LEMMA FlushSlides ==
  ASSUME TypeOK, NEW p \in End, NEW sq \in Seq(Segment), NEW c \in CCType,
         NEW prompt, Flush(p, sq, c, prompt)
  PROVE  \E n \in 0..Len(sq) :
           /\ n = 0 \/ snd_nxt[p] + n <= snd_una[p] + EffectiveWindow(p, c)
           /\ net' \subseteq net \cup
                [to : {Other(p)},
                 segs : Seq(AckOutput(p) \cup ProbeOutput(p)
                              \cup PushOutput(p, SlideInto(p, sq, n)))]
           /\ snd_queue' = [snd_queue EXCEPT ![p] = SubSeq(sq, n + 1, Len(sq))]
           /\ snd_nxt' = [snd_nxt EXCEPT ![p] = @ + n]
<1>1. PICK n \in 0..Len(sq) :
           /\ n = 0 \/ snd_nxt[p] + n <= snd_una[p] + EffectiveWindow(p, c)
           /\ IsNatMap(SlideInto(p, sq, n), SentSegment)
           /\ net' \subseteq net \cup
                [to : {Other(p)},
                 segs : Seq(AckOutput(p) \cup ProbeOutput(p)
                              \cup PushOutput(p, SlideInto(p, sq, n)))]
           /\ snd_queue' = [snd_queue EXCEPT ![p] = SubSeq(sq, n + 1, Len(sq))]
           /\ \E send : snd_buf' = [snd_buf EXCEPT ![p] =
                                      Transmitted(SlideInto(p, sq, n), send)]
           /\ snd_nxt' = [snd_nxt EXCEPT ![p] = @ + n]
           /\ acklist' = [acklist EXCEPT ![p] = <<>>]
           /\ probe' \in [End -> BOOLEAN]
           /\ probe_wait' \in [End -> BOOLEAN]
           /\ state' \in [End -> BOOLEAN]
           /\ cc' \in [End -> CCType]
  BY FlushEffect
<1> QED  BY <1>1, Zenon

\* The arithmetic of a slide of n segments out of len, within win of una.
LEMMA SlideArithmetic ==
  ASSUME NEW una \in Nat, NEW nxt \in Nat, NEW n \in Nat, NEW len \in Nat,
         NEW win \in Nat, NEW snd \in Nat, NEW rcv \in Nat,
         n = 0 \/ nxt + n <= una + win,
         win <= snd, nxt - una <= snd, (nxt - una) + len <= snd + rcv - 1
  PROVE  /\ (nxt + n) - una <= snd
         /\ ((nxt + n) - una) + (len - n) <= snd + rcv - 1
         /\ \A rn, wnd, rmt \in Nat :
              win <= rmt /\ rmt <= wnd /\ una <= rn /\ nxt <= rn + wnd => nxt + n <= rn + wnd
  OBVIOUS

\* flush(false) fills the windows and does not overfill them.
LEMMA FlushWindow ==
  ASSUME TypeOK, AckInv, WindowInv, NEW p \in End, NEW sq \in Seq(Segment),
         NEW c \in CCType, NEW prompt, Flush(p, sq, c, prompt),
         (snd_nxt[p] - snd_una[p]) + Len(sq) <= SndWnd[p] + RcvWnd[p] - 1,
         \A q \in End : Range(input'[q].segs) \subseteq Range(input[q].segs),
         UNCHANGED <<snd_una, rmt_wnd, rcv_nxt, rcv_buf, rcv_queue>>
  PROVE  WindowInv'
<1>1. PICK n \in 0..Len(sq) :
           /\ n = 0 \/ snd_nxt[p] + n <= snd_una[p] + EffectiveWindow(p, c)
           /\ net' \subseteq net \cup
                [to : {Other(p)},
                 segs : Seq(AckOutput(p) \cup ProbeOutput(p)
                              \cup PushOutput(p, SlideInto(p, sq, n)))]
           /\ snd_queue' = [snd_queue EXCEPT ![p] = SubSeq(sq, n + 1, Len(sq))]
           /\ snd_nxt' = [snd_nxt EXCEPT ![p] = @ + n]
  BY FlushSlides
<1> DEFINE W == AckOutput(p) \cup ProbeOutput(p) \cup PushOutput(p, SlideInto(p, sq, n))
           win == EffectiveWindow(p, c)
           o == Other(p)
<1>2. \A q \in End : Advertised(q)'
  <2>1. \A w \in W : w.wnd <= RcvWnd[p]
    BY OutputAdvertised
  <2> QED  BY <1>1, <2>1, AdvertisedStep
<1>3. \A q \in End : ReceiveWindow(q)'
  BY DEF WindowInv, ReceiveWindow
<1>4. o \in End /\ Len(sq) \in Nat /\ n \in Nat
  BY OtherType, LenProperties
<1>5. /\ SndWnd[p] \in Nat /\ RcvWnd[p] \in Nat /\ RcvWnd[o] \in Nat
      /\ snd_una[p] \in Nat /\ snd_nxt[p] \in Nat /\ rcv_nxt[o] \in Nat
      /\ rmt_wnd[p] \in Nat /\ IKCP_WND_RCV \in Nat /\ c.cwnd \in Nat
  BY <1>4, WindowTypes DEF CCType
<1>6. win \in 0..SndWnd[p] /\ win <= rmt_wnd[p]
  <2>1. win \in 0..SndWnd[p]
    BY EffectiveWindowType
  <2> QED  BY <2>1, <1>5 DEF EffectiveWindow, _imin_
<1> HIDE DEF win
<1>7. snd_una[p] <= rcv_nxt[o]
  BY DEF AckInv
<1>8. /\ snd_nxt[p] - snd_una[p] <= SndWnd[p]
      /\ IKCP_WND_RCV <= RcvWnd[o] => snd_nxt[p] <= rcv_nxt[o] + RcvWnd[o]
      /\ IKCP_WND_RCV <= RcvWnd[o] => rmt_wnd[p] <= RcvWnd[o]
  BY DEF WindowInv, SendWindow, Advertised
<1> HIDE DEF o
<1>9. n = 0 \/ snd_nxt[p] + n <= snd_una[p] + win
  BY <1>1 DEF win
<1>10. /\ snd_nxt'[p] = snd_nxt[p] + n
       /\ snd_queue'[p] = SubSeq(sq, n + 1, Len(sq))
       /\ \A q \in End \ {p} : snd_nxt'[q] = snd_nxt[q] /\ snd_queue'[q] = snd_queue[q]
  BY <1>1 DEF TypeOK
<1>11. Len(SubSeq(sq, n + 1, Len(sq))) = Len(sq) - n
  <2>1. \A i \in (n + 1)..Len(sq) : sq[i] \in Segment
    BY <1>4, ElementOfSeq
  <2>2. Len(SubSeq(sq, n + 1, Len(sq))) =
          IF n + 1 <= Len(sq) THEN Len(sq) - (n + 1) + 1 ELSE 0
    BY <1>4, <2>1, SubSeqProperties
  <2> QED  BY <1>4, <2>2
<1>12. SendWindow(p)'
  <2>1. win \in Nat /\ win <= SndWnd[p]
    BY <1>5, <1>6
  <2>2. /\ (snd_nxt[p] + n) - snd_una[p] <= SndWnd[p]
        /\ ((snd_nxt[p] + n) - snd_una[p]) + (Len(sq) - n) <= SndWnd[p] + RcvWnd[p] - 1
        /\ \A rn, wnd, rmt \in Nat :
             win <= rmt /\ rmt <= wnd /\ snd_una[p] <= rn /\ snd_nxt[p] <= rn + wnd =>
               snd_nxt[p] + n <= rn + wnd
    <3>1. snd_nxt[p] - snd_una[p] <= SndWnd[p]
      BY <1>8
    <3>2. (snd_nxt[p] - snd_una[p]) + Len(sq) <= SndWnd[p] + RcvWnd[p] - 1
      OBVIOUS
    <3>3. snd_una[p] \in Nat /\ snd_nxt[p] \in Nat /\ SndWnd[p] \in Nat /\ RcvWnd[p] \in Nat
      BY <1>5
    <3> QED  BY <1>4, <1>9, <2>1, <3>1, <3>2, <3>3, SlideArithmetic, ZenonT(60)
  <2>3. IKCP_WND_RCV <= RcvWnd[o] => snd_nxt[p] + n <= rcv_nxt[o] + RcvWnd[o]
    BY <1>5, <1>6, <1>7, <1>8, <2>2
  <2> QED  BY <1>10, <1>11, <2>2, <2>3 DEF SendWindow, o
<1>13. \A q \in End \ {p} : SendWindow(q)'
  BY <1>10 DEF WindowInv, SendWindow
<1> QED  BY <1>2, <1>3, <1>12, <1>13 DEF WindowInv

\* The loop that moves segments to rcv_queue keeps both within the window,
\* and stops only at a gap or a full queue.
LEMMA MoveWindow ==
  ASSUME TypeOK, WindowInv, NEW p \in End, NEW q \in Seq(Segment), NEW buf,
         NEW n \in Nat, DOMAIN buf \subseteq rcv_nxt[p] .. rcv_nxt[p] + RcvWnd[p] - 1,
         Len(q) <= RcvWnd[p],
         Movable(p, n, q, buf), MoveToQueue(p, n, q, buf)
  PROVE  /\ \A r \in End : ReceiveWindow(r)'
         /\ \A r \in End : rcv_nxt[r] <= rcv_nxt'[r]
<1>1. /\ RcvWnd[p] \in Nat /\ rcv_nxt[p] \in Nat /\ Len(q) \in Nat
      /\ \A r \in End : rcv_nxt[r] \in Nat
  BY WindowTypes, LenProperties
<1>2. /\ DOMAIN rcv_queue = End /\ DOMAIN rcv_buf = End /\ DOMAIN rcv_nxt = End
  BY DEF TypeOK
<1> DEFINE new == [i \in 1..n |-> buf[rcv_nxt[p] + i - 1]]
<1>3. /\ rcv_queue'[p] = q \o new
      /\ rcv_nxt'[p] = rcv_nxt[p] + n
      /\ DOMAIN rcv_buf'[p] = DOMAIN buf \ (rcv_nxt[p] .. rcv_nxt[p] + n - 1)
  BY <1>2 DEF MoveToQueue
<1>4. \A r \in End \ {p} : /\ rcv_queue'[r] = rcv_queue[r]
                          /\ rcv_nxt'[r] = rcv_nxt[r]
                          /\ rcv_buf'[r] = rcv_buf[r]
  BY <1>2 DEF MoveToQueue
<1>5. Len(rcv_queue'[p]) = Len(q) + n
  <2> DEFINE S == {new[i] : i \in 1..n} \cup Segment
  <2>1. \A i \in 1..n : buf[rcv_nxt[p] + i - 1] \in S
    OBVIOUS
  <2>2. DOMAIN new = 1..n
    OBVIOUS
  <2> HIDE DEF S
  <2>3. new \in Seq(S)
    BY <2>1, IsASeq
  <2>4. q \in Seq(S) /\ new \in Seq(S)
    BY <2>3, SeqMonotonic DEF S
  <2> HIDE DEF new
  <2>5. Len(new) = n
    BY <2>2, <2>4, LenProperties
  <2>6. Len(q \o new) = Len(q) + Len(new)
    BY <2>4, ConcatProperties
  <2> QED  BY <1>3, <2>6, <2>5
<1>6. n <= RcvWnd[p] - Len(q)
      /\ (n = RcvWnd[p] - Len(q) \/ rcv_nxt[p] + n \notin DOMAIN buf
            \/ \E sn \in DOMAIN buf : sn < rcv_nxt[p])
  BY DEF Movable
<1>7. ReceiveWindow(p)'
  <2>1. DOMAIN rcv_buf'[p] \subseteq rcv_nxt'[p] .. rcv_nxt'[p] + RcvWnd[p] - 1
    <3> SUFFICES ASSUME NEW sn \in DOMAIN rcv_buf'[p]
                 PROVE  sn \in rcv_nxt'[p] .. rcv_nxt'[p] + RcvWnd[p] - 1
      OBVIOUS
    <3>1. sn \in rcv_nxt[p] .. rcv_nxt[p] + RcvWnd[p] - 1
          /\ sn \notin rcv_nxt[p] .. rcv_nxt[p] + n - 1
      BY <1>3
    <3>2. sn >= rcv_nxt[p] + n /\ sn <= rcv_nxt[p] + n + RcvWnd[p] - 1 /\ sn \in Int
      BY <1>1, <3>1
    <3> QED  BY <1>1, <1>3, <3>2, SMTT(30)
  <2>2. Len(rcv_queue'[p]) <= RcvWnd[p]
    BY <1>1, <1>5, <1>6
  <2>3. ASSUME rcv_nxt'[p] \in DOMAIN rcv_buf'[p]
        PROVE  Len(rcv_queue'[p]) >= RcvWnd[p]
    <3>1. rcv_nxt[p] + n \in DOMAIN buf
      BY <1>3, <2>3
    <3>2. \A sn \in DOMAIN buf : ~(sn < rcv_nxt[p])
      BY <1>1
    <3> QED  BY <1>1, <1>5, <1>6, <3>1, <3>2
  <2> QED  BY <2>1, <2>2, <2>3 DEF ReceiveWindow
<1>8. \A r \in End \ {p} : ReceiveWindow(r)'
  BY <1>4 DEF WindowInv, ReceiveWindow
<1>9. \A r \in End : rcv_nxt[r] <= rcv_nxt'[r]
  <2>1. rcv_nxt[p] <= rcv_nxt'[p]
    BY <1>1, <1>3
  <2>2. \A r \in End \ {p} : rcv_nxt[r] <= rcv_nxt'[r]
    BY <1>1, <1>4
  <2> QED  BY <2>1, <2>2
<1> QED  BY <1>7, <1>8, <1>9

\* Growing una and rcv_nxt only widen the send windows.
LEMMA SendWindowStep ==
  ASSUME TypeOK, TypeOK', WindowInv, UNCHANGED <<snd_nxt, snd_queue>>,
         \A q \in End : snd_una[q] <= snd_una'[q] /\ rcv_nxt[q] <= rcv_nxt'[q]
  PROVE  \A q \in End : SendWindow(q)'
<1> SUFFICES ASSUME NEW q \in End PROVE SendWindow(q)'
  OBVIOUS
<1>1. Other(q) \in End
  BY OtherType
<1>2. /\ SndWnd[q] \in Nat /\ RcvWnd[q] \in Nat /\ RcvWnd[Other(q)] \in Nat
      /\ snd_una[q] \in Nat /\ snd_nxt[q] \in Nat /\ rcv_nxt[Other(q)] \in Nat
      /\ Len(snd_queue[q]) \in Nat
  BY <1>1, WindowTypes
<1>3. snd_una'[q] \in Nat /\ rcv_nxt'[Other(q)] \in Nat
  BY <1>1 DEF TypeOK
<1>4. snd_una[q] <= snd_una'[q] /\ rcv_nxt[Other(q)] <= rcv_nxt'[Other(q)]
  BY <1>1
<1>5. /\ snd_nxt[q] - snd_una[q] <= SndWnd[q]
      /\ (snd_nxt[q] - snd_una[q]) + Len(snd_queue[q]) <= SndWnd[q] + RcvWnd[q] - 1
      /\ IKCP_WND_RCV <= RcvWnd[Other(q)] =>
           snd_nxt[q] <= rcv_nxt[Other(q)] + RcvWnd[Other(q)]
  BY DEF WindowInv, SendWindow
<1>6. /\ snd_nxt[q] - snd_una'[q] <= SndWnd[q]
      /\ (snd_nxt[q] - snd_una'[q]) + Len(snd_queue[q]) <= SndWnd[q] + RcvWnd[q] - 1
  <2>1. \A n, a, b, l, s, r \in Nat :
          a <= b => /\ n - a <= s => n - b <= s
                    /\ (n - a) + l <= s + r - 1 => (n - b) + l <= s + r - 1
    OBVIOUS
  <2> QED  BY <1>2, <1>3, <1>4, <1>5, <2>1
<1>7. IKCP_WND_RCV <= RcvWnd[Other(q)] =>
        snd_nxt[q] <= rcv_nxt'[Other(q)] + RcvWnd[Other(q)]
  BY <1>2, <1>3, <1>4, <1>5
<1> QED  BY <1>6, <1>7 DEF SendWindow

----------------------------------------------------------------------------
(* One lemma per action. *)

\* SendReliable queues at most a message behind a window that was not full.
LEMMA SendReliableWindow ==
  ASSUME TypeOK, TypeOK', AckInv, WindowInv, NEW p \in End, NEW m \in Messages,
         SendReliable(p, m)
  PROVE  WindowInv'
<1> DEFINE sq == snd_queue[p] \o Fragments(m)
<1>1. UNCHANGED <<snd_una, rmt_wnd, rcv_nxt, rcv_buf, rcv_queue, input>>
  BY DEF SendReliable
<1>2. /\ SndWnd[p] \in Nat \ {0} /\ RcvWnd[p] \in Nat \ {0}
      /\ snd_una[p] \in Nat /\ snd_nxt[p] \in Nat
      /\ snd_queue[p] \in Seq(Segment) /\ Len(snd_queue[p]) \in Nat
      /\ cc[p] \in CCType
  BY WindowTypes
<1>3. Fragments(m) \in Seq(Segment) /\ Len(m) \in Nat /\ Len(Fragments(m)) = Len(m)
  <2>1. Len(m) \in Nat
    BY MessagesAssumption, LenProperties
  <2>2. Fragments(m) \in Seq(Segment)
    BY FragmentsType
  <2>3. DOMAIN Fragments(m) = 1..Len(m)
    BY DEF Fragments
  <2> QED  BY <2>1, <2>2, <2>3, LenProperties
<1>4. sq \in Seq(Segment) /\ Len(sq) = Len(snd_queue[p]) + Len(m)
  <2>1. \A a, b \in Seq(Segment) : a \o b \in Seq(Segment) /\ Len(a \o b) = Len(a) + Len(b)
    BY ConcatProperties
  <2>2. sq \in Seq(Segment) /\ Len(sq) = Len(snd_queue[p]) + Len(Fragments(m))
    BY <1>2, <1>3, <2>1
  <2> QED  BY <1>3, <2>2
<1>5. Len(m) <= RcvWnd[p]
  <2>1. FitsBuffer(p, Len(m))
    BY DEF SendReliable
  <2> QED  BY <1>2, <1>3, <2>1 DEF FitsBuffer, _imax_, _imin_, FRG_MAX
<1>6. (snd_nxt[p] - snd_una[p]) + Len(snd_queue[p]) < SndWnd[p]
  BY WaitSndIs DEF SendReliable
<1>7. Flush(p, sq, cc[p], FALSE)
      \/ (snd_queue' = [snd_queue EXCEPT ![p] = sq] /\ UNCHANGED <<snd_nxt, net>>)
  BY DEF SendReliable
<1> HIDE DEF sq
<1>8. (snd_nxt[p] - snd_una[p]) + Len(sq) <= SndWnd[p] + RcvWnd[p] - 1
  <2>1. \A n, a, l, k, s, r \in Nat :
          (n - a) + l < s /\ k <= r => (n - a) + (l + k) <= s + r - 1
    OBVIOUS
  <2> QED  BY <1>2, <1>3, <1>4, <1>5, <1>6, <2>1
<1>9. CASE Flush(p, sq, cc[p], FALSE)
  BY <1>1, <1>2, <1>4, <1>8, <1>9, FlushWindow
<1>10. CASE snd_queue' = [snd_queue EXCEPT ![p] = sq] /\ UNCHANGED <<snd_nxt, net>>
  <2>1. \A q \in End : Advertised(q)' /\ ReceiveWindow(q)'
    BY <1>1, <1>10 DEF WindowInv, Advertised, ReceiveWindow, OnTheWay
  <2>2. snd_queue'[p] = sq /\ \A q \in End \ {p} : snd_queue'[q] = snd_queue[q]
    BY <1>10 DEF TypeOK
  <2>3. \A q \in End : SendWindow(q)'
    BY <1>1, <1>8, <1>10, <2>2 DEF WindowInv, SendWindow
  <2> QED  BY <2>1, <2>3 DEF WindowInv
<1> QED  BY <1>7, <1>9, <1>10

\* TickOutgoing is a flush.
LEMMA TickOutgoingWindow ==
  ASSUME TypeOK, AckInv, WindowInv, NEW p \in End, NEW prompt,
         TickOutgoing(p, prompt)
  PROVE  WindowInv'
<1>1. snd_queue[p] \in Seq(Segment) /\ cc[p] \in CCType
  BY WindowTypes
<1>2. Flush(p, snd_queue[p], cc[p], prompt)
      /\ UNCHANGED <<snd_una, rmt_wnd, rcv_nxt, rcv_buf, rcv_queue, input>>
  BY DEF TickOutgoing
<1>3. (snd_nxt[p] - snd_una[p]) + Len(snd_queue[p]) <= SndWnd[p] + RcvWnd[p] - 1
  BY DEF WindowInv, SendWindow
<1> QED  BY <1>1, <1>2, <1>3, FlushWindow

\* Recv makes room in rcv_queue, and its loop fills it from rcv_buf.
LEMMA RecvWindow ==
  ASSUME TypeOK, TypeOK', WindowInv, NEW p \in End, Recv(p)
  PROVE  WindowInv'
<1> DEFINE q == rcv_queue[p]
<1>1. q \in Seq(Segment) /\ Len(q) \in Nat /\ RcvWnd[p] \in Nat /\ Len(q) <= RcvWnd[p]
      /\ DOMAIN rcv_buf[p] \subseteq rcv_nxt[p] .. rcv_nxt[p] + RcvWnd[p] - 1
  BY WindowTypes DEF WindowInv, ReceiveWindow
<1>2. PICK k \in 1..Len(q), n \in 0..RcvWnd[p] :
        /\ Movable(p, n, SubSeq(q, k + 1, Len(q)), rcv_buf[p])
        /\ MoveToQueue(p, n, SubSeq(q, k + 1, Len(q)), rcv_buf[p])
  BY DEF Recv
<1>3. UNCHANGED <<snd_queue, snd_nxt, snd_una, rmt_wnd, input, net>>
  BY DEF Recv, sndVars
<1> HIDE DEF q
<1>4. SubSeq(q, k + 1, Len(q)) \in Seq(Segment)
      /\ Len(SubSeq(q, k + 1, Len(q))) <= RcvWnd[p]
  <2>1. \A i \in (k + 1)..Len(q) : q[i] \in Segment
    BY <1>1, ElementOfSeq
  <2>2. /\ SubSeq(q, k + 1, Len(q)) \in Seq(Segment)
        /\ Len(SubSeq(q, k + 1, Len(q))) =
             IF k + 1 <= Len(q) THEN Len(q) - (k + 1) + 1 ELSE 0
    BY <1>1, <2>1, SubSeqProperties
  <2> QED  BY <1>1, <2>2
<1>5. n \in Nat
  BY <1>1
<1>6. /\ \A r \in End : ReceiveWindow(r)'
      /\ \A r \in End : rcv_nxt[r] <= rcv_nxt'[r]
  BY <1>1, <1>2, <1>4, <1>5, MoveWindow
<1>7. \A r \in End : snd_una[r] <= snd_una'[r]
  BY <1>3, WindowTypes
<1>8. \A r \in End : SendWindow(r)'
  BY <1>3, <1>6, <1>7, SendWindowStep
<1>9. \A r \in End : Advertised(r)'
  BY <1>3 DEF WindowInv, Advertised, OnTheWay
<1> QED  BY <1>6, <1>8, <1>9 DEF WindowInv

\* A datagram that arrives stays on the wire while Input works on it.
LEMMA DeliverWindow ==
  ASSUME TypeOK, WindowInv, NEW p \in End, NEW d \in net, Deliver(p, d)
  PROVE  WindowInv'
<1>1. UNCHANGED <<snd_queue, snd_nxt, snd_una, rmt_wnd, rcv_nxt, rcv_buf, rcv_queue>>
  BY DEF Deliver, sndVars, rcvVars
<1>2. \A q \in End : OnTheWay(q)' \subseteq OnTheWay(q)
  BY DeliverOnTheWay
<1> QED  BY <1>1, <1>2 DEF WindowInv, Advertised, SendWindow, ReceiveWindow

\* Every segment: rmt_wnd becomes the window of a segment of the wire, and
\* una moves up.
LEMMA InputWindow ==
  ASSUME TypeOK, WindowInv, NEW p \in End, NEW cmd, InputNext(p, cmd), net' = net
  PROVE  /\ \A q \in End : Advertised(q)'
         /\ \A q \in End : snd_una[q] <= snd_una'[q]
<1>1. Seg(p) \in OnTheWay(p) /\ \A q \in End : OnTheWay(q)' \subseteq OnTheWay(q)
  BY InputOnTheWay
<1>2. /\ snd_una[p] <= NewUna(p)
      /\ snd_una' = [snd_una EXCEPT ![p] = NewUna(p)]
      /\ rmt_wnd' = [rmt_wnd EXCEPT ![p] = Seg(p).wnd]
  BY InputHeaderType
<1>3. DOMAIN rmt_wnd = End /\ DOMAIN snd_una = End
  BY DEF TypeOK
<1>4. \A q \in End : Advertised(q)'
  BY <1>1, <1>2, <1>3 DEF WindowInv, Advertised
<1>5. \A q \in End : snd_una[q] \in Nat
  BY WindowTypes
<1>6. \A q \in End : snd_una[q] <= snd_una'[q]
  BY <1>2, <1>3, <1>5
<1> QED  BY <1>4, <1>6

\* An ACK, WASK or WINS leaves the receive side alone.
LEMMA InputQuietWindow ==
  ASSUME TypeOK, TypeOK', WindowInv, NEW p \in End, NEW cmd, InputNext(p, cmd),
         UNCHANGED <<snd_queue, snd_nxt, rcv_nxt, rcv_buf, rcv_queue, net>>
  PROVE  WindowInv'
<1>1. /\ \A q \in End : Advertised(q)'
      /\ \A q \in End : snd_una[q] <= snd_una'[q]
  BY InputWindow
<1>2. \A q \in End : rcv_nxt[q] <= rcv_nxt'[q]
  BY WindowTypes
<1>3. \A q \in End : SendWindow(q)'
  BY <1>1, <1>2, SendWindowStep
<1>4. \A q \in End : ReceiveWindow(q)'
  BY DEF WindowInv, ReceiveWindow
<1> QED  BY <1>1, <1>3, <1>4 DEF WindowInv

\* parse_data stores a segment inside the receive window only.
LEMMA InputPushWindow ==
  ASSUME TypeOK, TypeOK', WindowInv, NEW p \in End, InputPush(p)
  PROVE  WindowInv'
<1> DEFINE buf == parse_data(rcv_buf[p], Seg(p))
<1>1. InputNext(p, "PUSH")
  BY DEF InputPush
<1>2. UNCHANGED <<snd_queue, snd_nxt, net>>
  BY DEF InputPush
<1>3. CASE UNCHANGED <<rcv_nxt, rcv_buf, rcv_queue>>
  BY <1>1, <1>2, <1>3, InputQuietWindow
<1>4. CASE /\ BelowWindowEnd(p, Seg(p).sn) /\ NotYetReceived(p, Seg(p).sn)
           /\ \E n \in 0..RcvWnd[p] : /\ Movable(p, n, rcv_queue[p], buf)
                                     /\ MoveToQueue(p, n, rcv_queue[p], buf)
  <2>1. PICK n \in 0..RcvWnd[p] : /\ Movable(p, n, rcv_queue[p], buf)
                                 /\ MoveToQueue(p, n, rcv_queue[p], buf)
    BY <1>4
  <2>2. Seg(p).sn \in Nat
    <3>1. Seg(p) \in WireSegments
      BY <1>1, InputHeaderType
    <3> QED  BY <3>1 DEF WireSegments
  <2>3. rcv_nxt[p] \in Nat /\ RcvWnd[p] \in Nat /\ rcv_queue[p] \in Seq(Segment)
        /\ n \in Nat
    BY WindowTypes
  <2>4. DOMAIN buf = DOMAIN rcv_buf[p] \cup {Seg(p).sn}
    BY DEF parse_data
  <2> HIDE DEF buf
  <2>5. Seg(p).sn \in rcv_nxt[p] .. rcv_nxt[p] + RcvWnd[p] - 1
    BY <1>4, <2>2, <2>3 DEF BelowWindowEnd, NotYetReceived
  <2>6. DOMAIN buf \subseteq rcv_nxt[p] .. rcv_nxt[p] + RcvWnd[p] - 1
        /\ Len(rcv_queue[p]) <= RcvWnd[p]
    BY <2>4, <2>5 DEF WindowInv, ReceiveWindow
  <2>7. /\ \A r \in End : ReceiveWindow(r)'
        /\ \A r \in End : rcv_nxt[r] <= rcv_nxt'[r]
    BY <2>1, <2>3, <2>6, MoveWindow
  <2>8. /\ \A q \in End : Advertised(q)'
        /\ \A q \in End : snd_una[q] <= snd_una'[q]
    BY <1>1, <1>2, InputWindow
  <2>9. \A q \in End : SendWindow(q)'
    BY <1>2, <2>7, <2>8, SendWindowStep
  <2> QED  BY <2>7, <2>8, <2>9 DEF WindowInv
<1> QED  BY <1>3, <1>4 DEF InputPush, Seg

\* The end of Input adapts cwnd and may flush.
LEMMA InputEndWindow ==
  ASSUME TypeOK, AckInv, WindowInv, NEW p \in End, NEW prompt, InputEnd(p, prompt)
  PROVE  WindowInv'
<1> DEFINE c == CwndAfterInput(cc[p], input[p].una0, snd_una[p], rmt_wnd[p])
<1>1. c \in CCType /\ snd_queue[p] \in Seq(Segment)
  <2>1. cc[p] \in CCType /\ input[p].una0 \in Nat /\ snd_una[p] \in Nat
        /\ rmt_wnd[p] \in Nat /\ snd_queue[p] \in Seq(Segment)
    BY DEF TypeOK, CCType
  <2> QED  BY <2>1, CwndAfterInputType
<1>2. UNCHANGED <<snd_una, rmt_wnd, rcv_nxt, rcv_buf, rcv_queue>>
  BY DEF InputEnd
<1>3. \A q \in End : Range(input'[q].segs) \subseteq Range(input[q].segs)
  <2>1. input'[p].segs = <<>> /\ \A q \in End \ {p} : input'[q] = input[q]
    BY DEF InputEnd, NoInput, TypeOK
  <2>2. Range(<<>>) = {}
    BY DEF Range
  <2> QED  BY <2>1, <2>2
<1>4. \/ Flush(p, snd_queue[p], c, prompt)
      \/ /\ FlushAcks(p, prompt) \/ net' = net
         /\ UNCHANGED <<snd_queue, snd_nxt>>
  BY DEF InputEnd
<1> HIDE DEF c
<1>5. CASE Flush(p, snd_queue[p], c, prompt)
  <2>1. (snd_nxt[p] - snd_una[p]) + Len(snd_queue[p]) <= SndWnd[p] + RcvWnd[p] - 1
    BY DEF WindowInv, SendWindow
  <2> QED  BY <1>1, <1>2, <1>3, <1>5, <2>1, FlushWindow
<1>6. CASE /\ FlushAcks(p, prompt) \/ net' = net
           /\ UNCHANGED <<snd_queue, snd_nxt>>
  <2>1. net' \subseteq net \cup [to : {Other(p)}, segs : Seq(AckOutput(p))]
    BY <1>6, FlushAcksType
  <2>2. \A w \in AckOutput(p) : w.wnd <= RcvWnd[p]
    BY OutputAdvertised
  <2>3. \A q \in End : Advertised(q)'
    BY <1>2, <1>3, <2>1, <2>2, AdvertisedStep
  <2> QED  BY <1>2, <1>6, <2>3 DEF WindowInv, SendWindow, ReceiveWindow
<1> QED  BY <1>4, <1>5, <1>6

\* Nothing is sent, held or queued at first.
LEMMA InitWindow == Init => WindowInv
<1> SUFFICES ASSUME Init, NEW p \in End
             PROVE  Advertised(p) /\ SendWindow(p) /\ ReceiveWindow(p)
  BY DEF WindowInv
<1>1. Other(p) \in End /\ SndWnd[p] \in Nat \ {0} /\ RcvWnd[p] \in Nat \ {0}
      /\ RcvWnd[Other(p)] \in Nat \ {0}
  BY OtherType, ConfigAssumption
<1>2. OnTheWay(p) = {}
  <2>1. net = {} /\ input[p].segs = <<>> /\ Range(<<>>) = {}
    BY DEF Init, NoInput, Range
  <2> QED  BY <2>1 DEF OnTheWay
<1>3. Advertised(p)
  BY <1>2 DEF Init, Advertised
<1>4. /\ snd_nxt[p] = 0 /\ snd_una[p] = 0 /\ rcv_nxt[Other(p)] = 0
      /\ snd_queue[p] = <<>> /\ rcv_queue[p] = <<>> /\ DOMAIN rcv_buf[p] = {}
  BY <1>1 DEF Init
<1>5. Len(<<>>) = 0
  BY EmptySeq
<1> QED  BY <1>1, <1>3, <1>4, <1>5 DEF SendWindow, ReceiveWindow

\* The invariant is inductive, given that acknowledgements are honest.
LEMMA NextWindow ==
  TypeOK /\ TypeOK' /\ AckInv /\ WindowInv /\ [Next]_vars => WindowInv'
<1> SUFFICES ASSUME TypeOK, TypeOK', AckInv, WindowInv, [Next]_vars
             PROVE  WindowInv'
  OBVIOUS
<1>1. CASE UNCHANGED vars \/ \E p \in End : HandleDeadLink(p)
  <2>1. UNCHANGED <<snd_una, snd_nxt, snd_queue, rmt_wnd, rcv_nxt, rcv_buf,
                    rcv_queue, input, net>>
    BY <1>1 DEF vars, sndVars, rcvVars, HandleDeadLink
  <2> QED  BY <2>1 DEF WindowInv, Advertised, SendWindow, ReceiveWindow, OnTheWay
<1>2. CASE Next
  <2>1. ASSUME NEW p \in End, InputAck(p) PROVE WindowInv'
    BY <2>1, InputQuietWindow DEF InputAck, rcvVars
  <2>2. ASSUME NEW p \in End, InputProbe(p) PROVE WindowInv'
    BY <2>2, InputQuietWindow DEF InputProbe
  <2> QED
    BY <1>1, <1>2, <2>1, <2>2, SendReliableWindow, TickOutgoingWindow, RecvWindow,
       DeliverWindow, InputPushWindow, InputEndWindow
    DEF Next
<1> QED  BY <1>1, <1>2

\* Everywhere two KCP ends can get: acknowledgements are honest and the
\* windows hold.
LEMMA WindowInvariant == Spec => [](TypeOK /\ AckInv /\ WindowInv)
<1>1. Init => TypeOK /\ AckInv /\ WindowInv
  BY InitType, InitAck, InitWindow
<1>2. TypeOK /\ AckInv /\ WindowInv /\ [Next]_vars => (TypeOK /\ AckInv /\ WindowInv)'
  BY NextType, NextAck, NextWindow
<1> QED  BY <1>1, <1>2, PTL DEF Spec

\* However late and out of order the advertised windows arrive, flush sends
\* no segment that parse_data of the other end must refuse.
THEOREM ReceiverNeverOverrun == Spec => []NeverOverrun
<1>1. WindowInv => NeverOverrun
  BY DEF WindowInv, SendWindow, NeverOverrun
<1> QED  BY <1>1, WindowInvariant, PTL

\* snd_buf, rcv_buf and rcv_queue stay within the configured windows, and
\* SendReliable's backlog within a window and one message.
THEOREM WindowsStayBounded == Spec => []WindowsBounded
<1>1. TypeOK /\ WindowInv => WindowsBounded
  BY WaitSndIs DEF WindowInv, SendWindow, ReceiveWindow, WindowsBounded
<1> QED  BY <1>1, WindowInvariant, PTL

\* A segment that is next in order waits in rcv_buf only behind a full
\* rcv_queue: the loops of Recv and parse_data move all they can.
THEOREM NothingIsHeldBack == Spec => []NothingHeldBack
<1>1. WindowInv => NothingHeldBack
  BY DEF WindowInv, ReceiveWindow, NothingHeldBack
<1> QED  BY <1>1, WindowInvariant, PTL

----------------------------------------------------------------------------
(* Delivery: every fragment is in its place in the stream. *)

\* Segment x is the one with sequence number sn in the stream str.
Fits(str, sn, x) ==
  /\ sn + 1 \in DOMAIN str
  /\ x.frg = str[sn + 1].frg
  /\ x.data = str[sn + 1].data

\* The send queue sq continues the window, which ends at nxt; the
\* unacknowledged segments of the window are where they belong.
SendFits(str, nxt, sq, buf) ==
  /\ Len(str) = nxt + Len(sq)
  /\ \A i \in 1..Len(sq) : Fits(str, nxt + i - 1, sq[i])
  /\ \A sn \in DOMAIN buf : ~buf[sn].acked => Fits(str, sn, buf[sn])

\* The receive queue q ends at nxt; what arrived out of order is in place.
RecvFits(str, nxt, q, buf) ==
  /\ Len(q) <= nxt
  /\ \A i \in 1..Len(q) : Fits(str, nxt - Len(q) + i - 1, q[i])
  /\ \A sn \in DOMAIN buf : Fits(str, sn, buf[sn])

\* The path of p's stream: its own queues, the wire, the queues of the other.
Sending(p) == SendFits(stream[p], snd_nxt[p], snd_queue[p], snd_buf[p])

OnWire(p) ==
  \A seg \in OnTheWay(Other(p)) :
    seg.cmd = "PUSH" => Fits(stream[p], seg.sn, seg)

Receiving(p) ==
  RecvFits(stream[p], rcv_nxt[Other(p)], rcv_queue[Other(p)], rcv_buf[Other(p)])

StreamInv == \A p \in End : Sending(p) /\ OnWire(p) /\ Receiving(p)

Fragment == [frg : Nat, data : Payload, msg : Nat]

----------------------------------------------------------------------------
(* The pieces of the path, one operation at a time. *)

\* What fits a stream fits every extension of it.
LEMMA FitsLonger ==
  ASSUME NEW S, NEW str \in Seq(S), NEW new \in Seq(S), NEW sn \in Nat, NEW x,
         Fits(str, sn, x)
  PROVE  Fits(str \o new, sn, x)
<1>1. sn + 1 \in 1..Len(str) /\ Len(str) \in Nat /\ Len(new) \in Nat
  BY LenProperties DEF Fits
<1>2. sn + 1 \in DOMAIN (str \o new) /\ (str \o new)[sn + 1] = str[sn + 1]
  BY <1>1, ConcatProperties, LenProperties
<1> QED  BY <1>2 DEF Fits

\* KCP.Send: the queue and the stream grow by the same fragments.
LEMMA SendGrows ==
  ASSUME NEW str \in Seq(Fragment), NEW nxt \in Nat, NEW sq \in Seq(Segment),
         NEW buf, DOMAIN buf \subseteq Nat, NEW new \in Seq(Fragment),
         NEW frs \in Seq(Segment), Len(frs) = Len(new),
         \A i \in 1..Len(new) : frs[i].frg = new[i].frg /\ frs[i].data = new[i].data,
         SendFits(str, nxt, sq, buf)
  PROVE  SendFits(str \o new, nxt, sq \o frs, buf)
<1>1. /\ Len(str) \in Nat /\ Len(sq) \in Nat /\ Len(new) \in Nat
      /\ Len(str \o new) = Len(str) + Len(new)
      /\ Len(sq \o frs) = Len(sq) + Len(new)
      /\ DOMAIN (str \o new) = 1..(Len(str) + Len(new))
  <2>1. Len(str) \in Nat /\ Len(sq) \in Nat /\ Len(new) \in Nat
    BY LenProperties
  <2>2. str \o new \in Seq(Fragment) /\ Len(str \o new) = Len(str) + Len(new)
    BY ConcatProperties
  <2>3. Len(sq \o frs) = Len(sq) + Len(frs)
    BY ConcatProperties
  <2>4. DOMAIN (str \o new) = 1..Len(str \o new)
    BY <2>2, LenProperties
  <2> QED  BY <2>1, <2>2, <2>3, <2>4
<1>2. Len(str) = nxt + Len(sq)
  BY DEF SendFits
<1>3. ASSUME NEW i \in 1..Len(sq \o frs)
      PROVE  Fits(str \o new, nxt + i - 1, (sq \o frs)[i])
  <2>1. CASE i <= Len(sq)
    <3>1. i \in 1..Len(sq) /\ nxt + i - 1 \in Nat
      BY <1>1, <2>1
    <3>2. (sq \o frs)[i] = sq[i]
      BY <1>1, <3>1, ConcatProperties
    <3>3. Fits(str, nxt + i - 1, sq[i])
      BY <3>1 DEF SendFits
    <3> QED  BY <3>1, <3>2, <3>3, FitsLonger
  <2>2. CASE ~(i <= Len(sq))
    <3> DEFINE j == i - Len(sq)
    <3>1. j \in 1..Len(new) /\ i \in (Len(sq) + 1)..(Len(sq) + Len(frs))
      BY <1>1, <2>2
    <3>2. (sq \o frs)[i] = frs[j]
      BY <1>1, <3>1, ConcatProperties
    <3>3. nxt + i - 1 + 1 = Len(str) + j
      BY <1>1, <1>2
    <3>4. Len(str) + j \in (Len(str) + 1)..(Len(str) + Len(new))
      BY <1>1, <3>1
    <3>5. (str \o new)[Len(str) + j] = new[Len(str) + j - Len(str)]
      BY <3>4, ConcatProperties
    <3>6. Len(str) + j - Len(str) = j /\ Len(str) + j \in 1..(Len(str) + Len(new))
      BY <1>1, <3>1
    <3> HIDE DEF j
    <3> QED  BY <1>1, <3>1, <3>2, <3>3, <3>5, <3>6 DEF Fits
  <2> QED  BY <2>1, <2>2
<1>4. \A sn \in DOMAIN buf : ~buf[sn].acked => Fits(str \o new, sn, buf[sn])
  BY FitsLonger DEF SendFits
<1> QED  BY <1>1, <1>2, <1>3, <1>4 DEF SendFits

\* flush(false): segments that enter the window keep their places.
LEMMA SlideFits ==
  ASSUME TypeOK, NEW p \in End, NEW str, NEW sq \in Seq(Segment),
         NEW n \in 0..Len(sq), SendFits(str, snd_nxt[p], sq, snd_buf[p])
  PROVE  \A sn \in DOMAIN SlideInto(p, sq, n) :
           ~SlideInto(p, sq, n)[sn].acked => Fits(str, sn, SlideInto(p, sq, n)[sn])
<1> DEFINE buf == SlideInto(p, sq, n)
<1> SUFFICES ASSUME NEW sn \in DOMAIN buf, ~buf[sn].acked PROVE Fits(str, sn, buf[sn])
  OBVIOUS
<1>1. snd_nxt[p] \in Nat /\ Len(sq) \in Nat /\ DOMAIN snd_buf[p] \subseteq Nat
  BY LenProperties DEF TypeOK, IsNatMap
<1>2. CASE sn \in DOMAIN snd_buf[p]
  <2>1. buf[sn] = snd_buf[p][sn]
    BY <1>2 DEF SlideInto
  <2> QED  BY <1>2, <2>1 DEF SendFits
<1>3. CASE sn \notin DOMAIN snd_buf[p]
  <2> DEFINE i == sn - snd_nxt[p] + 1
  <2>1. sn \in snd_nxt[p] .. snd_nxt[p] + n - 1
    BY <1>3 DEF SlideInto
  <2>2. i \in 1..Len(sq) /\ snd_nxt[p] + i - 1 = sn
    BY <1>1, <2>1
  <2>3. buf[sn].frg = sq[i].frg /\ buf[sn].data = sq[i].data
    BY <1>3 DEF SlideInto
  <2>4. Fits(str, sn, sq[i])
    BY <2>2 DEF SendFits
  <2> QED  BY <2>3, <2>4 DEF Fits
<1> QED  BY <1>2, <1>3

\* flush(false): what stays in the queue continues the longer window.
LEMMA FlushFits ==
  ASSUME TypeOK, NEW p \in End, NEW str, NEW sq \in Seq(Segment),
         NEW n \in 0..Len(sq), SendFits(str, snd_nxt[p], sq, snd_buf[p]),
         IsNatMap(SlideInto(p, sq, n), SentSegment), NEW send
  PROVE  SendFits(str, snd_nxt[p] + n, SubSeq(sq, n + 1, Len(sq)),
                  Transmitted(SlideInto(p, sq, n), send))
<1> DEFINE buf == SlideInto(p, sq, n)
           tr == Transmitted(buf, send)
           rest == SubSeq(sq, n + 1, Len(sq))
<1>1. snd_nxt[p] \in Nat /\ Len(sq) \in Nat
  BY LenProperties DEF TypeOK
<1>2. Len(rest) = Len(sq) - n /\ \A i \in 1..(Len(sq) - n) : rest[i] = sq[n + i]
  <2>1. \A i \in (n + 1)..Len(sq) : sq[i] \in Segment
    BY <1>1, ElementOfSeq
  <2>2. n + 1 \in Int /\ n + 1 - 1 <= Len(sq)
    BY <1>1
  <2> QED  BY <1>1, <2>1, <2>2, SubSeqProperties
<1>3. Len(str) = snd_nxt[p] + n + Len(rest)
  BY <1>1, <1>2 DEF SendFits
<1>4. ASSUME NEW i \in 1..Len(rest)
      PROVE  Fits(str, snd_nxt[p] + n + i - 1, rest[i])
  <2>1. i \in 1..(Len(sq) - n)
    BY <1>2
  <2>2. rest[i] = sq[n + i]
    BY <1>2, <2>1
  <2>3. n + i \in 1..Len(sq) /\ snd_nxt[p] + (n + i) - 1 = snd_nxt[p] + n + i - 1
    <3>1. \A a, b, c \in Nat : \A k \in 1..(b - c) :
            c + k \in 1..b /\ a + (c + k) - 1 = a + c + k - 1
      OBVIOUS
    <3>2. n \in Nat
      BY <1>1
    <3> QED  BY <1>1, <2>1, <3>1, <3>2, Zenon
  <2> QED  BY <2>2, <2>3 DEF SendFits
<1> HIDE DEF rest, buf
<1>5. ASSUME NEW sn \in DOMAIN tr, ~tr[sn].acked
      PROVE  Fits(str, sn, tr[sn])
  <2>1. sn \in DOMAIN buf
    BY DEF Transmitted
  <2>2. buf[sn] \in SentSegment
    BY <2>1 DEF IsNatMap, buf
  <2>3. tr[sn].frg = buf[sn].frg /\ tr[sn].data = buf[sn].data
        /\ tr[sn].acked = buf[sn].acked
    BY <2>1, <2>2 DEF Transmitted, SentSegment
  <2>4. Fits(str, sn, buf[sn])
    BY <1>5, <2>1, <2>3, SlideFits DEF buf
  <2> QED  BY <2>3, <2>4 DEF Fits
<1> QED  BY <1>3, <1>4, <1>5 DEF SendFits, rest, buf

\* The queue and the buffer after n segments moved from buf to q.
Moved(q, buf, nxt, n) == q \o [i \in 1..n |-> buf[nxt + i - 1]]
LeftOver(buf, nxt, n) ==
  [sn \in DOMAIN buf \ (nxt .. nxt + n - 1) |-> buf[sn]]

\* The move from rcv_buf to rcv_queue keeps every segment in its place.
LEMMA MoveFits ==
  ASSUME NEW str, NEW nxt \in Nat, NEW q \in Seq(Segment), NEW buf,
         NEW n \in Nat, \A i \in 0..(n - 1) : nxt + i \in DOMAIN buf,
         IsNatMap(buf, Segment), RecvFits(str, nxt, q, buf)
  PROVE  RecvFits(str, nxt + n, Moved(q, buf, nxt, n), LeftOver(buf, nxt, n))
<1> DEFINE mv == [i \in 1..n |-> buf[nxt + i - 1]]
<1>1. \A i \in 1..n : nxt + i - 1 \in DOMAIN buf
  <2> SUFFICES ASSUME NEW i \in 1..n PROVE nxt + i - 1 \in DOMAIN buf
    OBVIOUS
  <2>1. i - 1 \in 0..(n - 1) /\ nxt + (i - 1) = nxt + i - 1
    OBVIOUS
  <2> QED  BY <2>1
<1>2. mv \in Seq(Segment) /\ Len(mv) = n /\ \A i \in 1..n : mv[i] = buf[nxt + i - 1]
  <2>1. \A i \in 1..n : buf[nxt + i - 1] \in Segment
    BY <1>1 DEF IsNatMap
  <2>2. mv \in Seq(Segment)
    BY <2>1, IsASeq
  <2> QED  BY <2>2, LenProperties
<1> HIDE DEF mv
<1>3. Len(q) \in Nat /\ Len(q \o mv) = Len(q) + n
  BY <1>2, LenProperties, ConcatProperties
<1>4. Len(q) <= nxt
  BY DEF RecvFits
<1>5. ASSUME NEW i \in 1..Len(q \o mv)
      PROVE  Fits(str, nxt + n - Len(q \o mv) + i - 1, (q \o mv)[i])
  <2>1. nxt + n - Len(q \o mv) + i - 1 = nxt - Len(q) + i - 1
    BY <1>3
  <2>2. CASE i <= Len(q)
    <3>1. i \in 1..Len(q)
      BY <1>3, <2>2
    <3>2. (q \o mv)[i] = q[i]
      BY <1>2, <3>1, ConcatProperties
    <3> QED  BY <2>1, <3>1, <3>2 DEF RecvFits
  <2>3. CASE ~(i <= Len(q))
    <3>1. i - Len(q) \in 1..n /\ i \in (Len(q) + 1)..(Len(q) + Len(mv))
      BY <1>2, <1>3, <2>3
    <3>2. (q \o mv)[i] = mv[i - Len(q)]
      BY <1>2, <3>1, ConcatProperties
    <3>3. mv[i - Len(q)] = buf[nxt + (i - Len(q)) - 1]
      BY <1>2, <3>1
    <3>4. nxt + (i - Len(q)) - 1 \in DOMAIN buf
      BY <1>1, <3>1
    <3>5. nxt + (i - Len(q)) - 1 = nxt - Len(q) + i - 1
      BY <1>3
    <3> QED  BY <2>1, <3>2, <3>3, <3>4, <3>5 DEF RecvFits
  <2> QED  BY <2>2, <2>3
<1>6. Len(q \o mv) <= nxt + n
  BY <1>3, <1>4
<1>7. Moved(q, buf, nxt, n) = q \o mv
  BY DEF Moved, mv
<1> QED  BY <1>5, <1>6, <1>7 DEF RecvFits, LeftOver

\* Reading the first k segments moves none of the others.
LEMMA RestFits ==
  ASSUME NEW str, NEW nxt \in Nat, NEW q \in Seq(Segment), NEW buf,
         NEW k \in 1..Len(q), RecvFits(str, nxt, q, buf)
  PROVE  RecvFits(str, nxt, SubSeq(q, k + 1, Len(q)), buf)
<1> DEFINE rest == SubSeq(q, k + 1, Len(q))
<1>1. Len(q) \in Nat /\ Len(q) <= nxt
  BY LenProperties DEF RecvFits
<1>2. Len(rest) = Len(q) - k /\ \A i \in 1..(Len(q) - k) : rest[i] = q[k + i]
  <2>1. \A i \in (k + 1)..Len(q) : q[i] \in Segment
    BY <1>1, ElementOfSeq
  <2>2. k + 1 \in Int /\ k + 1 - 1 <= Len(q)
    BY <1>1
  <2> QED  BY <1>1, <2>1, <2>2, SubSeqProperties
<1> HIDE DEF rest
<1>3. ASSUME NEW i \in 1..Len(rest)
      PROVE  Fits(str, nxt - Len(rest) + i - 1, rest[i])
  <2>1. k + i \in 1..Len(q) /\ rest[i] = q[k + i]
        /\ nxt - Len(rest) + i - 1 = nxt - Len(q) + (k + i) - 1
    BY <1>1, <1>2
  <2> QED  BY <2>1 DEF RecvFits
<1>4. Len(rest) <= nxt
  BY <1>1, <1>2
<1> QED  BY <1>3, <1>4 DEF RecvFits, rest

\* parse_data stores a segment that fits where it fits.
LEMMA StoreFits ==
  ASSUME NEW str, NEW nxt, NEW q, NEW buf, NEW seg, Fits(str, seg.sn, seg),
         RecvFits(str, nxt, q, buf)
  PROVE  RecvFits(str, nxt, q, parse_data(buf, seg))
  BY DEF RecvFits, Fits, parse_data

\* What was received fits the longer stream.
LEMMA RecvLonger ==
  ASSUME NEW S, NEW str \in Seq(S), NEW new \in Seq(S), NEW nxt \in Nat,
         NEW q \in Seq(Segment), NEW buf, DOMAIN buf \subseteq Nat,
         RecvFits(str, nxt, q, buf)
  PROVE  RecvFits(str \o new, nxt, q, buf)
<1>1. Len(q) \in Nat /\ Len(q) <= nxt
  BY LenProperties DEF RecvFits
<1>2. ASSUME NEW i \in 1..Len(q)
      PROVE  Fits(str \o new, nxt - Len(q) + i - 1, q[i])
  <2>1. nxt - Len(q) + i - 1 \in Nat
    BY <1>1
  <2>2. Fits(str, nxt - Len(q) + i - 1, q[i])
    BY DEF RecvFits
  <2> QED  BY <2>1, <2>2, FitsLonger
<1>3. \A sn \in DOMAIN buf : Fits(str \o new, sn, buf[sn])
  BY FitsLonger DEF RecvFits
<1> QED  BY <1>1, <1>2, <1>3 DEF RecvFits

----------------------------------------------------------------------------
(* Every action keeps the path. *)

\* flush(false) on a queue that continues the window: so does what is left of
\* it, and every PUSH it sends fits.
LEMMA FlushStream ==
  ASSUME TypeOK, NEW p \in End, NEW sq \in Seq(Segment), NEW c \in CCType,
         NEW prompt, Flush(p, sq, c, prompt), NEW str,
         SendFits(str, snd_nxt[p], sq, snd_buf[p]),
         \A q \in End : Range(input'[q].segs) \subseteq Range(input[q].segs)
  PROVE  /\ SendFits(str, snd_nxt'[p], snd_queue'[p], snd_buf'[p])
         /\ \A q \in End \ {p} : /\ snd_nxt'[q] = snd_nxt[q]
                                 /\ snd_queue'[q] = snd_queue[q]
                                 /\ snd_buf'[q] = snd_buf[q]
         /\ \A q \in End : \A seg \in OnTheWay(q)' :
              \/ seg \in OnTheWay(q)
              \/ q = Other(p) /\ (seg.cmd = "PUSH" => Fits(str, seg.sn, seg))
<1>1. PICK n \in 0..Len(sq) :
           /\ IsNatMap(SlideInto(p, sq, n), SentSegment)
           /\ net' \subseteq net \cup
                [to : {Other(p)},
                 segs : Seq(AckOutput(p) \cup ProbeOutput(p)
                              \cup PushOutput(p, SlideInto(p, sq, n)))]
           /\ snd_queue' = [snd_queue EXCEPT ![p] = SubSeq(sq, n + 1, Len(sq))]
           /\ \E send : snd_buf' = [snd_buf EXCEPT ![p] =
                                      Transmitted(SlideInto(p, sq, n), send)]
           /\ snd_nxt' = [snd_nxt EXCEPT ![p] = @ + n]
  BY FlushEffect, ZenonT(60)
<1> DEFINE buf == SlideInto(p, sq, n)
           W == AckOutput(p) \cup ProbeOutput(p) \cup PushOutput(p, buf)
<1>2. PICK send : snd_buf' = [snd_buf EXCEPT ![p] = Transmitted(buf, send)]
  BY <1>1
<1>3. DOMAIN snd_buf = End /\ DOMAIN snd_nxt = End /\ DOMAIN snd_queue = End
  BY DEF TypeOK
<1>4. SendFits(str, snd_nxt[p] + n, SubSeq(sq, n + 1, Len(sq)), Transmitted(buf, send))
  BY <1>1, FlushFits
<1>5. \A w \in W : w.cmd = "PUSH" => Fits(str, w.sn, w)
  <2> SUFFICES ASSUME NEW w \in PushOutput(p, buf) PROVE Fits(str, w.sn, w)
    BY DEF AckOutput, ProbeOutput, WireSegment
  <2>1. PICK sn \in Unacked(buf) : w = WireSegment(p, "PUSH", sn, buf[sn].frg, buf[sn].data)
    BY DEF PushOutput
  <2>2. w.sn = sn /\ w.frg = buf[sn].frg /\ w.data = buf[sn].data
    BY <2>1 DEF WireSegment
  <2>3. Fits(str, sn, buf[sn])
    BY SlideFits DEF Unacked
  <2> QED  BY <2>2, <2>3 DEF Fits
<1> HIDE DEF buf, W
<1>6. \A q \in End : \A seg \in OnTheWay(q)' :
        seg \in OnTheWay(q) \/ (q = Other(p) /\ seg \in W)
  <2>1. net' \subseteq net \cup [to : {Other(p)}, segs : Seq(W)]
    BY <1>1 DEF W, buf
  <2> QED  BY <2>1, OnTheWayStep
<1>7. SendFits(str, snd_nxt'[p], snd_queue'[p], snd_buf'[p])
  BY <1>1, <1>2, <1>3, <1>4
<1>8. \A q \in End \ {p} : /\ snd_nxt'[q] = snd_nxt[q]
                          /\ snd_queue'[q] = snd_queue[q]
                          /\ snd_buf'[q] = snd_buf[q]
  BY <1>1, <1>2, <1>3
<1> QED  BY <1>5, <1>6, <1>7, <1>8

\* A flush that is all that happens to the streams.
LEMMA PlainFlushStream ==
  ASSUME TypeOK, StreamInv, NEW p \in End, NEW c \in CCType, NEW prompt,
         Flush(p, snd_queue[p], c, prompt),
         \A q \in End : Range(input'[q].segs) \subseteq Range(input[q].segs),
         UNCHANGED <<stream, rcv_nxt, rcv_queue, rcv_buf>>
  PROVE  StreamInv'
<1>1. PICK str : str = stream[p]
  OBVIOUS
<1>2. snd_queue[p] \in Seq(Segment)
  BY DEF TypeOK
<1>3. SendFits(str, snd_nxt[p], snd_queue[p], snd_buf[p])
  BY <1>1 DEF StreamInv, Sending
<1>4. /\ SendFits(str, snd_nxt'[p], snd_queue'[p], snd_buf'[p])
      /\ \A q \in End \ {p} : /\ snd_nxt'[q] = snd_nxt[q]
                              /\ snd_queue'[q] = snd_queue[q]
                              /\ snd_buf'[q] = snd_buf[q]
      /\ \A q \in End : \A seg \in OnTheWay(q)' :
           \/ seg \in OnTheWay(q)
           \/ q = Other(p) /\ (seg.cmd = "PUSH" => Fits(str, seg.sn, seg))
  BY <1>2, <1>3, FlushStream
<1>5. ASSUME NEW q \in End PROVE Sending(q)'
  <2>1. CASE q = p
    BY <1>1, <1>4, <2>1 DEF Sending
  <2>2. CASE q # p
    BY <1>4, <2>2 DEF StreamInv, Sending
  <2> QED  BY <2>1, <2>2
<1>6. ASSUME NEW q \in End PROVE OnWire(q)'
  <2> SUFFICES ASSUME NEW seg \in OnTheWay(Other(q))', seg.cmd = "PUSH"
               PROVE  Fits(stream[q], seg.sn, seg)
    BY DEF OnWire
  <2>1. Other(q) \in End /\ (Other(q) = Other(p) => q = p)
    BY OtherType
  <2>2. CASE seg \in OnTheWay(Other(q))
    BY <2>2 DEF StreamInv, OnWire
  <2>3. CASE Other(q) = Other(p) /\ Fits(str, seg.sn, seg)
    BY <1>1, <2>1, <2>3
  <2> QED  BY <1>4, <2>1, <2>2, <2>3
<1>7. \A q \in End : Receiving(q)'
  BY DEF StreamInv, Receiving
<1> QED  BY <1>5, <1>6, <1>7 DEF StreamInv

\* A step that touches neither sender, and puts nothing on the wire.
LEMMA SenderIdle ==
  ASSUME StreamInv, UNCHANGED <<stream, snd_nxt, snd_queue, snd_buf>>,
         \A q \in End : OnTheWay(q)' \subseteq OnTheWay(q)
  PROVE  \A q \in End : Sending(q)' /\ OnWire(q)'
<1> SUFFICES ASSUME NEW q \in End PROVE Sending(q)' /\ OnWire(q)'
  OBVIOUS
<1>1. Sending(q)'
  BY DEF StreamInv, Sending
<1>2. Other(q) \in End
  BY OtherType
<1>3. OnWire(q)'
  BY <1>2 DEF StreamInv, OnWire
<1> QED  BY <1>1, <1>3

\* What SendReliable adds to the history and to the queue.
NewFragments(p, m) ==
  [i \in 1..Len(m) |-> [frg |-> Len(m) - i, data |-> m[i], msg |-> Len(sent[p]) + 1]]

\* The new fragments in the history and in the queue are the same.
LEMMA NewFragmentsType ==
  ASSUME TypeOK, NEW p \in End, NEW m \in Messages
  PROVE  /\ NewFragments(p, m) \in Seq(Fragment)
         /\ Len(NewFragments(p, m)) = Len(m)
         /\ Len(Fragments(m)) = Len(m)
         /\ \A i \in 1..Len(m) :
              /\ NewFragments(p, m)[i] = [frg |-> Len(m) - i, data |-> m[i],
                                          msg |-> Len(sent[p]) + 1]
              /\ Fragments(m)[i].frg = NewFragments(p, m)[i].frg
              /\ Fragments(m)[i].data = NewFragments(p, m)[i].data
<1>1. m \in Seq(Payload) /\ Len(m) \in Nat /\ \A i \in 1..Len(m) : m[i] \in Payload
  BY MessagesAssumption, LenProperties, ElementOfSeq
<1>2. Len(sent[p]) + 1 \in Nat
  <2>1. sent[p] \in Seq(Messages)
    BY DEF TypeOK
  <2> QED  BY <2>1, LenProperties
<1>3. \A i \in 1..Len(m) : [frg |-> Len(m) - i, data |-> m[i],
                            msg |-> Len(sent[p]) + 1] \in Fragment
  BY <1>1, <1>2 DEF Fragment
<1>4. NewFragments(p, m) \in Seq(Fragment)
  BY <1>1, <1>3, IsASeq DEF NewFragments
<1>5. DOMAIN NewFragments(p, m) = 1..Len(m) /\ DOMAIN Fragments(m) = 1..Len(m)
  BY DEF NewFragments, Fragments
<1>6. Fragments(m) \in Seq(Segment)
  BY FragmentsType
<1>7. Len(NewFragments(p, m)) = Len(m) /\ Len(Fragments(m)) = Len(m)
  BY <1>1, <1>4, <1>5, <1>6, LenProperties
<1> QED  BY <1>4, <1>7 DEF NewFragments, Fragments

\* SendReliable: stream and queue grow together, then flush may run.
LEMMA SendReliableStream ==
  ASSUME TypeOK, StreamInv, NEW p \in End, NEW m \in Messages, SendReliable(p, m)
  PROVE  StreamInv'
<1> DEFINE sq == snd_queue[p] \o Fragments(m)
<1>1. UNCHANGED <<rcv_nxt, rcv_queue, rcv_buf, input>>
  BY DEF SendReliable
<1>2. /\ stream[p] \in Seq(Fragment) /\ snd_queue[p] \in Seq(Segment)
      /\ snd_nxt[p] \in Nat /\ DOMAIN snd_buf[p] \subseteq Nat
      /\ DOMAIN stream = End /\ cc[p] \in CCType
  BY DEF TypeOK, Fragment, CCType, IsNatMap
<1>3. /\ NewFragments(p, m) \in Seq(Fragment)
      /\ Fragments(m) \in Seq(Segment)
      /\ Len(Fragments(m)) = Len(NewFragments(p, m))
      /\ \A i \in 1..Len(NewFragments(p, m)) :
            /\ Fragments(m)[i].frg = NewFragments(p, m)[i].frg
            /\ Fragments(m)[i].data = NewFragments(p, m)[i].data
  BY NewFragmentsType, FragmentsType
<1>4. PICK str : str = stream[p] \o NewFragments(p, m)
  OBVIOUS
<1>5. stream' = [stream EXCEPT ![p] = str]
  BY <1>4 DEF SendReliable, NewFragments
<1>6. stream'[p] = str /\ \A q \in End \ {p} : stream'[q] = stream[q]
  BY <1>2, <1>5
<1>7. SendFits(str, snd_nxt[p], sq, snd_buf[p])
  <2>1. SendFits(stream[p], snd_nxt[p], snd_queue[p], snd_buf[p])
    BY DEF StreamInv, Sending
  <2> QED  BY <1>2, <1>3, <1>4, <2>1, SendGrows
<1>8. sq \in Seq(Segment)
  BY <1>2, <1>3, ConcatProperties
<1> HIDE DEF sq
<1>9. /\ SendFits(str, snd_nxt'[p], snd_queue'[p], snd_buf'[p])
      /\ \A q \in End \ {p} : /\ snd_nxt'[q] = snd_nxt[q]
                              /\ snd_queue'[q] = snd_queue[q]
                              /\ snd_buf'[q] = snd_buf[q]
      /\ \A q \in End : \A seg \in OnTheWay(q)' :
           \/ seg \in OnTheWay(q)
           \/ q = Other(p) /\ (seg.cmd = "PUSH" => Fits(str, seg.sn, seg))
  <2>1. CASE Flush(p, sq, cc[p], FALSE)
    BY <1>1, <1>2, <1>7, <1>8, <2>1, FlushStream
  <2>2. CASE /\ snd_queue' = [snd_queue EXCEPT ![p] = sq]
             /\ UNCHANGED <<snd_buf, snd_nxt, net>>
    <3>1. \A q \in End : OnTheWay(q)' = OnTheWay(q)
      BY <1>1, <2>2 DEF OnTheWay
    <3>2. snd_queue'[p] = sq /\ \A q \in End \ {p} : snd_queue'[q] = snd_queue[q]
      BY <2>2 DEF TypeOK
    <3> QED  BY <1>7, <2>2, <3>1, <3>2
  <2> QED  BY <2>1, <2>2 DEF SendReliable, sq
<1>10. ASSUME NEW q \in End PROVE Sending(q)'
  <2>1. CASE q = p
    BY <1>6, <1>9, <2>1 DEF Sending
  <2>2. CASE q # p
    BY <1>6, <1>9, <2>2 DEF StreamInv, Sending
  <2> QED  BY <2>1, <2>2
<1>11. ASSUME NEW q \in End PROVE OnWire(q)'
  <2> SUFFICES ASSUME NEW seg \in OnTheWay(Other(q))', seg.cmd = "PUSH"
               PROVE  Fits(stream'[q], seg.sn, seg)
    BY DEF OnWire
  <2>1. Other(q) \in End /\ (Other(q) = Other(p) => q = p)
    BY OtherType
  <2>2. CASE seg \in OnTheWay(Other(q))
    <3>1. Fits(stream[q], seg.sn, seg)
      BY <2>2 DEF StreamInv, OnWire
    <3>2. CASE q # p
      BY <1>6, <3>1, <3>2
    <3>3. CASE q = p
      <4>1. seg \in WireSegments
        BY <2>1, <2>2, OnTheWayType
      <4>2. seg.sn \in Nat
        BY <4>1 DEF WireSegments
      <4>3. Fits(stream[p], seg.sn, seg)
        BY <3>1, <3>3
      <4>4. Fits(str, seg.sn, seg)
        BY <1>2, <1>3, <1>4, <4>2, <4>3, FitsLonger
      <4> QED  BY <1>6, <3>3, <4>4
    <3> QED  BY <3>2, <3>3
  <2>3. CASE Other(q) = Other(p) /\ Fits(str, seg.sn, seg)
    BY <1>6, <2>1, <2>3
  <2> QED  BY <1>9, <2>1, <2>2, <2>3
<1>12. ASSUME NEW q \in End PROVE Receiving(q)'
  <2>1. RecvFits(stream[q], rcv_nxt[Other(q)], rcv_queue[Other(q)], rcv_buf[Other(q)])
    BY DEF StreamInv, Receiving
  <2>2. CASE q # p
    BY <1>1, <1>6, <2>1, <2>2 DEF Receiving
  <2>3. CASE q = p
    <3>1. rcv_nxt[Other(p)] \in Nat /\ rcv_queue[Other(p)] \in Seq(Segment)
          /\ DOMAIN rcv_buf[Other(p)] \subseteq Nat
      BY OtherType DEF TypeOK, IsNatMap
    <3>2. RecvFits(str, rcv_nxt[Other(p)], rcv_queue[Other(p)], rcv_buf[Other(p)])
      BY <1>2, <1>3, <1>4, <2>1, <2>3, <3>1, RecvLonger
    <3> QED  BY <1>1, <1>6, <2>3, <3>2 DEF Receiving
  <2> QED  BY <2>2, <2>3
<1> QED  BY <1>10, <1>11, <1>12 DEF StreamInv

\* TickOutgoing only flushes.
LEMMA TickOutgoingStream ==
  ASSUME TypeOK, StreamInv, NEW p \in End, NEW prompt, TickOutgoing(p, prompt)
  PROVE  StreamInv'
<1>1. cc[p] \in CCType
  BY DEF TypeOK, CCType
<1>2. Flush(p, snd_queue[p], cc[p], prompt)
      /\ UNCHANGED <<stream, rcv_nxt, rcv_queue, rcv_buf, input>>
  BY DEF TickOutgoing
<1> QED  BY <1>1, <1>2, PlainFlushStream

\* Deliver moves a datagram, no stream.
LEMMA DeliverStream ==
  ASSUME TypeOK, StreamInv, NEW p \in End, NEW d \in net, Deliver(p, d)
  PROVE  StreamInv'
<1>1. UNCHANGED <<stream, snd_nxt, snd_queue, snd_buf, rcv_nxt, rcv_queue, rcv_buf>>
  BY DEF Deliver, sndVars, rcvVars
<1>2. \A q \in End : Sending(q)' /\ OnWire(q)'
  BY <1>1, DeliverOnTheWay, SenderIdle
<1>3. \A q \in End : Receiving(q)'
  BY <1>1 DEF StreamInv, Receiving
<1> QED  BY <1>2, <1>3 DEF StreamInv

\* A step whose receiver p moves segments into its queue and whose senders
\* rest keeps the path of the other end's stream.
LEMMA ReceiverStep ==
  ASSUME TypeOK, StreamInv, NEW p \in End, stream' = stream,
         RecvFits(stream[Other(p)], rcv_nxt'[p], rcv_queue'[p], rcv_buf'[p]),
         \A q \in End \ {p} : /\ rcv_nxt'[q] = rcv_nxt[q]
                             /\ rcv_queue'[q] = rcv_queue[q]
                             /\ rcv_buf'[q] = rcv_buf[q]
  PROVE  \A q \in End : Receiving(q)'
<1> SUFFICES ASSUME NEW q \in End PROVE Receiving(q)'
  OBVIOUS
<1>1. Other(q) \in End /\ Other(Other(q)) = q
  BY OtherType
<1>2. CASE Other(q) = p
  BY <1>1, <1>2 DEF Receiving
<1>3. CASE Other(q) # p
  BY <1>1, <1>3 DEF StreamInv, Receiving
<1> QED  BY <1>2, <1>3

\* What MoveToQueue changes: the queues of p, and nothing at the other end.
LEMMA MoveEffect ==
  ASSUME TypeOK, NEW p \in End, NEW n \in 0..RcvWnd[p], NEW q \in Seq(Segment),
         NEW buf, IsNatMap(buf, Segment), NEW str,
         RecvFits(str, rcv_nxt[p], q, buf),
         Movable(p, n, q, buf), MoveToQueue(p, n, q, buf)
  PROVE  /\ RecvFits(str, rcv_nxt'[p], rcv_queue'[p], rcv_buf'[p])
         /\ \A r \in End \ {p} : /\ rcv_nxt'[r] = rcv_nxt[r]
                                 /\ rcv_queue'[r] = rcv_queue[r]
                                 /\ rcv_buf'[r] = rcv_buf[r]
<1>1. rcv_nxt[p] \in Nat /\ n \in Nat
      /\ DOMAIN rcv_nxt = End /\ DOMAIN rcv_queue = End /\ DOMAIN rcv_buf = End
  BY ConfigAssumption DEF TypeOK
<1>2. \A i \in 0..(n - 1) : rcv_nxt[p] + i \in DOMAIN buf
  BY DEF Movable
<1> DEFINE mv == Moved(q, buf, rcv_nxt[p], n)
           rest == LeftOver(buf, rcv_nxt[p], n)
<1>3. RecvFits(str, rcv_nxt[p] + n, mv, rest)
  BY <1>1, <1>2, MoveFits
<1>4. /\ rcv_queue' = [rcv_queue EXCEPT ![p] = mv]
      /\ rcv_buf' = [rcv_buf EXCEPT ![p] = rest]
      /\ rcv_nxt' = [rcv_nxt EXCEPT ![p] = @ + n]
  BY DEF MoveToQueue, Moved, LeftOver
<1> HIDE DEF mv, rest
<1> QED  BY <1>1, <1>3, <1>4

\* Recv takes segments from the front and moves others up.
LEMMA RecvStream ==
  ASSUME TypeOK, StreamInv, NEW p \in End, Recv(p)
  PROVE  StreamInv'
<1> DEFINE q == rcv_queue[p]
           rest(k) == SubSeq(q, k + 1, Len(q))
<1>1. PICK k \in 1..Len(q), n \in 0..RcvWnd[p] :
        /\ Movable(p, n, rest(k), rcv_buf[p])
        /\ MoveToQueue(p, n, rest(k), rcv_buf[p])
  BY DEF Recv
<1>2. UNCHANGED <<stream, snd_nxt, snd_queue, snd_buf, input, net>>
  BY DEF Recv, sndVars
<1>3. q \in Seq(Segment) /\ Len(q) \in Nat /\ rcv_nxt[p] \in Nat
      /\ IsNatMap(rcv_buf[p], Segment)
  BY LenProperties DEF TypeOK
<1>4. rest(k) \in Seq(Segment)
  <2>1. \A i \in (k + 1)..Len(q) : q[i] \in Segment
    BY <1>3, ElementOfSeq
  <2> QED  BY <1>3, <2>1, SubSeqProperties
<1>5. RecvFits(stream[Other(p)], rcv_nxt[p], q, rcv_buf[p])
  BY OtherType DEF StreamInv, Receiving
<1>6. RecvFits(stream[Other(p)], rcv_nxt[p], rest(k), rcv_buf[p])
  BY <1>3, <1>5, RestFits
<1> HIDE DEF q, rest
<1>7. /\ RecvFits(stream[Other(p)], rcv_nxt'[p], rcv_queue'[p], rcv_buf'[p])
      /\ \A r \in End \ {p} : /\ rcv_nxt'[r] = rcv_nxt[r]
                              /\ rcv_queue'[r] = rcv_queue[r]
                              /\ rcv_buf'[r] = rcv_buf[r]
  BY <1>1, <1>3, <1>4, <1>6, MoveEffect
<1>8. \A r \in End : Receiving(r)'
  BY <1>2, <1>7, ReceiverStep
<1>9. \A r \in End : OnTheWay(r)' \subseteq OnTheWay(r)
  BY <1>2 DEF OnTheWay
<1> QED  BY <1>2, <1>8, <1>9, SenderIdle DEF StreamInv

\* Every unacknowledged segment of b is an unacknowledged segment of old.
Keeps(old, b) ==
  \A sn \in DOMAIN b : ~b[sn].acked =>
    /\ sn \in DOMAIN old /\ ~old[sn].acked
    /\ b[sn].frg = old[sn].frg /\ b[sn].data = old[sn].data

\* Input steps leave in snd_buf segments that were there, or acknowledged ones.
LEMMA InputSending ==
  ASSUME TypeOK, StreamInv, NEW p \in End, NEW b,
         snd_buf' = [snd_buf EXCEPT ![p] = b], Keeps(snd_buf[p], b),
         UNCHANGED <<stream, snd_nxt, snd_queue>>,
         \A q \in End : OnTheWay(q)' \subseteq OnTheWay(q)
  PROVE  \A q \in End : Sending(q)' /\ OnWire(q)'
<1> SUFFICES ASSUME NEW q \in End PROVE Sending(q)' /\ OnWire(q)'
  OBVIOUS
<1>1. Other(q) \in End
  BY OtherType
<1>2. OnWire(q)'
  BY <1>1 DEF StreamInv, OnWire
<1>3. DOMAIN snd_buf = End
  BY DEF TypeOK
<1>4. SendFits(stream[q], snd_nxt[q], snd_queue[q], snd_buf[q])
  BY DEF StreamInv, Sending
<1>5. CASE q # p
  <2>1. snd_buf'[q] = snd_buf[q]
    BY <1>3, <1>5
  <2> QED  BY <1>2, <1>4, <2>1 DEF Sending
<1>6. CASE q = p
  <2>1. snd_buf'[p] = b
    BY <1>3
  <2>2. \A sn \in DOMAIN b : ~b[sn].acked => Fits(stream[p], sn, b[sn])
    BY <1>4, <1>6 DEF SendFits, Fits, Keeps
  <2>3. SendFits(stream[p], snd_nxt[p], snd_queue[p], b)
    BY <1>4, <1>6, <2>2 DEF SendFits
  <2> QED  BY <1>2, <1>6, <2>1, <2>3 DEF Sending
<1> QED  BY <1>5, <1>6

\* parse_ack takes the data of a segment it also marks; the rest is counting.
LEMMA InputAckStream ==
  ASSUME TypeOK, StreamInv, NEW p \in End, InputAck(p)
  PROVE  StreamInv'
<1> DEFINE mrk == parse_ack(Pruned(p), NewUna(p), snd_nxt[p], Seg(p).sn)
           fa(older) == parse_fastack(mrk, NewUna(p), snd_nxt[p], Seg(p).sn, older)
<1>1. InputNext(p, "ACK")
  BY DEF InputAck
<1>2. PICK older : snd_buf' = [snd_buf EXCEPT ![p] = fa(older)]
  BY DEF InputAck, NewUna, Pruned, Seg
<1>3. UNCHANGED <<stream, snd_nxt, snd_queue, rcv_nxt, rcv_queue, rcv_buf, net>>
  BY DEF InputAck, rcvVars
<1>4. /\ IsNatMap(Pruned(p), SentSegment)
      /\ \A sn \in DOMAIN Pruned(p) : sn \in DOMAIN snd_buf[p]
                                     /\ Pruned(p)[sn] = snd_buf[p][sn]
  BY <1>1, InputHeaderType
<1>5. IsNatMap(mrk, SentSegment) /\ DOMAIN mrk = DOMAIN Pruned(p)
  BY <1>4, parse_ackType
<1>6. ASSUME NEW sn \in DOMAIN mrk, ~mrk[sn].acked
      PROVE  mrk[sn] = Pruned(p)[sn]
  <2>1. Pruned(p)[sn] \in SentSegment /\ sn \in DOMAIN Pruned(p)
    BY <1>4, <1>5 DEF IsNatMap
  <2> QED  BY <1>6, <2>1 DEF parse_ack, SentSegment
<1> HIDE DEF mrk
<1>7. ASSUME NEW sn \in DOMAIN fa(older), ~fa(older)[sn].acked
      PROVE  /\ sn \in DOMAIN mrk /\ ~mrk[sn].acked
             /\ fa(older)[sn].frg = mrk[sn].frg /\ fa(older)[sn].data = mrk[sn].data
  <2>1. sn \in DOMAIN mrk
    BY <1>5, parse_fastackType
  <2>2. mrk[sn] \in SentSegment
    BY <1>5, <2>1 DEF IsNatMap
  <2> QED  BY <1>7, <2>1, <2>2 DEF parse_fastack, SentSegment
<1> HIDE DEF fa
<1>8. ASSUME NEW sn \in DOMAIN fa(older), ~fa(older)[sn].acked
      PROVE  /\ sn \in DOMAIN snd_buf[p] /\ ~snd_buf[p][sn].acked
             /\ fa(older)[sn].frg = snd_buf[p][sn].frg
             /\ fa(older)[sn].data = snd_buf[p][sn].data
  <2>1. /\ sn \in DOMAIN mrk /\ ~mrk[sn].acked
        /\ fa(older)[sn].frg = mrk[sn].frg /\ fa(older)[sn].data = mrk[sn].data
    BY <1>7, <1>8
  <2>2. mrk[sn] = snd_buf[p][sn] /\ sn \in DOMAIN snd_buf[p]
    BY <1>4, <1>5, <1>6, <2>1
  <2> QED  BY <2>1, <2>2
<1>9. \A q \in End : OnTheWay(q)' \subseteq OnTheWay(q)
  BY <1>1, <1>3, InputOnTheWay
<1>10. \A q \in End : Sending(q)' /\ OnWire(q)'
  <2> DEFINE b == fa(older)
  <2>1. snd_buf' = [snd_buf EXCEPT ![p] = b]
    BY <1>2
  <2>2. Keeps(snd_buf[p], b)
    BY <1>8 DEF Keeps
  <2> HIDE DEF b
  <2> QED  BY <1>3, <1>9, <2>1, <2>2, InputSending
<1>11. \A q \in End : Receiving(q)'
  BY <1>3 DEF StreamInv, Receiving
<1> QED  BY <1>10, <1>11 DEF StreamInv

\* A pruned window holds nothing it did not hold before.
LEMMA PrunedStream ==
  ASSUME TypeOK, StreamInv, NEW p \in End, NEW cmd, InputNext(p, cmd),
         snd_buf' = [snd_buf EXCEPT ![p] = Pruned(p)],
         UNCHANGED <<stream, snd_nxt, snd_queue, net>>
  PROVE  \A q \in End : Sending(q)' /\ OnWire(q)'
<1>1. \A sn \in DOMAIN Pruned(p) : sn \in DOMAIN snd_buf[p]
                                   /\ Pruned(p)[sn] = snd_buf[p][sn]
  BY InputHeaderType
<1>2. \A q \in End : OnTheWay(q)' \subseteq OnTheWay(q)
  BY InputOnTheWay
<1>3. Keeps(snd_buf[p], Pruned(p))
  BY <1>1 DEF Keeps
<1> QED  BY <1>2, <1>3, InputSending

\* A PUSH off the wire fits, and so it does in rcv_buf.
LEMMA InputPushStream ==
  ASSUME TypeOK, StreamInv, NEW p \in End, InputPush(p)
  PROVE  StreamInv'
<1> DEFINE buf == parse_data(rcv_buf[p], Seg(p))
           str == stream[Other(p)]
<1>1. InputNext(p, "PUSH")
  BY DEF InputPush
<1>2. Seg(p) \in WireSegments /\ Seg(p).cmd = "PUSH"
  BY <1>1, InputHeaderType
<1>3. /\ snd_buf' = [snd_buf EXCEPT ![p] = Pruned(p)]
      /\ UNCHANGED <<stream, snd_nxt, snd_queue, net>>
  BY DEF InputPush, Pruned, Seg, TypeOK
<1>4. \A q \in End : Sending(q)' /\ OnWire(q)'
  BY <1>1, <1>3, PrunedStream
<1>5. Fits(str, Seg(p).sn, Seg(p))
  <2>1. Seg(p) \in OnTheWay(p)
    BY <1>1, <1>3, InputOnTheWay
  <2>2. Other(p) \in End /\ Other(Other(p)) = p
    BY OtherType
  <2> QED  BY <1>2, <2>1, <2>2 DEF StreamInv, OnWire
<1>6. RecvFits(str, rcv_nxt[p], rcv_queue[p], rcv_buf[p])
  BY OtherType DEF StreamInv, Receiving
<1>7. RecvFits(str, rcv_nxt[p], rcv_queue[p], buf)
  BY <1>5, <1>6, StoreFits
<1>8. IsNatMap(buf, Segment) /\ rcv_queue[p] \in Seq(Segment)
  <2>1. Seg(p).sn \in Nat /\ [frg |-> Seg(p).frg, data |-> Seg(p).data] \in Segment
    BY <1>2 DEF WireSegments, Segment
  <2>2. IsNatMap(rcv_buf[p], Segment) /\ rcv_queue[p] \in Seq(Segment)
    BY DEF TypeOK
  <2> QED  BY <2>1, <2>2, parse_dataType
<1>9. \/ \E n \in 0..RcvWnd[p] : /\ Movable(p, n, rcv_queue[p], buf)
                                  /\ MoveToQueue(p, n, rcv_queue[p], buf)
      \/ UNCHANGED <<rcv_nxt, rcv_buf, rcv_queue>>
  BY DEF InputPush, Seg
<1> HIDE DEF buf, str
<1>10. \A q \in End : Receiving(q)'
  <2>1. CASE UNCHANGED <<rcv_nxt, rcv_buf, rcv_queue>>
    BY <1>3, <2>1 DEF StreamInv, Receiving
  <2>2. CASE \E n \in 0..RcvWnd[p] : /\ Movable(p, n, rcv_queue[p], buf)
                                     /\ MoveToQueue(p, n, rcv_queue[p], buf)
    <3>1. /\ RecvFits(str, rcv_nxt'[p], rcv_queue'[p], rcv_buf'[p])
          /\ \A r \in End \ {p} : /\ rcv_nxt'[r] = rcv_nxt[r]
                                  /\ rcv_queue'[r] = rcv_queue[r]
                                  /\ rcv_buf'[r] = rcv_buf[r]
      BY <1>7, <1>8, <2>2, MoveEffect
    <3> QED  BY <1>3, <3>1, ReceiverStep DEF str
  <2> QED  BY <1>9, <2>1, <2>2
<1> QED  BY <1>4, <1>10 DEF StreamInv

\* Probes carry no data.
LEMMA InputProbeStream ==
  ASSUME TypeOK, StreamInv, NEW p \in End, InputProbe(p)
  PROVE  StreamInv'
<1>1. PICK cmd : InputNext(p, cmd)
  BY DEF InputProbe
<1>2. /\ snd_buf' = [snd_buf EXCEPT ![p] = Pruned(p)]
      /\ UNCHANGED <<stream, snd_nxt, snd_queue, rcv_nxt, rcv_queue, rcv_buf, net>>
  BY DEF InputProbe, Pruned, Seg, TypeOK
<1>3. \A q \in End : Sending(q)' /\ OnWire(q)'
  BY <1>1, <1>2, PrunedStream
<1>4. \A q \in End : Receiving(q)'
  BY <1>2 DEF StreamInv, Receiving
<1> QED  BY <1>3, <1>4 DEF StreamInv

\* The tail of Input flushes, sends acknowledgements, or neither.
LEMMA InputEndStream ==
  ASSUME TypeOK, StreamInv, NEW p \in End, NEW prompt, InputEnd(p, prompt)
  PROVE  StreamInv'
<1> DEFINE c == CwndAfterInput(cc[p], input[p].una0, snd_una[p], rmt_wnd[p])
<1>1. c \in CCType
  <2>1. cc[p] \in CCType /\ input[p].una0 \in Nat /\ snd_una[p] \in Nat
        /\ rmt_wnd[p] \in Nat
    BY DEF TypeOK, CCType
  <2> QED  BY <2>1, CwndAfterInputType
<1>2. UNCHANGED <<stream, rcv_nxt, rcv_queue, rcv_buf>>
  BY DEF InputEnd
<1>3. \A q \in End : Range(input'[q].segs) \subseteq Range(input[q].segs)
  <2>1. input'[p].segs = <<>> /\ \A q \in End \ {p} : input'[q] = input[q]
    BY DEF InputEnd, NoInput, TypeOK
  <2>2. Range(<<>>) = {}
    BY DEF Range
  <2> QED  BY <2>1, <2>2
<1> HIDE DEF c
<1>4. CASE Flush(p, snd_queue[p], c, prompt)
  BY <1>1, <1>2, <1>3, <1>4, PlainFlushStream
<1>5. CASE UNCHANGED <<snd_queue, snd_buf, snd_nxt>>
           /\ (FlushAcks(p, prompt) \/ net' = net)
  <2> DEFINE W == AckOutput(p)
  <2>1. net' \subseteq net \cup [to : {Other(p)}, segs : Seq(W)]
    <3>1. CASE net' = net
      BY <3>1
    <3>2. CASE FlushAcks(p, prompt)
      BY <3>2, AckSegmentsType, TransmitType DEF FlushAcks
    <3> QED  BY <1>5, <3>1, <3>2
  <2>2. \A w \in W : w.cmd = "ACK"
    BY DEF AckOutput, WireSegment
  <2> HIDE DEF W
  <2>3. \A q \in End : \A seg \in OnTheWay(q)' :
          seg \in OnTheWay(q) \/ (q = Other(p) /\ seg \in W)
    BY <1>3, <2>1, OnTheWayStep
  <2>4. ASSUME NEW q \in End PROVE OnWire(q)'
    <3>1. Other(q) \in End
      BY OtherType
    <3> QED  BY <1>2, <2>2, <2>3, <3>1 DEF StreamInv, OnWire
  <2>5. \A q \in End : Sending(q)' /\ Receiving(q)'
    BY <1>2, <1>5 DEF StreamInv, Sending, Receiving
  <2> QED  BY <2>4, <2>5 DEF StreamInv
<1> QED  BY <1>4, <1>5 DEF InputEnd, c

\* Nothing is anywhere at first.
LEMMA InitStream == Init => StreamInv
<1> SUFFICES ASSUME Init, NEW p \in End
             PROVE  Sending(p) /\ OnWire(p) /\ Receiving(p)
  BY DEF StreamInv
<1>1. \A q \in End : /\ stream[q] = <<>> /\ snd_queue[q] = <<>> /\ snd_buf[q] = <<>>
                    /\ snd_nxt[q] = 0 /\ rcv_nxt[q] = 0 /\ rcv_queue[q] = <<>>
                    /\ rcv_buf[q] = <<>> /\ input[q].segs = <<>>
  BY DEF Init, NoInput
<1>2. Len(<<>>) = 0 /\ DOMAIN <<>> = {} /\ Range(<<>>) = {} /\ net = {}
  BY DEF Init, Range
<1>3. \A q \in End : OnTheWay(q) = {}
  BY <1>1, <1>2 DEF OnTheWay
<1>4. Sending(p)
  BY <1>1, <1>2 DEF Sending, SendFits
<1>5. OnWire(p)
  BY <1>3, OtherType DEF OnWire
<1>6. Receiving(p)
  BY <1>1, <1>2, OtherType DEF Receiving, RecvFits
<1> QED  BY <1>4, <1>5, <1>6

\* The path of the streams is an invariant, given the type invariant.
LEMMA NextStream == TypeOK /\ StreamInv /\ [Next]_vars => StreamInv'
<1> SUFFICES ASSUME TypeOK, StreamInv, [Next]_vars PROVE StreamInv'
  OBVIOUS
<1>1. CASE UNCHANGED vars \/ \E p \in End : HandleDeadLink(p)
  <2>1. UNCHANGED <<stream, snd_nxt, snd_queue, snd_buf, rcv_nxt, rcv_queue,
                    rcv_buf, input, net>>
    BY <1>1 DEF vars, sndVars, rcvVars, HandleDeadLink
  <2> QED  BY <2>1 DEF StreamInv, Sending, OnWire, Receiving, OnTheWay
<1>2. CASE Next
  BY <1>1, <1>2, SendReliableStream, TickOutgoingStream, RecvStream, DeliverStream,
     InputAckStream, InputPushStream, InputProbeStream, InputEndStream
  DEF Next
<1> QED  BY <1>1, <1>2

\* A PUSH on the wire carries the chunk and the fragment number its sequence
\* number stands for, however often it is retransmitted.
THEOREM WireIsFaithful == Spec => []WireMatchesStream
<1>1. Init => StreamInv
  BY InitStream
<1>2. TypeOK /\ StreamInv /\ [Next]_vars => StreamInv'
  BY NextStream
<1>3. StreamInv => WireMatchesStream
  <2> SUFFICES ASSUME StreamInv, NEW p \in End, NEW seg \in OnTheWay(p),
                      seg.cmd = "PUSH"
               PROVE  Fits(stream[Other(p)], seg.sn, seg)
    BY DEF WireMatchesStream, Fits
  <2>1. Other(p) \in End /\ Other(Other(p)) = p
    BY OtherType
  <2> QED  BY <2>1 DEF StreamInv, OnWire
<1> QED  BY <1>1, <1>2, <1>3, TypeCorrect, PTL DEF Spec

\* Message j of snt occupies str from place s, and message j - 1 ends just
\* before it.
Block(str, snt, s, j) ==
  /\ j \in 1..Len(snt)
  /\ Len(snt[j]) \in 1..(FrgMod - 1)
  /\ s >= 1 /\ s + Len(snt[j]) - 1 <= Len(str)
  /\ \A i \in 1..Len(snt[j]) :
       str[s + i - 1] = [frg |-> Len(snt[j]) - i, data |-> snt[j][i], msg |-> j]
  /\ IF s = 1 THEN j = 1 ELSE str[s - 1].msg = j - 1

\* Every fragment of str is in such a block, and the last ends the last.
StreamShape(str, snt) ==
  /\ \A k \in 1..Len(str) : \E s \in 1..k :
       /\ Block(str, snt, s, str[k].msg)
       /\ k <= s + Len(snt[str[k].msg]) - 1
  /\ IF str = <<>> THEN snt = <<>>
     ELSE str[Len(str)].msg = Len(snt) /\ str[Len(str)].frg = 0

\* The messages del were read from the first pos fragments of str.
Reading(str, snt, pos, del) ==
  /\ Len(del) <= Len(snt)
  /\ \A i \in 1..Len(del) : del[i] = snt[i]
  /\ pos \in 0..Len(str)
  /\ IF pos = 0 THEN del = <<>>
     ELSE str[pos].msg = Len(del) /\ str[pos].frg = 0

\* How many fragments the user of p has read.
Pos(p) == rcv_nxt[p] - Len(rcv_queue[p])

ReadInv ==
  \A p \in End :
    /\ StreamShape(stream[p], sent[p])
    /\ Reading(stream[p], sent[p], Pos(Other(p)), delivered[Other(p)])

----------------------------------------------------------------------------
(* The stream and its messages. *)

\* PeekSize's frg + 1 does not wrap below 256.
LEMMA SmallMod == \A x \in Nat : x < 256 => x % 256 = x
  OBVIOUS

\* The numbers of fragments a message may have.
LEMMA SmallRange == \A x \in 1..255 : x \in Nat /\ x >= 1 /\ x < 256
  OBVIOUS

\* Where a message of length len that starts after pos ends.
LEMMA EndPlace ==
  \A pos, len, n \in Nat :
    len >= 1 /\ pos + 1 + len - 1 <= n =>
      /\ len - len = 0 /\ len \in 1..len
      /\ pos + 1 + len - 1 = pos + len /\ pos + len \in 1..n
  OBVIOUS

\* The extent of a block.
LEMMA BlockExtent ==
  ASSUME NEW str, NEW snt, NEW s, NEW j, Block(str, snt, s, j)
  PROVE  /\ j \in 1..Len(snt)
         /\ Len(snt[j]) \in Nat /\ Len(snt[j]) >= 1 /\ Len(snt[j]) < 256
         /\ s >= 1 /\ s + Len(snt[j]) - 1 <= Len(str)
<1>1. /\ j \in 1..Len(snt) /\ Len(snt[j]) \in 1..(FrgMod - 1)
      /\ s >= 1 /\ s + Len(snt[j]) - 1 <= Len(str)
  BY Zenon DEF Block
<1>2. FrgMod - 1 = 255
  BY DEF FrgMod
<1>3. Len(snt[j]) \in Nat /\ Len(snt[j]) >= 1 /\ Len(snt[j]) < 256
  BY <1>1, <1>2, SmallRange, Zenon
<1> QED  BY <1>1, <1>3, Zenon

\* Where a message ended, the next one starts.
LEMMA NextBlock ==
  ASSUME NEW str \in Seq(Fragment), NEW snt \in Seq(Messages), NEW pos \in Nat,
         NEW del \in Seq(Seq(Payload)), pos < Len(str), StreamShape(str, snt),
         Reading(str, snt, pos, del)
  PROVE  Block(str, snt, pos + 1, Len(del) + 1)
<1>0. Len(str) \in Nat /\ Len(del) \in Nat /\ Len(snt) \in Nat
  BY LenProperties
<1> DEFINE j == str[pos + 1].msg
<1>1. pos + 1 \in 1..Len(str)
  BY <1>0
<1>2. PICK s \in 1..(pos + 1) : /\ Block(str, snt, s, j)
                                /\ pos + 1 <= s + Len(snt[j]) - 1
  BY <1>1 DEF StreamShape
<1> HIDE DEF j
<1>3. j \in 1..Len(snt) /\ Len(snt[j]) \in Nat
  BY <1>2, BlockExtent, Zenon
<1>4. s = pos + 1
  <2> SUFFICES ASSUME s <= pos PROVE FALSE
    BY <1>2
  <2> DEFINE i == pos - s + 1
  <2>1. i \in 1..Len(snt[j]) /\ s + i - 1 = pos /\ i < Len(snt[j])
    BY <1>2, <1>3
  <2>2. str[s + i - 1] = [frg |-> Len(snt[j]) - i, data |-> snt[j][i], msg |-> j]
    BY <1>2, <2>1 DEF Block
  <2>3. str[pos].frg = Len(snt[j]) - i
    BY <2>1, <2>2
  <2>4. str[pos].frg = 0
    BY DEF Reading
  <2>5. Len(snt[j]) - i # 0
    BY <1>3, <2>1
  <2> QED  BY <2>3, <2>4, <2>5
<1>5. j = Len(del) + 1
  <2>1. CASE pos = 0
    <3>1. j = 1
      BY <1>2, <1>4, <2>1 DEF Block
    <3>2. Len(del) = 0
      BY <2>1 DEF Reading
    <3> QED  BY <3>1, <3>2
  <2>2. CASE pos # 0
    <3>1. str[s - 1].msg = j - 1 /\ s - 1 = pos
      BY <1>2, <1>4, <2>2 DEF Block
    <3>2. str[pos].msg = Len(del)
      BY <2>2 DEF Reading
    <3> QED  BY <1>0, <1>3, <3>1, <3>2
  <2> QED  BY <2>1, <2>2
<1> QED  BY <1>2, <1>4, <1>5

\* The user data of the first k segments of q, as Recv copies it out.
CopiedOut(q, k) == [i \in 1..k |-> q[i].data]

\* Recv stops after segment k: the first with frg 0, or the last.
StopsAt(q, k) ==
  /\ \A i \in 1..(k - 1) : q[i].frg # 0
  /\ q[k].frg = 0 \/ k = Len(q)

\* The queue q starts with the fragments of m, as many as it holds.
StartsWith(q, m) ==
  \A i \in 1..Len(q) : i <= Len(m) => q[i].frg = Len(m) - i /\ q[i].data = m[i]

\* A queue in place at the start of a block starts with its message.
LEMMA QueueStarts ==
  ASSUME NEW str, NEW snt, NEW nxt \in Nat, NEW q \in Seq(Segment), NEW buf,
         NEW s, NEW j, RecvFits(str, nxt, q, buf), s = nxt - Len(q) + 1,
         Block(str, snt, s, j)
  PROVE  StartsWith(q, snt[j])
<1> SUFFICES ASSUME NEW i \in 1..Len(q), i <= Len(snt[j])
             PROVE  q[i].frg = Len(snt[j]) - i /\ q[i].data = snt[j][i]
  BY DEF StartsWith
<1>1. Len(q) \in Nat /\ Len(snt[j]) \in Nat
  BY LenProperties, BlockExtent
<1>2. i \in 1..Len(snt[j]) /\ nxt - Len(q) + i - 1 + 1 = s + i - 1
  BY <1>1
<1>3. str[s + i - 1] = [frg |-> Len(snt[j]) - i, data |-> snt[j][i], msg |-> j]
  BY <1>2 DEF Block
<1>4. /\ q[i].frg = str[nxt - Len(q) + i - 1 + 1].frg
      /\ q[i].data = str[nxt - Len(q) + i - 1 + 1].data
  BY DEF RecvFits, Fits
<1> QED  BY <1>2, <1>3, <1>4

\* Recv's loop takes the fragments of one message, no more and no fewer.
LEMMA ReadOne ==
  ASSUME NEW q \in Seq(Segment), NEW m \in Seq(Payload), Len(m) >= 1,
         Len(m) < 256, StartsWith(q, m), Readable(q), NEW k \in 1..Len(q), StopsAt(q, k)
  PROVE  k = Len(m) /\ CopiedOut(q, k) = m
<1> DEFINE L == Len(m)
<1>1. L \in Nat /\ L >= 1 /\ L < 256 /\ Len(q) \in Nat
  BY LenProperties
<1>2. \A i \in 1..Len(q) : i <= L => q[i].frg = L - i /\ q[i].data = m[i]
  BY DEF StartsWith
<1> HIDE DEF L
<1>3. Len(q) >= L
  <2>1. Head(q) = q[1] /\ 1 \in 1..Len(q)
    BY <1>1
  <2>2. Head(q).frg = L - 1
    BY <1>1, <1>2, <2>1
  <2>3. L - 1 + 1 = L
    BY <1>1
  <2>4. (Head(q).frg + 1) % FrgMod = L
    BY <1>1, <2>2, <2>3, SmallMod DEF FrgMod
  <2>5. L - 1 = 0 \/ Len(q) >= L
    BY <2>2, <2>4 DEF Readable
  <2> QED  BY <1>1, <2>1, <2>5
<1>4. ~(k < L)
  BY <1>1, <1>2, <1>3 DEF StopsAt
<1>5. ~(k > L)
  <2> SUFFICES ASSUME k > L PROVE FALSE
    OBVIOUS
  <2>1. L \in 1..(k - 1) /\ L \in 1..Len(q)
    BY <1>1
  <2>2. q[L].frg = 0
    BY <1>1, <1>2, <2>1
  <2> QED  BY <2>1, <2>2 DEF StopsAt
<1>6. k = L
  BY <1>1, <1>4, <1>5
<1>7. m = [i \in 1..L |-> m[i]]
  BY LenProperties DEF L
<1>8. \A i \in 1..L : q[i].data = m[i]
  BY <1>1, <1>2, <1>3
<1> QED  BY <1>6, <1>7, <1>8 DEF L, CopiedOut

\* After the message is read the reader stands at its end.
LEMMA ReadOn ==
  ASSUME NEW str \in Seq(Fragment), NEW snt \in Seq(Messages), NEW pos \in Nat,
         NEW del \in Seq(Seq(Payload)), Reading(str, snt, pos, del),
         NEW j, j = Len(del) + 1, Block(str, snt, pos + 1, j)
  PROVE  Reading(str, snt, pos + Len(snt[j]), Append(del, snt[j]))
<1> DEFINE L == Len(snt[j])
           del2 == Append(del, snt[j])
<1>1. Len(del) \in Nat /\ Len(str) \in Nat /\ Len(snt) \in Nat
  BY LenProperties
<1>2. j \in 1..Len(snt) /\ L \in Nat /\ L >= 1 /\ pos + 1 + L - 1 <= Len(str)
  <2>1. j \in 1..Len(snt)
    BY BlockExtent, Zenon
  <2>2. L \in Nat
    BY BlockExtent, Zenon
  <2>3. L >= 1
    BY BlockExtent, Zenon
  <2>4. pos + 1 + L - 1 <= Len(str)
    BY BlockExtent, Zenon
  <2> QED  BY <2>1, <2>2, <2>3, <2>4
<1>3. snt[j] \in Seq(Payload)
  BY <1>2, ElementOfSeq, MessagesAssumption
<1>4. Len(del2) = j /\ del2[j] = snt[j] /\ \A i \in 1..Len(del) : del2[i] = del[i]
  BY <1>3, AppendProperties
<1> HIDE DEF del2
<1>5. \A i \in 1..Len(del2) : del2[i] = snt[i]
  <2> SUFFICES ASSUME NEW i \in 1..Len(del2) PROVE del2[i] = snt[i]
    OBVIOUS
  <2>1. CASE i = j
    BY <1>4, <2>1
  <2>2. CASE i # j
    <3>1. i \in 1..Len(del)
      BY <1>1, <1>4, <2>2
    <3> QED  BY <1>4, <3>1 DEF Reading
  <2> QED  BY <2>1, <2>2
<1>6. pos + L \in 1..Len(str) /\ pos + 1 + L - 1 = pos + L /\ L - L = 0 /\ L \in 1..L
  <2>1. L \in Nat /\ L >= 1 /\ Len(str) \in Nat /\ pos + 1 + L - 1 <= Len(str)
    BY <1>1, <1>2
  <2> QED  BY <2>1, EndPlace, Zenon
<1>7. str[pos + 1 + L - 1] = [frg |-> L - L, data |-> snt[j][L], msg |-> j]
  BY <1>6 DEF Block
<1> HIDE DEF L
<1>8. str[pos + L].msg = j /\ str[pos + L].frg = 0
  BY <1>6, <1>7
<1>9. Len(del2) <= Len(snt)
  BY <1>1, <1>2, <1>4
<1>10. pos + L \in 0..Len(str) /\ pos + L # 0
  BY <1>1, <1>6
<1> QED  BY <1>4, <1>5, <1>8, <1>9, <1>10 DEF Reading, del2, L

\* A longer stream of more messages has the blocks it had.
LEMMA BlockLonger ==
  ASSUME NEW str \in Seq(Fragment), NEW new \in Seq(Fragment),
         NEW snt \in Seq(Messages), NEW m \in Messages, NEW s \in Nat, NEW j,
         Block(str, snt, s, j)
  PROVE  Block(str \o new, Append(snt, m), s, j)
<1> DEFINE L == Len(snt[j])
           snt2 == Append(snt, m)
           str2 == str \o new
<1>0. Len(str) \in Nat /\ Len(new) \in Nat /\ Len(snt) \in Nat
  BY LenProperties
<1>1. /\ Len(str) \in Nat /\ Len(new) \in Nat /\ Len(snt) \in Nat
      /\ j \in 1..Len(snt) /\ L \in Nat /\ L >= 1 /\ s >= 1 /\ s + L - 1 <= Len(str)
  <2>1. j \in 1..Len(snt)
    BY BlockExtent, Zenon
  <2>2. L \in Nat
    BY BlockExtent, Zenon
  <2>3. L >= 1
    BY BlockExtent, Zenon
  <2>4. s >= 1 /\ s + L - 1 <= Len(str)
    BY BlockExtent, Zenon
  <2> QED  BY <1>0, <2>1, <2>2, <2>3, <2>4
<1>2. Len(snt2) = Len(snt) + 1 /\ snt2[j] = snt[j]
  BY <1>1, AppendProperties
<1>3. /\ Len(str2) = Len(str) + Len(new)
      /\ \A i \in 1..Len(str) : str2[i] = str[i]
  BY <1>1, ConcatProperties
<1>4. \A i \in 1..L : str2[s + i - 1] = [frg |-> L - i, data |-> snt[j][i], msg |-> j]
  <2> SUFFICES ASSUME NEW i \in 1..L
               PROVE str2[s + i - 1] = [frg |-> L - i, data |-> snt[j][i], msg |-> j]
    OBVIOUS
  <2>1. s + i - 1 \in 1..Len(str)
    BY <1>1
  <2>2. str2[s + i - 1] = str[s + i - 1]
    BY <1>3, <2>1
  <2>3. str[s + i - 1] = [frg |-> L - i, data |-> snt[j][i], msg |-> j]
    BY DEF Block
  <2> QED  BY <2>2, <2>3
<1>5. IF s = 1 THEN j = 1 ELSE str2[s - 1].msg = j - 1
  <2>1. CASE s = 1
    BY <2>1 DEF Block
  <2>2. CASE s # 1
    <3>1. s - 1 \in 1..Len(str)
      BY <1>1, <2>2
    <3> QED  BY <1>3, <2>2, <3>1 DEF Block
  <2> QED  BY <2>1, <2>2
<1>6. L \in 1..(FrgMod - 1) /\ j \in 1..Len(snt2) /\ s + L - 1 <= Len(str2)
  BY <1>1, <1>2, <1>3 DEF Block
<1> HIDE DEF L, str2, snt2
<1>7. Len(snt2[j]) = L /\ snt2[j] = snt[j] /\ s >= 1
  BY <1>1, <1>2 DEF L
<1> QED  BY <1>4, <1>5, <1>6, <1>7 DEF Block, str2, snt2

\* The fragments of m at the end of the stream.
IsNew(new, m, j) ==
  /\ Len(new) = Len(m)
  /\ \A i \in 1..Len(m) :
       new[i] = [frg |-> Len(m) - i, data |-> m[i], msg |-> j]

\* SendReliable appends a block.
LEMMA BlockAdded ==
  ASSUME NEW str \in Seq(Fragment), NEW new \in Seq(Fragment),
         NEW snt \in Seq(Messages), NEW m \in Messages,
         Len(m) \in 1..(FrgMod - 1), IsNew(new, m, Len(snt) + 1),
         StreamShape(str, snt)
  PROVE  Block(str \o new, Append(snt, m), Len(str) + 1, Len(snt) + 1)
<1> DEFINE L == Len(m)
           j == Len(snt) + 1
           snt2 == Append(snt, m)
           str2 == str \o new
<1>1. Len(str) \in Nat /\ Len(new) = L /\ Len(snt) \in Nat /\ L \in Nat /\ L >= 1
  <2>1. Len(str) \in Nat /\ Len(snt) \in Nat /\ Len(new) = L
    BY LenProperties DEF IsNew
  <2>2. FrgMod - 1 = 255
    BY DEF FrgMod
  <2>3. L \in Nat /\ L >= 1
    BY <2>2, SmallRange, Zenon
  <2> QED  BY <2>1, <2>3
<1>2. Len(snt2) = j /\ snt2[j] = m
  BY AppendProperties
<1>3. /\ Len(str2) = Len(str) + L
      /\ \A i \in 1..(Len(str) + L) :
           str2[i] = IF i <= Len(str) THEN str[i] ELSE new[i - Len(str)]
  <2>1. /\ Len(str2) = Len(str) + Len(new)
        /\ \A i \in 1..Len(str) + Len(new) :
             str2[i] = IF i <= Len(str) THEN str[i] ELSE new[i - Len(str)]
    BY ConcatProperties
  <2> HIDE DEF str2
  <2> QED  BY <1>1, <2>1
<1>4. \A i \in 1..L : str2[Len(str) + 1 + i - 1] = [frg |-> L - i, data |-> m[i], msg |-> j]
  <2> SUFFICES ASSUME NEW i \in 1..L
               PROVE  str2[Len(str) + 1 + i - 1] = [frg |-> L - i, data |-> m[i], msg |-> j]
    OBVIOUS
  <2> DEFINE x == Len(str) + 1 + i - 1
  <2>1. x \in 1..(Len(str) + L) /\ ~(x <= Len(str)) /\ x - Len(str) = i
    BY <1>1
  <2>2. new[i] = [frg |-> L - i, data |-> m[i], msg |-> j]
    BY DEF IsNew
  <2> HIDE DEF x
  <2>3. str2[x] = new[i]
    BY <1>3, <2>1
  <2> QED  BY <2>2, <2>3 DEF x
<1>5. IF Len(str) + 1 = 1 THEN j = 1 ELSE str2[Len(str) + 1 - 1].msg = j - 1
  <2>1. CASE Len(str) = 0
    <3>1. str = <<>>
      BY <2>1, EmptySeq
    <3>2. Len(snt) = 0
      BY <3>1 DEF StreamShape
    <3> QED  BY <2>1, <3>2
  <2>2. CASE Len(str) # 0
    <3>1. str[Len(str)].msg = Len(snt)
      BY <2>2, EmptySeq DEF StreamShape
    <3>2. Len(str) + 1 - 1 = Len(str) /\ Len(str) \in 1..(Len(str) + L)
          /\ Len(str) + 1 # 1 /\ j - 1 = Len(snt)
      BY <1>1, <2>2
    <3>3. str2[Len(str)] = str[Len(str)]
      BY <1>1, <1>3, <3>2
    <3> QED  BY <3>1, <3>2, <3>3
  <2> QED  BY <2>1, <2>2
<1>6. j \in 1..Len(snt2) /\ Len(str) + 1 >= 1 /\ Len(str) + 1 + L - 1 <= Len(str2)
  BY <1>1, <1>2, <1>3
<1> HIDE DEF j, str2, snt2
<1>7. Block(str2, snt2, Len(str) + 1, j)
  BY <1>2, <1>4, <1>5, <1>6 DEF Block
<1> QED  BY <1>7 DEF j, str2, snt2

\* SendReliable keeps the stream the concatenation of the messages.
LEMMA ShapeGrows ==
  ASSUME NEW str \in Seq(Fragment), NEW new \in Seq(Fragment),
         NEW snt \in Seq(Messages), NEW m \in Messages,
         Len(m) \in 1..(FrgMod - 1), IsNew(new, m, Len(snt) + 1),
         StreamShape(str, snt)
  PROVE  StreamShape(str \o new, Append(snt, m))
<1> DEFINE L == Len(m)
           j == Len(snt) + 1
           snt2 == Append(snt, m)
           str2 == str \o new
<1>1. Len(str) \in Nat /\ Len(new) = L /\ Len(snt) \in Nat /\ L \in Nat /\ L >= 1
  <2>1. Len(str) \in Nat /\ Len(snt) \in Nat /\ Len(new) = L
    BY LenProperties DEF IsNew
  <2>2. FrgMod - 1 = 255
    BY DEF FrgMod
  <2>3. L \in Nat /\ L >= 1
    BY <2>2, SmallRange, Zenon
  <2> QED  BY <2>1, <2>3
<1>2. Len(snt2) = j /\ snt2[j] = m /\ \A i \in 1..Len(snt) : snt2[i] = snt[i]
  BY AppendProperties
<1>3. /\ Len(str2) = Len(str) + L
      /\ \A i \in 1..(Len(str) + L) :
           str2[i] = IF i <= Len(str) THEN str[i] ELSE new[i - Len(str)]
  <2>1. /\ Len(str2) = Len(str) + Len(new)
        /\ \A i \in 1..Len(str) + Len(new) :
             str2[i] = IF i <= Len(str) THEN str[i] ELSE new[i - Len(str)]
    BY ConcatProperties
  <2> HIDE DEF str2
  <2> QED  BY <1>1, <2>1
<1>4. ASSUME NEW k \in 1..Len(str2)
      PROVE  \E s \in 1..k : /\ Block(str2, snt2, s, str2[k].msg)
                             /\ k <= s + Len(snt2[str2[k].msg]) - 1
  <2>1. CASE k <= Len(str)
    <3>1. k \in 1..Len(str) /\ str2[k] = str[k]
      BY <1>1, <1>3, <2>1
    <3>2. PICK s \in 1..k : /\ Block(str, snt, s, str[k].msg)
                            /\ k <= s + Len(snt[str[k].msg]) - 1
      BY <3>1 DEF StreamShape
    <3>3. Block(str2, snt2, s, str[k].msg)
      BY <3>2, BlockLonger
    <3>4. snt2[str[k].msg] = snt[str[k].msg]
      BY <1>2, <3>2 DEF Block
    <3> QED  BY <3>1, <3>2, <3>3, <3>4
  <2>2. CASE ~(k <= Len(str))
    <3>1. k - Len(str) \in 1..L /\ k \in 1..(Len(str) + L)
      BY <1>1, <1>3, <2>2
    <3>2. str2[k] = new[k - Len(str)]
      BY <1>3, <2>2, <3>1
    <3>3. str2[k].msg = j
      <4>1. new[k - Len(str)] = [frg |-> L - (k - Len(str)), data |-> m[k - Len(str)],
                                 msg |-> j]
        BY <3>1 DEF IsNew
      <4> HIDE DEF j, str2
      <4> QED  BY <3>2, <4>1
    <3>4. Block(str2, snt2, Len(str) + 1, j)
      BY BlockAdded
    <3>5. Len(str) + 1 \in 1..k /\ k <= Len(str) + 1 + L - 1
      BY <1>1, <3>1
    <3> HIDE DEF j, str2, snt2
    <3>6. k <= Len(str) + 1 + Len(snt2[j]) - 1
      BY <1>2, <3>5
    <3> QED  BY <3>3, <3>4, <3>5, <3>6
  <2> QED  BY <2>1, <2>2
<1>5. str2 # <<>> /\ str2[Len(str2)].msg = Len(snt2) /\ str2[Len(str2)].frg = 0
  <2>1. Len(str2) \in 1..(Len(str) + L) /\ Len(str2) - Len(str) = L
        /\ ~(Len(str2) <= Len(str))
    BY <1>1, <1>3
  <2>2. str2[Len(str2)] = new[L]
    BY <1>3, <2>1
  <2>3. new[L] = [frg |-> L - L, data |-> m[L], msg |-> j]
    BY <1>1 DEF IsNew
  <2>4. L - L = 0
    BY <1>1
  <2> HIDE DEF j, str2
  <2>5. str2[Len(str2)].msg = j /\ str2[Len(str2)].frg = 0
    BY <2>2, <2>3, <2>4
  <2>6. str2 # <<>>
    BY <1>1, <1>3
  <2> QED  BY <1>2, <2>5, <2>6
<1> HIDE DEF j, str2, snt2
<1> QED  BY <1>4, <1>5 DEF StreamShape, str2, snt2

\* The reader does not notice that more was sent.
LEMMA ReadingLonger ==
  ASSUME NEW str \in Seq(Fragment), NEW new \in Seq(Fragment),
         NEW snt \in Seq(Messages), NEW m \in Messages, NEW pos \in Nat,
         NEW del \in Seq(Seq(Payload)), Reading(str, snt, pos, del)
  PROVE  Reading(str \o new, Append(snt, m), pos, del)
<1> DEFINE snt2 == Append(snt, m)
           str2 == str \o new
<1>1. Len(str) \in Nat /\ Len(new) \in Nat /\ Len(snt) \in Nat /\ Len(del) \in Nat
  BY LenProperties
<1>2. Len(snt2) = Len(snt) + 1 /\ \A i \in 1..Len(snt) : snt2[i] = snt[i]
  BY AppendProperties
<1>3. Len(str2) = Len(str) + Len(new) /\ \A i \in 1..Len(str) : str2[i] = str[i]
  BY <1>1, ConcatProperties
<1> HIDE DEF snt2, str2
<1>4. pos \in 0..Len(str2) /\ (pos # 0 => str2[pos] = str[pos])
  BY <1>1, <1>3 DEF Reading
<1>5. Len(del) <= Len(snt2) /\ \A i \in 1..Len(del) : del[i] = snt2[i]
  BY <1>1, <1>2 DEF Reading
<1> QED  BY <1>4, <1>5 DEF Reading, snt2, str2

----------------------------------------------------------------------------
(* Every action keeps the readers at the ends of messages. *)

\* The types ReadInv is about.
LEMMA ReadTypes ==
  ASSUME TypeOK, StreamInv, NEW p \in End
  PROVE  /\ stream[p] \in Seq(Fragment) /\ sent[p] \in Seq(Messages)
         /\ delivered[p] \in Seq(Seq(Payload)) /\ rcv_queue[p] \in Seq(Segment)
         /\ rcv_nxt[p] \in Nat /\ Len(rcv_queue[p]) \in Nat /\ Pos(p) \in Nat
<1>1. /\ stream[p] \in Seq(Fragment) /\ sent[p] \in Seq(Messages)
      /\ delivered[p] \in Seq(Seq(Payload)) /\ rcv_queue[p] \in Seq(Segment)
      /\ rcv_nxt[p] \in Nat
  BY DEF TypeOK, Fragment
<1>2. Len(rcv_queue[p]) \in Nat
  BY <1>1, LenProperties
<1>3. Len(rcv_queue[p]) <= rcv_nxt[p]
  BY OtherType DEF StreamInv, Receiving, RecvFits
<1> QED  BY <1>1, <1>2, <1>3 DEF Pos

\* A message that fits kcpSendBuffer has fewer fragments than frg can count.
LEMMA FitsFrg ==
  ASSUME NEW p \in End, NEW m \in Messages, FitsBuffer(p, Len(m))
  PROVE  Len(m) \in 1..(FrgMod - 1)
<1>1. m \in Seq(Payload) /\ m # <<>>
  BY MessagesAssumption
<1>2. Len(m) \in Nat \ {0}
  BY <1>1, EmptySeq
<1>3. RcvWnd[p] \in Nat
  BY ConfigAssumption
<1>4. Len(m) <= 254
  BY <1>2, <1>3 DEF FitsBuffer, _imax_, _imin_, FRG_MAX
<1>5. FrgMod - 1 = 255
  BY DEF FrgMod
<1> QED  BY <1>2, <1>4, <1>5

\* A step that neither sends nor reads: what moves from rcv_buf to rcv_queue
\* counts on both sides.
LEMMA ReadIdle ==
  ASSUME ReadInv, UNCHANGED <<sent, stream, delivered>>,
         \A p \in End : Pos(p)' = Pos(p)
  PROVE  ReadInv'
<1> SUFFICES ASSUME NEW p \in End
             PROVE  /\ StreamShape(stream'[p], sent'[p])
                    /\ Reading(stream'[p], sent'[p], Pos(Other(p))', delivered'[Other(p)])
  BY DEF ReadInv
<1>1. Other(p) \in End
  BY OtherType
<1> QED  BY <1>1 DEF ReadInv

\* SendReliable adds a message and its fragments.
LEMMA SendReliableRead ==
  ASSUME TypeOK, StreamInv, ReadInv, NEW p \in End, NEW m \in Messages,
         SendReliable(p, m)
  PROVE  ReadInv'
<1> SUFFICES ASSUME NEW r \in End
             PROVE  /\ StreamShape(stream'[r], sent'[r])
                    /\ Reading(stream'[r], sent'[r], Pos(Other(r))', delivered'[Other(r)])
  BY DEF ReadInv
<1> DEFINE new == NewFragments(p, m)
<1>1. /\ sent' = [sent EXCEPT ![p] = Append(@, m)]
      /\ stream' = [stream EXCEPT ![p] = @ \o new]
      /\ UNCHANGED <<delivered, rcv_nxt, rcv_queue>>
      /\ FitsBuffer(p, Len(m))
  BY DEF SendReliable, NewFragments
<1>2. new \in Seq(Fragment) /\ IsNew(new, m, Len(sent[p]) + 1)
  BY NewFragmentsType DEF IsNew
<1>3. Len(m) \in 1..(FrgMod - 1)
  BY <1>1, FitsFrg
<1> HIDE DEF new
<1>4. Other(r) \in End /\ Pos(Other(r))' = Pos(Other(r))
  BY <1>1, OtherType DEF Pos
<1>5. DOMAIN sent = End /\ DOMAIN stream = End
  BY DEF TypeOK
<1>6. /\ StreamShape(stream[r], sent[r])
      /\ Reading(stream[r], sent[r], Pos(Other(r)), delivered[Other(r)])
  BY DEF ReadInv
<1>7. CASE r # p
  <2>1. sent'[r] = sent[r] /\ stream'[r] = stream[r]
    BY <1>1, <1>5, <1>7
  <2> QED  BY <1>1, <1>4, <1>6, <2>1
<1>8. CASE r = p
  <2>1. sent'[r] = Append(sent[r], m) /\ stream'[r] = stream[r] \o new
    BY <1>1, <1>5, <1>8
  <2>2. /\ stream[r] \in Seq(Fragment) /\ sent[r] \in Seq(Messages)
        /\ delivered[Other(r)] \in Seq(Seq(Payload)) /\ Pos(Other(r)) \in Nat
    BY <1>4, ReadTypes
  <2>3. StreamShape(stream[r] \o new, Append(sent[r], m))
    BY <1>2, <1>3, <1>6, <1>8, <2>2, ShapeGrows
  <2>4. Reading(stream[r] \o new, Append(sent[r], m), Pos(Other(r)), delivered[Other(r)])
    BY <1>2, <1>6, <2>2, ReadingLonger
  <2> QED  BY <1>1, <1>4, <2>1, <2>3, <2>4
<1> QED  BY <1>7, <1>8

\* After MoveToQueue the reader of p is where the queue q left it.
LEMMA MovePos ==
  ASSUME TypeOK, NEW p \in End, NEW n \in 0..RcvWnd[p], NEW q \in Seq(Segment),
         NEW buf, IsNatMap(buf, Segment), Movable(p, n, q, buf),
         MoveToQueue(p, n, q, buf)
  PROVE  /\ Pos(p)' = rcv_nxt[p] - Len(q)
         /\ \A r \in End \ {p} : Pos(r)' = Pos(r)
<1>1. rcv_nxt[p] \in Nat /\ n \in Nat
      /\ DOMAIN rcv_nxt = End /\ DOMAIN rcv_queue = End
  BY ConfigAssumption DEF TypeOK
<1> DEFINE mv == [i \in 1..n |-> buf[rcv_nxt[p] + i - 1]]
<1>2. \A i \in 1..n : buf[rcv_nxt[p] + i - 1] \in Segment
  <2> SUFFICES ASSUME NEW i \in 1..n PROVE buf[rcv_nxt[p] + i - 1] \in Segment
    OBVIOUS
  <2>1. i - 1 \in 0..(n - 1) /\ rcv_nxt[p] + (i - 1) = rcv_nxt[p] + i - 1
    BY <1>1
  <2>2. rcv_nxt[p] + i - 1 \in DOMAIN buf
    BY <2>1 DEF Movable
  <2> QED  BY <2>2 DEF IsNatMap
<1>3. mv \in Seq(Segment)
  <2>1. n \in Nat
    BY <1>1
  <2> QED  BY <1>2, <2>1, IsASeq
<1>4. Len(mv) = n
  BY <1>1, <1>3, LenProperties
<1> HIDE DEF mv
<1>5. Len(q) \in Nat /\ Len(q \o mv) = Len(q) + n
  BY <1>3, <1>4, LenProperties, ConcatProperties
<1>6. /\ rcv_queue' = [rcv_queue EXCEPT ![p] = q \o mv]
      /\ rcv_nxt' = [rcv_nxt EXCEPT ![p] = @ + n]
  BY DEF MoveToQueue, mv
<1>7. rcv_queue'[p] = q \o mv /\ rcv_nxt'[p] = rcv_nxt[p] + n
  BY <1>1, <1>6
<1>8. Pos(p)' = rcv_nxt[p] - Len(q)
  BY <1>1, <1>5, <1>7 DEF Pos
<1>9. \A r \in End \ {p} : Pos(r)' = Pos(r)
  BY <1>1, <1>6 DEF Pos
<1> QED  BY <1>8, <1>9

\* Recv hands over the next message, whole, and stands at its end.
LEMMA RecvEffect ==
  ASSUME TypeOK, StreamInv, ReadInv, NEW p \in End, Recv(p)
  PROVE  LET D == Len(delivered[p])
             snt == sent[Other(p)]
         IN  /\ D < Len(snt)
             /\ delivered' = [delivered EXCEPT ![p] = Append(@, snt[D + 1])]
             /\ Pos(p)' = Pos(p) + Len(snt[D + 1])
             /\ \A r \in End \ {p} : Pos(r)' = Pos(r)
             /\ Block(stream[Other(p)], snt, Pos(p) + 1, D + 1)
<1> DEFINE D == Len(delivered[p])
           snt == sent[Other(p)]
           str == stream[Other(p)]
           q == rcv_queue[p]
           rest(k) == SubSeq(q, k + 1, Len(q))
<1>1. PICK k \in 1..Len(q), n \in 0..RcvWnd[p] :
        /\ StopsAt(q, k)
        /\ Movable(p, n, rest(k), rcv_buf[p])
        /\ MoveToQueue(p, n, rest(k), rcv_buf[p])
        /\ delivered' = [delivered EXCEPT ![p] = Append(@, CopiedOut(q, k))]
  BY DEF Recv, CopiedOut, StopsAt
<1>2. Readable(q)
  BY DEF Recv
<1>3. /\ str \in Seq(Fragment) /\ snt \in Seq(Messages)
      /\ delivered[p] \in Seq(Seq(Payload)) /\ q \in Seq(Segment)
      /\ rcv_nxt[p] \in Nat /\ Len(q) \in Nat /\ Pos(p) \in Nat
  BY ReadTypes, OtherType
<1>4. RecvFits(str, rcv_nxt[p], q, rcv_buf[p])
  BY OtherType DEF StreamInv, Receiving
<1>5. StreamShape(str, snt) /\ Reading(str, snt, Pos(p), delivered[p])
  BY OtherType DEF ReadInv
<1>6. rest(k) \in Seq(Segment) /\ Len(rest(k)) = Len(q) - k
  <2>1. \A i \in (k + 1)..Len(q) : q[i] \in Segment
    BY <1>3, ElementOfSeq
  <2>2. k + 1 \in Int /\ k + 1 - 1 <= Len(q)
    BY <1>3
  <2> QED  BY <1>3, <2>1, <2>2, SubSeqProperties
<1>7. Pos(p) < Len(str)
  <2>1. 1 \in 1..Len(q)
    BY <1>3
  <2>2. Fits(str, rcv_nxt[p] - Len(q) + 1 - 1, q[1])
    BY <1>4, <2>1 DEF RecvFits
  <2>3. rcv_nxt[p] - Len(q) + 1 - 1 + 1 \in 1..Len(str)
    BY <1>3, <2>2, LenProperties DEF Fits
  <2> QED  BY <1>3, <2>3, LenProperties DEF Pos
<1> HIDE DEF D, snt, str, q, rest
<1>8. Block(str, snt, Pos(p) + 1, D + 1)
  BY <1>3, <1>5, <1>7, NextBlock DEF D
<1>9. k = Len(snt[D + 1]) /\ CopiedOut(q, k) = snt[D + 1]
  <2>1. Block(str, snt, rcv_nxt[p] - Len(q) + 1, D + 1)
    BY <1>8 DEF Pos, q
  <2>2. k \in 1..Len(q) /\ StopsAt(q, k)
    BY <1>1
  <2>3. D + 1 \in 1..Len(snt)
    BY <2>1, BlockExtent, Zenon
  <2>4. Len(snt[D + 1]) >= 1
    BY <2>1, BlockExtent, Zenon
  <2>5. Len(snt[D + 1]) < 256
    BY <2>1, BlockExtent, Zenon
  <2>6. snt[D + 1] \in Seq(Payload)
    BY <1>3, <2>3, ElementOfSeq, MessagesAssumption
  <2>7. StartsWith(q, snt[D + 1])
    BY <1>3, <1>4, <2>1, QueueStarts
  <2> QED  BY <1>2, <1>3, <2>2, <2>4, <2>5, <2>6, <2>7, ReadOne
<1>10. D < Len(snt)
  <2>1. D + 1 \in 1..Len(snt)
    BY <1>8 DEF Block
  <2> QED  BY <1>3, <2>1, LenProperties DEF D
<1>11. delivered' = [delivered EXCEPT ![p] = Append(@, snt[D + 1])]
  BY <1>1, <1>9
<1>12. IsNatMap(rcv_buf[p], Segment)
  BY DEF TypeOK
<1>13. /\ Pos(p)' = rcv_nxt[p] - Len(rest(k))
       /\ \A r \in End \ {p} : Pos(r)' = Pos(r)
  BY <1>1, <1>6, <1>12, MovePos
<1>14. Pos(p)' = Pos(p) + k
  BY <1>3, <1>6, <1>13 DEF Pos, q
<1> QED  BY <1>8, <1>9, <1>10, <1>11, <1>13, <1>14 DEF D, snt, str

\* Recv keeps both readers at the ends of messages.
LEMMA RecvRead ==
  ASSUME TypeOK, StreamInv, ReadInv, NEW p \in End, Recv(p)
  PROVE  ReadInv'
<1> DEFINE D == Len(delivered[p])
           snt == sent[Other(p)]
           str == stream[Other(p)]
<1>1. /\ delivered' = [delivered EXCEPT ![p] = Append(@, snt[D + 1])]
      /\ Pos(p)' = Pos(p) + Len(snt[D + 1])
      /\ \A r \in End \ {p} : Pos(r)' = Pos(r)
      /\ Block(str, snt, Pos(p) + 1, D + 1)
  BY RecvEffect
<1>2. UNCHANGED <<sent, stream>>
  BY DEF Recv
<1>3. /\ str \in Seq(Fragment) /\ snt \in Seq(Messages)
      /\ delivered[p] \in Seq(Seq(Payload)) /\ Pos(p) \in Nat
  BY ReadTypes, OtherType
<1>4. Reading(str, snt, Pos(p), delivered[p])
  BY OtherType DEF ReadInv
<1>5. Reading(str, snt, Pos(p) + Len(snt[D + 1]), Append(delivered[p], snt[D + 1]))
  <2> HIDE DEF snt, str
  <2> QED  BY <1>1, <1>3, <1>4, ReadOn
<1>6. DOMAIN delivered = End
  BY DEF TypeOK
<1> SUFFICES ASSUME NEW r \in End
             PROVE  /\ StreamShape(stream[r], sent[r])
                    /\ Reading(stream[r], sent[r], Pos(Other(r))', delivered'[Other(r)])
  BY <1>2 DEF ReadInv
<1>7. /\ StreamShape(stream[r], sent[r])
      /\ Reading(stream[r], sent[r], Pos(Other(r)), delivered[Other(r)])
  BY DEF ReadInv
<1>8. Other(r) \in End /\ (Other(r) = p => r = Other(p))
  BY OtherType
<1>9. CASE Other(r) # p
  <2>1. delivered'[Other(r)] = delivered[Other(r)] /\ Pos(Other(r))' = Pos(Other(r))
    BY <1>1, <1>6, <1>8, <1>9
  <2> QED  BY <1>7, <2>1
<1>10. CASE Other(r) = p
  <2>1. r = Other(p)
    BY <1>8, <1>10
  <2>2. delivered'[p] = Append(delivered[p], snt[D + 1])
    BY <1>1, <1>6
  <2>3. Reading(str, snt, Pos(p)', delivered'[p])
    BY <1>1, <1>5, <2>2
  <2> QED  BY <1>7, <1>10, <2>1, <2>3
<1> QED  BY <1>9, <1>10

\* A PUSH segment that completes a run moves segments, and nobody reads.
LEMMA InputPushRead ==
  ASSUME TypeOK, StreamInv, ReadInv, NEW p \in End, InputPush(p)
  PROVE  ReadInv'
<1> DEFINE buf == parse_data(rcv_buf[p], Seg(p))
<1>1. Seg(p) \in WireSegments /\ Seg(p).cmd = "PUSH"
  <2>1. InputNext(p, "PUSH")
    BY DEF InputPush
  <2> QED  BY <2>1, InputHeaderType
<1>2. IsNatMap(buf, Segment) /\ rcv_queue[p] \in Seq(Segment)
  <2>1. Seg(p).sn \in Nat /\ [frg |-> Seg(p).frg, data |-> Seg(p).data] \in Segment
    BY <1>1 DEF WireSegments, Segment
  <2>2. IsNatMap(rcv_buf[p], Segment) /\ rcv_queue[p] \in Seq(Segment)
    BY DEF TypeOK
  <2> QED  BY <2>1, <2>2, parse_dataType
<1>3. \/ \E n \in 0..RcvWnd[p] : /\ Movable(p, n, rcv_queue[p], buf)
                                  /\ MoveToQueue(p, n, rcv_queue[p], buf)
      \/ UNCHANGED <<rcv_nxt, rcv_buf, rcv_queue>>
  BY DEF InputPush, Seg
<1>4. UNCHANGED <<sent, stream, delivered>>
  BY DEF InputPush
<1> HIDE DEF buf
<1>5. CASE UNCHANGED <<rcv_nxt, rcv_buf, rcv_queue>>
  <2>1. \A r \in End : Pos(r)' = Pos(r)
    BY <1>5 DEF Pos
  <2> QED  BY <1>4, <2>1, ReadIdle
<1>6. CASE \E n \in 0..RcvWnd[p] : /\ Movable(p, n, rcv_queue[p], buf)
                                   /\ MoveToQueue(p, n, rcv_queue[p], buf)
  <2>1. /\ Pos(p)' = rcv_nxt[p] - Len(rcv_queue[p])
        /\ \A r \in End \ {p} : Pos(r)' = Pos(r)
    BY <1>2, <1>6, MovePos
  <2>2. \A r \in End : Pos(r)' = Pos(r)
    BY <2>1 DEF Pos
  <2> QED  BY <1>4, <2>2, ReadIdle
<1> QED  BY <1>3, <1>5, <1>6

\* The remaining actions touch neither the histories nor the receiver.
LEMMA OthersRead ==
  ASSUME ReadInv, UNCHANGED <<sent, stream, delivered, rcv_nxt, rcv_queue>>
  PROVE  ReadInv'
<1>1. \A p \in End : Pos(p)' = Pos(p)
  BY DEF Pos
<1> QED  BY <1>1, ReadIdle

\* Which actions these are.
LEMMA OtherActions ==
  ASSUME NEW p \in End,
         \/ TickOutgoing(p, FALSE)
         \/ HandleDeadLink(p)
         \/ \E d \in net : Deliver(p, d)
         \/ InputAck(p)
         \/ InputProbe(p)
         \/ InputEnd(p, FALSE)
  PROVE  UNCHANGED <<sent, stream, delivered, rcv_nxt, rcv_queue>>
<1>1. CASE TickOutgoing(p, FALSE)
  BY <1>1 DEF TickOutgoing
<1>2. CASE \E d \in net : Deliver(p, d)
  BY <1>2 DEF Deliver, rcvVars
<1>3. CASE InputAck(p)
  BY <1>3 DEF InputAck, rcvVars
<1>4. CASE InputProbe(p)
  BY <1>4 DEF InputProbe
<1>5. CASE InputEnd(p, FALSE)
  BY <1>5 DEF InputEnd
<1>6. CASE HandleDeadLink(p)
  BY <1>6 DEF HandleDeadLink, rcvVars
<1> QED  BY <1>1, <1>2, <1>3, <1>4, <1>5, <1>6

\* Nothing is sent or read at first.
LEMMA InitRead == Init => ReadInv
<1> SUFFICES ASSUME Init, NEW p \in End
             PROVE  /\ StreamShape(stream[p], sent[p])
                    /\ Reading(stream[p], sent[p], Pos(Other(p)), delivered[Other(p)])
  BY DEF ReadInv
<1>1. Other(p) \in End
  BY OtherType
<1>2. stream[p] = <<>> /\ sent[p] = <<>> /\ delivered[Other(p)] = <<>>
      /\ rcv_nxt[Other(p)] = 0 /\ rcv_queue[Other(p)] = <<>>
  BY <1>1 DEF Init
<1>3. Len(<<>>) = 0
  OBVIOUS
<1>4. Pos(Other(p)) = 0
  <2>1. Pos(Other(p)) = 0 - 0
    BY <1>2, <1>3 DEF Pos
  <2> QED  BY <2>1
<1>5. StreamShape(<<>>, <<>>)
  BY <1>3 DEF StreamShape
<1>6. Reading(<<>>, <<>>, 0, <<>>)
  BY <1>3 DEF Reading
<1> QED  BY <1>2, <1>4, <1>5, <1>6

\* Given the type invariant and the path of the streams, the readers stay at
\* the ends of messages.
LEMMA NextRead == TypeOK /\ StreamInv /\ ReadInv /\ [Next]_vars => ReadInv'
<1> SUFFICES ASSUME TypeOK, StreamInv, ReadInv, [Next]_vars PROVE ReadInv'
  OBVIOUS
<1>1. CASE UNCHANGED vars
  <2>1. UNCHANGED <<sent, stream, delivered, rcv_nxt, rcv_queue>>
    BY <1>1 DEF vars, rcvVars
  <2> QED  BY <2>1, OthersRead
<1>2. CASE Next
  BY <1>2, SendReliableRead, RecvRead, InputPushRead, OtherActions, OthersRead
  DEF Next
<1> QED  BY <1>1, <1>2

----------------------------------------------------------------------------
(* The theorems. *)

\* Reading says what IsPrefix says.
LEMMA ReadingIsPrefix ==
  ASSUME TypeOK, ReadInv
  PROVE  InOrderDelivery
<1> SUFFICES ASSUME NEW p \in End
             PROVE  IsPrefix(delivered[Other(p)], sent[p])
  BY DEF InOrderDelivery
<1> DEFINE del == delivered[Other(p)]
           snt == sent[p]
           d1 == SubSeq(del, 1, Len(del))
           s1 == SubSeq(snt, 1, Len(del))
<1>1. Reading(stream[p], snt, Pos(Other(p)), del)
  BY DEF ReadInv
<1>2. del \in Seq(Seq(Payload)) /\ snt \in Seq(Messages) /\ Len(del) \in Nat
      /\ Len(snt) \in Nat /\ Len(del) <= Len(snt)
  BY <1>1, OtherType, LenProperties DEF TypeOK, Reading
<1>3. \A i \in 1..Len(del) : del[i] \in Seq(Payload) /\ del[i] = snt[i]
  BY <1>1, <1>2, ElementOfSeq DEF Reading
<1> HIDE DEF del, snt
<1>4. /\ d1 \in Seq(Seq(Payload)) /\ s1 \in Seq(Seq(Payload))
      /\ Len(d1) = Len(del) /\ Len(s1) = Len(del)
      /\ \A i \in 1..Len(del) : d1[i] = del[i] /\ s1[i] = snt[i]
  <2>1. /\ d1 \in Seq(Seq(Payload)) /\ Len(d1) = Len(del)
        /\ \A i \in 1..Len(del) : d1[i] = del[i]
    BY <1>2, <1>3, SubSeqProperties
  <2>2. \A i \in 1..Len(del) : snt[i] \in Seq(Payload)
    BY <1>3
  <2>3. /\ s1 \in Seq(Seq(Payload)) /\ Len(s1) = Len(del)
        /\ \A i \in 1..Len(del) : s1[i] = snt[i]
    BY <1>2, <2>2, SubSeqProperties
  <2> QED  BY <2>1, <2>3
<1> HIDE DEF d1, s1
<1>5. d1 = s1
  BY <1>3, <1>4, SeqEqual
<1> QED  BY <1>2, <1>5 DEF IsPrefix, d1, s1, del, snt

\* Whatever the network loses, duplicates or reorders, KCP.Recv returns whole
\* messages, unaltered, each once and in the order KCP.Send accepted them.
THEOREM DeliveredInOrder == Spec => []InOrderDelivery
<1>1. Init => StreamInv /\ ReadInv
  BY InitStream, InitRead
<1>2. TypeOK /\ StreamInv /\ ReadInv /\ [Next]_vars => StreamInv' /\ ReadInv'
  BY NextStream, NextRead
<1>3. TypeOK /\ ReadInv => InOrderDelivery
  BY ReadingIsPrefix
<1> QED  BY <1>1, <1>2, <1>3, TypeCorrect, PTL DEF Spec

\* A step of Kcp is a step of the channel or none.
LEMMA ChannelStep ==
  ASSUME TypeOK, StreamInv, ReadInv, [Next]_vars
  PROVE  [Channel!Next]_<<sent, delivered>>
<1>1. CASE UNCHANGED vars
  BY <1>1 DEF vars
<1>2. ASSUME NEW p \in End, NEW m \in Messages, SendReliable(p, m)
      PROVE  Channel!Next
  <2>1. sent' = [sent EXCEPT ![p] = Append(@, m)] /\ UNCHANGED delivered
    BY <1>2 DEF SendReliable
  <2>2. p \in {A, B}
    BY DEF End
  <2> QED  BY <2>1, <2>2 DEF Channel!Next, Channel!Send
<1>3. ASSUME NEW p \in End, Recv(p)
      PROVE  Channel!Next
  <2>1. /\ Len(delivered[p]) < Len(sent[Other(p)])
        /\ delivered' = [delivered EXCEPT ![p] =
              Append(@, sent[Other(p)][Len(delivered[p]) + 1])]
    BY <1>3, RecvEffect
  <2>2. UNCHANGED sent
    BY <1>3 DEF Recv
  <2>3. p \in {A, B} /\ Other(p) = Channel!Peer(p)
    BY DEF End, Other, Channel!Peer
  <2>4. delivered' = [delivered EXCEPT ![p] =
          Append(@, sent[Channel!Peer(p)][Len(@) + 1])]
    BY <2>1, <2>3
  <2>5. Channel!Receive(p)
    BY <2>1, <2>2, <2>3, <2>4 DEF Channel!Receive
  <2> QED  BY <2>3, <2>5 DEF Channel!Next
<1>4. ASSUME NEW p \in End, InputPush(p)
      PROVE  UNCHANGED <<sent, delivered>>
  BY <1>4 DEF InputPush
<1>5. CASE Next
  BY <1>2, <1>3, <1>4, <1>5, OtherActions DEF Next
<1> QED  BY <1>1, <1>5

\* Two KCP ends and the network between them implement the reliable channel
\* KcpPeer promises its users.
THEOREM KcpImplementsChannel == Spec => ImplementsChannel
<1>1. Init => StreamInv /\ ReadInv
  BY InitStream, InitRead
<1>2. TypeOK /\ StreamInv /\ ReadInv /\ [Next]_vars => StreamInv' /\ ReadInv'
  BY NextStream, NextRead
<1>3. Init => Channel!Init
  BY DEF Init, Channel!Init, End
<1>4. TypeOK /\ StreamInv /\ ReadInv /\ [Next]_vars => [Channel!Next]_<<sent, delivered>>
  BY ChannelStep
<1> QED  BY <1>1, <1>2, <1>3, <1>4, TypeCorrect, PTL DEF Spec, ImplementsChannel, Channel!Spec
============================================================================
