------------------------- MODULE ArithmeticProofs -------------------------
(***************************************************************************)
(* Proofs about the two modules that are all arithmetic.                   *)
(*                                                                         *)
(* Sizes: for every mtu that SetMtu does not refuse and every window, what *)
(* SendReliable accepts fits the window, and every datagram fits the       *)
(* buffer it is received into.                                             *)
(*                                                                         *)
(* RttEstimator: for every bound on the round trips and every interval,    *)
(* the estimates stay in range and the timeout exceeds the round trip.     *)
(***************************************************************************)
EXTENDS Sizes, RttEstimator, TLAPS

----------------------------------------------------------------------------
(* Sizes *)

\* Reset asks for no mtu that SetMtu refuses.
MtusTaken == \A m \in Mtus : m >= IKCP_MTU_MIN + METADATA_SIZE

\* What Reset made of the configuration.
Configured == \E m \in Mtus, wnd \in Windows : Reset(m, wnd)

\* Rounding up: q segments of m bytes hold n bytes, and q - 1 do not.
LEMMA RoundUp ==
  ASSUME NEW n \in Nat \ {0}, NEW m \in Nat \ {0}
  PROVE  LET q == (n + m - 1) \div m IN
         /\ q \in Nat \ {0} /\ n <= q * m /\ (q - 1) * m < n
<1> DEFINE q == (n + m - 1) \div m
           r == (n + m - 1) % m
<1>1. n + m - 1 = m * q + r /\ r \in 0..(m - 1) /\ q \in Int
  BY SMT
<1> HIDE DEF q, r
<1>2. q > 0
  BY <1>1, SMT
<1>3. m * q = q * m /\ (q - 1) * m = q * m - m
  BY <1>1, SMT
<1> QED
  BY <1>1, <1>2, <1>3, SMT DEF q

LEMMA TimesMonotone ==
  ASSUME NEW a \in Nat, NEW b \in Nat, NEW m \in Nat, a <= b
  PROVE  a * m <= b * m
<1>1. PICK d \in Nat : b = a + d
  <2>1. b - a \in Nat /\ b = a + (b - a)
    OBVIOUS
  <2> QED
    BY <2>1
<1>2. b * m = a * m + d * m /\ d * m \in Nat /\ a * m \in Nat
  BY <1>1, SMT
<1> QED
  BY <1>2

LEMMA ConfiguredFacts ==
  ASSUME MtusTaken, Configured
  PROVE  /\ Mtu \in Nat /\ mtu \in Nat /\ mss \in Nat \ {0}
         /\ Mtu = mtu + METADATA_SIZE
         /\ rcv_wnd \in Nat \ {0}
         /\ UnreliableMax = Mtu - METADATA_SIZE - 1
         /\ ReliableMax \in Nat
         /\ \/ ReliableMax = 0
            \/ \E k \in Nat : /\ k < rcv_wnd /\ k < FRG_MAX
                              /\ 1 + ReliableMax = k * mss
<1> PICK m \in Mtus, wnd \in Windows : Reset(m, wnd)
  BY DEF Configured
<1>1. /\ {IKCP_OVERHEAD, METADATA_SIZE, IKCP_MTU_DEF, IKCP_MTU_MIN, IKCP_WND_RCV,
          FRG_MAX} \subseteq Nat \ {0}
      /\ IKCP_OVERHEAD < IKCP_MTU_MIN
      /\ m \in Nat /\ wnd \in Nat /\ m >= IKCP_MTU_MIN + METADATA_SIZE
  BY SizesAssumption DEF MtusTaken
<1>2. Mtu = m /\ mtu = m - METADATA_SIZE
  BY <1>1 DEF Reset, SetMtu, KcpMtu, Greater
<1>3. mtu \in Nat /\ mss \in Nat \ {0} /\ mss = m - IKCP_OVERHEAD - METADATA_SIZE
  BY <1>1, <1>2 DEF mss
<1>4. rcv_wnd \in Nat \ {0} /\ (wnd > 0 => rcv_wnd = wnd)
  BY <1>1 DEF Reset, WndSize
<1> DEFINE w == Lesser(wnd, FRG_MAX)
           max == mss * (w - 1) - 1
<1>5. w \in Nat /\ w <= wnd /\ w <= FRG_MAX
  BY <1>1 DEF Lesser
<1>6. ReliableMax = Greater(max, 0)
  BY <1>3 DEF Reset, ReliableMaxMessageSize, ReliableMaxMessageSize_Unconstrained
<1> HIDE DEF w
<1>7. max \in Int
  BY <1>3, <1>5
<1>8. CASE w <= 1
  <2>1. mss * (w - 1) <= 0
    <3>1. w = 0 \/ w = 1
      BY <1>5, <1>8
    <3>2. mss * (0 - 1) <= 0 /\ mss * (1 - 1) <= 0
      BY <1>3, SMT
    <3> QED
      BY <3>1, <3>2
  <2>2. ReliableMax = 0
    BY <1>6, <1>7, <2>1, <1>3, <1>5 DEF Greater
  <2> QED
    BY <1>1, <1>2, <1>3, <1>4, <2>2 DEF Reset, UnreliableMaxMessageSize
<1>9. CASE w > 1
  <2>1. w - 1 \in Nat /\ w - 1 < rcv_wnd /\ w - 1 < FRG_MAX
    BY <1>1, <1>4, <1>5, <1>9
  <2>2. mss * (w - 1) = (w - 1) * mss
    BY <1>3, <1>5, SMT
  <2>3. ReliableMax = 0 \/ 1 + ReliableMax = (w - 1) * mss
    <3> HIDE DEF max
    <3>1. ReliableMax = 0 \/ ReliableMax = max
      BY <1>6 DEF Greater
    <3>2. 1 + max = mss * (w - 1)
      BY <1>3, <1>5 DEF max
    <3> QED
      BY <3>1, <3>2, <2>2
  <2>4. ReliableMax \in Nat
    <3> HIDE DEF max
    <3> QED
      BY <1>6, <1>7 DEF Greater
  <2> QED
    BY <1>1, <1>2, <1>3, <1>4, <2>1, <2>3, <2>4 DEF Reset, UnreliableMaxMessageSize
<1> QED
  BY <1>5, <1>8, <1>9

\* How Send cuts a message: Count segments of 1 to mss bytes.
LEMMA CutFacts ==
  ASSUME NEW n \in Nat \ {0}, mss \in Nat \ {0}
  PROVE  /\ Count(n) \in Nat \ {0}
         /\ \A k \in Nat : n <= k * mss => Count(n) <= k
         /\ Cut(n) \in Seq(1..mss)
<1>1. /\ Count(n) \in Nat \ {0} /\ (Count(n) - 1) * mss < n
  <2>1. CASE n <= mss
    <3>1. Count(n) = 1
      BY <2>1 DEF Count
    <3>2. (1 - 1) * mss = 0
      BY SMT
    <3> QED
      BY <3>1, <3>2
  <2>2. CASE ~(n <= mss)
    <3>1. Count(n) = (n + mss - 1) \div mss
      BY <2>2 DEF Count
    <3> HIDE DEF mss
    <3> QED
      BY <3>1, RoundUp
  <2> QED
    BY <2>1, <2>2
<1>2. ASSUME NEW k \in Nat, n <= k * mss
      PROVE  Count(n) <= k
  <2> SUFFICES ASSUME ~(Count(n) <= k) PROVE FALSE
    OBVIOUS
  <2>1. Count(n) - 1 \in Nat /\ k <= Count(n) - 1
    BY <1>1
  <2>2. k * mss <= (Count(n) - 1) * mss
    BY <2>1, TimesMonotone
  <2>3. k * mss \in Nat /\ (Count(n) - 1) * mss \in Nat
    BY <2>1, SMT
  <2> QED
    BY <1>1, <1>2, <2>2, <2>3
<1>3. ASSUME NEW i \in 1..Count(n)
      PROVE  Lesser(n - (i - 1) * mss, mss) \in 1..mss
  <2>1. i - 1 \in Nat /\ Count(n) - 1 \in Nat /\ i - 1 <= Count(n) - 1
    BY <1>1
  <2>2. (i - 1) * mss <= (Count(n) - 1) * mss
    BY <2>1, TimesMonotone
  <2>3. (i - 1) * mss \in Nat /\ (Count(n) - 1) * mss \in Nat
    BY <2>1, SMT
  <2> QED
    BY <1>1, <2>2, <2>3 DEF Lesser
<1>4. Cut(n) \in [1..Count(n) -> 1..mss]
  BY <1>3 DEF Cut
<1> QED
  BY <1>1, <1>2, <1>4

----------------------------------------------------------------------------

\* Nothing changes the configuration; with it, what is packed fits.
SizesInv == Configured /\ TypeOK /\ MessageFitsWindow /\ DatagramFits

LEMMA SizesInitInv == MtusTaken /\ Init => SizesInv
<1> SUFFICES ASSUME MtusTaken, Init PROVE SizesInv
  OBVIOUS
<1>1. Configured
  BY DEF Init, Configured
<1> QED
  BY <1>1, ConfiguredFacts, SizesAssumption, SMTT(30)
     DEF SizesInv, Init, TypeOK, MessageFitsWindow, DatagramFits

LEMMA ConfigKept ==
  ASSUME Configured, UNCHANGED config
  PROVE  Configured' /\ mss' = mss
<1>1. UNCHANGED <<Mtu, mtu, rcv_wnd, ReliableMax, UnreliableMax>>
  BY DEF config
<1>2. PICK m \in Mtus, wnd \in Windows : Reset(m, wnd)
  BY DEF Configured
<1>3. Reset(m, wnd)'
  BY <1>1, <1>2 DEF Reset
<1> QED
  BY <1>1, <1>3 DEF Configured, mss

LEMMA SeqFacts ==
  ASSUME NEW S, NEW s \in Seq(S)
  PROVE  /\ \A t \in Seq(S) : s \o t \in Seq(S)
         /\ s # <<>> => Head(s) \in S /\ Tail(s) \in Seq(S)
  OBVIOUS

\* The numbers of the configuration that bound a datagram.
LEMMA Bytes ==
  ASSUME MtusTaken, Configured
  PROVE  /\ IKCP_OVERHEAD \in Nat /\ METADATA_SIZE \in Nat /\ mtu \in Nat
         /\ mss = mtu - IKCP_OVERHEAD /\ mss \in Nat \ {0}
         /\ Mtu = mtu + METADATA_SIZE
<1>1. mtu \in Nat /\ mss \in Nat \ {0} /\ Mtu = mtu + METADATA_SIZE
  BY ConfiguredFacts
<1> QED
  BY <1>1, SizesAssumption DEF mss

LEMMA SendReliableInv ==
  ASSUME MtusTaken, SizesInv, NEW len \in Nat, SendReliable(len)
  PROVE  SizesInv'
<1> DEFINE n == 1 + len
<1>1. UNCHANGED <<config, size, datagram>> /\ len <= ReliableMax
  BY ConfiguredFacts DEF SendReliable, SizesInv
<1>2. /\ mss \in Nat \ {0} /\ rcv_wnd \in Nat \ {0} /\ ReliableMax \in Nat
      /\ \/ ReliableMax = 0
         \/ \E k \in Nat : k < rcv_wnd /\ k < FRG_MAX /\ 1 + ReliableMax = k * mss
  BY ConfiguredFacts DEF SizesInv
<1>3. /\ Count(n) \in Nat \ {0} /\ Cut(n) \in Seq(1..mss)
      /\ \A k \in Nat : n <= k * mss => Count(n) <= k
  BY <1>2, CutFacts
<1>4. Count(n) <= rcv_wnd /\ Count(n) <= FRG_MAX
  <2>1. CASE ReliableMax = 0
    <3>1. n <= 1 * mss
      BY <1>1, <1>2, <2>1
    <3>2. Count(n) <= 1
      BY <1>3, <3>1
    <3> QED
      BY <1>2, <1>3, <3>2, SizesAssumption, SMTT(30)
  <2>2. ASSUME NEW k \in Nat, k < rcv_wnd, k < FRG_MAX, 1 + ReliableMax = k * mss
        PROVE  Count(n) <= rcv_wnd /\ Count(n) <= FRG_MAX
    <3>1. n <= k * mss
      BY <1>1, <1>2, <2>2
    <3>2. Count(n) <= k
      BY <1>3, <3>1
    <3> QED
      BY <1>2, <1>3, <2>2, <3>2, SizesAssumption, SMTT(30)
  <2> QED
    BY <1>2, <2>1, <2>2
<1>5. Configured' /\ mss' = mss
  BY <1>1, ConfigKept DEF SizesInv
<1>6. segments' \in Seq(1..mss)
  <2>1. segments \in Seq(1..mss) /\ segments' \in {segments, segments \o Cut(n)}
    BY DEF SendReliable, SizesInv, TypeOK
  <2> HIDE DEF n, mss
  <2> QED
    BY <1>3, <2>1, SeqFacts
<1>7. fragments' = Count(n)
  BY DEF SendReliable
<1> QED
  BY <1>1, <1>3, <1>4, <1>5, <1>6, <1>7
     DEF SizesInv, TypeOK, MessageFitsWindow, DatagramFits, config

LEMMA SendUnreliableInv ==
  ASSUME MtusTaken, SizesInv, NEW len \in Nat, SendUnreliable(len)
  PROVE  SizesInv'
<1>1. Configured' /\ mss' = mss
  BY ConfigKept DEF SizesInv, SendUnreliable
<1>2. datagram' \in Nat /\ datagram' <= Mtu
  BY ConfiguredFacts, SizesAssumption DEF SizesInv, SendUnreliable
<1> QED
  BY <1>1, <1>2
     DEF SizesInv, TypeOK, MessageFitsWindow, DatagramFits, config, SendUnreliable

\* makeSpace keeps the buffer within kcp.mtu, and so the datagram within Mtu.
LEMMA makeSpaceFits ==
  ASSUME MtusTaken, SizesInv, NEW space \in 0..mtu, makeSpace(space)
  PROVE  /\ size' \in 0..mtu
         /\ datagram' \in Nat /\ datagram' <= Mtu
<1>1. METADATA_SIZE \in Nat /\ mtu \in Nat /\ Mtu = mtu + METADATA_SIZE
  BY Bytes DEF SizesInv
<1>2. size \in 0..mtu /\ datagram \in Nat /\ datagram <= Mtu
  BY DEF SizesInv, TypeOK, DatagramFits
<1> QED
  BY <1>1, <1>2 DEF makeSpace, Output

LEMMA EncodeHeaderInv ==
  ASSUME MtusTaken, SizesInv, EncodeHeader
  PROVE  SizesInv'
<1>1. Configured' /\ mss' = mss
  BY ConfigKept DEF SizesInv, EncodeHeader
<1>2. IKCP_OVERHEAD \in 0..mtu
  BY ConfiguredFacts, SizesAssumption DEF SizesInv, mss
<1>3. size' \in 0..mtu /\ datagram' \in Nat /\ datagram' <= Mtu
  BY <1>2, makeSpaceFits DEF EncodeHeader
<1> QED
  BY <1>1, <1>3
     DEF SizesInv, TypeOK, MessageFitsWindow, DatagramFits, config, EncodeHeader

LEMMA EncodeSegmentInv ==
  ASSUME MtusTaken, SizesInv, EncodeSegment
  PROVE  SizesInv'
<1>1. Configured' /\ mss' = mss
  BY ConfigKept DEF SizesInv, EncodeSegment
<1>2. Head(segments) \in 1..mss /\ segments' \in Seq(1..mss)
  <2>1. segments \in Seq(1..mss) /\ segments # <<>> /\ segments' = Tail(segments)
    BY DEF SizesInv, TypeOK, EncodeSegment
  <2> HIDE DEF mss
  <2> QED
    BY <2>1, SeqFacts
<1>3. IKCP_OVERHEAD + Head(segments) \in 0..mtu
  <2> DEFINE h == Head(segments)
  <2>1. h \in 1..mss
    BY <1>2
  <2> HIDE DEF h, mss
  <2>2. IKCP_OVERHEAD + h \in 0..mtu
    BY <2>1, Bytes DEF SizesInv
  <2> QED
    BY <2>2 DEF h
<1>4. size' \in 0..mtu /\ datagram' \in Nat /\ datagram' <= Mtu
  BY <1>3, makeSpaceFits DEF EncodeSegment
<1> QED
  BY <1>1, <1>2, <1>4
     DEF SizesInv, TypeOK, MessageFitsWindow, DatagramFits, config, EncodeSegment

LEMMA flushBufferInv ==
  ASSUME MtusTaken, SizesInv, flushBuffer
  PROVE  SizesInv'
<1>1. Configured' /\ mss' = mss
  BY ConfigKept DEF SizesInv, flushBuffer
<1>2. datagram' \in Nat /\ datagram' <= Mtu
  <2>1. METADATA_SIZE \in Nat /\ mtu \in Nat /\ Mtu = mtu + METADATA_SIZE
    BY Bytes DEF SizesInv
  <2>2. size \in 0..mtu /\ datagram' = METADATA_SIZE + size
    BY DEF SizesInv, TypeOK, flushBuffer, Output
  <2> QED
    BY <2>1, <2>2
<1> QED
  BY <1>1, <1>2
     DEF SizesInv, TypeOK, MessageFitsWindow, DatagramFits, config, flushBuffer

LEMMA SizesNextInv == MtusTaken /\ SizesInv /\ [Next]_vars => SizesInv'
<1> SUFFICES ASSUME MtusTaken, SizesInv, [Next]_vars PROVE SizesInv'
  OBVIOUS
<1>1. Lengths \cup {0} \subseteq Nat
  BY SizesAssumption
<1>2. CASE UNCHANGED vars
  <2>1. Configured' /\ mss' = mss
    BY <1>2, ConfigKept DEF SizesInv, vars, config
  <2> QED
    BY <1>2, <2>1 DEF SizesInv, TypeOK, MessageFitsWindow, DatagramFits, vars
<1> QED
  BY <1>1, <1>2, SendReliableInv, SendUnreliableInv, EncodeHeaderInv,
     EncodeSegmentInv, flushBufferInv DEF Next

(***************************************************************************)
(* Send cuts no empty segment and none longer than kcp.mss, and makeSpace  *)
(* empties kcp.buffer in time: it never holds more than kcp.mtu bytes,     *)
(* the space that SetMtu left for them.                                    *)
(***************************************************************************)
THEOREM SizesTypeCorrect ==
  ASSUME MtusTaken PROVE Spec => []TypeOK
<1>1. Init => SizesInv
  BY SizesInitInv
<1>2. SizesInv /\ [Next]_vars => SizesInv'
  BY SizesNextInv
<1>3. SizesInv => TypeOK
  BY DEF SizesInv
<1> QED
  BY <1>1, <1>2, <1>3, PTL DEF Spec

(***************************************************************************)
(* Every reliable message that passes SendReliable's check fits the        *)
(* receiver's window and the count of frg.                                 *)
(***************************************************************************)
THEOREM AcceptedFits ==
  ASSUME MtusTaken PROVE Spec => []MessageFitsWindow
<1>1. Init => SizesInv
  BY SizesInitInv
<1>2. SizesInv /\ [Next]_vars => SizesInv'
  BY SizesNextInv
<1>3. SizesInv => MessageFitsWindow
  BY DEF SizesInv
<1> QED
  BY <1>1, <1>2, <1>3, PTL DEF Spec

(***************************************************************************)
(* No datagram of either channel is longer than KcpConfig.Mtu, if that is  *)
(* large enough for SetMtu not to refuse what Reset asks it for.           *)
(***************************************************************************)
THEOREM DatagramsFit ==
  ASSUME MtusTaken PROVE Spec => []DatagramFits
<1>1. Init => SizesInv
  BY SizesInitInv
<1>2. SizesInv /\ [Next]_vars => SizesInv'
  BY SizesNextInv
<1>3. SizesInv => DatagramFits
  BY DEF SizesInv
<1> QED
  BY <1>1, <1>2, <1>3, PTL DEF Spec

----------------------------------------------------------------------------
(* RttEstimator *)

\* A number below the modulus is its own remainder.
LEMMA ModSmall ==
  ASSUME NEW x \in Nat, NEW m \in Nat, x < m
  PROVE  x % m = x
  BY SMT

LEMMA BoundedInRange ==
  ASSUME NEW i \in Nat
  PROVE  Bounded(i) \in IntervalMin..IntervalMax
  BY RttAssumption DEF Bounded

\* The average moves towards the sample, by an eighth and never past it.
LEMMA SrttInRange ==
  ASSUME EstimatesInRange, NEW rtt \in 0..MaxRtt
  PROVE  Srtt(rtt) \in 0..MaxRtt
  BY RttAssumption, SMT DEF EstimatesInRange, Srtt

\* So does the variation, towards the absolute deviation of the sample.
LEMMA RttvarInRange ==
  ASSUME EstimatesInRange, NEW rtt \in 0..MaxRtt
  PROVE  Rttvar(rtt) \in 0..MaxRtt
<1> DEFINE dev == Deviation(rtt - rx_srtt)
<1>1. dev \in 0..MaxRtt
  BY RttAssumption DEF EstimatesInRange, Deviation
<1>2. CASE rx_srtt = 0
  BY <1>2, RttAssumption, SMT DEF Rttvar
<1>3. CASE rx_srtt # 0
  <2> HIDE DEF dev
  <2>1. /\ rx_rttvar + (dev - rx_rttvar) \div 32 \in 0..MaxRtt
        /\ rx_rttvar + (dev - rx_rttvar) \div 4 \in 0..MaxRtt
    BY <1>1, RttAssumption, SMT DEF EstimatesInRange
  <2> QED
    BY <1>3, <2>1 DEF Rttvar, dev
<1> QED
  BY <1>2, <1>3

\* A sum that stays below 2^32 does not wrap around.
LEMMA RtoUnwrapped ==
  ASSUME RttTypeOK, NEW srtt \in Nat, NEW rttvar \in 0..7, srtt < IKCP_RTO_MAX
  PROVE  Rto(srtt, rttvar) =
           _ibound_(rx_minrto, srtt + _imax_(interval, 4 * rttvar), IKCP_RTO_MAX)
<1>1. srtt % Uint32 = srtt
  <2>1. srtt \in Nat /\ Uint32 \in Nat /\ srtt < Uint32
    BY RttAssumption
  <2> QED
    BY <2>1, ModSmall
<1>2. (4 * rttvar) % Uint32 = 4 * rttvar
  <2>1. 4 * rttvar \in Nat /\ Uint32 \in Nat /\ 4 * rttvar < Uint32
    BY RttAssumption, SMTT(30)
  <2> QED
    BY <2>1, ModSmall
<1>3. /\ srtt + _imax_(interval, 4 * rttvar) \in Nat
      /\ srtt + _imax_(interval, 4 * rttvar) < Uint32
  BY RttAssumption DEF RttTypeOK, _imax_
<1>4. (srtt + _imax_(interval, 4 * rttvar)) % Uint32
        = srtt + _imax_(interval, 4 * rttvar)
  BY <1>3, ModSmall, RttAssumption
<1> QED
  BY <1>1, <1>2, <1>4 DEF Rto

\* Wrapped or not, the timeout is within its clamps.
LEMMA RtoInRange ==
  ASSUME RttTypeOK, NEW srtt \in Nat, NEW rttvar \in Nat
  PROVE  Rto(srtt, rttvar) \in 0..IKCP_RTO_MAX
<1> DEFINE sum == ((srtt % Uint32) + _imax_(interval, (4 * rttvar) % Uint32)) % Uint32
<1>1. Uint32 \in Nat \ {0}
  BY RttAssumption
<1>2. srtt % Uint32 \in Nat /\ (4 * rttvar) % Uint32 \in Nat
  BY <1>1
<1>3. (srtt % Uint32) + _imax_(interval, (4 * rttvar) % Uint32) \in Nat
  BY <1>2, RttAssumption DEF RttTypeOK, _imax_
<1>4. sum \in Nat
  BY <1>1, <1>3
<1> HIDE DEF sum
<1>5. _ibound_(rx_minrto, sum, IKCP_RTO_MAX) \in 0..IKCP_RTO_MAX
  BY <1>4, RttAssumption DEF RttTypeOK, _ibound_, _imin_, _imax_
<1> QED
  BY <1>5 DEF Rto, sum

EstimateInv == RttTypeOK /\ EstimatesInRange

LEMMA EstimateInitInv == RttInit => EstimateInv
  BY RttAssumption, BoundedInRange DEF RttInit, EstimateInv, RttTypeOK, EstimatesInRange

LEMMA EstimateNextInv == EstimateInv /\ [RttNext]_rttVars => EstimateInv'
<1> SUFFICES ASSUME EstimateInv, [RttNext]_rttVars
             PROVE  EstimateInv'
  OBVIOUS
<1>1. ASSUME NEW rtt \in 0..MaxRtt, update_ack(rtt)
      PROVE  EstimateInv'
  <2>1. EstimatesInRange'
    BY <1>1, SrttInRange, RttvarInRange DEF EstimateInv, update_ack, EstimatesInRange
  <2>2. rx_rto' \in 0..IKCP_RTO_MAX
    <3>1. Srtt(rtt) \in 0..MaxRtt /\ Rttvar(rtt) \in 0..MaxRtt
      BY <1>1, SrttInRange, RttvarInRange DEF EstimateInv
    <3> QED
      BY <1>1, <3>1, RtoInRange, RttAssumption DEF EstimateInv, update_ack
  <2> QED
    BY <1>1, <2>1, <2>2, RttAssumption DEF EstimateInv, RttTypeOK, EstimatesInRange, update_ack
<1>2. ASSUME NEW nodelay \in BOOLEAN, NEW i \in Intervals, NoDelay(nodelay, i)
      PROVE  EstimateInv'
  BY <1>2, BoundedInRange, RttAssumption
    DEF EstimateInv, RttTypeOK, EstimatesInRange, NoDelay
<1>3. CASE UNCHANGED rttVars
  BY <1>3 DEF EstimateInv, RttTypeOK, EstimatesInRange, rttVars
<1> QED
  BY <1>1, <1>2, <1>3 DEF RttNext

(***************************************************************************)
(* update_ack never takes rx_srtt or rx_rttvar below zero or above the     *)
(* longest round trip, so that its conversions to uint32 are exact, and    *)
(* rx_rto never leaves its clamps, also where the sum wraps around.        *)
(***************************************************************************)
THEOREM EstimatesStayInRange == RttSpec => [](RttTypeOK /\ EstimatesInRange)
<1>1. EstimateInv => RttTypeOK /\ EstimatesInRange
  BY DEF EstimateInv
<1> QED
  BY EstimateInitInv, EstimateNextInv, <1>1, PTL DEF RttSpec

LEMMA EstimateInvSuffices == EstimateInv => SettledTimeoutSuffices
<1> SUFFICES ASSUME EstimateInv, NEW rtt \in 0..MaxRtt, Settled(rtt), rtt < IKCP_RTO_MAX
             PROVE  Rto(rx_srtt, rx_rttvar) > rtt
  BY DEF SettledTimeoutSuffices
<1>1. rx_srtt <= rtt /\ rtt - rx_srtt < 8
  BY RttAssumption, SMT DEF EstimateInv, EstimatesInRange, Settled, Srtt
<1>2. rx_rttvar \in 0..7
  <2> DEFINE rest == Deviation(rtt - rx_srtt) - rx_rttvar
  <2>1. Deviation(rtt - rx_srtt) \in 0..7
    BY <1>1, RttAssumption DEF EstimateInv, EstimatesInRange, Deviation
  <2>2. rest \in Int /\ rx_rttvar \in Nat
    BY <2>1, RttAssumption DEF EstimateInv, EstimatesInRange
  <2>3. rx_rttvar + rest \div 32 = rx_rttvar \/ rx_rttvar + rest \div 4 = rx_rttvar
    BY DEF Settled, Rttvar
  <2>4. rest >= 0
    <3> HIDE DEF rest
    <3> QED
      BY <2>2, <2>3, SMT
  <2> QED
    BY <2>1, <2>2, <2>4
<1>3. Rto(rx_srtt, rx_rttvar) =
        _ibound_(rx_minrto, rx_srtt + _imax_(interval, 4 * rx_rttvar), IKCP_RTO_MAX)
  <2>1. rx_srtt \in Nat /\ rx_srtt < IKCP_RTO_MAX
    BY <1>1, RttAssumption DEF EstimateInv, EstimatesInRange
  <2> QED
    BY <1>2, <2>1, RtoUnwrapped DEF EstimateInv
<1>4. rx_srtt + _imax_(interval, 4 * rx_rttvar) > rtt
  BY <1>1, <1>2, RttAssumption DEF EstimateInv, RttTypeOK, EstimatesInRange, _imax_
<1> QED
  BY <1>2, <1>3, <1>4, RttAssumption DEF EstimateInv, RttTypeOK, EstimatesInRange, _ibound_, _imin_, _imax_

(***************************************************************************)
(* Once the estimator has settled on a constant round-trip time, the       *)
(* timeout exceeds it, although the average itself stops short of it.      *)
(***************************************************************************)
THEOREM TimeoutSuffices == RttSpec => []SettledTimeoutSuffices
  BY EstimateInitInv, EstimateNextInv, EstimateInvSuffices, PTL DEF RttSpec
============================================================================
