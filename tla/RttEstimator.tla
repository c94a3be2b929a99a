---------------------------- MODULE RttEstimator ----------------------------
(***************************************************************************)
(* The retransmission timeout of KCP (kcp.go): NoDelay sets its floor and  *)
(* the flush interval, update_ack adapts it to the round-trip times that   *)
(* acknowledgements report.  rx_srtt and rx_rttvar are int32 and are       *)
(* converted to uint32, where a negative value would be a huge one.        *)
(***************************************************************************)
EXTENDS Integers

CONSTANTS
  IKCP_RTO_NDL, IKCP_RTO_MIN, IKCP_RTO_DEF, IKCP_RTO_MAX,
  IntervalMin, IntervalMax,  \* what NoDelay bounds the interval by
  Uint32,                    \* 2^32
  Intervals,                 \* what NoDelay may be called with
  MaxRtt                     \* the longest round trip; 2^31 - 1 in the code

ASSUME RttAssumption ==
  /\ {IKCP_RTO_NDL, IKCP_RTO_MIN, IKCP_RTO_DEF, IKCP_RTO_MAX, IntervalMin,
      IntervalMax, MaxRtt, Uint32} \subseteq Nat
  /\ IKCP_RTO_NDL <= IKCP_RTO_MAX /\ IKCP_RTO_MIN <= IKCP_RTO_MAX
  /\ IKCP_RTO_DEF <= IKCP_RTO_MAX
  /\ 8 <= IntervalMin /\ IntervalMin <= IntervalMax
  /\ Intervals \subseteq Nat
  /\ IKCP_RTO_MAX + IntervalMax + 28 <= Uint32

VARIABLES rx_srtt, rx_rttvar, rx_rto, rx_minrto, interval

rttVars == <<rx_srtt, rx_rttvar, rx_rto, rx_minrto, interval>>

----------------------------------------------------------------------------

_imin_(a, b) == IF a <= b THEN a ELSE b
_imax_(a, b) == IF a >= b THEN a ELSE b
_ibound_(lower, middle, upper) == _imin_(_imax_(lower, middle), upper)

\* Mutant: the interval is taken as it is.
BoundedAsGiven(i) == i

\* NoDelay keeps the interval between 10ms and 5s.
Bounded(i) == IF i > IntervalMax THEN IntervalMax
              ELSE IF i < IntervalMin THEN IntervalMin ELSE i

NoDelay(nodelay, i) ==
  /\ rx_minrto' = IF nodelay THEN IKCP_RTO_NDL ELSE IKCP_RTO_MIN
  /\ interval' = Bounded(i)
  /\ UNCHANGED <<rx_srtt, rx_rttvar, rx_rto>>

\* Mutant: the sign of the deviation stays.
DeviationSigned(delta) == delta

Deviation(delta) == IF delta < 0 THEN -delta ELSE delta

\* rx_srtt after a sample; 0 stands for "none yet".
Srtt(rtt) == IF rx_srtt = 0 THEN rtt ELSE rx_srtt + (rtt - rx_srtt) \div 8

\* rx_rttvar: a sample far below the average counts an eighth.
Rttvar(rtt) ==
  LET rest == Deviation(rtt - rx_srtt) - rx_rttvar IN
  IF rx_srtt = 0 THEN rtt \div 2
  ELSE IF rtt < Srtt(rtt) - rx_rttvar THEN rx_rttvar + rest \div 32
  ELSE rx_rttvar + rest \div 4

\* rx_rto, in uint32.
Rto(srtt, rttvar) ==
  _ibound_(rx_minrto,
           ((srtt % Uint32) + _imax_(interval, (4 * rttvar) % Uint32)) % Uint32,
           IKCP_RTO_MAX)

update_ack(rtt) ==
  /\ rx_srtt' = Srtt(rtt)
  /\ rx_rttvar' = Rttvar(rtt)
  /\ rx_rto' = Rto(Srtt(rtt), Rttvar(rtt))
  /\ UNCHANGED <<rx_minrto, interval>>

\* NewKCP and the NoDelay of Reset; IKCP_INTERVAL is within the bounds.
RttInit ==
  /\ rx_srtt = 0 /\ rx_rttvar = 0 /\ rx_rto = IKCP_RTO_DEF
  /\ rx_minrto \in {IKCP_RTO_NDL, IKCP_RTO_MIN}
  /\ interval \in {Bounded(i) : i \in Intervals}

RttNext ==
  \/ \E rtt \in 0..MaxRtt : update_ack(rtt)
  \/ \E nodelay \in BOOLEAN, i \in Intervals : NoDelay(nodelay, i)

RttSpec == RttInit /\ [][RttNext]_rttVars

----------------------------------------------------------------------------
(* Properties *)

\* Type invariant.
RttTypeOK ==
  /\ rx_srtt \in Int /\ rx_rttvar \in Int /\ rx_rto \in 0..IKCP_RTO_MAX
  /\ rx_minrto \in {IKCP_RTO_NDL, IKCP_RTO_MIN}
  /\ interval \in IntervalMin..IntervalMax

(***************************************************************************)
(* The shifts of update_ack round down, below zero too, and still neither  *)
(* the average nor the variation becomes negative or leaves the range of   *)
(* the samples, whatever they are: no difference leaves int32, and the     *)
(* conversions to uint32 are exact.                                        *)
(***************************************************************************)
EstimatesInRange == rx_srtt \in 0..MaxRtt /\ rx_rttvar \in 0..MaxRtt

\* Another sample of the same round trip would change nothing.
Settled(rtt) == rx_srtt # 0 /\ Srtt(rtt) = rx_srtt /\ Rttvar(rtt) = rx_rttvar

(***************************************************************************)
(* On a network with a constant round-trip time the average stops up to    *)
(* 7ms short of it, for the shift by 3.  The timeout that goes with it is  *)
(* still longer than the round trip, so nothing is retransmitted that is   *)
(* not lost: NoDelay keeps the interval, which is added, above 7ms.        *)
(***************************************************************************)
SettledTimeoutSuffices ==
  \A rtt \in 0..MaxRtt :
    Settled(rtt) /\ rtt < IKCP_RTO_MAX => Rto(rx_srtt, rx_rttvar) > rtt
=============================================================================
