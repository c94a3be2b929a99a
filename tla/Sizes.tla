------------------------------- MODULE Sizes -------------------------------
(***************************************************************************)
(* How many bytes a peer puts on the wire.  KcpConfig.Mtu is the size of   *)
(* the buffer that a datagram is received into (client.go, server.go).     *)
(* Reset (peer.go) derives from it the longest message of either channel   *)
(* and the mtu of KCP, whose Send cuts a message into fragments and whose  *)
(* flush packs segments into datagrams (kcp.go).  Contents are left out.   *)
(***************************************************************************)
EXTENDS Integers, Sequences

CONSTANTS
  IKCP_OVERHEAD,         \* bytes of a segment's header
  METADATA_SIZE,         \* bytes of the channel and the cookie
  IKCP_MTU_DEF,          \* the mtu that NewKCP starts with
  IKCP_MTU_MIN,          \* the least that SetMtu takes
  IKCP_WND_RCV,          \* the receive window that NewKCP starts with
  FRG_MAX,               \* the most fragments that frg can count
  Mtus, Windows,         \* what a configuration may ask for
  Lengths,               \* bound: the lengths of messages
  MaxWaiting             \* bound: segments in the queue, beyond one message

ASSUME SizesAssumption ==
  /\ {IKCP_OVERHEAD, METADATA_SIZE, IKCP_MTU_DEF, IKCP_MTU_MIN,
      IKCP_WND_RCV, FRG_MAX} \subseteq Nat \ {0}
  /\ MaxWaiting \in Nat
  /\ IKCP_OVERHEAD < IKCP_MTU_MIN /\ IKCP_MTU_MIN <= IKCP_MTU_DEF
  /\ Mtus \subseteq Nat /\ Windows \subseteq Nat /\ Lengths \subseteq Nat \ {0}

VARIABLES
  Mtu,             \* KcpConfig.Mtu: the size of the receive buffers
  mtu,             \* kcp.mtu; kcp.mss is IKCP_OVERHEAD less
  rcv_wnd,         \* kcp.rcv_wnd, here of the other end, which is configured alike
  ReliableMax, UnreliableMax,
  segments,        \* the data lengths of the segments still to be encoded
  size,            \* bytes in kcp.buffer
  fragments,       \* history: the fragments of the last message
  datagram         \* history: the length of the last datagram

vars == <<Mtu, mtu, rcv_wnd, ReliableMax, UnreliableMax, segments, size,
          fragments, datagram>>
config == <<Mtu, mtu, rcv_wnd, ReliableMax, UnreliableMax>>

mss == mtu - IKCP_OVERHEAD

\* The lesser and the greater of two numbers.
Lesser(x, y) == IF x < y THEN x ELSE y
Greater(x, y) == IF x < y THEN y ELSE x

----------------------------------------------------------------------------
(* Reset *)

ReliableMaxMessageSize_Unconstrained(m, wnd) ==
  (m - IKCP_OVERHEAD - METADATA_SIZE) * (wnd - 1) - 1

\* Mutant: the limit of frg is not thought of.
ReliableMaxMessageSizeUncapped(m, wnd) ==
  ReliableMaxMessageSize_Unconstrained(m, wnd)

ReliableMaxMessageSize(m, wnd) ==
  ReliableMaxMessageSize_Unconstrained(m, Lesser(wnd, FRG_MAX))

UnreliableMaxMessageSize(m) == m - METADATA_SIZE - 1

\* Mutant: all of the configured mtu is given to KCP.
KcpMtuWhole(m) == Greater(m, IKCP_OVERHEAD + 1)

\* What Reset asks KCP for.
KcpMtu(m) == Greater(m - METADATA_SIZE, IKCP_OVERHEAD + 1)

\* SetMtu refuses a small mtu and leaves the old one; nobody looks.
SetMtu(m) == IF m < IKCP_MTU_MIN THEN IKCP_MTU_DEF ELSE m

\* WndSize takes no window of 0.
WndSize(wnd) == IF wnd > 0 THEN wnd ELSE IKCP_WND_RCV

Reset(m, wnd) ==
  /\ Mtu = m
  /\ mtu = SetMtu(KcpMtu(m))
  /\ rcv_wnd = WndSize(wnd)
  /\ ReliableMax = Greater(ReliableMaxMessageSize(m, wnd), 0)
  /\ UnreliableMax = UnreliableMaxMessageSize(m)

----------------------------------------------------------------------------
(* Sending *)

\* Send of n bytes: how many fragments, and the length of each.
Count(n) == IF n <= mss THEN 1 ELSE (n + mss - 1) \div mss
Cut(n) == [i \in 1..Count(n) |-> Lesser(n - (i - 1) * mss, mss)]

\* SendReliable of a header and len bytes: what fits kcpSendBuffer is given
\* to KCP, which refuses more fragments than frg can count.
SendReliable(len) ==
  /\ Len(segments) <= MaxWaiting
  /\ 1 + len <= 1 + ReliableMax
  /\ fragments' = Count(1 + len)
  /\ segments' = IF Count(1 + len) > FRG_MAX THEN segments
                 ELSE segments \o Cut(1 + len)
  /\ UNCHANGED <<config, size, datagram>>

\* SendUnreliable of a header and len bytes.
SendUnreliable(len) ==
  /\ len <= UnreliableMax
  /\ datagram' = METADATA_SIZE + 1 + len
  /\ UNCHANGED <<config, segments, size, fragments>>

\* The output callback of Reset.
Output(n) == datagram' = METADATA_SIZE + n

\* Mutant: the segment to come is not counted.
makeSpaceUncounted(space) ==
  IF size > mtu THEN Output(size) /\ size' = space
  ELSE UNCHANGED datagram /\ size' = size + space

\* flush: makeSpace, then a segment of so many bytes is encoded.
makeSpace(space) ==
  IF size + space > mtu THEN Output(size) /\ size' = space
  ELSE UNCHANGED datagram /\ size' = size + space

\* An acknowledgement or a window probe, which are headers only.
EncodeHeader ==
  /\ makeSpace(IKCP_OVERHEAD)
  /\ UNCHANGED <<config, segments, fragments>>

EncodeSegment ==
  /\ segments # <<>>
  /\ makeSpace(IKCP_OVERHEAD + Head(segments))
  /\ segments' = Tail(segments)
  /\ UNCHANGED <<config, fragments>>

flushBuffer ==
  /\ size > 0
  /\ Output(size)
  /\ size' = 0
  /\ UNCHANGED <<config, segments, fragments>>

Init ==
  /\ \E m \in Mtus, wnd \in Windows : Reset(m, wnd)
  /\ segments = <<>>
  /\ size = 0
  /\ fragments = 0
  /\ datagram = 0

Next ==
  \/ \E len \in Lengths \cup {0} : SendReliable(len)
  \/ \E len \in Lengths \cup {0} : SendUnreliable(len)
  \/ EncodeHeader
  \/ EncodeSegment
  \/ flushBuffer

Spec == Init /\ [][Next]_vars

----------------------------------------------------------------------------
(* Properties *)

\* Type invariant.
TypeOK ==
  /\ Mtu \in Nat /\ mtu \in Nat /\ rcv_wnd \in Nat \ {0}
  /\ ReliableMax \in Nat /\ UnreliableMax \in Int
  /\ segments \in Seq(1..mss)
  /\ size \in 0..mtu
  /\ fragments \in Nat /\ datagram \in Nat

(***************************************************************************)
(* A message that SendReliable takes fits a receive window in so many      *)
(* fragments, or the other end could never read it, and KCP's Send counts  *)
(* so many: what is accepted is neither refused further down nor stuck.    *)
(***************************************************************************)
MessageFitsWindow == fragments <= rcv_wnd /\ fragments <= FRG_MAX

(***************************************************************************)
(* No datagram is longer than Mtu: with channel and cookie in front of     *)
(* what KCP packed, it fits the buffer it is received into.                *)
(***************************************************************************)
DatagramFits == datagram <= Mtu
============================================================================
