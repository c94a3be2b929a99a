-------------------------- MODULE HeartbeatProofs --------------------------
(***************************************************************************)
(* Proofs about the timers of a KcpPeer, for all timeouts, intervals and   *)
(* pauses of the application, as long as no clock has wrapped around:      *)
(*   - HandleTimeout measures the ticker and nothing else, from Inv;       *)
(*   - the state is well typed;                                            *)
(*   - a far end that falls silent is dropped by dead_link in time, from   *)
(*     SilenceInv: in every phase of a tick the oldest segment is on       *)
(*     schedule, or a ping is not yet due;                                 *)
(*   - pings are answered, from PongInv: LastPongTime is the time of the   *)
(*     last pong, if the session is the peer's first.                      *)
(***************************************************************************)
EXTENDS Heartbeat, TLAPS, SequenceTheorems, WellFoundedInduction

\* The session is younger than 2^32 ms, less one Timeout and one interval.
NoWrap == now + Timeout + PING_INTERVAL < ClockSize

\* The fields of a KcpPeer, and the types of those the proof is about.
Shape(p) ==
  /\ p \in [state : {"None", "Connected", "Authenticated", "Disconnected"},
            once : BOOLEAN, start : Nat, lastReceiveTime : Nat,
            LastPingTime : Nat, LastPongTime : {p.LastPongTime},
            flushInterval : {p.flushInterval}, dead : {p.dead},
            snd_buf : {p.snd_buf}, rmt_wnd : {p.rmt_wnd}, inbox : {p.inbox}]
  /\ p.state = "Disconnected" => p.once

\* q is p but for what the proof is not about.
Like(p, q) ==
  /\ Shape(q)
  /\ q.once = p.once /\ q.start = p.start
  /\ q.lastReceiveTime = p.lastReceiveTime /\ q.LastPingTime = p.LastPingTime

(***************************************************************************)
(* The timers of a peer that may still be disconnected: it pinged within   *)
(* PING_INTERVAL of its last tick, and its last sign of life, which a ping *)
(* counts as, is no older than that ping.                                  *)
(***************************************************************************)
Timers(p, tick, t) ==
  /\ p.start <= tick /\ tick <= t
  /\ p.LastPingTime <= p.lastReceiveTime
  /\ p.lastReceiveTime <= t - p.start
  /\ tick - p.start < p.LastPingTime + PING_INTERVAL

Shapes ==
  /\ now \in Nat
  /\ peer = [f \in Peers |-> peer[f]]
  /\ \A f \in Peers : Shape(peer[f])
  /\ lastTick \in [Peers -> Nat]

TimersInv ==
  \A f \in Peers :
    (peer[f].state # "None" /\ ~peer[f].once) => Timers(peer[f], lastTick[f], now)

Inv == Shapes /\ TimersInv /\ TimeoutMeansStall

----------------------------------------------------------------------------
(* What the helpers of KcpPeer leave alone *)

LEMMA NewShape ==
  ASSUME NEW t \in Nat
  PROVE  /\ Shape(NewKcpPeer(t))
         /\ NewKcpPeer(t).state = "Connected" /\ ~NewKcpPeer(t).once
         /\ NewKcpPeer(t).start = t
         /\ NewKcpPeer(t).lastReceiveTime = 0 /\ NewKcpPeer(t).LastPingTime = 0
  BY DEF Shape, NewKcpPeer

LEMMA ResetShape ==
  ASSUME NEW t \in Nat, NEW p, Shape(p)
  PROVE  /\ Shape(Reset(p, t))
         /\ Reset(p, t).state = "Connected"
         /\ Reset(p, t).once = p.once /\ Reset(p, t).start = t
         /\ Reset(p, t).lastReceiveTime = 0 /\ Reset(p, t).LastPingTime = 0
  BY DEF Shape, NewKcpPeer, Reset

LEMMA NoPeerShape == Shape(NoPeer) /\ NoPeer.state = "None"
  BY DEF Shape, NewKcpPeer, NoPeer

LEMMA FlushLike ==
  ASSUME NEW p, Shape(p), NEW t
  PROVE  Like(p, Flush(p, t)) /\ Flush(p, t).state = p.state
  BY DEF Shape, Like, Flush

LEMMA SendReliableLike ==
  ASSUME NEW p, Shape(p), NEW t
  PROVE  Like(p, SendReliable(p, t)) /\ SendReliable(p, t).state = p.state
<1> DEFINE q == [p EXCEPT !.snd_buf = Append(@, [xmit |-> 0, rto |-> 0, resendts |-> 0])]
<1>1. Like(p, q) /\ q.state = p.state
  BY DEF Shape, Like
<1>2. Like(p, Flush(q, t)) /\ Flush(q, t).state = p.state
  <2> HIDE DEF q
  <2> QED
    BY <1>1, FlushLike DEF Like
<1>3. Like(p, p)
  BY DEF Like
<1>4. SendReliable(p, t) \in {p, q, Flush(q, t)}
  BY DEF SendReliable
<1> HIDE DEF q
<1> QED
  BY <1>1, <1>2, <1>3, <1>4

\* A number below the modulus is its own remainder.
LEMMA ModSmall ==
  ASSUME NEW x \in Nat, NEW m \in Nat, x < m
  PROVE  x % m = x
  BY SMT

LEMMA TimeUnwrapped ==
  ASSUME NEW p, Shape(p), NEW t \in Nat, p.start <= t, t < ClockSize
  PROVE  Time(p, t) = t - p.start /\ Time(p, t) \in Nat
<1>1. t - p.start \in Nat /\ ClockSize \in Nat /\ t - p.start < ClockSize
  BY HeartbeatAssumption DEF Shape
<1> QED
  BY <1>1, ModSmall DEF Time

LEMMA TimeNat ==
  ASSUME NEW p, Shape(p), NEW t \in Nat
  PROVE  Time(p, t) \in Nat
  BY HeartbeatAssumption, SMT DEF Shape, Time

LEMMA SendTimedLike ==
  ASSUME NEW p, Shape(p), NEW t \in Nat
  PROVE  /\ Shape(SendTimed(p, t))
         /\ SendTimed(p, t).state = p.state
         /\ SendTimed(p, t).once = p.once /\ SendTimed(p, t).start = p.start
         /\ SendTimed(p, t).LastPingTime = p.LastPingTime
         /\ SendTimed(p, t).lastReceiveTime = Time(p, t)
<1> DEFINE q == [p EXCEPT !.lastReceiveTime = Time(p, t)]
<1>1. /\ Shape(q) /\ q.state = p.state /\ q.once = p.once /\ q.start = p.start
      /\ q.LastPingTime = p.LastPingTime /\ q.lastReceiveTime = Time(p, t)
  BY TimeNat DEF Shape
<1>2. SendTimed(p, t) = SendReliable(q, t)
  BY DEF SendTimed
<1> HIDE DEF q
<1> QED
  BY <1>1, <1>2, SendReliableLike DEF Like

LEMMA DisconnectLike ==
  ASSUME NEW p, Shape(p)
  PROVE  /\ Shape(Disconnect(p)) /\ Disconnect(p).once
         /\ Disconnect(p).start = p.start
         /\ p.state # "None" /\ ~p.once => Disconnect(p).state = "Disconnected"
         /\ p.once => Disconnect(p) = p
  BY DEF Shape, Disconnect

LEMMA HandleTimeoutLike ==
  ASSUME NEW p, Shape(p), NEW time \in Nat
  PROVE  LET q == HandleTimeout(p, time) IN
         /\ Shape(q) /\ q.start = p.start
         /\ p.once => q.once
         /\ ~q.once => q = p
         /\ p.state # "None" => q.state # "None"
         /\ q # p => time >= (p.lastReceiveTime + Timeout) % ClockSize
  BY DisconnectLike DEF HandleTimeout

LEMMA HandleDeadLinkLike ==
  ASSUME NEW p, Shape(p)
  PROVE  LET q == HandleDeadLink(p) IN
         /\ Shape(q) /\ q.start = p.start
         /\ p.once => q.once
         /\ ~q.once => q = p
         /\ p.state # "None" => q.state # "None"
  BY DisconnectLike DEF HandleDeadLink

LEMMA HandlePingLike ==
  ASSUME NEW p, Shape(p), NEW time \in Nat, NEW t \in Nat
  PROVE  LET q == HandlePing(p, time, t) IN
         /\ Shape(q) /\ q.start = p.start /\ q.once = p.once /\ q.state = p.state
         /\ \/ q = p /\ ~(time >= (p.LastPingTime + PING_INTERVAL) % ClockSize)
            \/ q.LastPingTime = time /\ q.lastReceiveTime = Time(p, t)
<1> DEFINE q == SendTimed(p, t)
           r == [q EXCEPT !.LastPingTime = time]
<1>1. /\ Shape(q) /\ q.start = p.start /\ q.once = p.once /\ q.state = p.state
      /\ q.lastReceiveTime = Time(p, t)
  BY SendTimedLike
<1> HIDE DEF q
<1>2. /\ Shape(r) /\ r.start = p.start /\ r.once = p.once /\ r.state = p.state
      /\ r.LastPingTime = time /\ r.lastReceiveTime = Time(p, t)
  BY <1>1 DEF Shape
<1> HIDE DEF r
<1>3. HandlePing(p, time, t) =
        IF time >= (p.LastPingTime + PING_INTERVAL) % ClockSize THEN r ELSE p
  BY DEF HandlePing, q, r
<1> QED
  BY <1>2, <1>3

\* Receiving may only make lastReceiveTime younger.
LEMMA ReceiveHelloLike ==
  ASSUME NEW p, Shape(p), NEW t \in Nat
  PROVE  LET q == ReceiveHello(p, t) IN
         /\ Shape(q) /\ q.start = p.start /\ q.once = p.once
         /\ q.LastPingTime = p.LastPingTime
         /\ q.lastReceiveTime \in {p.lastReceiveTime, Time(p, t)}
         /\ p.state # "None" => q.state # "None"
  BY TimeNat DEF ReceiveHello, Shape

LEMMA ReceiveAllLike ==
  ASSUME NEW p, Shape(p), NEW t \in Nat, NEW time
  PROVE  LET q == ReceiveAll(p, time, t) IN
         /\ Shape(q) /\ q.start = p.start /\ q.once = p.once
         /\ q.LastPingTime = p.LastPingTime
         /\ q.lastReceiveTime \in {p.lastReceiveTime, Time(p, t)}
         /\ p.state # "None" => q.state # "None"
<1> DEFINE q == IF p.inbox = {} THEN p
                ELSE [p EXCEPT !.inbox = {}, !.lastReceiveTime = Time(p, t)]
           r == SendTimed(q, t)
           s == [r EXCEPT !.LastPongTime = time]
<1>1. /\ Shape(q) /\ q.start = p.start /\ q.once = p.once /\ q.state = p.state
      /\ q.LastPingTime = p.LastPingTime
      /\ q.lastReceiveTime \in {p.lastReceiveTime, Time(p, t)}
  BY TimeNat DEF Shape
<1> HIDE DEF q
<1>2. Time(q, t) = Time(p, t)
  BY <1>1 DEF Time
<1>3. /\ Shape(r) /\ r.start = p.start /\ r.once = p.once /\ r.state = p.state
      /\ r.LastPingTime = p.LastPingTime /\ r.lastReceiveTime = Time(p, t)
  BY <1>1, <1>2, SendTimedLike
<1> HIDE DEF r
<1>4. /\ Shape(s) /\ s.start = p.start /\ s.once = p.once /\ s.state = p.state
      /\ s.LastPingTime = p.LastPingTime /\ s.lastReceiveTime = Time(p, t)
  BY <1>3 DEF Shape
<1> HIDE DEF s
<1>5. ReceiveAll(p, time, t) \in {q, s}
  BY DEF ReceiveAll, q, r, s
<1> QED
  BY <1>1, <1>4, <1>5

LEMMA InputLike ==
  ASSUME NEW p, Shape(p), NEW m, NEW k, NEW w, NEW t
  PROVE  Like(p, Input(p, m, k, w, t)) /\ Input(p, m, k, w, t).state = p.state
<1> DEFINE q == [p EXCEPT !.inbox = IF m = "Ack" THEN @ ELSE @ \cup {m},
                          !.rmt_wnd = w,
                          !.snd_buf = SubSeq(@, k + 1, Len(@))]
<1>1. Like(p, q) /\ q.state = p.state
  BY DEF Shape, Like
<1> HIDE DEF q
<1>2. Like(p, Flush(q, t)) /\ Flush(q, t).state = p.state
  BY <1>1, FlushLike DEF Like
<1>3. Input(p, m, k, w, t) \in {q, Flush(q, t)}
  BY DEF Input, q
<1> QED
  BY <1>1, <1>2, <1>3

LEMMA SleptNat ==
  ASSUME NEW p, NEW q
  PROVE  /\ Slept(p, q) \in Nat
         /\ (p.once \/ ~q.once) => Slept(p, q) = 0
  BY HeartbeatAssumption DEF Slept

----------------------------------------------------------------------------
(* The steps *)

LEMMA InitInv == Init => Inv
  BY NoPeerShape, HeartbeatAssumption
     DEF Init, Inv, Shapes, TimersInv, TimeoutMeansStall, NoDrop

\* A step that changes one peer keeps the invariant if that peer's timers
\* are right after it: the others' are, for time only goes on.
LEMMA OnePeerStep ==
  ASSUME Inv, NEW f \in Peers, NEW r, NEW tick \in Nat,
         peer' = [peer EXCEPT ![f] = r],
         lastTick' = [lastTick EXCEPT ![f] = tick],
         now' \in Nat, now <= now',
         Shape(r),
         (r.state # "None" /\ ~r.once) => Timers(r, tick, now'),
         TimeoutMeansStall'
  PROVE  Inv'
<1>1. Shapes'
  BY DEF Inv, Shapes
<1>2. TimersInv'
  <2> SUFFICES ASSUME NEW g \in Peers, peer'[g].state # "None", ~peer'[g].once
               PROVE  Timers(peer'[g], lastTick'[g], now')
    BY DEF TimersInv, Timers
  <2>1. CASE g = f
    BY <2>1 DEF Inv, Shapes
  <2>2. CASE g # f
    <3>1. peer'[g] = peer[g] /\ lastTick'[g] = lastTick[g]
      BY <2>2 DEF Inv, Shapes
    <3>2. Timers(peer[g], lastTick[g], now) /\ Shape(peer[g])
      BY <3>1 DEF Inv, TimersInv, Shapes
    <3> QED
      BY <3>1, <3>2 DEF Timers, Shape, Inv, Shapes
  <2> QED
    BY <2>1, <2>2
<1> QED
  BY <1>1, <1>2 DEF Inv

\* A step without a tick of its own.
LEMMA SameTick ==
  ASSUME Inv, NEW f \in Peers, UNCHANGED lastTick
  PROVE  lastTick[f] \in Nat /\ lastTick' = [lastTick EXCEPT ![f] = lastTick[f]]
  BY DEF Inv, Shapes

\* A step that leaves the peers, their ticks and the last drop alone.
LEMMA PassiveStep ==
  ASSUME Inv, UNCHANGED <<peer, lastTick>>, now' \in Nat, now <= now',
         drop' = drop \/ drop' = NoDrop
  PROVE  Inv'
<1>1. Shapes'
  BY DEF Inv, Shapes
<1>2. TimersInv'
  <2> SUFFICES ASSUME NEW g \in Peers, peer[g].state # "None", ~peer[g].once
               PROVE  Timers(peer[g], lastTick[g], now')
    BY DEF TimersInv, Timers
  <2>1. Timers(peer[g], lastTick[g], now) /\ Shape(peer[g])
    BY DEF Inv, TimersInv, Shapes
  <2> QED
    BY <2>1 DEF Timers, Shape, Inv, Shapes
<1>3. TimeoutMeansStall'
  BY DEF Inv, TimeoutMeansStall, NoDrop
<1> QED
  BY <1>1, <1>2, <1>3 DEF Inv

\* A new session has had no tick: its timers count from its beginning.
LEMMA BeginInv ==
  ASSUME Inv, NEW f \in Peers, NEW p, Begin(f, p), UNCHANGED <<now, drop>>,
         Shape(p), p.start = now, p.lastReceiveTime = 0, p.LastPingTime = 0
  PROVE  Inv'
<1>1. Timers(p, now, now)
  BY HeartbeatAssumption DEF Timers, Inv, Shapes
<1>2. TimeoutMeansStall'
  BY DEF Inv, TimeoutMeansStall
<1>3. /\ peer' = [peer EXCEPT ![f] = p]
      /\ lastTick' = [lastTick EXCEPT ![f] = now]
  BY DEF Begin
<1>4. now \in Nat /\ now' \in Nat /\ now <= now'
  BY DEF Inv, Shapes
<1>5. Timers(p, now, now')
  BY <1>1
<1> QED
  BY <1>2, <1>3, <1>4, <1>5, OnePeerStep

LEMMA ConnectInv ==
  ASSUME Inv, NEW f \in Peers, Connect(f)
  PROVE  Inv'
<1> DEFINE p == IF peer[f].state = "None" THEN NewKcpPeer(now) ELSE Reset(peer[f], now)
           q == SendReliable(p, now)
<1>1. Shape(p) /\ p.start = now /\ p.lastReceiveTime = 0 /\ p.LastPingTime = 0
  BY NewShape, ResetShape DEF Inv, Shapes
<1> HIDE DEF p
<1>2. Shape(q) /\ q.start = now /\ q.lastReceiveTime = 0 /\ q.LastPingTime = 0
  BY <1>1, SendReliableLike DEF Like
<1> HIDE DEF q
<1>3. Begin(f, q) /\ UNCHANGED <<now, drop>>
  BY DEF Connect, p, q
<1> QED
  BY <1>2, <1>3, BeginInv

LEMMA SendInv ==
  ASSUME Inv, NoWrap, NEW f \in Peers, Send(f)
  PROVE  Inv'
<1> DEFINE p == peer[f]
           q == SendTimed(p, now)
<1>1. Shape(p) /\ now \in Nat /\ p.state # "None"
  BY DEF Inv, Shapes, Send
<1>2. /\ Shape(q) /\ q.once = p.once /\ q.start = p.start
      /\ q.LastPingTime = p.LastPingTime /\ q.lastReceiveTime = Time(p, now)
  BY <1>1, SendTimedLike
<1>3. ASSUME ~p.once PROVE Timers(q, lastTick[f], now)
  <2>1. Timers(p, lastTick[f], now)
    BY <1>1, <1>3 DEF Inv, TimersInv
  <2>2. Time(p, now) = now - p.start
    BY <1>1, <2>1, TimeUnwrapped, HeartbeatAssumption DEF Timers, Shape, NoWrap, Inv, Shapes
  <2> QED
    BY <1>1, <1>2, <2>1, <2>2 DEF Timers, Shape, Inv, Shapes
<1>4. peer' = [peer EXCEPT ![f] = q] /\ UNCHANGED <<now, lastTick, drop>>
  BY DEF Send
<1>5. TimeoutMeansStall'
  BY <1>4 DEF Inv, TimeoutMeansStall
<1>6. lastTick[f] \in Nat /\ lastTick' = [lastTick EXCEPT ![f] = lastTick[f]]
  BY <1>4, SameTick
<1>7. now' \in Nat /\ now <= now'
  BY <1>1, <1>4
<1>8. (q.state # "None" /\ ~q.once) => Timers(q, lastTick[f], now')
  BY <1>2, <1>3, <1>4
<1> HIDE DEF q
<1> QED
  BY <1>2, <1>4, <1>5, <1>6, <1>7, <1>8, OnePeerStep

\* A step by which a peer becomes one with the same timers, or is dropped.
LEMMA BecomesInv ==
  ASSUME Inv, NEW f \in Peers, NEW q, NEW why, why # "timeout",
         Becomes(f, q, why), UNCHANGED lastTick,
         Shape(q),
         ~q.once => Like(peer[f], q),
         (q.state # "None" /\ ~q.once) => peer[f].state # "None"
  PROVE  Inv'
<1>1. now' \in Nat /\ now <= now' /\ (~q.once => now' = now)
  BY SleptNat DEF Becomes, Inv, Shapes
<1>2. ASSUME q.state # "None", ~q.once
      PROVE  Timers(q, lastTick[f], now')
  <2>1. Timers(peer[f], lastTick[f], now)
    BY <1>2 DEF Inv, TimersInv, Like
  <2> QED
    BY <1>1, <1>2, <2>1 DEF Timers, Like
<1>3. TimeoutMeansStall'
  BY DEF Becomes, Inv, TimeoutMeansStall
<1> QED
  BY <1>1, <1>2, <1>3, OnePeerStep, SameTick DEF Becomes

LEMMA ReceiveInv ==
  ASSUME Inv, NEW f \in Peers, Receive(f)
  PROVE  Inv'
<1> DEFINE p == peer[f]
<1>0. Shape(p) /\ now \in Nat
  BY DEF Inv, Shapes
<1> PICK m \in sock[f] : Receive(f)!(m)
  BY DEF Receive
<1>1. CASE /\ \E w \in 0..RmtWnd :
                Begin(f, [SendReliable([NewKcpPeer(now) EXCEPT !.rmt_wnd = w], now)
                            EXCEPT !.state = "Authenticated"])
           /\ UNCHANGED <<now, drop>>
  <2> PICK w \in 0..RmtWnd :
             Begin(f, [SendReliable([NewKcpPeer(now) EXCEPT !.rmt_wnd = w], now)
                         EXCEPT !.state = "Authenticated"])
    BY <1>1
  <2> DEFINE n == [NewKcpPeer(now) EXCEPT !.rmt_wnd = w]
             q == SendReliable(n, now)
             r == [q EXCEPT !.state = "Authenticated"]
  <2>1. Shape(n) /\ n.start = now /\ n.lastReceiveTime = 0 /\ n.LastPingTime = 0
    BY <1>0, NewShape DEF Shape
  <2> HIDE DEF n
  <2>2. Shape(q) /\ q.start = now /\ q.lastReceiveTime = 0 /\ q.LastPingTime = 0
    BY <1>0, <2>1, SendReliableLike DEF Like
  <2> HIDE DEF q
  <2>3. Shape(r) /\ r.start = now /\ r.lastReceiveTime = 0 /\ r.LastPingTime = 0
    BY <2>2 DEF Shape
  <2> QED
    BY <1>1, <2>3, BeginInv DEF q, n
<1>2. CASE /\ p.state = "Authenticated"
           /\ Becomes(f, Disconnect(p), "bye")
           /\ UNCHANGED <<heard, lastTick, answered, refused>>
  BY <1>0, <1>2, DisconnectLike, BecomesInv
<1>3. CASE /\ p.state \in {"Connected", "Authenticated"}
           /\ \E k \in (IF m = "Ack" THEN Sent(p) ELSE {0}), w \in 0..RmtWnd :
                Becomes(f, Input(p, m, k, w, now), "none")
           /\ UNCHANGED <<heard, lastTick, answered, refused>>
  <2> PICK k, w : Becomes(f, Input(p, m, k, w, now), "none")
    BY <1>3
  <2>1. Like(p, Input(p, m, k, w, now))
    BY <1>0, InputLike
  <2> QED
    BY <1>3, <2>1, BecomesInv DEF Like
<1>4. CASE UNCHANGED <<now, peer, heard, lastTick, answered, refused, drop>>
  BY <1>0, <1>4, PassiveStep
<1> QED
  BY <1>1, <1>2, <1>3, <1>4

\* TickIncoming: HandlePing leaves a ping no older than PING_INTERVAL, and
\* if HandleTimeout strikes, the last tick was long before.
LEMMA TickIncomingInv ==
  ASSUME Inv, NoWrap, NEW f \in Peers, TickIncoming(f)
  PROVE  Inv'
<1> DEFINE p    == peer[f]
           time == Time(p, now)
           p1   == HandleTimeout(p, time)
           p2   == HandleDeadLink(p1)
           t    == now + Slept(p, p2)
           p3   == HandlePing(p2, time, t)
           why  == IF p1 # p THEN "timeout" ELSE "dead_link"
<1>0. Shape(p) /\ now \in Nat /\ lastTick[f] \in Nat /\ time \in Nat
  BY TimeNat DEF Inv, Shapes
<1>1. /\ Shape(p1) /\ p1.start = p.start /\ (~p1.once => p1 = p)
      /\ p1 # p => time >= (p.lastReceiveTime + Timeout) % ClockSize
      /\ p.once => p1.once
      /\ p.state # "None" => p1.state # "None"
  <2> HIDE DEF p, time
  <2> QED
    BY <1>0, HandleTimeoutLike
<1>2. /\ Shape(p2) /\ p2.start = p.start /\ (~p2.once => p2 = p)
      /\ p.once => p2.once
      /\ p.state # "None" => p2.state # "None"
  <2> HIDE DEF p, p1
  <2> QED
    BY <1>1, HandleDeadLinkLike
<1>3. t \in Nat /\ now <= t
  BY <1>0, SleptNat
<1>4. /\ Shape(p3) /\ p3.start = p.start /\ p3.once = p2.once /\ p3.state = p2.state
      /\ \/ p3 = p2 /\ ~(time >= (p2.LastPingTime + PING_INTERVAL) % ClockSize)
         \/ p3.LastPingTime = time /\ p3.lastReceiveTime = Time(p2, t)
  <2>1. p2.start = p.start /\ Shape(p2) /\ time \in Nat /\ t \in Nat
    BY <1>0, <1>2, <1>3
  <2> HIDE DEF p, p2, time, t
  <2>2. /\ Shape(p3) /\ p3.start = p2.start /\ p3.once = p2.once /\ p3.state = p2.state
        /\ \/ p3 = p2 /\ ~(time >= (p2.LastPingTime + PING_INTERVAL) % ClockSize)
           \/ p3.LastPingTime = time /\ p3.lastReceiveTime = Time(p2, t)
    BY <2>1, HandlePingLike
  <2> HIDE DEF p3
  <2> QED
    BY <2>1, <2>2
<1>5. ASSUME ~p.once, p.state # "None"
      PROVE  /\ Timers(p, lastTick[f], now) /\ time = now - p.start
             /\ (p.lastReceiveTime + Timeout) % ClockSize = p.lastReceiveTime + Timeout
             /\ (p.LastPingTime + PING_INTERVAL) % ClockSize
                  = p.LastPingTime + PING_INTERVAL
  <2>1. Timers(p, lastTick[f], now)
    BY <1>5 DEF Inv, TimersInv
  <2>2. now + Timeout + PING_INTERVAL < ClockSize /\ p.start <= now
    BY <1>0, <2>1 DEF NoWrap, Timers, Shape
  <2>3. time = now - p.start
    BY <1>0, <2>2, TimeUnwrapped, HeartbeatAssumption
  <2>4. /\ p.lastReceiveTime + Timeout \in Nat /\ p.LastPingTime + PING_INTERVAL \in Nat
        /\ p.lastReceiveTime + Timeout < ClockSize
        /\ p.LastPingTime + PING_INTERVAL < ClockSize
        /\ ClockSize \in Nat
    BY <1>0, <2>1, <2>2, HeartbeatAssumption DEF Timers, Shape
  <2>5. /\ (p.lastReceiveTime + Timeout) % ClockSize = p.lastReceiveTime + Timeout
        /\ (p.LastPingTime + PING_INTERVAL) % ClockSize = p.LastPingTime + PING_INTERVAL
    BY <2>4, ModSmall
  <2> QED
    BY <2>1, <2>3, <2>5, Zenon
<1>6. ASSUME ~p2.once, p.state # "None",
             NEW q, Shape(q), q.start = p3.start, q.LastPingTime = p3.LastPingTime,
             q.lastReceiveTime \in {p3.lastReceiveTime, Time(p3, t)}
      PROVE  Timers(q, now, now)
  <2>1. p2 = p /\ ~p.once /\ t = now
    BY <1>0, <1>2, <1>6, SleptNat, SMTT(30)
  <2>2. Time(p2, t) = time /\ Time(p3, t) = time
    BY <1>2, <1>4, <2>1 DEF Time
  <2>3. /\ Timers(p, lastTick[f], now) /\ time = now - p.start
        /\ (p.LastPingTime + PING_INTERVAL) % ClockSize = p.LastPingTime + PING_INTERVAL
    BY <1>5, <1>6, <2>1
  <2>4. q.start = p.start
    BY <1>4, <1>6
  <2>5. /\ p3.LastPingTime <= p3.lastReceiveTime /\ p3.lastReceiveTime <= time
        /\ time < p3.LastPingTime + PING_INTERVAL
    <3>1. CASE p3 = p2 /\ ~(time >= (p2.LastPingTime + PING_INTERVAL) % ClockSize)
      <4>1. ~(time >= p.LastPingTime + PING_INTERVAL)
        BY <3>1, <2>1, <2>3
      <4> HIDE DEF time, p3, p2, p
      <4> QED
        BY <1>0, <4>1, <3>1, <2>1, <2>3, HeartbeatAssumption DEF Timers, Shape
    <3>2. CASE p3.LastPingTime = time /\ p3.lastReceiveTime = Time(p2, t)
      <4> HIDE DEF time, p3, p2, p, t
      <4> QED
        BY <1>0, <3>2, <2>2, HeartbeatAssumption
    <3> QED
      BY <1>4, <3>1, <3>2
  <2> HIDE DEF time, p3, p2, p, t
  <2> QED
    BY <1>0, <1>4, <1>6, <2>2, <2>3, <2>4, <2>5 DEF Timers, Shape
<1>7. ASSUME NEW q, Becomes(f, q, why), Shape(q), q.once = p3.once, p.state # "None",
             q.start = p3.start, q.LastPingTime = p3.LastPingTime,
             q.lastReceiveTime \in {p3.lastReceiveTime, Time(p3, t)},
             lastTick' = [lastTick EXCEPT ![f] = now]
      PROVE  Inv'
  <2>1. now' \in Nat /\ now <= now' /\ (~q.once => now' = now)
    BY <1>0, <1>7, SleptNat DEF Becomes
  <2>2. (q.state # "None" /\ ~q.once) => Timers(q, now, now')
    BY <1>4, <1>6, <1>7, <2>1
  <2>3. TimeoutMeansStall'
    <3>1. CASE drop' = drop
      BY <3>1 DEF Inv, TimeoutMeansStall
    <3>2. CASE drop' # drop
      <4>1. /\ drop'.why = why /\ drop'.stall = now - lastTick[f]
            /\ ~p.once
        <5>1. Slept(peer[f], q) > 0
          BY <1>7, <3>2 DEF Becomes
        <5> QED
          BY <1>7, <5>1, SleptNat DEF Becomes
      <4>2. CASE p1 # p
        <5>1. time >= p.lastReceiveTime + Timeout
          BY <1>1, <1>5, <1>7, <4>1, <4>2
        <5>2. Timers(p, lastTick[f], now) /\ time = now - p.start
          BY <1>5, <1>7, <4>1
        <5>3. now - lastTick[f] + PING_INTERVAL > Timeout
          <6> HIDE DEF time, p
          <6> QED
            BY <1>0, <5>1, <5>2, HeartbeatAssumption DEF Timers, Shape
        <5> QED
          BY <4>1, <5>3 DEF TimeoutMeansStall
      <4>3. CASE p1 = p
        BY <4>1, <4>3 DEF TimeoutMeansStall
      <4> QED
        BY <4>2, <4>3
    <3> QED
      BY <3>1, <3>2
  <2>4. peer' = [peer EXCEPT ![f] = q]
    BY <1>7 DEF Becomes
  <2> QED
    BY <1>0, <1>7, <2>1, <2>2, <2>3, <2>4, OnePeerStep
<1>8. lastTick' = [lastTick EXCEPT ![f] = now]
  BY DEF TickIncoming
<1>9. CASE p.state = "Connected" /\ Becomes(f, ReceiveHello(p3, t), why)
  <2> DEFINE q == ReceiveHello(p3, t)
  <2>1. /\ Shape(q) /\ q.start = p3.start /\ q.once = p3.once
        /\ q.LastPingTime = p3.LastPingTime
        /\ q.lastReceiveTime \in {p3.lastReceiveTime, Time(p3, t)}
    <3> HIDE DEF p3, t
    <3> QED
      BY <1>3, <1>4, ReceiveHelloLike
  <2>2. p.state # "None" /\ Becomes(f, q, why)
    BY <1>9
  <2> HIDE DEF q, why, p, p3, t
  <2> QED
    BY <1>7, <1>8, <2>1, <2>2
<1>10. CASE p.state = "Authenticated" /\ Becomes(f, ReceiveAll(p3, time, t), why)
  <2> DEFINE q == ReceiveAll(p3, time, t)
  <2>1. /\ Shape(q) /\ q.start = p3.start /\ q.once = p3.once
        /\ q.LastPingTime = p3.LastPingTime
        /\ q.lastReceiveTime \in {p3.lastReceiveTime, Time(p3, t)}
    <3> HIDE DEF p3, t, time
    <3> QED
      BY <1>3, <1>4, ReceiveAllLike
  <2>2. p.state # "None" /\ Becomes(f, q, why)
    BY <1>10
  <2> HIDE DEF q, why, p, p3, t, time
  <2> QED
    BY <1>7, <1>8, <2>1, <2>2
<1>11. CASE p.state = "Disconnected" /\ UNCHANGED <<now, peer, answered, refused, drop>>
  <2>1. Shape(p) /\ p.once
    BY <1>0, <1>11 DEF Shape
  <2>2. peer' = [peer EXCEPT ![f] = p] /\ now' \in Nat /\ now <= now'
    BY <1>0, <1>11 DEF Inv, Shapes
  <2>3. TimeoutMeansStall'
    BY <1>11 DEF Inv, TimeoutMeansStall
  <2> QED
    BY <1>0, <1>8, <2>1, <2>2, <2>3, OnePeerStep
<1> QED
  BY <1>9, <1>10, <1>11 DEF TickIncoming

LEMMA TickOutgoingInv ==
  ASSUME Inv, NEW f \in Peers, TickOutgoing(f)
  PROVE  Inv'
<1> DEFINE p  == peer[f]
           p1 == HandleDeadLink(p)
           t  == now + Slept(p, p1)
           q  == Flush(p1, t)
           r  == [q EXCEPT !.flushInterval = NearestRto(q.snd_buf, t)]
<1>0. Shape(p) /\ now \in Nat
  BY DEF Inv, Shapes
<1>1. /\ Shape(p1) /\ p1.start = p.start /\ (~p1.once => p1 = p)
      /\ p.state # "None" => p1.state # "None"
  <2> HIDE DEF p
  <2> QED
    BY <1>0, HandleDeadLinkLike
<1>2. Like(p1, q) /\ q.state = p1.state
  <2> HIDE DEF p1, t
  <2> QED
    BY <1>1, FlushLike
<1>3. Like(p1, r)
  <2> HIDE DEF p1, t, q
  <2> QED
    BY <1>2 DEF Like, Shape
<1>4. Like(p1, p1)
  BY <1>1 DEF Like
<1>5. CASE UNCHANGED <<now, peer, drop>>
  BY <1>0, <1>5, PassiveStep DEF TickOutgoing
<1>6. ASSUME NEW z, z = r \/ z = p1, Becomes(f, z, "dead_link")
      PROVE  Inv'
  <2>1. Like(p1, z) /\ z.state = p1.state
    <3>1. r.state = q.state
      <4> HIDE DEF p1, t, q
      <4> QED
        BY <1>2 DEF Like, Shape
    <3> HIDE DEF r, q
    <3> QED
      BY <1>2, <1>3, <1>4, <1>6, <3>1
  <2>2. Shape(z) /\ (~z.once => Like(p, z) /\ z.state = p.state)
    <3> HIDE DEF p1, p
    <3> QED
      BY <1>1, <2>1 DEF Like
  <2>3. UNCHANGED lastTick
    BY DEF TickOutgoing
  <2> QED
    BY <1>6, <2>2, <2>3, BecomesInv
<1>7. \/ UNCHANGED <<now, peer, drop>>
      \/ \E z : (z = r \/ z = p1) /\ Becomes(f, z, "dead_link")
  BY Zenon DEF TickOutgoing
<1> QED
  BY <1>5, <1>6, <1>7

\* EndIncoming: a server forgets the peers that are disconnected.
LEMMA EndIncomingInv ==
  ASSUME Inv, EndIncoming
  PROVE  Inv'
<1>1. /\ peer' = [f \in Peers |-> IF peer[f].state = "Disconnected" /\ role = "server"
                                  THEN NoPeer ELSE peer[f]]
      /\ now' = now /\ lastTick' = lastTick /\ drop' = NoDrop
  BY DEF EndIncoming
<1>2. \A f \in Peers : peer'[f] = peer[f] \/ peer'[f] = NoPeer
  BY <1>1
<1>3. Shapes'
  <2>1. peer' = [f \in Peers |-> peer'[f]]
    BY <1>1
  <2>2. \A f \in Peers : Shape(peer'[f])
    BY <1>2, NoPeerShape DEF Inv, Shapes
  <2> QED
    BY <1>1, <2>1, <2>2 DEF Inv, Shapes, Shape
<1>4. TimersInv'
  <2> SUFFICES ASSUME NEW g \in Peers, peer'[g].state # "None", ~peer'[g].once
               PROVE  Timers(peer'[g], lastTick'[g], now')
    BY DEF TimersInv, Timers
  <2>1. peer'[g] = peer[g]
    BY <1>2, NoPeerShape
  <2> QED
    BY <1>1, <2>1 DEF Inv, TimersInv
<1>5. TimeoutMeansStall'
  BY <1>1 DEF TimeoutMeansStall, NoDrop
<1> QED
  BY <1>3, <1>4, <1>5 DEF Inv

LEMMA NextInv ==
  Inv /\ NoWrap /\ [Next]_vars => Inv'
<1> SUFFICES ASSUME Inv, NoWrap, [Next]_vars
             PROVE  Inv'
  OBVIOUS
<1>0. now \in Nat
  BY DEF Inv, Shapes
<1>1. CASE Wait \/ BeginTick \/ EndReceive \/ EndTick
  <2>1. /\ UNCHANGED <<peer, lastTick>> /\ now' \in Nat /\ now <= now'
        /\ drop' = drop \/ drop' = NoDrop
    BY <1>0, <1>1 DEF Wait, BeginTick, EndReceive, EndTick
  <2> QED
    BY <2>1, PassiveStep
<1>2. ASSUME NEW f \in Peers, NEW m \in Messages, Arrive(f, m)
      PROVE  Inv'
  BY <1>0, <1>2, PassiveStep DEF Arrive
<1>3. CASE UNCHANGED vars
  BY <1>0, <1>3, PassiveStep DEF vars
<1> QED
  BY <1>1, <1>2, <1>3, EndIncomingInv, ConnectInv, SendInv, ReceiveInv,
     TickIncomingInv, TickOutgoingInv DEF Next

(***************************************************************************)
(* As long as the clocks have not wrapped around, a peer times out only if *)
(* its own end did not tick it for Timeout - PING_INTERVAL: the silence of *)
(* the far end never trips HandleTimeout, because SendPing resets          *)
(* lastReceiveTime.                                                        *)
(***************************************************************************)
THEOREM TimeoutIsStall == Spec /\ []NoWrap => []TimeoutMeansStall
<1>1. Inv => TimeoutMeansStall
  BY DEF Inv
<1> QED
  BY InitInv, NextInv, <1>1, PTL DEF Spec

----------------------------------------------------------------------------
(* Types *)

\* A peer of the right type, with no more segments than the window has.
Typed(p) == p \in PeerType /\ Len(p.snd_buf) <= SndWnd

LEMMA ConstantTypes ==
  /\ Timeout \in Nat \ {0} /\ PING_INTERVAL \in Nat \ {0} /\ Rto \in Nat \ {0}
  /\ Interval \in Nat \ {0} /\ MaxRetransmits \in Nat \ {0} /\ SndWnd \in Nat \ {0}
  /\ ClockSize \in Nat \ {0} /\ Linger \in Nat /\ Backoff \in Nat /\ MaxGap \in Nat
  /\ Horizon \in Nat /\ IKCP_WND_RCV \in Nat \ {0} /\ RmtWnd \in Nat
  BY HeartbeatAssumption

LEMMA ModType ==
  ASSUME NEW m \in Nat \ {0}, NEW a \in Int
  PROVE  a % m \in 0..m - 1
  BY SMT

LEMMA TimeType ==
  ASSUME NEW p \in PeerType, NEW t \in Nat
  PROVE  Time(p, t) \in Uint32
<1>1. t - p.start \in Int
  BY DEF PeerType
<1> QED
  BY <1>1, ConstantTypes, ModType DEF Time, Uint32

LEMMA ZeroType == 0 \in Uint32 /\ 0 \in 0..Interval
  BY ConstantTypes DEF Uint32

LEMMA NewType ==
  ASSUME NEW t \in Nat
  PROVE  Typed(NewKcpPeer(t)) /\ NewKcpPeer(t).snd_buf = <<>>
<1>1. <<>> \in Seq(Segment) /\ Len(<<>>) = 0
  OBVIOUS
<1>2. NewKcpPeer(t) \in PeerType
  BY <1>1, ZeroType, ConstantTypes DEF NewKcpPeer, PeerType
<1>3. NewKcpPeer(t).snd_buf = <<>>
  BY DEF NewKcpPeer
<1> QED
  BY <1>1, <1>2, <1>3, ConstantTypes DEF Typed

LEMMA NoPeerType == Typed(NoPeer)
<1>1. Typed(NewKcpPeer(0))
  BY NewType
<1> QED
  BY <1>1 DEF NoPeer, Typed, PeerType

LEMMA ResetType ==
  ASSUME NEW p \in PeerType, NEW t \in Nat
  PROVE  Typed(Reset(p, t))
<1>1. Typed(NewKcpPeer(t))
  BY NewType
<1> QED
  BY <1>1 DEF Reset, Typed, PeerType

LEMMA TransmitType ==
  ASSUME NEW s \in Segment, NEW t \in Nat
  PROVE  Transmit(s, t) \in Segment
  BY ConstantTypes DEF Transmit, Segment

\* flush transmits what is in flight or fits the windows.
InWindow(p, i) == p.snd_buf[i].xmit > 0 \/ (i <= SndWnd /\ i <= p.rmt_wnd)

LEMMA FlushType ==
  ASSUME NEW p \in PeerType, NEW t \in Nat
  PROVE  /\ Flush(p, t) \in PeerType
         /\ Len(Flush(p, t).snd_buf) = Len(p.snd_buf)
         /\ \A i \in 1..Len(p.snd_buf) :
              Flush(p, t).snd_buf[i] =
                IF InWindow(p, i) THEN Transmit(p.snd_buf[i], t) ELSE p.snd_buf[i]
<1> DEFINE sent(i) == IF InWindow(p, i) THEN Transmit(p.snd_buf[i], t) ELSE p.snd_buf[i]
           buf == [i \in DOMAIN p.snd_buf |-> sent(i)]
<1>1. p.snd_buf \in Seq(Segment) /\ Len(p.snd_buf) \in Nat
  BY DEF PeerType
<1>2. \A i \in 1..Len(p.snd_buf) : p.snd_buf[i] \in Segment
  BY <1>1, ElementOfSeq
<1>3. \A i \in 1..Len(p.snd_buf) : sent(i) \in Segment
  BY <1>2, TransmitType
<1>4. Flush(p, t) = [p EXCEPT !.snd_buf = buf,
                              !.dead = @ \/ \E i \in DOMAIN buf : buf[i].xmit >= MaxRetransmits]
  BY DEF Flush, InWindow
<1> HIDE DEF sent
<1>5. buf \in [1..Len(p.snd_buf) -> Segment]
  BY <1>1, <1>3
<1>6. buf \in Seq(Segment) /\ Len(buf) = Len(p.snd_buf)
  BY <1>1, <1>5
<1>7. \A i \in 1..Len(p.snd_buf) : buf[i] = sent(i)
  BY <1>1
<1> HIDE DEF buf
<1> DEFINE d == p.dead \/ \E i \in DOMAIN buf : buf[i].xmit >= MaxRetransmits
<1>8. d \in BOOLEAN
  OBVIOUS
<1>9. Flush(p, t) = [p EXCEPT !.snd_buf = buf, !.dead = d]
  BY <1>4
<1> HIDE DEF d
<1>10. Flush(p, t) \in PeerType /\ Flush(p, t).snd_buf = buf
  BY <1>6, <1>8, <1>9 DEF PeerType
<1> QED
  BY <1>6, <1>7, <1>10 DEF sent

\* A segment that was not transmitted yet.
Unsent == [xmit |-> 0, rto |-> 0, resendts |-> 0]

LEMMA AppendType ==
  ASSUME NEW p \in PeerType
  PROVE  LET q == [p EXCEPT !.snd_buf = Append(@, Unsent)] IN
         /\ q \in PeerType /\ q.snd_buf = Append(p.snd_buf, Unsent)
         /\ Len(q.snd_buf) = Len(p.snd_buf) + 1 /\ Len(p.snd_buf) \in Nat
<1>1. p.snd_buf \in Seq(Segment) /\ Unsent \in Segment
  BY DEF PeerType, Segment, Unsent
<1>2. /\ Append(p.snd_buf, Unsent) \in Seq(Segment)
      /\ Len(Append(p.snd_buf, Unsent)) = Len(p.snd_buf) + 1
      /\ Len(p.snd_buf) \in Nat
  BY <1>1, AppendProperties
<1> QED
  BY <1>2 DEF PeerType

LEMMA SendReliableType ==
  ASSUME NEW p, Typed(p), NEW t \in Nat
  PROVE  Typed(SendReliable(p, t))
<1> DEFINE q == [p EXCEPT !.snd_buf = Append(@, Unsent)]
<1>1. /\ q \in PeerType /\ Len(q.snd_buf) = Len(p.snd_buf) + 1 /\ Len(p.snd_buf) \in Nat
  BY AppendType DEF Typed
<1>2. SendReliable(p, t) = IF ~Room(p) THEN p ELSE IF ~Room(q) THEN Flush(q, t) ELSE q
  BY DEF SendReliable, Unsent
<1> HIDE DEF q
<1>3. Flush(q, t) \in PeerType /\ Len(Flush(q, t).snd_buf) = Len(q.snd_buf)
  BY <1>1, FlushType
<1>4. CASE ~Room(p)
  BY <1>2, <1>4
<1>5. CASE Room(p)
  <2>1. Len(q.snd_buf) <= SndWnd
    BY <1>1, <1>5, ConstantTypes DEF Room
  <2> QED
    BY <1>1, <1>2, <1>3, <1>5, <2>1 DEF Typed
<1> QED
  BY <1>4, <1>5

LEMMA SendTimedType ==
  ASSUME NEW p, Typed(p), NEW t \in Nat
  PROVE  Typed(SendTimed(p, t))
<1> DEFINE q == [p EXCEPT !.lastReceiveTime = Time(p, t)]
<1>1. Typed(q)
  BY TimeType DEF Typed, PeerType
<1>2. SendTimed(p, t) = SendReliable(q, t)
  BY DEF SendTimed
<1> HIDE DEF q
<1> QED
  BY <1>1, <1>2, SendReliableType

LEMMA DisconnectType ==
  ASSUME NEW p, Typed(p)
  PROVE  Typed(Disconnect(p))
  BY DEF Disconnect, Typed, PeerType

LEMMA HandleType ==
  ASSUME NEW p, Typed(p), NEW time
  PROVE  Typed(HandleTimeout(p, time)) /\ Typed(HandleDeadLink(p))
  BY DisconnectType DEF HandleTimeout, HandleDeadLink

LEMMA HandlePingType ==
  ASSUME NEW p, Typed(p), NEW time \in Uint32, NEW t \in Nat
  PROVE  Typed(HandlePing(p, time, t))
<1> DEFINE q == SendTimed(p, t)
<1>1. Typed(q)
  BY SendTimedType
<1> HIDE DEF q
<1>2. Typed([q EXCEPT !.LastPingTime = time])
  BY <1>1 DEF Typed, PeerType
<1>3. HandlePing(p, time, t) \in {p, [q EXCEPT !.LastPingTime = time]}
  BY DEF HandlePing, q
<1> QED
  BY <1>2, <1>3

LEMMA ReceiveHelloType ==
  ASSUME NEW p, Typed(p), NEW t \in Nat
  PROVE  Typed(ReceiveHello(p, t))
<1>1. Time(p, t) \in Uint32
  BY TimeType DEF Typed
<1>2. p.inbox \ {"Hello"} \in SUBSET Messages
  BY DEF Typed, PeerType
<1> QED
  BY <1>1, <1>2 DEF ReceiveHello, Typed, PeerType

LEMMA ReceiveAllType ==
  ASSUME NEW p, Typed(p), NEW time \in Uint32, NEW t \in Nat
  PROVE  Typed(ReceiveAll(p, time, t))
<1> DEFINE q == IF p.inbox = {} THEN p
                ELSE [p EXCEPT !.inbox = {}, !.lastReceiveTime = Time(p, t)]
           r == SendTimed(q, t)
           s == [r EXCEPT !.LastPongTime = time]
<1>1. Typed(q)
  BY TimeType DEF Typed, PeerType
<1> HIDE DEF q
<1>2. Typed(r)
  BY <1>1, SendTimedType
<1> HIDE DEF r
<1>3. Typed(s)
  BY <1>2 DEF Typed, PeerType
<1> HIDE DEF s
<1>4. ReceiveAll(p, time, t) \in {q, s}
  BY DEF ReceiveAll, q, r, s
<1> QED
  BY <1>1, <1>3, <1>4

LEMMA InputType ==
  ASSUME NEW p, Typed(p), NEW m \in Messages, NEW k \in 0..Len(p.snd_buf),
         NEW w \in 0..RmtWnd, NEW t \in Nat
  PROVE  Typed(Input(p, m, k, w, t))
<1> DEFINE inb == IF m = "Ack" THEN p.inbox ELSE p.inbox \cup {m}
           buf == SubSeq(p.snd_buf, k + 1, Len(p.snd_buf))
           q   == [p EXCEPT !.inbox = inb, !.rmt_wnd = w, !.snd_buf = buf]
<1>1. /\ p.snd_buf \in Seq(Segment) /\ Len(p.snd_buf) \in Nat /\ inb \in SUBSET Messages
      /\ w \in Nat
  BY ConstantTypes DEF Typed, PeerType
<1>2. buf \in Seq(Segment) /\ Len(buf) = Len(p.snd_buf) - k
  <2>1. k + 1 \in 1..Len(p.snd_buf) + 1 /\ k \in Nat
    BY <1>1
  <2> QED
    BY <1>1, <2>1
<1>3. Input(p, m, k, w, t) \in {q, Flush(q, t)}
  BY DEF Input
<1> HIDE DEF inb, buf
<1>4. Typed(q)
  <2>1. q \in PeerType /\ q.snd_buf = buf
    BY <1>1, <1>2 DEF Typed, PeerType
  <2>2. Len(buf) <= SndWnd
    BY <1>1, <1>2, ConstantTypes DEF Typed
  <2> QED
    BY <2>1, <2>2 DEF Typed
<1> HIDE DEF q
<1>5. Typed(Flush(q, t))
  BY <1>4, FlushType DEF Typed
<1> QED
  BY <1>3, <1>4, <1>5

\* A set of naturals that is not empty has a least element.
LEMMA LeastExists ==
  ASSUME NEW S, S \subseteq Nat, S # {}
  PROVE  \E n \in S : \A m \in S : n <= m
<1>1. PICK n \in S : \A m \in S : ~(<<m, n>> \in OpToRel(<, Nat))
  BY NatLessThanWellFounded, WFMin
<1>2. \A m \in S : ~(m < n)
  BY <1>1 DEF OpToRel
<1> QED
  BY <1>2

LEMMA NearestRtoType ==
  ASSUME NEW buf, NEW t
  PROVE  NearestRto(buf, t) \in 1..Interval
<1> DEFINE due == {Interval} \cup
             {n \in 1..Interval : \E i \in DOMAIN buf : buf[i].resendts = t + n}
<1>1. due \subseteq 1..Interval /\ due \subseteq Nat /\ due # {}
  BY ConstantTypes
<1>2. \E n \in due : \A m \in due : n <= m
  BY <1>1, LeastExists
<1>3. NearestRto(buf, t) \in due
  BY <1>2 DEF NearestRto
<1> QED
  BY <1>1, <1>3

\* The peer of f becomes q: what the types need of the step.
LEMMA BecomesType ==
  ASSUME TypeOK, NEW f \in Peers, NEW q, Typed(q),
         NEW why \in {"none", "timeout", "dead_link", "bye"}, Becomes(f, q, why)
  PROVE  /\ peer' \in [Peers -> PeerType]
         /\ \A g \in Peers : Len(peer'[g].snd_buf) <= SndWnd
         /\ now' \in Nat /\ drop' \in Drop
<1>1. peer' = [peer EXCEPT ![f] = q]
  BY DEF Becomes
<1>2. /\ peer' \in [Peers -> PeerType]
      /\ \A g \in Peers : Len(peer'[g].snd_buf) <= SndWnd
  BY <1>1 DEF TypeOK, Typed
<1>3. now' \in Nat
  BY SleptNat DEF Becomes, TypeOK
<1>4. drop' \in Drop
  <2>1. Overdue(peer[f]) \in BOOLEAN
    BY DEF Overdue
  <2>2. now - heard[f] \in Int /\ now - lastTick[f] \in Int
    BY DEF TypeOK
  <2> QED
    BY <2>1, <2>2 DEF Becomes, TypeOK, Drop
<1> QED
  BY <1>2, <1>3, <1>4

LEMMA BeginType ==
  ASSUME TypeOK, NEW f \in Peers, NEW q, Typed(q), Begin(f, q)
  PROVE  /\ peer' \in [Peers -> PeerType]
         /\ \A g \in Peers : Len(peer'[g].snd_buf) <= SndWnd
         /\ heard' \in [Peers -> Nat] /\ lastTick' \in [Peers -> Nat]
         /\ answered' \in [Peers -> Nat] /\ refused' \in [Peers -> Nat]
  BY DEF Begin, TypeOK, Typed

LEMMA PeerTyped ==
  ASSUME TypeOK, NEW f \in Peers
  PROVE  Typed(peer[f]) /\ now \in Nat
  BY DEF TypeOK, Typed

LEMMA NoDropType == NoDrop \in Drop
  BY DEF NoDrop, Drop

LEMMA ConnectType ==
  ASSUME TypeOK, NEW f \in Peers, Connect(f)
  PROVE  TypeOK'
<1>1. PICK p : p = IF peer[f].state = "None" THEN NewKcpPeer(now) ELSE Reset(peer[f], now)
  OBVIOUS
<1>2. Typed(p)
  BY <1>1, PeerTyped, NewType, ResetType DEF Typed
<1>3. PICK q : q = SendReliable(p, now)
  OBVIOUS
<1>4. Typed(q)
  BY <1>2, <1>3, PeerTyped, SendReliableType
<1>5. /\ Begin(f, q) /\ sock' = [sock EXCEPT ![f] = {}]
      /\ UNCHANGED <<role, now, phase, todo, gap, drop>>
  BY <1>1, <1>3 DEF Connect
<1>6. sock' \in [Peers -> SUBSET Messages]
  BY <1>5 DEF TypeOK
<1> QED
  BY <1>4, <1>5, <1>6, BeginType DEF TypeOK

LEMMA SendType ==
  ASSUME TypeOK, NEW f \in Peers, Send(f)
  PROVE  TypeOK'
<1>1. PICK q : q = SendTimed(peer[f], now)
  OBVIOUS
<1>2. Typed(q)
  BY <1>1, PeerTyped, SendTimedType
<1>3. /\ peer' = [peer EXCEPT ![f] = q]
      /\ UNCHANGED <<role, now, sock, phase, todo, gap, heard, lastTick, answered, refused, drop>>
  BY <1>1 DEF Send
<1>4. /\ peer' \in [Peers -> PeerType]
      /\ \A g \in Peers : Len(peer'[g].snd_buf) <= SndWnd
  BY <1>2, <1>3 DEF TypeOK, Typed
<1> QED
  BY <1>3, <1>4 DEF TypeOK

LEMMA ReceiveType ==
  ASSUME TypeOK, NEW f \in Peers, Receive(f)
  PROVE  TypeOK'
<1>1. PICK m \in sock[f] : Receive(f)!(m)
  BY DEF Receive
<1>2. m \in Messages
  BY DEF TypeOK
<1>3. /\ sock' = [sock EXCEPT ![f] = @ \ {m}] /\ UNCHANGED <<role, phase, todo, gap>>
  BY <1>1
<1>4. sock' \in [Peers -> SUBSET Messages]
  BY <1>3 DEF TypeOK
<1>5. Typed(peer[f]) /\ now \in Nat
  BY PeerTyped
<1>6. CASE /\ \E w \in 0..RmtWnd :
                Begin(f, [SendReliable([NewKcpPeer(now) EXCEPT !.rmt_wnd = w], now)
                            EXCEPT !.state = "Authenticated"])
           /\ UNCHANGED <<now, drop>>
  <2> PICK w \in 0..RmtWnd :
             Begin(f, [SendReliable([NewKcpPeer(now) EXCEPT !.rmt_wnd = w], now)
                         EXCEPT !.state = "Authenticated"])
    BY <1>6
  <2>1. PICK n, r : /\ n = [NewKcpPeer(now) EXCEPT !.rmt_wnd = w]
                    /\ r = SendReliable(n, now)
    OBVIOUS
  <2>2. Typed(r)
    <3>1. PICK z : z = NewKcpPeer(now)
      OBVIOUS
    <3>2. Typed(z)
      BY <1>5, <3>1, NewType
    <3>3. w \in Nat
      BY ConstantTypes
    <3>4. n = [z EXCEPT !.rmt_wnd = w]
      BY <2>1, <3>1
    <3>5. Typed(n)
      BY <3>2, <3>3, <3>4 DEF Typed, PeerType
    <3> QED  BY <1>5, <2>1, <3>5, SendReliableType
  <2>3. PICK q : q = [r EXCEPT !.state = "Authenticated"]
    OBVIOUS
  <2>4. Typed(q)
    BY <2>2, <2>3 DEF Typed, PeerType
  <2>5. Begin(f, q)
    BY <1>6, <2>1, <2>3
  <2> QED
    BY <1>3, <1>4, <1>6, <2>4, <2>5, BeginType DEF TypeOK
<1>7. CASE /\ Becomes(f, Disconnect(peer[f]), "bye")
           /\ UNCHANGED <<heard, lastTick, answered, refused>>
  <2>1. PICK q : q = Disconnect(peer[f])
    OBVIOUS
  <2>2. Typed(q) /\ Becomes(f, q, "bye")
    BY <1>5, <1>7, <2>1, DisconnectType
  <2>3. /\ peer' \in [Peers -> PeerType]
        /\ \A g \in Peers : Len(peer'[g].snd_buf) <= SndWnd
        /\ now' \in Nat /\ drop' \in Drop
    BY <2>2, BecomesType
  <2> QED
    BY <1>3, <1>4, <1>7, <2>3 DEF TypeOK
<1>8. CASE /\ \E k \in (IF m = "Ack" THEN Sent(peer[f]) ELSE {0}), w \in 0..RmtWnd :
                Becomes(f, Input(peer[f], m, k, w, now), "none")
           /\ UNCHANGED <<heard, lastTick, answered, refused>>
  <2>1. PICK k \in (IF m = "Ack" THEN Sent(peer[f]) ELSE {0}), w \in 0..RmtWnd :
               Becomes(f, Input(peer[f], m, k, w, now), "none")
    BY <1>8
  <2>2. k \in 0..Len(peer[f].snd_buf)
    BY <1>5, <2>1 DEF Sent, Typed, PeerType
  <2>3. PICK q : q = Input(peer[f], m, k, w, now)
    OBVIOUS
  <2>4. Typed(q) /\ Becomes(f, q, "none")
    BY <1>2, <1>5, <2>1, <2>2, <2>3, InputType
  <2>5. /\ peer' \in [Peers -> PeerType]
        /\ \A g \in Peers : Len(peer'[g].snd_buf) <= SndWnd
        /\ now' \in Nat /\ drop' \in Drop
    BY <2>4, BecomesType
  <2> QED
    BY <1>3, <1>4, <1>8, <2>5 DEF TypeOK
<1>9. CASE UNCHANGED <<now, peer, heard, lastTick, answered, refused, drop>>
  BY <1>3, <1>4, <1>9 DEF TypeOK
<1> QED
  BY <1>1, <1>6, <1>7, <1>8, <1>9

LEMMA TickIncomingType ==
  ASSUME TypeOK, NEW f \in Peers, TickIncoming(f)
  PROVE  TypeOK'
<1>1. PICK p, time, p1, p2, t, p3 :
        /\ p = peer[f] /\ time = Time(p, now) /\ p1 = HandleTimeout(p, time)
        /\ p2 = HandleDeadLink(p1) /\ t = now + Slept(p, p2)
        /\ p3 = HandlePing(p2, time, t)
  OBVIOUS
<1>2. Typed(p) /\ now \in Nat
  BY <1>1, PeerTyped
<1>3. time \in Uint32
  BY <1>1, <1>2, TimeType DEF Typed
<1>4. Typed(p1) /\ Typed(p2)
  BY <1>1, <1>2, HandleType
<1>5. t \in Nat
  BY <1>1, <1>2, SleptNat
<1>6. Typed(p3)
  BY <1>1, <1>3, <1>4, <1>5, HandlePingType
<1>7. PICK why \in {"none", "timeout", "dead_link", "bye"} :
         why = IF p1 # p THEN "timeout" ELSE "dead_link"
  OBVIOUS
<1>8. /\ todo' = todo \ {f} /\ lastTick' = [lastTick EXCEPT ![f] = now]
      /\ UNCHANGED <<role, sock, phase, gap, heard>>
      /\ \/ /\ Becomes(f, ReceiveHello(p3, t), why) /\ UNCHANGED <<answered, refused>>
         \/ /\ Becomes(f, ReceiveAll(p3, time, t), why)
            /\ \E c \in BOOLEAN : answered' = [answered EXCEPT ![f] = IF c THEN now ELSE @]
            /\ \E c \in BOOLEAN : refused' = [refused EXCEPT ![f] = IF c THEN now ELSE @]
         \/ UNCHANGED <<now, peer, answered, refused, drop>>
  <2>1. CASE p.state = "Authenticated"
    <3>1. PICK p4 : p4 = ReceiveAll(p3, time, t)
      OBVIOUS
    <3>2. /\ todo' = todo \ {f} /\ lastTick' = [lastTick EXCEPT ![f] = now]
          /\ UNCHANGED <<role, sock, phase, gap, heard>> /\ Becomes(f, p4, why)
          /\ answered' = [answered EXCEPT ![f] =
               IF Len(p4.snd_buf) > Len(p3.snd_buf) THEN now ELSE @]
          /\ refused' = [refused EXCEPT ![f] =
               IF "Ping" \in p.inbox /\ Due(f) /\ ~Room(p3) THEN now ELSE @]
      BY <1>1, <1>7, <2>1, <3>1 DEF TickIncoming
    <3>3. \E c \in BOOLEAN : answered' = [answered EXCEPT ![f] = IF c THEN now ELSE @]
      <4>1. CASE Len(p4.snd_buf) > Len(p3.snd_buf)
        <5>1. answered' = [answered EXCEPT ![f] = IF TRUE THEN now ELSE @]
          BY <3>2, <4>1
        <5> QED  BY <5>1
      <4>2. CASE ~(Len(p4.snd_buf) > Len(p3.snd_buf))
        <5>1. answered' = [answered EXCEPT ![f] = IF FALSE THEN now ELSE @]
          BY <3>2, <4>2
        <5> QED  BY <5>1
      <4> QED  BY <4>1, <4>2
    <3>4. \E c \in BOOLEAN : refused' = [refused EXCEPT ![f] = IF c THEN now ELSE @]
      <4>1. CASE "Ping" \in p.inbox /\ Due(f) /\ ~Room(p3)
        <5>1. refused' = [refused EXCEPT ![f] = IF TRUE THEN now ELSE @]
          BY <3>2, <4>1
        <5> QED  BY <5>1
      <4>2. CASE ~("Ping" \in p.inbox /\ Due(f) /\ ~Room(p3))
        <5>1. refused' = [refused EXCEPT ![f] = IF FALSE THEN now ELSE @]
          BY <3>2, <4>2
        <5> QED  BY <5>1
      <4> QED  BY <4>1, <4>2
    <3> QED  BY <3>1, <3>2, <3>3, <3>4
  <2>2. CASE p.state # "Authenticated"
    BY <1>1, <1>7, <2>2 DEF TickIncoming
  <2> QED  BY <2>1, <2>2
<1>9. lastTick' \in [Peers -> Nat] /\ todo' \in SUBSET Peers
  BY <1>2, <1>8 DEF TypeOK
<1>10. ASSUME NEW q, Typed(q), Becomes(f, q, why),
              answered' \in [Peers -> Nat], refused' \in [Peers -> Nat]
       PROVE  TypeOK'
  <2>1. /\ peer' \in [Peers -> PeerType]
        /\ \A g \in Peers : Len(peer'[g].snd_buf) <= SndWnd
        /\ now' \in Nat /\ drop' \in Drop
    BY <1>10, BecomesType
  <2> QED
    BY <1>8, <1>9, <1>10, <2>1 DEF TypeOK
<1>11. CASE Becomes(f, ReceiveHello(p3, t), why) /\ UNCHANGED <<answered, refused>>
  <2>1. PICK q : q = ReceiveHello(p3, t)
    OBVIOUS
  <2>2. Typed(q) /\ Becomes(f, q, why)
    BY <1>5, <1>6, <1>11, <2>1, ReceiveHelloType
  <2>3. answered' \in [Peers -> Nat] /\ refused' \in [Peers -> Nat]
    BY <1>11 DEF TypeOK
  <2> QED
    BY <1>10, <2>2, <2>3
<1>12. CASE /\ Becomes(f, ReceiveAll(p3, time, t), why)
            /\ \E c \in BOOLEAN : answered' = [answered EXCEPT ![f] = IF c THEN now ELSE @]
            /\ \E c \in BOOLEAN : refused' = [refused EXCEPT ![f] = IF c THEN now ELSE @]
  <2>1. PICK q : q = ReceiveAll(p3, time, t)
    OBVIOUS
  <2>2. Typed(q) /\ Becomes(f, q, why)
    BY <1>3, <1>5, <1>6, <1>12, <2>1, ReceiveAllType
  <2>3. answered' \in [Peers -> Nat] /\ refused' \in [Peers -> Nat]
    BY <1>2, <1>12 DEF TypeOK
  <2> QED
    BY <1>10, <2>2, <2>3
<1>13. CASE UNCHANGED <<now, peer, answered, refused, drop>>
  BY <1>8, <1>9, <1>13 DEF TypeOK
<1> QED
  BY <1>8, <1>11, <1>12, <1>13

LEMMA TickOutgoingType ==
  ASSUME TypeOK, NEW f \in Peers, TickOutgoing(f)
  PROVE  TypeOK'
<1>1. PICK p, p1, t, q : /\ p = peer[f] /\ p1 = HandleDeadLink(p)
                         /\ t = now + Slept(p, p1) /\ q = Flush(p1, t)
  OBVIOUS
<1>2. Typed(p) /\ now \in Nat
  BY <1>1, PeerTyped
<1>3. Typed(p1) /\ t \in Nat
  BY <1>1, <1>2, HandleType, SleptNat
<1>4. Typed(q)
  BY <1>1, <1>3, FlushType DEF Typed
<1>5. PICK r : r = [q EXCEPT !.flushInterval = NearestRto(q.snd_buf, t)]
  OBVIOUS
<1>6. Typed(r)
  <2>1. NearestRto(q.snd_buf, t) \in 0..Interval
    BY NearestRtoType, ConstantTypes
  <2> QED
    BY <1>4, <1>5, <2>1 DEF Typed, PeerType
<1>7. /\ todo' = todo \ {f}
      /\ UNCHANGED <<role, sock, phase, gap, heard, lastTick, answered, refused>>
      /\ \/ UNCHANGED <<now, peer, drop>>
         \/ \E z \in {r, p1} : Becomes(f, z, "dead_link")
  BY <1>1, <1>5, Zenon DEF TickOutgoing
<1>8. CASE UNCHANGED <<now, peer, drop>>
  BY <1>7, <1>8 DEF TypeOK
<1>9. CASE \E z \in {r, p1} : Becomes(f, z, "dead_link")
  <2>1. PICK z \in {r, p1} : Becomes(f, z, "dead_link")
    BY <1>9
  <2>2. Typed(z)
    BY <1>3, <1>6
  <2>3. /\ peer' \in [Peers -> PeerType]
        /\ \A g \in Peers : Len(peer'[g].snd_buf) <= SndWnd
        /\ now' \in Nat /\ drop' \in Drop
    BY <2>1, <2>2, BecomesType
  <2> QED
    BY <1>7, <2>3 DEF TypeOK
<1> QED
  BY <1>7, <1>8, <1>9

LEMMA EndIncomingType ==
  ASSUME TypeOK, EndIncoming
  PROVE  TypeOK'
<1>1. /\ peer' = [f \in Peers |-> IF peer[f].state = "Disconnected" /\ role = "server"
                                  THEN NoPeer ELSE peer[f]]
      /\ UNCHANGED <<role, now, sock, gap, heard, lastTick, answered, refused>>
      /\ drop' = NoDrop /\ phase' = "flush" /\ todo' \in SUBSET Peers
  BY DEF EndIncoming
<1>2. \A f \in Peers : Typed(peer'[f])
  BY <1>1, PeerTyped, NoPeerType
<1>3. /\ peer' \in [Peers -> PeerType]
      /\ \A g \in Peers : Len(peer'[g].snd_buf) <= SndWnd
  BY <1>1, <1>2 DEF Typed
<1> QED
  BY <1>1, <1>3, NoDropType DEF TypeOK

LEMMA InitType == Init => TypeOK
<1> SUFFICES ASSUME Init PROVE TypeOK
  OBVIOUS
<1>1. NoPeer \in PeerType /\ Len(NoPeer.snd_buf) <= SndWnd
  BY NoPeerType DEF Typed
<1> QED
  BY <1>1, NoDropType DEF Init, TypeOK

LEMMA NextType == TypeOK /\ [Next]_vars => TypeOK'
<1> SUFFICES ASSUME TypeOK, [Next]_vars PROVE TypeOK'
  OBVIOUS
<1>1. CASE Wait
  BY <1>1 DEF Wait, TypeOK
<1>2. CASE BeginTick
  BY <1>2 DEF BeginTick, TypeOK
<1>3. CASE EndReceive
  BY <1>3, NoDropType DEF EndReceive, Active, TypeOK
<1>4. CASE EndTick
  BY <1>4, NoDropType DEF EndTick, TypeOK
<1>5. ASSUME NEW f \in Peers, NEW m \in Messages, Arrive(f, m)
      PROVE  TypeOK'
  BY <1>5 DEF Arrive, TypeOK
<1>6. CASE UNCHANGED vars
  BY <1>6 DEF vars, TypeOK
<1> QED
  BY <1>1, <1>2, <1>3, <1>4, <1>5, <1>6, EndIncomingType, ConnectType, SendType,
     ReceiveType, TickIncomingType, TickOutgoingType DEF Next

(***************************************************************************)
(* The clocks and timers of the peers stay in range, whatever arrives and  *)
(* however late the ticks are, and SendReliable's flow control keeps every *)
(* snd_buf within the send window.                                         *)
(***************************************************************************)
THEOREM PeersTypeCorrect == Spec => []TypeOK
  BY InitType, NextType, PTL DEF Spec

----------------------------------------------------------------------------
(* How long a far end may be silent *)

\* A segment's rto when it has been transmitted x times.
RtoAfter(x) == Rto + (x - 1) * Backoff

\* After the far end was heard last, the oldest segment is transmitted for
\* the k-th time no later than this.
Latest(k) ==
  PING_INTERVAL + MaxGap + (k - 1) * (Rto + MaxGap)
  + Backoff * (((k - 1) * (k - 2)) \div 2)

LEMMA HalfExact ==
  ASSUME NEW k \in Nat
  PROVE  /\ ((k * (k - 1)) \div 2) \in Nat
         /\ 2 * ((k * (k - 1)) \div 2) = k * (k - 1)
<1>1. CASE k % 2 = 0
  <2>1. PICK q \in Nat : k = 2 * q
    BY <1>1, SMT
  <2>2. k * (k - 1) = 2 * (q * (k - 1)) /\ q * (k - 1) \in Int /\ q * (k - 1) >= 0
    <3>1. CASE q = 0
      BY <2>1, <3>1, SMT
    <3>2. CASE q >= 1
      <4>1. k - 1 \in Nat
        BY <2>1, <3>2
      <4>2. q * (k - 1) \in Nat
        BY <4>1, SMT
      <4> QED
        BY <2>1, <4>2, SMT
    <3> QED
      BY <3>1, <3>2
  <2>3. PICK z \in Nat : z = q * (k - 1)
    BY <2>2
  <2>4. (2 * z) \div 2 = z
    BY SMT
  <2> QED
    BY <2>2, <2>3, <2>4
<1>2. CASE k % 2 = 1
  <2>1. PICK q \in Nat : k = 2 * q + 1
    BY <1>2, SMT
  <2>2. k * (k - 1) = 2 * (k * q) /\ k * q \in Nat
    BY <2>1, SMT
  <2>3. PICK z \in Nat : z = k * q
    BY <2>2
  <2>4. (2 * z) \div 2 = z
    BY SMT
  <2> QED
    BY <2>2, <2>3, <2>4
<1>3. k % 2 \in 0..1
  BY SMT
<1> QED
  BY <1>1, <1>2, <1>3

LEMMA RtoAfterStep ==
  ASSUME NEW x \in Nat, x >= 1
  PROVE  /\ RtoAfter(x) \in Nat /\ RtoAfter(1) = Rto
         /\ RtoAfter(x) >= Rto /\ RtoAfter(x + 1) = RtoAfter(x) + Backoff
<1>1. Rto \in Nat /\ Backoff \in Nat
  BY ConstantTypes
<1>2. PICK y \in Nat : y = x - 1
  OBVIOUS
<1>3. y * Backoff \in Nat /\ (y + 1) * Backoff = y * Backoff + Backoff /\ 0 * Backoff = 0
  BY <1>1, SMT
<1>4. RtoAfter(x) = Rto + y * Backoff /\ RtoAfter(x + 1) = Rto + (y + 1) * Backoff
  BY <1>2 DEF RtoAfter
<1>5. RtoAfter(1) = Rto + 0 * Backoff
  BY DEF RtoAfter
<1> QED
  BY <1>1, <1>3, <1>4, <1>5

LEMMA LatestStep ==
  ASSUME NEW k \in Nat, k >= 1
  PROVE  /\ Latest(1) = PING_INTERVAL + MaxGap
         /\ Latest(k) \in Nat /\ Latest(k) >= Latest(1)
         /\ Latest(k + 1) = Latest(k) + MaxGap + RtoAfter(k)
<1>1. Rto \in Nat /\ Backoff \in Nat /\ MaxGap \in Nat /\ PING_INTERVAL \in Nat
  BY ConstantTypes
<1>2. PICK j \in Nat : j = k - 1
  OBVIOUS
<1> DEFINE a == (j * (j - 1)) \div 2
           b == ((j + 1) * j) \div 2
<1>3. a \in Nat /\ 2 * a = j * (j - 1)
  BY HalfExact
<1>4. b \in Nat /\ 2 * b = (j + 1) * j
  <2>1. PICK i \in Nat : i = j + 1
    OBVIOUS
  <2>2. ((i * (i - 1)) \div 2) \in Nat /\ 2 * ((i * (i - 1)) \div 2) = i * (i - 1)
    BY HalfExact
  <2>3. i - 1 = j
    BY <2>1
  <2> QED
    BY <2>1, <2>2, <2>3
<1>5. k - 1 = j /\ k - 2 = j - 1 /\ (k + 1) - 1 = j + 1 /\ (k + 1) - 2 = j
  BY <1>2
<1>6. /\ Latest(k) = PING_INTERVAL + MaxGap + j * (Rto + MaxGap) + Backoff * a
      /\ Latest(k + 1) = PING_INTERVAL + MaxGap + (j + 1) * (Rto + MaxGap) + Backoff * b
      /\ RtoAfter(k) = Rto + j * Backoff
  BY <1>5 DEF Latest, RtoAfter
<1> HIDE DEF a, b
<1>7. b = a + j
  BY <1>3, <1>4, SMT
<1>8. Backoff * b = Backoff * a + j * Backoff /\ Backoff * a \in Nat /\ j * Backoff \in Nat
  BY <1>1, <1>3, <1>7, SMT
<1>9. /\ (j + 1) * (Rto + MaxGap) = j * (Rto + MaxGap) + Rto + MaxGap
      /\ j * (Rto + MaxGap) \in Nat
  BY <1>1, SMT
<1>10. Latest(1) = PING_INTERVAL + MaxGap
  <2>1. Latest(1) = PING_INTERVAL + MaxGap + 0 * (Rto + MaxGap) + Backoff * ((0 * (0 - 1)) \div 2)
    BY DEF Latest
  <2>2. 0 * (Rto + MaxGap) = 0 /\ 0 * (0 - 1) = 0 /\ 0 \div 2 = 0 /\ Backoff * 0 = 0
    BY <1>1, SMT
  <2> QED
    BY <1>1, <2>1, <2>2
<1> QED
  BY <1>1, <1>6, <1>8, <1>9, <1>10

LEMMA LatestGrows ==
  ASSUME NEW j \in Nat, NEW k \in Nat, 1 <= j, j <= k
  PROVE  Latest(j) <= Latest(k)
<1>1. Rto \in Nat /\ Backoff \in Nat /\ MaxGap \in Nat /\ PING_INTERVAL \in Nat
  BY ConstantTypes
<1>2. PICK m \in Nat, n \in Nat : m = j - 1 /\ n = k - 1 /\ m <= n
  OBVIOUS
<1> DEFINE a == (m * (m - 1)) \div 2
           b == (n * (n - 1)) \div 2
<1>3. a \in Nat /\ 2 * a = m * (m - 1) /\ b \in Nat /\ 2 * b = n * (n - 1)
  BY HalfExact
<1>4. j - 1 = m /\ j - 2 = m - 1 /\ k - 1 = n /\ k - 2 = n - 1
  BY <1>2
<1>5. /\ Latest(j) = PING_INTERVAL + MaxGap + m * (Rto + MaxGap) + Backoff * a
      /\ Latest(k) = PING_INTERVAL + MaxGap + n * (Rto + MaxGap) + Backoff * b
  BY <1>4 DEF Latest
<1> HIDE DEF a, b
<1>6. m * (m - 1) <= n * (n - 1)
  <2>1. PICK d \in Nat : n = m + d
    BY <1>2
  <2>2. n * (n - 1) = m * (m - 1) + d * (2 * m + d - 1)
    BY <2>1, SMT
  <2>3. d * (2 * m + d - 1) >= 0
    <3>1. CASE d = 0
      BY <3>1, SMT
    <3>2. CASE d >= 1
      <4>1. 2 * m + d - 1 \in Nat
        BY <3>2
      <4> QED
        BY <4>1, SMT
    <3> QED
      BY <3>1, <3>2
  <2> QED
    BY <2>2, <2>3, SMT
<1>7. a <= b
  BY <1>3, <1>6
<1>8. Backoff * a <= Backoff * b /\ Backoff * a \in Nat /\ Backoff * b \in Nat
  BY <1>1, <1>3, <1>7, SMT
<1>9. /\ m * (Rto + MaxGap) <= n * (Rto + MaxGap)
      /\ m * (Rto + MaxGap) \in Nat /\ n * (Rto + MaxGap) \in Nat
  BY <1>1, <1>2, SMT
<1> QED
  BY <1>1, <1>5, <1>8, <1>9

LEMMA DetectionIs ==
  /\ DetectionTime = Latest(MaxRetransmits) + MaxGap
  /\ Latest(MaxRetransmits) \in Nat /\ Latest(1) \in Nat /\ Latest(1) <= Latest(MaxRetransmits)
  /\ Latest(1) = PING_INTERVAL + MaxGap
<1>1. /\ Rto \in Nat /\ Backoff \in Nat /\ MaxGap \in Nat /\ PING_INTERVAL \in Nat
      /\ MaxRetransmits \in Nat /\ MaxRetransmits >= 1
  BY ConstantTypes
<1>2. Latest(MaxRetransmits) \in Nat /\ Latest(MaxRetransmits) >= Latest(1)
      /\ Latest(1) = PING_INTERVAL + MaxGap
  BY <1>1, LatestStep
<1> DEFINE c == (MaxRetransmits - 1) * (Rto + MaxGap)
           d == Backoff * (((MaxRetransmits - 1) * (MaxRetransmits - 2)) \div 2)
<1>3. Latest(MaxRetransmits) = PING_INTERVAL + MaxGap + c + d
  BY DEF Latest
<1>4. DetectionTime = PING_INTERVAL + 2 * MaxGap + c + d
  BY DEF DetectionTime
<1>5. c \in Int /\ d \in Int
  BY <1>1, SMT
<1> HIDE DEF c, d
<1> QED
  BY <1>1, <1>2, <1>3, <1>4, <1>5

\* The segments' timers at time t, and the verdict on them.
SegmentsInv(p, t) ==
  \A i \in 1..Len(p.snd_buf) :
    /\ p.snd_buf[i].xmit >= 1 => /\ p.snd_buf[i].rto = RtoAfter(p.snd_buf[i].xmit)
                                 /\ p.snd_buf[i].resendts <= t + p.snd_buf[i].rto
    /\ p.snd_buf[i].xmit >= MaxRetransmits => p.dead

\* The segment is due in time, when the far end was heard last at h.
InTime(s, h) == s.xmit >= 1 => s.resendts + MaxGap <= h + Latest(s.xmit + 1)

\* The oldest segment is, and so are all while an acknowledgement may wait in
\* the socket, for any of them may become the oldest.
Schedule(p, h, in) ==
  ~p.dead => \A i \in 1..Len(p.snd_buf) : (i = 1 \/ in # {}) => InTime(p.snd_buf[i], h)

\* What a tick at time t left behind: the ping or the resend that the next
\* tick must not miss by more than MaxGap is still ahead.
Rested(p, h, t) == ~Shut(p) =>
  IF p.dead THEN t <= h + Latest(MaxRetransmits)
  ELSE \/ t < h + PING_INTERVAL
       \/ p.snd_buf # <<>> /\ p.snd_buf[1].xmit >= 1 /\ t < p.snd_buf[1].resendts

\* What a tick at time t finds, once a ping that was due is sent.
Visited(p, h, t) == ~Shut(p) =>
  IF p.dead THEN t <= h + Latest(MaxRetransmits)
  ELSE \/ t < h + PING_INTERVAL
       \/ /\ p.snd_buf # <<>>
          /\ t <= h + Latest(p.snd_buf[1].xmit + 1)
          /\ p.snd_buf[1].xmit = 0 => t <= h + Latest(1)

\* All that is known of a peer that may still be dropped: heard last at h, in
\* the socket in, at time t, g after the last tick; td: not yet visited.
SilenceOf(p, h, in, t, g, ph, td) ==
  /\ p.start <= h /\ h <= t
  /\ SegmentsInv(p, t) /\ Schedule(p, h, in)
  /\ (in # {} \/ (p.snd_buf = <<>> /\ p.rmt_wnd > 0)) => p.start + p.LastPingTime <= h
  /\ in # {} => ph \in {"idle", "receive"} /\ t - g <= h
  /\ (ph \in {"idle", "receive"} \/ (ph = "tick" /\ td)) => Rested(p, h, t - g)
  /\ ((ph = "tick" /\ ~td) \/ (ph = "flush" /\ td)) => Visited(p, h, t)
  /\ (ph = "flush" /\ ~td) => Rested(p, h, t)

Live(f) == peer[f].state # "None" /\ ~peer[f].once

SilenceInv ==
  /\ gap <= MaxGap
  /\ \A f \in Peers : Live(f) =>
       SilenceOf(peer[f], heard[f], sock[f], now, gap, phase, f \in todo)

----------------------------------------------------------------------------
(* Flushing and sending *)

LEMMA TransmitCases ==
  ASSUME NEW s \in Segment, NEW t \in Nat, NEW r, r = Transmit(s, t)
  PROVE  \/ s.xmit = 0 /\ r.xmit = 1 /\ r.rto = Rto /\ r.resendts = t + Rto
         \/ /\ s.xmit >= 1 /\ t >= s.resendts /\ r.xmit = s.xmit + 1
            /\ r.rto = s.rto + Backoff /\ r.resendts = t + s.rto + Backoff
         \/ s.xmit >= 1 /\ t < s.resendts /\ r = s
<1>1. s.xmit \in Nat /\ s.resendts \in Nat
  BY DEF Segment
<1>2. CASE s.xmit = 0
  BY <1>2 DEF Transmit
<1>3. CASE s.xmit # 0 /\ t >= s.resendts
  BY <1>1, <1>3 DEF Transmit
<1>4. CASE s.xmit # 0 /\ ~(t >= s.resendts)
  BY <1>1, <1>4 DEF Transmit
<1> QED
  BY <1>2, <1>3, <1>4

\* A segment of snd_buf.
LEMMA SegmentOf ==
  ASSUME NEW p \in PeerType
  PROVE  /\ p.snd_buf \in Seq(Segment) /\ Len(p.snd_buf) \in Nat
         /\ \A i \in 1..Len(p.snd_buf) :
              /\ p.snd_buf[i] \in Segment /\ p.snd_buf[i].xmit \in Nat
              /\ p.snd_buf[i].rto \in Nat /\ p.snd_buf[i].resendts \in Nat
         /\ p.snd_buf # <<>> => 1 \in 1..Len(p.snd_buf)
         /\ p.dead \in BOOLEAN
<1>1. p.snd_buf \in Seq(Segment) /\ Len(p.snd_buf) \in Nat /\ p.dead \in BOOLEAN
  BY DEF PeerType
<1>2. \A i \in 1..Len(p.snd_buf) : p.snd_buf[i] \in Segment
  BY <1>1, ElementOfSeq
<1>3. p.snd_buf # <<>> => 1 \in 1..Len(p.snd_buf)
  BY <1>1
<1> QED
  BY <1>1, <1>2, <1>3 DEF Segment

\* What is before a segment's resend is before any later bound on it.
LEMMA BeforeLast ==
  ASSUME NEW t \in Int, NEW resend \in Nat, NEW g \in Nat, NEW h \in Nat,
         NEW l \in Nat, NEW m \in Nat,
         t < resend, resend + g <= h + l, l <= m
  PROVE  t <= h + m
  OBVIOUS

\* A rested peer is not later than the last transmission.
LEMMA RestedBound ==
  ASSUME NEW p \in PeerType, NEW h \in Nat, NEW in, NEW u \in Nat, NEW t \in Int,
         SegmentsInv(p, u), Schedule(p, h, in), Rested(p, h, t), ~Shut(p)
  PROVE  t <= h + Latest(MaxRetransmits)
<1>1. Latest(MaxRetransmits) \in Nat /\ PING_INTERVAL <= Latest(MaxRetransmits)
  BY DetectionIs, ConstantTypes
<1>2. MaxGap \in Nat /\ MaxRetransmits \in Nat /\ PING_INTERVAL \in Nat
  BY ConstantTypes
<1>3. CASE p.dead
  BY <1>3 DEF Rested
<1>4. CASE ~p.dead /\ t < h + PING_INTERVAL
  BY <1>1, <1>2, <1>4
<1>5. CASE ~p.dead /\ p.snd_buf # <<>> /\ p.snd_buf[1].xmit >= 1 /\ t < p.snd_buf[1].resendts
  <2>1. 1 \in 1..Len(p.snd_buf) /\ p.snd_buf[1].xmit \in Nat /\ p.snd_buf[1].resendts \in Nat
    BY <1>5, SegmentOf
  <2>2. PICK x \in Nat : x = p.snd_buf[1].xmit
    BY <2>1
  <2>3. x + 1 <= MaxRetransmits
    BY <1>2, <1>5, <2>1, <2>2 DEF SegmentsInv
  <2>4. p.snd_buf[1].resendts + MaxGap <= h + Latest(x + 1)
    BY <1>5, <2>1, <2>2 DEF Schedule, InTime
  <2>5. Latest(x + 1) <= Latest(MaxRetransmits) /\ Latest(x + 1) \in Nat
    <3>1. PICK y \in Nat : y = x + 1 /\ 1 <= y
      OBVIOUS
    <3>2. Latest(y) <= Latest(MaxRetransmits) /\ Latest(y) \in Nat
      BY <1>2, <2>3, <3>1, LatestGrows, LatestStep
    <3> QED
      BY <3>1, <3>2
  <2>6. t < p.snd_buf[1].resendts
    BY <1>5
  <2> QED
    BY <1>1, <1>2, <2>1, <2>4, <2>5, <2>6, BeforeLast
<1> QED
  BY <1>3, <1>4, <1>5 DEF Rested

\* So is a visited one.
LEMMA VisitedBound ==
  ASSUME NEW p \in PeerType, NEW h \in Nat, NEW u \in Nat, NEW t \in Nat,
         SegmentsInv(p, u), Visited(p, h, t), ~Shut(p)
  PROVE  t <= h + Latest(MaxRetransmits)
<1>1. Latest(MaxRetransmits) \in Nat /\ PING_INTERVAL <= Latest(MaxRetransmits)
  BY DetectionIs, ConstantTypes
<1>2. MaxRetransmits \in Nat /\ PING_INTERVAL \in Nat
  BY ConstantTypes
<1>3. CASE p.dead
  BY <1>3 DEF Visited
<1>4. CASE ~p.dead /\ t < h + PING_INTERVAL
  BY <1>1, <1>2, <1>4
<1>5. CASE ~p.dead /\ p.snd_buf # <<>> /\ t <= h + Latest(p.snd_buf[1].xmit + 1)
  <2>1. 1 \in 1..Len(p.snd_buf) /\ p.snd_buf[1].xmit \in Nat
    BY <1>5, SegmentOf
  <2>2. PICK x \in Nat : x = p.snd_buf[1].xmit
    BY <2>1
  <2>3. x + 1 <= MaxRetransmits
    BY <1>2, <1>5, <2>1, <2>2 DEF SegmentsInv
  <2>4. PICK y \in Nat : y = x + 1 /\ 1 <= y
    OBVIOUS
  <2>5. Latest(y) <= Latest(MaxRetransmits) /\ Latest(y) \in Nat
    BY <1>2, <2>3, <2>4, LatestGrows, LatestStep
  <2>6. t <= h + Latest(y)
    BY <1>5, <2>2, <2>4
  <2> QED
    BY <1>1, <2>5, <2>6
<1> QED
  BY <1>3, <1>4, <1>5 DEF Visited

\* At most MaxGap after a tick, the oldest segment is still in time.
LEMMA RestedVisited ==
  ASSUME NEW p \in PeerType, NEW h \in Nat, NEW in, NEW t \in Nat, NEW u \in Int,
         ~p.dead, p.snd_buf # <<>>, Schedule(p, h, in), Rested(p, h, u), t <= u + MaxGap
  PROVE  Visited(p, h, t)
<1>1. 1 \in 1..Len(p.snd_buf) /\ p.snd_buf[1].xmit \in Nat /\ p.snd_buf[1].resendts \in Nat
  BY SegmentOf
<1>2. PICK x \in Nat : x = p.snd_buf[1].xmit
  BY <1>1
<1>3. PICK y \in Nat : y = x + 1 /\ 1 <= y
  OBVIOUS
<1>4. Latest(y) \in Nat /\ Latest(1) <= Latest(y) /\ Latest(1) = PING_INTERVAL + MaxGap
  BY <1>3, LatestStep
<1>5. PING_INTERVAL \in Nat /\ MaxGap \in Nat
  BY ConstantTypes
<1>8. CASE Shut(p)
  BY <1>8 DEF Visited
<1>6. CASE u < h + PING_INTERVAL
  <2>1. t <= h + Latest(1) /\ t <= h + Latest(y)
    BY <1>4, <1>5, <1>6
  <2> QED
    BY <1>2, <1>3, <2>1 DEF Visited
<1>7. CASE p.snd_buf[1].xmit >= 1 /\ u < p.snd_buf[1].resendts
  <2>1. p.snd_buf[1].resendts + MaxGap <= h + Latest(y)
    BY <1>1, <1>2, <1>3, <1>7 DEF Schedule, InTime
  <2>2. t <= h + Latest(y)
    <3>1. PICK resend \in Nat, l \in Nat : resend = p.snd_buf[1].resendts /\ l = Latest(y)
      BY <1>1, <1>4
    <3>2. u < resend /\ resend + MaxGap <= h + l
      BY <1>7, <2>1, <3>1, Zenon
    <3>3. t <= h + l
      BY <1>5, <3>2
    <3> QED
      BY <3>1, <3>3
  <2> QED
    BY <1>2, <1>3, <1>7, <2>2 DEF Visited
<1> QED
  BY <1>6, <1>7, <1>8 DEF Rested

\* What flush does to one segment.
LEMMA TransmitInv ==
  ASSUME NEW s \in Segment, NEW t \in Nat, NEW h \in Nat, NEW r, r = Transmit(s, t),
         s.xmit >= 1 => s.rto = RtoAfter(s.xmit) /\ s.resendts <= t + s.rto
  PROVE  /\ r \in Segment /\ r.xmit >= 1 /\ r.xmit \in Nat /\ s.xmit <= r.xmit
         /\ r.rto = RtoAfter(r.xmit) /\ r.resendts <= t + r.rto
         /\ t < r.resendts
         /\ (InTime(s, h) /\ t <= h + Latest(s.xmit + 1) /\ (s.xmit = 0 => t <= h + Latest(1)))
              => InTime(r, h)
<1>1. s.xmit \in Nat /\ s.rto \in Nat /\ s.resendts \in Nat
  BY DEF Segment
<1>2. r \in Segment
  BY TransmitType
<1>3. Rto \in Nat /\ Rto >= 1 /\ Backoff \in Nat /\ MaxGap \in Nat
  BY ConstantTypes
<1>4. \/ s.xmit = 0 /\ r.xmit = 1 /\ r.rto = Rto /\ r.resendts = t + Rto
      \/ /\ s.xmit >= 1 /\ t >= s.resendts /\ r.xmit = s.xmit + 1
         /\ r.rto = s.rto + Backoff /\ r.resendts = t + s.rto + Backoff
      \/ s.xmit >= 1 /\ t < s.resendts /\ r = s
  BY TransmitCases
<1>5. CASE s.xmit = 0 /\ r.xmit = 1 /\ r.rto = Rto /\ r.resendts = t + Rto
  <2>1. PICK one \in Nat : one = 1 /\ one >= 1
    OBVIOUS
  <2>2. RtoAfter(one) = Rto
    BY <2>1, RtoAfterStep
  <2>3. Latest(one + 1) = Latest(one) + MaxGap + RtoAfter(one) /\ Latest(one) \in Nat
    BY <2>1, LatestStep
  <2>4. Latest(r.xmit + 1) = Latest(1) + MaxGap + Rto /\ Latest(1) \in Nat /\ r.rto = RtoAfter(r.xmit)
    BY <1>5, <2>1, <2>2, <2>3
  <2>5. t <= h + Latest(1) => InTime(r, h)
    BY <1>3, <1>5, <2>4 DEF InTime
  <2> QED
    BY <1>1, <1>2, <1>3, <1>5, <2>4, <2>5
<1>6. CASE /\ s.xmit >= 1 /\ t >= s.resendts /\ r.xmit = s.xmit + 1
           /\ r.rto = s.rto + Backoff /\ r.resendts = t + s.rto + Backoff
  <2>1. PICK x \in Nat : x = s.xmit /\ x >= 1
    BY <1>1, <1>6
  <2>2. PICK y \in Nat : y = x + 1 /\ y >= 1
    OBVIOUS
  <2>3. RtoAfter(x) \in Nat /\ RtoAfter(x) >= Rto /\ RtoAfter(x + 1) = RtoAfter(x) + Backoff
    BY <2>1, RtoAfterStep
  <2>4. Latest(y + 1) = Latest(y) + MaxGap + RtoAfter(y) /\ Latest(y) \in Nat
    BY <2>2, LatestStep
  <2>5. r.xmit = y /\ r.rto = RtoAfter(y) /\ r.resendts = t + RtoAfter(y) /\ RtoAfter(y) \in Nat
        /\ RtoAfter(y) >= 1
    BY <1>1, <1>3, <1>6, <2>1, <2>2, <2>3
  <2>6. t <= h + Latest(y) => InTime(r, h)
    BY <1>3, <2>4, <2>5 DEF InTime
  <2>7. t <= h + Latest(s.xmit + 1) => InTime(r, h)
    BY <2>1, <2>2, <2>6
  <2> QED
    BY <1>1, <1>2, <1>6, <2>2, <2>5, <2>7
<1>7. CASE s.xmit >= 1 /\ t < s.resendts /\ r = s
  BY <1>1, <1>2, <1>7
<1> QED
  BY <1>4, <1>5, <1>6, <1>7

\* Flush, and its verdict.
LEMMA FlushDead ==
  ASSUME NEW p \in PeerType, NEW t \in Nat, NEW q, q = Flush(p, t)
  PROVE  q.dead <=> \/ p.dead
                    \/ \E i \in 1..Len(q.snd_buf) : q.snd_buf[i].xmit >= MaxRetransmits
<1> DEFINE buf == [i \in DOMAIN p.snd_buf |-> IF InWindow(p, i) THEN Transmit(p.snd_buf[i], t)
                                               ELSE p.snd_buf[i]]
<1>1. q = [p EXCEPT !.snd_buf = buf,
                    !.dead = @ \/ \E i \in DOMAIN buf : buf[i].xmit >= MaxRetransmits]
  BY DEF Flush, InWindow
<1> HIDE DEF buf
<1>2. q.snd_buf = buf /\ q.dead = (p.dead \/ \E i \in DOMAIN buf : buf[i].xmit >= MaxRetransmits)
  BY <1>1 DEF PeerType
<1>3. q \in PeerType
  BY FlushType
<1>4. q.snd_buf \in Seq(Segment)
  BY <1>3 DEF PeerType
<1>5. DOMAIN buf = 1..Len(q.snd_buf)
  BY <1>2, <1>4
<1> QED
  BY <1>2, <1>5

LEMMA FlushInv ==
  ASSUME NEW p \in PeerType, NEW h \in Nat, NEW in, NEW t \in Nat, NEW q, q = Flush(p, t),
         SegmentsInv(p, t), Schedule(p, h, in),
         p.dead \/ p.snd_buf = <<>> \/ Visited(p, h, t),
         in # {} => t <= h + MaxGap
  PROVE  SegmentsInv(q, t) /\ Schedule(q, h, in)
<1>1. /\ q \in PeerType /\ Len(q.snd_buf) = Len(p.snd_buf)
      /\ \A i \in 1..Len(p.snd_buf) : q.snd_buf[i] =
           IF InWindow(p, i) THEN Transmit(p.snd_buf[i], t) ELSE p.snd_buf[i]
  BY FlushType
<1>2. q.dead <=> \/ p.dead
                 \/ \E i \in 1..Len(q.snd_buf) : q.snd_buf[i].xmit >= MaxRetransmits
  BY FlushDead
<1>3. \A i \in 1..Len(p.snd_buf) : p.snd_buf[i] \in Segment /\ p.snd_buf[i].xmit \in Nat
  BY SegmentOf
<1>4. ASSUME NEW i \in 1..Len(p.snd_buf)
      PROVE  /\ q.snd_buf[i].xmit >= 1 =>
                   /\ q.snd_buf[i].rto = RtoAfter(q.snd_buf[i].xmit)
                   /\ q.snd_buf[i].resendts <= t + q.snd_buf[i].rto
             /\ q.snd_buf[i].xmit >= MaxRetransmits => q.dead
             /\ ~q.dead /\ (i = 1 \/ in # {}) => InTime(q.snd_buf[i], h)
  <2>1. PICK s \in Segment : s = p.snd_buf[i]
    BY <1>3
  <2>2. PICK r : r = Transmit(s, t)
    OBVIOUS
  <2>3. InWindow(p, i) => r = q.snd_buf[i]
    BY <1>1, <2>1, <2>2
  <2>4. s.xmit >= 1 => s.rto = RtoAfter(s.xmit) /\ s.resendts <= t + s.rto
    BY <2>1 DEF SegmentsInv
  <2>5. /\ r.rto = RtoAfter(r.xmit) /\ r.resendts <= t + r.rto
        /\ (InTime(s, h) /\ t <= h + Latest(s.xmit + 1) /\ (s.xmit = 0 => t <= h + Latest(1)))
             => InTime(r, h)
    BY <2>2, <2>4, TransmitInv
  <2>6. q.snd_buf[i].xmit >= MaxRetransmits => q.dead
    BY <1>1, <1>2
  <2>8. CASE ~InWindow(p, i)
    <3>1. q.snd_buf[i] = p.snd_buf[i] /\ q.snd_buf[i].xmit = 0
      BY <1>1, <1>3, <2>8 DEF InWindow
    <3> QED
      BY <2>6, <3>1 DEF InTime
  <2>7. ASSUME ~q.dead, i = 1 \/ in # {}, InWindow(p, i)
        PROVE  InTime(r, h)
    <3>1. ~p.dead
      BY <1>2, <2>7
    <3>2. InTime(s, h)
      BY <2>1, <2>7, <3>1 DEF Schedule
    <3>3. PICK y \in Nat : y = s.xmit + 1 /\ 1 <= y
      BY <1>3, <2>1
    <3>4. Latest(y) \in Nat /\ Latest(1) <= Latest(y) /\ Latest(1) = PING_INTERVAL + MaxGap
      BY <3>3, LatestStep
    <3>5. PING_INTERVAL \in Nat /\ MaxGap \in Nat
      BY ConstantTypes
    <3>6. t <= h + Latest(y) /\ (s.xmit = 0 => t <= h + Latest(1))
      <4>1. CASE in # {}
        BY <3>4, <3>5, <4>1
      <4>2. CASE i = 1
        <5>1. p.snd_buf # <<>>
          BY <4>2
        <5>2. Visited(p, h, t) /\ ~Shut(p)
          BY <1>3, <2>7, <3>1, <4>2, <5>1 DEF InWindow, Shut
        <5>3. CASE t < h + PING_INTERVAL
          BY <3>4, <3>5, <5>3
        <5>4. CASE /\ t <= h + Latest(p.snd_buf[1].xmit + 1)
                   /\ p.snd_buf[1].xmit = 0 => t <= h + Latest(1)
          BY <2>1, <3>3, <4>2, <5>4
        <5> QED
          BY <3>1, <5>2, <5>3, <5>4 DEF Visited
      <4> QED
        BY <2>7, <4>1, <4>2
    <3> QED
      BY <2>5, <3>2, <3>3, <3>6
  <2> QED
    BY <2>3, <2>5, <2>6, <2>7, <2>8
<1>5. SegmentsInv(q, t)
  BY <1>1, <1>4 DEF SegmentsInv
<1>6. Schedule(q, h, in)
  BY <1>1, <1>4 DEF Schedule
<1> QED
  BY <1>5, <1>6

\* flush changes neither the window nor, with nothing in it, the segments.
LEMMA FlushShut ==
  ASSUME NEW p \in PeerType, NEW t \in Nat, NEW q, q = Flush(p, t)
  PROVE  /\ q.rmt_wnd = p.rmt_wnd
         /\ q.snd_buf = <<>> <=> p.snd_buf = <<>>
         /\ Shut(p) => Shut(q)
<1>1. /\ q \in PeerType /\ Len(q.snd_buf) = Len(p.snd_buf)
      /\ \A i \in 1..Len(p.snd_buf) : q.snd_buf[i] =
           IF InWindow(p, i) THEN Transmit(p.snd_buf[i], t) ELSE p.snd_buf[i]
  BY FlushType
<1>2. q.rmt_wnd = p.rmt_wnd
  BY DEF Flush, PeerType
<1>3. p.snd_buf \in Seq(Segment) /\ q.snd_buf \in Seq(Segment)
  BY <1>1 DEF PeerType
<1>4. q.snd_buf = <<>> <=> p.snd_buf = <<>>
  BY <1>1, <1>3
<1>5. ASSUME Shut(p), p.snd_buf # <<>> PROVE Shut(q)
  <2>1. 1 \in 1..Len(p.snd_buf) /\ p.snd_buf[1].xmit = 0 /\ p.rmt_wnd = 0
    BY <1>5, SegmentOf DEF Shut
  <2>2. q.snd_buf[1] = p.snd_buf[1]
    BY <1>1, <2>1 DEF InWindow
  <2> QED
    BY <1>2, <2>1, <2>2 DEF Shut
<1> QED
  BY <1>2, <1>4, <1>5 DEF Shut

\* The oldest segment, flushed.
LEMMA FlushOldest ==
  ASSUME NEW p \in PeerType, NEW t \in Nat, NEW q, q = Flush(p, t),
         SegmentsInv(p, t), p.snd_buf # <<>>, ~Shut(p)
  PROVE  /\ q.snd_buf # <<>> /\ q.snd_buf[1].xmit \in Nat /\ q.snd_buf[1].xmit >= 1
         /\ p.snd_buf[1].xmit \in Nat /\ p.snd_buf[1].xmit <= q.snd_buf[1].xmit
         /\ t < q.snd_buf[1].resendts /\ q.snd_buf[1].resendts \in Nat
<1>1. /\ q \in PeerType /\ Len(q.snd_buf) = Len(p.snd_buf)
      /\ \A i \in 1..Len(p.snd_buf) : q.snd_buf[i] =
           IF InWindow(p, i) THEN Transmit(p.snd_buf[i], t) ELSE p.snd_buf[i]
  BY FlushType
<1>2. 1 \in 1..Len(p.snd_buf) /\ p.snd_buf[1] \in Segment /\ p.snd_buf[1].xmit \in Nat
  BY SegmentOf
<1>10. InWindow(p, 1)
  <2>1. p.rmt_wnd \in Nat /\ 1 <= SndWnd
    BY ConstantTypes DEF PeerType
  <2> QED
    BY <1>2, <2>1 DEF InWindow, Shut
<1>3. PICK s \in Segment : s = p.snd_buf[1]
  BY <1>2
<1>4. PICK r : r = Transmit(s, t)
  OBVIOUS
<1>5. r = q.snd_buf[1]
  BY <1>1, <1>2, <1>3, <1>4, <1>10
<1>6. s.xmit >= 1 => s.rto = RtoAfter(s.xmit) /\ s.resendts <= t + s.rto
  BY <1>2, <1>3 DEF SegmentsInv
<1>7. PICK h \in Nat : TRUE
  OBVIOUS
<1>8. r \in Segment /\ r.xmit >= 1 /\ r.xmit \in Nat /\ s.xmit <= r.xmit /\ t < r.resendts
  BY <1>4, <1>6, <1>7, TransmitInv
<1>9. q.snd_buf # <<>>
  <2>1. q.snd_buf \in Seq(Segment) /\ Len(q.snd_buf) >= 1
    BY <1>1, <1>2 DEF PeerType
  <2> QED
    BY <2>1
<1> QED
  BY <1>2, <1>3, <1>5, <1>8, <1>9 DEF Segment

LEMMA FlushRested ==
  ASSUME NEW p \in PeerType, NEW h \in Nat, NEW in, NEW t \in Nat, NEW q, q = Flush(p, t),
         SegmentsInv(p, t), Schedule(p, h, in), NEW u \in Int, u <= t, Rested(p, h, u)
  PROVE  Rested(q, h, u)
<1>4. CASE Shut(p)
  BY <1>4, FlushShut DEF Rested
<1> SUFFICES ASSUME ~Shut(p) PROVE Rested(q, h, u)
  BY <1>4
<1>1. u <= h + Latest(MaxRetransmits)
  BY RestedBound
<1>2. CASE q.dead
  BY <1>1, <1>2 DEF Rested
<1>3. CASE ~q.dead
  <2>1. ~p.dead
    BY <1>3, FlushDead
  <2>2. CASE u < h + PING_INTERVAL
    BY <1>3, <2>2 DEF Rested
  <2>3. CASE p.snd_buf # <<>>
    <3>1. q.snd_buf # <<>> /\ q.snd_buf[1].xmit >= 1 /\ t < q.snd_buf[1].resendts
          /\ q.snd_buf[1].resendts \in Nat
      BY <2>3, FlushOldest
    <3>2. u < q.snd_buf[1].resendts
      BY <3>1
    <3> QED
      BY <1>3, <3>1, <3>2 DEF Rested
  <2> QED
    BY <2>1, <2>2, <2>3 DEF Rested
<1> QED
  BY <1>2, <1>3

LEMMA FlushVisited ==
  ASSUME NEW p \in PeerType, NEW h \in Nat, NEW t \in Nat, NEW q, q = Flush(p, t),
         SegmentsInv(p, t), Visited(p, h, t)
  PROVE  Visited(q, h, t) /\ Rested(q, h, t)
<1>4. CASE Shut(p)
  BY <1>4, FlushShut DEF Rested, Visited
<1> SUFFICES ASSUME ~Shut(p) PROVE Visited(q, h, t) /\ Rested(q, h, t)
  BY <1>4
<1>1. t <= h + Latest(MaxRetransmits)
  BY VisitedBound
<1>2. CASE q.dead
  BY <1>1, <1>2 DEF Rested, Visited
<1>3. CASE ~q.dead
  <2>1. ~p.dead
    BY <1>3, FlushDead
  <2>2. CASE t < h + PING_INTERVAL
    BY <1>3, <2>2 DEF Rested, Visited
  <2>3. CASE p.snd_buf # <<>> /\ t <= h + Latest(p.snd_buf[1].xmit + 1)
    <3>1. /\ q.snd_buf # <<>> /\ q.snd_buf[1].xmit \in Nat /\ q.snd_buf[1].xmit >= 1
          /\ p.snd_buf[1].xmit \in Nat /\ p.snd_buf[1].xmit <= q.snd_buf[1].xmit
          /\ t < q.snd_buf[1].resendts
      BY <2>3, FlushOldest
    <3>2. PICK x \in Nat, y \in Nat :
            x = p.snd_buf[1].xmit + 1 /\ y = q.snd_buf[1].xmit + 1 /\ 1 <= x /\ x <= y
      BY <3>1
    <3>3. Latest(x) <= Latest(y) /\ Latest(x) \in Nat /\ Latest(y) \in Nat
      BY <3>2, LatestGrows, LatestStep
    <3>4. t <= h + Latest(q.snd_buf[1].xmit + 1)
      BY <2>3, <3>2, <3>3
    <3>5. q.snd_buf[1].xmit # 0
      BY <3>1
    <3> QED
      BY <1>3, <3>1, <3>4, <3>5 DEF Rested, Visited
  <2> QED
    BY <2>1, <2>2, <2>3 DEF Visited
<1> QED
  BY <1>2, <1>3

\* The schedule looks at nothing but the segments, the window and the verdict.
LEMMA Frame ==
  ASSUME NEW p, NEW q, q.snd_buf = p.snd_buf, q.rmt_wnd = p.rmt_wnd, q.dead = p.dead,
         NEW h, NEW in, NEW t, NEW u
  PROVE  /\ SegmentsInv(p, t) => SegmentsInv(q, t)
         /\ Schedule(p, h, in) => Schedule(q, h, in)
         /\ Rested(p, h, u) => Rested(q, h, u)
         /\ Visited(p, h, t) => Visited(q, h, t)
  BY DEF SegmentsInv, Schedule, Rested, Visited, Shut

\* Time goes by.
LEMMA SegmentsLater ==
  ASSUME NEW p \in PeerType, NEW t \in Nat, NEW u \in Nat, t <= u, SegmentsInv(p, t)
  PROVE  SegmentsInv(p, u)
<1>1. \A i \in 1..Len(p.snd_buf) : p.snd_buf[i].resendts \in Nat /\ p.snd_buf[i].rto \in Nat
  BY SegmentOf
<1> QED
  BY <1>1, SMTT(30) DEF SegmentsInv

\* A message is queued: nothing but an empty buffer has a new oldest segment.
LEMMA Queued ==
  ASSUME NEW p \in PeerType, NEW q \in PeerType, NEW h \in Nat, NEW in, NEW t \in Nat,
         NEW u \in Int,
         q.snd_buf = Append(p.snd_buf, Unsent), q.dead = p.dead,
         q.rmt_wnd = p.rmt_wnd, p.rmt_wnd > 0,
         SegmentsInv(p, t), Schedule(p, h, in)
  PROVE  /\ SegmentsInv(q, t) /\ Schedule(q, h, in) /\ q.snd_buf # <<>>
         /\ Rested(p, h, u) => Rested(q, h, u)
         /\ Visited(p, h, t) => Visited(q, h, t)
         /\ (p.snd_buf = <<>> /\ t <= h + Latest(1) /\ ~p.dead) => Visited(q, h, t)
<1>1. p.snd_buf \in Seq(Segment) /\ Len(p.snd_buf) \in Nat /\ Unsent \in Segment
  BY SegmentOf DEF Segment, Unsent
<1>2. /\ Len(q.snd_buf) = Len(p.snd_buf) + 1
      /\ \A i \in 1..Len(p.snd_buf) : q.snd_buf[i] = p.snd_buf[i]
      /\ q.snd_buf[Len(p.snd_buf) + 1] = Unsent
  BY <1>1, AppendProperties
<1>3. \A i \in 1..Len(q.snd_buf) :
        \/ i \in 1..Len(p.snd_buf) /\ q.snd_buf[i] = p.snd_buf[i]
        \/ i = Len(p.snd_buf) + 1 /\ q.snd_buf[i].xmit = 0
  <2>1. Unsent.xmit = 0
    BY DEF Unsent
  <2> QED
    BY <1>1, <1>2, <2>1
<1>4. MaxRetransmits \in Nat /\ MaxRetransmits >= 1 /\ PING_INTERVAL \in Nat
  BY ConstantTypes
<1>5. SegmentsInv(q, t)
  BY <1>3, <1>4 DEF SegmentsInv
<1>6. Schedule(q, h, in)
  BY <1>3 DEF Schedule, InTime
<1>7. q.snd_buf # <<>>
  <2>1. Len(q.snd_buf) # 0
    BY <1>1, <1>2
  <2>2. Len(<<>>) = 0
    OBVIOUS
  <2> QED  BY <2>1, <2>2, Zenon
<1>8. p.snd_buf # <<>> => q.snd_buf[1] = p.snd_buf[1]
  BY <1>1, <1>2
<1>9. p.snd_buf = <<>> => q.snd_buf[1].xmit = 0
  <2> SUFFICES ASSUME p.snd_buf = <<>> PROVE q.snd_buf[1].xmit = 0
    OBVIOUS
  <2>1. Len(p.snd_buf) = 0
    OBVIOUS
  <2> QED
    BY <1>2, <2>1 DEF Unsent
<1>13. ~Shut(p)
  BY DEF Shut
<1>10. Rested(p, h, u) => Rested(q, h, u)
  BY <1>7, <1>8, <1>13 DEF Rested
<1>11. Visited(p, h, t) => Visited(q, h, t)
  BY <1>7, <1>8, <1>13 DEF Visited
<1>12. (p.snd_buf = <<>> /\ t <= h + Latest(1) /\ ~p.dead) => Visited(q, h, t)
  <2> SUFFICES ASSUME p.snd_buf = <<>>, t <= h + Latest(1), ~p.dead PROVE Visited(q, h, t)
    OBVIOUS
  <2>1. q.snd_buf[1].xmit + 1 = 1
    BY <1>9
  <2> QED
    BY <1>7, <2>1 DEF Visited
<1> QED
  BY <1>5, <1>6, <1>7, <1>10, <1>11, <1>12

\* What is kept between two ticks.
Waiting(p, h, in, t, u) == SegmentsInv(p, t) /\ Schedule(p, h, in) /\ Rested(p, h, u)

\* SendReliable by the application, at time t after a tick that ended at u.
LEMMA SendIdle ==
  ASSUME NEW p, Typed(p), NEW h \in Nat, NEW in, NEW t \in Nat, NEW u \in Int,
         Waiting(p, h, in, t, u),
         u <= t, t <= u + MaxGap, in # {} => u <= h
  PROVE  /\ Waiting(SendReliable(p, t), h, in, t, u)
         /\ SendReliable(p, t).snd_buf # <<>> \/ SendReliable(p, t).rmt_wnd = 0
<1>0. PICK z : z = SendReliable(p, t)
  OBVIOUS
<1> SUFFICES /\ SegmentsInv(z, t) /\ Schedule(z, h, in) /\ Rested(z, h, u)
             /\ z.snd_buf # <<>> \/ z.rmt_wnd = 0
  BY <1>0 DEF Waiting
<1>11. SegmentsInv(p, t) /\ Schedule(p, h, in) /\ Rested(p, h, u)
  BY DEF Waiting
<1>1. PICK q : q = [p EXCEPT !.snd_buf = Append(@, Unsent)]
  OBVIOUS
<1>2. /\ q \in PeerType /\ q.snd_buf = Append(p.snd_buf, Unsent)
      /\ Len(q.snd_buf) = Len(p.snd_buf) + 1 /\ Len(p.snd_buf) \in Nat
  BY <1>1, AppendType DEF Typed
<1>3. q.dead = p.dead /\ q.rmt_wnd = p.rmt_wnd
  BY <1>1 DEF Typed, PeerType
<1>4. z = IF ~Room(p) THEN p ELSE IF ~Room(q) THEN Flush(q, t) ELSE q
  BY <1>0, <1>1 DEF SendReliable, Unsent
<1>5. p \in PeerType /\ p.rmt_wnd \in Nat
  BY DEF Typed, PeerType
<1>10. Room(p) => p.rmt_wnd > 0
  BY <1>2, <1>5 DEF Room
<1>6. ASSUME Room(p)
      PROVE  /\ SegmentsInv(q, t) /\ Schedule(q, h, in) /\ q.snd_buf # <<>>
             /\ Rested(q, h, u) /\ ~Shut(q)
  <2>1. p.rmt_wnd > 0
    BY <1>6, <1>10
  <2>2. ~Shut(q)
    BY <1>3, <2>1 DEF Shut
  <2> QED
    BY <1>2, <1>3, <1>5, <1>11, <2>1, <2>2, Queued
<1>7. CASE z = p /\ ~Room(p)
  <2>1. p.snd_buf # <<>> \/ p.rmt_wnd = 0
    <3> SUFFICES ASSUME p.snd_buf = <<>> PROVE p.rmt_wnd = 0
      OBVIOUS
    <3>1. Len(p.snd_buf) = 0 /\ SndWnd \in Nat /\ SndWnd >= 1
      BY ConstantTypes
    <3> QED
      BY <1>5, <1>7, <3>1 DEF Room
  <2> QED
    BY <1>7, <1>11, <2>1
<1>8. CASE z = q /\ Room(p)
  BY <1>6, <1>8
<1>9. CASE z = Flush(q, t) /\ Room(p)
  <2>1. q.dead \/ Visited(q, h, t)
    BY <1>2, <1>6, <1>9, RestedVisited
  <2>2. in # {} => t <= h + MaxGap
    BY ConstantTypes
  <2>3. SegmentsInv(z, t) /\ Schedule(z, h, in)
    BY <1>2, <1>6, <1>9, <2>1, <2>2, FlushInv
  <2>4. Rested(z, h, u)
    BY <1>2, <1>6, <1>9, FlushRested
  <2>5. z.snd_buf # <<>>
    BY <1>2, <1>6, <1>9, FlushOldest
  <2> QED
    BY <2>3, <2>4, <2>5
<1> QED
  BY <1>4, <1>7, <1>8, <1>9

\* SendReliable in a tick: the ping that was due, or a pong.
LEMMA SendTick ==
  ASSUME NEW p, Typed(p), NEW h \in Nat, NEW t \in Nat,
         NEW z, z = SendReliable(p, t),
         SegmentsInv(p, t), Schedule(p, h, {}),
         \/ Visited(p, h, t)
         \/ p.snd_buf = <<>> /\ t <= h + Latest(1) /\ ~p.dead
  PROVE  /\ SegmentsInv(z, t) /\ Schedule(z, h, {}) /\ Visited(z, h, t)
         /\ z.snd_buf # <<>> \/ z.rmt_wnd = 0
<1>1. PICK q : q = [p EXCEPT !.snd_buf = Append(@, Unsent)]
  OBVIOUS
<1>2. /\ q \in PeerType /\ q.snd_buf = Append(p.snd_buf, Unsent)
      /\ Len(q.snd_buf) = Len(p.snd_buf) + 1 /\ Len(p.snd_buf) \in Nat
  BY <1>1, AppendType DEF Typed
<1>3. q.dead = p.dead /\ q.rmt_wnd = p.rmt_wnd
  BY <1>1 DEF Typed, PeerType
<1>4. z = IF ~Room(p) THEN p ELSE IF ~Room(q) THEN Flush(q, t) ELSE q
  BY <1>1 DEF SendReliable, Unsent
<1>5. p \in PeerType /\ p.rmt_wnd \in Nat
  BY DEF Typed, PeerType
<1>6. PICK u \in Int : TRUE
  OBVIOUS
<1>11. Room(p) => p.rmt_wnd > 0
  BY <1>2, <1>5 DEF Room
<1>7. ASSUME Room(p)
      PROVE  SegmentsInv(q, t) /\ Schedule(q, h, {}) /\ q.snd_buf # <<>> /\ Visited(q, h, t)
             /\ ~Shut(q)
  <2>1. p.rmt_wnd > 0
    BY <1>7, <1>11
  <2>2. ~Shut(q)
    BY <1>3, <2>1 DEF Shut
  <2> QED
    BY <1>2, <1>3, <1>5, <1>6, <2>1, <2>2, Queued
<1>8. CASE z = p /\ ~Room(p)
  <2>1. p.snd_buf # <<>> \/ p.rmt_wnd = 0
    <3> SUFFICES ASSUME p.snd_buf = <<>> PROVE p.rmt_wnd = 0
      OBVIOUS
    <3>1. Len(p.snd_buf) = 0 /\ SndWnd \in Nat /\ SndWnd >= 1
      BY ConstantTypes
    <3> QED
      BY <1>5, <1>8, <3>1 DEF Room
  <2>2. p.snd_buf = <<>> => Visited(p, h, t)
    BY <2>1 DEF Visited, Shut
  <2> QED
    BY <1>8, <2>1, <2>2
<1>9. CASE z = q /\ Room(p)
  BY <1>7, <1>9
<1>10. CASE z = Flush(q, t) /\ Room(p)
  <2>1. SegmentsInv(z, t) /\ Schedule(z, h, {})
    BY <1>2, <1>7, <1>10, FlushInv
  <2>2. Visited(z, h, t)
    BY <1>2, <1>7, <1>10, FlushVisited
  <2>3. z.snd_buf # <<>>
    BY <1>2, <1>7, <1>10, FlushOldest
  <2> QED
    BY <2>1, <2>2, <2>3
<1> QED
  BY <1>4, <1>8, <1>9, <1>10

----------------------------------------------------------------------------
(* The steps, and the silence of the far end *)

\* There is one far end: no other one's Disconnect holds its tick up.
Lone == \A f, g \in Peers : f = g

\* What is at hand about a peer that may still be dropped.
LEMMA LiveFacts ==
  ASSUME TypeOK, Inv, SilenceInv, NEW f \in Peers, Live(f)
  PROVE  /\ Typed(peer[f]) /\ peer[f] \in PeerType /\ Shape(peer[f])
         /\ peer[f].start \in Nat /\ peer[f].LastPingTime \in Nat
         /\ heard[f] \in Nat /\ now \in Nat /\ gap \in Nat /\ gap <= MaxGap
         /\ now - gap \in Int /\ now - gap <= now /\ now <= (now - gap) + MaxGap
         /\ SilenceOf(peer[f], heard[f], sock[f], now, gap, phase, f \in todo)
         /\ Timers(peer[f], lastTick[f], now)
<1>1. Typed(peer[f]) /\ peer[f] \in PeerType /\ now \in Nat /\ gap \in Nat /\ heard[f] \in Nat
  BY DEF TypeOK, Typed
<1>2. Shape(peer[f]) /\ Timers(peer[f], lastTick[f], now)
  BY DEF Inv, Shapes, TimersInv, Live
<1>3. gap <= MaxGap /\ SilenceOf(peer[f], heard[f], sock[f], now, gap, phase, f \in todo)
  BY DEF SilenceInv
<1>4. MaxGap \in Nat
  BY ConstantTypes
<1>5. peer[f].start \in Nat /\ peer[f].LastPingTime \in Nat
  BY <1>2 DEF Shape
<1> QED
  BY <1>1, <1>2, <1>3, <1>4, <1>5

\* A step of the only peer.
LEMMA LoneStep ==
  ASSUME Lone, NEW f \in Peers, NEW r, NEW h, NEW in, NEW t, NEW g, NEW ph, NEW td,
         peer'[f] = r, heard'[f] = h, sock'[f] = in, now' = t, gap' = g, phase' = ph,
         td = (f \in todo'), g <= MaxGap,
         (r.state # "None" /\ ~r.once) => SilenceOf(r, h, in, t, g, ph, td)
  PROVE  SilenceInv'
<1> SUFFICES ASSUME NEW e \in Peers, peer'[e].state # "None", ~peer'[e].once
             PROVE  SilenceOf(peer'[e], heard'[e], sock'[e], now', gap', phase', e \in todo')
  BY DEF SilenceInv, Live, SilenceOf
<1>1. e = f
  BY DEF Lone
<1> QED
  BY <1>1

\* Steps that move the clock or the ticker.
LEMMA TickerSilence ==
  ASSUME TypeOK, Inv, SilenceInv, Wait \/ BeginTick \/ EndReceive \/ EndTick \/ EndIncoming
  PROVE  SilenceInv'
<1>0. now \in Nat /\ gap \in Nat /\ MaxGap \in Nat /\ gap <= MaxGap
  BY ConstantTypes DEF TypeOK, SilenceInv
<1>1. gap' <= MaxGap
  BY <1>0 DEF Wait, BeginTick, EndReceive, EndTick, EndIncoming
<1> SUFFICES ASSUME NEW f \in Peers, peer'[f].state # "None", ~peer'[f].once
             PROVE  SilenceOf(peer'[f], heard'[f], sock'[f], now', gap', phase', f \in todo')
  BY <1>1 DEF SilenceInv, Live, SilenceOf
<1>2. peer'[f] = peer[f] /\ heard' = heard /\ sock' = sock
  <2>1. CASE EndIncoming
    <3>1. peer'[f] = peer[f] \/ peer'[f] = NoPeer
      BY <2>1 DEF EndIncoming
    <3>2. peer'[f] # NoPeer
      BY NoPeerShape
    <3> QED
      BY <2>1, <3>1, <3>2 DEF EndIncoming
  <2>2. CASE Wait \/ BeginTick \/ EndReceive \/ EndTick
    BY <2>2 DEF Wait, BeginTick, EndReceive, EndTick
  <2> QED
    BY <2>1, <2>2
<1>3. Live(f)
  BY <1>2 DEF Live
<1>4. PICK p, h, in : p = peer[f] /\ h = heard[f] /\ in = sock[f]
  OBVIOUS
<1>5. p \in PeerType /\ h \in Nat /\ SilenceOf(p, h, in, now, gap, phase, f \in todo)
  BY <1>3, <1>4, LiveFacts
<1>6. CASE Wait
  <2>1. SegmentsInv(p, now + 1)
    <3>1. PICK n \in Nat : n = now + 1 /\ now <= n
      BY <1>0
    <3> QED
      BY <1>0, <1>5, <3>1, SegmentsLater DEF SilenceOf
  <2>2. /\ now' = now + 1 /\ gap' = gap + 1 /\ phase' = phase /\ todo' = todo
        /\ phase = "idle"
    BY <1>6 DEF Wait
  <2>3. now' - gap' = now - gap /\ h <= now'
    BY <1>0, <1>5, <2>2 DEF SilenceOf
  <2>4. SilenceOf(p, h, in, now', gap', phase', f \in todo')
    BY <1>5, <2>1, <2>2, <2>3 DEF SilenceOf
  <2> QED
    BY <1>2, <1>4, <2>4
<1>7. CASE BeginTick
  <2>1. /\ now' = now /\ gap' = gap /\ phase' = "receive" /\ todo' = todo /\ phase = "idle"
    BY <1>7 DEF BeginTick
  <2>2. SilenceOf(p, h, in, now', gap', phase', f \in todo')
    BY <1>5, <2>1 DEF SilenceOf
  <2> QED
    BY <1>2, <1>4, <2>2
<1>8. CASE EndReceive
  <2>1. /\ now' = now /\ gap' = gap /\ phase' = "tick" /\ f \in todo' /\ phase = "receive"
        /\ in = {}
    BY <1>3, <1>4, <1>8 DEF EndReceive, Active, Live
  <2>2. SilenceOf(p, h, in, now', gap', phase', f \in todo')
    BY <1>5, <2>1 DEF SilenceOf
  <2> QED
    BY <1>2, <1>4, <2>2
<1>9. CASE EndTick
  <2>1. /\ now' = now /\ gap' = 0 /\ phase' = "idle" /\ f \notin todo /\ phase = "flush"
    BY <1>9 DEF EndTick
  <2>2. now' - gap' = now /\ in = {}
    BY <1>0, <1>5, <2>1 DEF SilenceOf
  <2>3. SilenceOf(p, h, in, now', gap', phase', f \in todo')
    BY <1>5, <2>1, <2>2 DEF SilenceOf
  <2> QED
    BY <1>2, <1>4, <2>3
<1>10. CASE EndIncoming
  <2>1. /\ now' = now /\ gap' = gap /\ phase' = "flush" /\ f \notin todo /\ phase = "tick"
        /\ f \in todo'
    BY <1>10 DEF EndIncoming
  <2>2. in = {}
    BY <1>5, <2>1 DEF SilenceOf
  <2>3. SilenceOf(p, h, in, now', gap', phase', f \in todo')
    BY <1>5, <2>1, <2>2 DEF SilenceOf
  <2> QED
    BY <1>2, <1>4, <2>3
<1> QED
  BY <1>6, <1>7, <1>8, <1>9, <1>10

\* A datagram arrives: the schedule starts again, for every segment.
LEMMA ArriveSilence ==
  ASSUME Lone, TypeOK, Inv, SilenceInv, NEW f \in Peers, NEW m \in Messages, Arrive(f, m)
  PROVE  SilenceInv'
<1>1. PICK p, h, in : p = peer[f] /\ h = heard[f] /\ in = sock[f]
  OBVIOUS
<1>2. /\ peer'[f] = p /\ heard'[f] = now /\ sock'[f] = in \cup {m} /\ phase = "idle"
      /\ UNCHANGED <<now, gap, phase, todo>>
  BY <1>1 DEF Arrive, TypeOK
<1>3. ASSUME p.state # "None", ~p.once
      PROVE  SilenceOf(p, now, in \cup {m}, now, gap, "idle", f \in todo)
  <2>1. Live(f)
    BY <1>1, <1>3 DEF Live
  <2>2. /\ p \in PeerType /\ p.start \in Nat /\ p.LastPingTime \in Nat /\ Shape(p)
        /\ h \in Nat /\ now \in Nat /\ gap \in Nat /\ now - gap \in Int /\ now - gap <= now
        /\ SilenceOf(p, h, in, now, gap, phase, f \in todo)
        /\ Timers(p, lastTick[f], now)
    BY <1>1, <2>1, LiveFacts
  <2>3. p.start <= now /\ p.start + p.LastPingTime <= now
    BY <2>2 DEF Timers, Shape
  <2>4. ASSUME NEW i \in 1..Len(p.snd_buf)
        PROVE  InTime(p.snd_buf[i], now)
    <3>1. /\ p.snd_buf[i].xmit \in Nat /\ p.snd_buf[i].rto \in Nat
          /\ p.snd_buf[i].resendts \in Nat
      BY <2>2, SegmentOf
    <3>2. CASE p.snd_buf[i].xmit = 0
      BY <3>2 DEF InTime
    <3>3. CASE p.snd_buf[i].xmit >= 1
      <4>1. PICK x \in Nat : x = p.snd_buf[i].xmit /\ x >= 1
        BY <3>1, <3>3
      <4>2. p.snd_buf[i].rto = RtoAfter(x) /\ p.snd_buf[i].resendts <= now + p.snd_buf[i].rto
        BY <2>2, <4>1 DEF SilenceOf, SegmentsInv
      <4>3. Latest(x + 1) = Latest(x) + MaxGap + RtoAfter(x) /\ Latest(x) \in Nat
        BY <4>1, LatestStep
      <4>4. MaxGap \in Nat
        BY ConstantTypes
      <4>5. p.snd_buf[i].resendts + MaxGap <= now + Latest(x + 1)
        <5>1. PICK a \in Nat, b \in Nat, r \in Nat, n \in Nat, g \in Nat :
                /\ a = p.snd_buf[i].resendts /\ b = Latest(x) /\ r = RtoAfter(x)
                /\ n = now /\ g = MaxGap
          BY <2>2, <3>1, <4>2, <4>3, <4>4
        <5>2. a <= n + r
          BY <4>2, <5>1
        <5>3. a + g <= n + (b + g + r)
          BY <5>2
        <5>4. Latest(x + 1) = b + g + r
          BY <4>3, <5>1
        <5> QED
          BY <5>1, <5>3, <5>4
      <4> QED
        BY <4>1, <4>5 DEF InTime
    <3> QED
      BY <3>1, <3>2, <3>3
  <2>5. Schedule(p, now, in \cup {m})
    BY <2>4 DEF Schedule
  <2>6. Rested(p, now, now - gap)
    <3>1. PING_INTERVAL \in Nat /\ PING_INTERVAL >= 1 /\ Latest(MaxRetransmits) \in Nat
      BY ConstantTypes, DetectionIs
    <3> QED
      BY <2>2, <3>1 DEF Rested
  <2>7. SegmentsInv(p, now)
    BY <2>2 DEF SilenceOf
  <2> QED
    BY <2>2, <2>3, <2>5, <2>6, <2>7 DEF SilenceOf
<1>4. gap <= MaxGap
  BY DEF SilenceInv
<1> QED
  BY <1>2, <1>3, <1>4, LoneStep

\* Send.
LEMMA SendSilence ==
  ASSUME Lone, TypeOK, Inv, SilenceInv, NEW f \in Peers, Send(f)
  PROVE  SilenceInv'
<1>1. PICK p, h, in, z : p = peer[f] /\ h = heard[f] /\ in = sock[f] /\ z = SendTimed(p, now)
  OBVIOUS
<1>2. /\ peer'[f] = z /\ heard'[f] = h /\ sock'[f] = in /\ phase = "idle"
      /\ UNCHANGED <<now, gap, phase, todo>> /\ p.state # "None"
  BY <1>1 DEF Send, TypeOK
<1>3. Shape(p) /\ now \in Nat
  BY <1>1 DEF Inv, Shapes
<1>4. z.once = p.once /\ z.start = p.start /\ z.LastPingTime = p.LastPingTime
  BY <1>1, <1>3, SendTimedLike
<1>5. ASSUME z.state # "None", ~z.once
      PROVE  SilenceOf(z, h, in, now, gap, "idle", f \in todo)
  <2>1. Live(f)
    BY <1>1, <1>2, <1>4, <1>5 DEF Live
  <2>2. /\ Typed(p) /\ p \in PeerType
        /\ h \in Nat /\ gap \in Nat /\ now - gap \in Int /\ now - gap <= now
        /\ now <= (now - gap) + MaxGap
        /\ SilenceOf(p, h, in, now, gap, "idle", f \in todo)
    BY <1>1, <1>2, <2>1, LiveFacts
  <2>3. PICK q : q = [p EXCEPT !.lastReceiveTime = Time(p, now)]
    OBVIOUS
  <2>4. z = SendReliable(q, now) /\ q.snd_buf = p.snd_buf /\ q.dead = p.dead
        /\ q.rmt_wnd = p.rmt_wnd
    BY <1>1, <2>2, <2>3 DEF SendTimed, PeerType
  <2>5. Typed(q)
    BY <1>3, <2>2, <2>3, TimeType DEF Typed, PeerType
  <2>6. PICK u \in Int : u = now - gap
    BY <2>2
  <2>7. SegmentsInv(p, now) /\ Schedule(p, h, in) /\ Rested(p, h, u) /\ (in # {} => u <= h)
    BY <2>2, <2>6 DEF SilenceOf
  <2>8. SegmentsInv(q, now) /\ Schedule(q, h, in) /\ Rested(q, h, u)
    BY <2>4, <2>7, Frame
  <2>10. u \in Int /\ u <= now /\ now <= u + MaxGap
    BY <2>2, <2>6
  <2>11. Waiting(q, h, in, now, u)
    BY <2>8 DEF Waiting
  <2>9. /\ SegmentsInv(z, now) /\ Schedule(z, h, in) /\ Rested(z, h, u)
        /\ z.snd_buf # <<>> \/ z.rmt_wnd = 0
    BY <1>3, <2>2, <2>4, <2>5, <2>7, <2>10, <2>11, SendIdle DEF Waiting
  <2> QED
    BY <1>4, <2>2, <2>6, <2>9 DEF SilenceOf
<1>6. gap <= MaxGap
  BY DEF SilenceInv
<1> QED
  BY <1>2, <1>5, <1>6, LoneStep

\* A session begins with the message that SendReliable queues.
LEMMA NewSilence ==
  ASSUME NEW t \in Nat, NEW g \in Nat, g <= MaxGap, NEW in, NEW ph \in {"idle", "receive"}, NEW td,
         NEW p, Typed(p), Shape(p), p.snd_buf = <<>>, ~p.dead, p.start = t, p.LastPingTime = 0,
         NEW z, z = SendReliable(p, t)
  PROVE  SilenceOf(z, t, in, t, g, ph, td)
<1>1. z.start = t /\ z.LastPingTime = 0
  BY SendReliableLike DEF Like
<1>2. Len(p.snd_buf) = 0
  OBVIOUS
<1>3. SegmentsInv(p, t) /\ Schedule(p, t, in)
  BY <1>2 DEF SegmentsInv, Schedule
<1>4. PICK u \in Int : u = t - g /\ u <= t /\ t <= u + MaxGap
  BY ConstantTypes
<1>5. Rested(p, t, u)
  BY <1>4, ConstantTypes DEF Rested
<1>7. u <= t /\ t <= u + MaxGap /\ (in # {} => u <= t)
  BY <1>4
<1>8. Waiting(p, t, in, t, u)
  BY <1>3, <1>5 DEF Waiting
<1>6. SegmentsInv(z, t) /\ Schedule(z, t, in) /\ Rested(z, t, u)
  BY <1>4, <1>7, <1>8, SendIdle DEF Waiting
<1> QED
  BY <1>1, <1>4, <1>6 DEF SilenceOf

LEMMA ConnectSilence ==
  ASSUME Lone, TypeOK, Inv, SilenceInv, NEW f \in Peers, Connect(f)
  PROVE  SilenceInv'
<1>1. PICK p, z : /\ p = IF peer[f].state = "None" THEN NewKcpPeer(now) ELSE Reset(peer[f], now)
                  /\ z = SendReliable(p, now)
  OBVIOUS
<1>2. /\ peer'[f] = z /\ heard'[f] = now /\ sock'[f] = {} /\ phase = "idle"
      /\ UNCHANGED <<now, gap, phase, todo>>
  BY <1>1 DEF Connect, Begin, TypeOK
<1>3. now \in Nat /\ gap \in Nat /\ gap <= MaxGap /\ Shape(peer[f])
  BY DEF TypeOK, SilenceInv, Inv, Shapes
<1>4. CASE peer[f].state = "None"
  <2>1. p = NewKcpPeer(now)
    BY <1>1, <1>4
  <2>2. /\ Typed(p) /\ Shape(p) /\ p.snd_buf = <<>> /\ ~p.dead
        /\ p.start = now /\ p.LastPingTime = 0
    BY <1>3, <2>1, NewType, NewShape DEF NewKcpPeer
  <2>3. SilenceOf(z, now, {}, now, gap, "idle", f \in todo)
    BY <1>1, <1>3, <2>2, NewSilence
  <2> QED
    BY <1>2, <1>3, <2>3, LoneStep
<1>5. CASE peer[f].state # "None"
  <2>1. peer[f].state = "Disconnected"
    BY <1>5 DEF Connect
  <2>2. peer[f].once
    BY <1>3, <2>1 DEF Shape
  <2>3. Shape(p) /\ p.once
    BY <1>1, <1>3, <1>5, <2>2, ResetShape
  <2>4. z.once
    BY <1>1, <2>3, SendReliableLike DEF Like
  <2> QED
    BY <1>2, <1>3, <2>4, LoneStep
<1> QED
  BY <1>4, <1>5

\* Input drops acknowledged segments; what is then the oldest was in time,
\* for the far end was heard since the last tick.
LEMMA InputSilence ==
  ASSUME NEW p, Typed(p), Shape(p), NEW h \in Nat, NEW in, NEW new, NEW t \in Nat, NEW g \in Nat,
         NEW td, NEW m \in Messages, NEW k \in 0..Len(p.snd_buf), NEW w \in Nat, in # {}, g <= MaxGap,
         SilenceOf(p, h, in, t, g, "receive", td),
         NEW z, z = Input(p, m, k, w, t)
  PROVE  SilenceOf(z, h, new, t, g, "receive", td)
<1>1. PICK inb, buf, q : /\ inb = (IF m = "Ack" THEN p.inbox ELSE p.inbox \cup {m})
                         /\ buf = SubSeq(p.snd_buf, k + 1, Len(p.snd_buf))
                         /\ q = [p EXCEPT !.inbox = inb, !.rmt_wnd = w, !.snd_buf = buf]
  BY Zenon
<1>2. z = q \/ z = Flush(q, t)
  BY <1>1 DEF Input
<1>3. p \in PeerType /\ p.snd_buf \in Seq(Segment) /\ Len(p.snd_buf) \in Nat
  BY DEF Typed, PeerType
<1>4. /\ buf \in Seq(Segment) /\ Len(buf) = Len(p.snd_buf) - k
      /\ \A i \in 1..Len(buf) : buf[i] = p.snd_buf[k + i]
  <2>1. PICK s \in Seq(Segment), n \in Nat : s = p.snd_buf /\ n = Len(s)
    BY <1>3
  <2>2. k \in Nat /\ k <= n /\ buf = SubSeq(s, k + 1, n)
    BY <1>1, <2>1
  <2>3. \A i \in (k + 1)..n : s[i] \in Segment
    BY <2>1, <2>2, ElementOfSeq
  <2>4. /\ buf \in Seq(Segment)
        /\ Len(buf) = IF k + 1 <= n THEN n - (k + 1) + 1 ELSE 0
        /\ \A i \in 1..(n - (k + 1) + 1) : buf[i] = s[k + 1 + i - 1]
    BY <2>2, <2>3, SubSeqProperties
  <2>5. Len(buf) = n - k
    BY <2>2, <2>4
  <2>6. n - (k + 1) + 1 = n - k /\ \A i \in 1..(n - k) : k + 1 + i - 1 = k + i
    BY <2>2
  <2>7. \A i \in 1..(n - k) : buf[i] = s[k + i]
    BY <2>4, <2>6
  <2> QED
    BY <2>1, <2>4, <2>5, <2>7
<1>5. inb \in SUBSET Messages
  BY <1>1, <1>3 DEF PeerType
<1>6. q \in PeerType /\ q.snd_buf = buf /\ q.dead = p.dead
  BY <1>1, <1>3, <1>4, <1>5 DEF PeerType
<1>7. /\ p.start <= h /\ h <= t /\ SegmentsInv(p, t) /\ Schedule(p, h, in)
      /\ p.start + p.LastPingTime <= h /\ t - g <= h
  BY DEF SilenceOf
<1>8. \A i \in 1..Len(buf) : k + i \in 1..Len(p.snd_buf) /\ q.snd_buf[i] = p.snd_buf[k + i]
  BY <1>3, <1>4, <1>6
<1>9. SegmentsInv(q, t)
  BY <1>6, <1>7, <1>8 DEF SegmentsInv
<1>10. \A any : Schedule(q, h, any)
  BY <1>6, <1>7, <1>8 DEF Schedule
<1>11. PICK u \in Int : u = t - g /\ u <= t /\ t <= u + MaxGap /\ u <= h
  BY <1>7, ConstantTypes
<1>12. Rested(q, h, u)
  <2>1. PING_INTERVAL \in Nat /\ PING_INTERVAL >= 1 /\ Latest(MaxRetransmits) \in Nat
    BY ConstantTypes, DetectionIs
  <2>2. u < h + PING_INTERVAL /\ u <= h + Latest(MaxRetransmits)
    BY <1>11, <2>1
  <2> QED
    BY <2>2, Zenon DEF Rested
<1>13. z.start = p.start /\ z.LastPingTime = p.LastPingTime
  BY InputLike DEF Like
<1>14. SegmentsInv(z, t) /\ Schedule(z, h, new) /\ Rested(z, h, u)
  <2>1. CASE z = q
    BY <1>9, <1>10, <1>12, <2>1
  <2>2. CASE z = Flush(q, t)
    <3>1. q.dead \/ q.snd_buf = <<>> \/ Visited(q, h, t)
      BY <1>6, <1>10, <1>11, <1>12, RestedVisited
    <3>2. t <= h + MaxGap
      BY <1>11, ConstantTypes
    <3>3. SegmentsInv(z, t) /\ Schedule(z, h, new)
      BY <1>6, <1>9, <1>10, <2>2, <3>1, <3>2, FlushInv
    <3>4. Rested(z, h, u)
      BY <1>6, <1>9, <1>10, <1>11, <1>12, <2>2, FlushRested
    <3> QED
      BY <3>3, <3>4
  <2> QED
    BY <1>2, <2>1, <2>2
<1> QED
  BY <1>7, <1>11, <1>13, <1>14 DEF SilenceOf

\* A server's peer, made by a first datagram that advertises w.
Heard(t, w) == [NewKcpPeer(t) EXCEPT !.rmt_wnd = w]

LEMMA NewlyHeard ==
  ASSUME NEW t \in Nat, NEW w \in Nat, NEW n, n = Heard(t, w)
  PROVE  /\ Typed(n) /\ Shape(n) /\ n.snd_buf = <<>> /\ ~n.dead /\ ~n.once
         /\ n.start = t /\ n.LastPingTime = 0 /\ n.LastPongTime = 0
<1>1. PICK z : z = NewKcpPeer(t)
  OBVIOUS
<1>2. Typed(z)
  BY <1>1, NewType
<1>3. /\ z.snd_buf = <<>> /\ ~z.dead /\ ~z.once /\ z.start = t /\ z.LastPingTime = 0
      /\ z.LastPongTime = 0
  BY <1>1 DEF NewKcpPeer
<1>6. n = [z EXCEPT !.rmt_wnd = w]
  BY <1>1 DEF Heard
<1>4. Typed(n)
  BY <1>2, <1>6 DEF Typed, PeerType
<1>5. Shape(n)
  BY <1>1, <1>6, NewShape DEF Shape
<1> QED
  BY <1>2, <1>3, <1>4, <1>5, <1>6 DEF Typed, PeerType

LEMMA ReceiveSilence ==
  ASSUME Lone, TypeOK, Inv, SilenceInv, NEW f \in Peers, Receive(f)
  PROVE  SilenceInv'
<1>1. PICK m \in sock[f] : Receive(f)!(m)
  BY DEF Receive
<1>2. m \in Messages
  BY DEF TypeOK
<1>3. PICK p, h, in, new : p = peer[f] /\ h = heard[f] /\ in = sock[f] /\ new = sock'[f]
  OBVIOUS
<1>4. phase = "receive" /\ UNCHANGED <<phase, todo, gap>> /\ new = in \ {m} /\ in # {}
  BY <1>1, <1>3 DEF TypeOK
<1>5. Typed(p) /\ now \in Nat /\ gap \in Nat /\ gap <= MaxGap /\ Shape(p)
  BY <1>3 DEF TypeOK, Typed, Inv, Shapes, SilenceInv
<1>6. CASE /\ \E w \in 0..RmtWnd :
                Begin(f, [SendReliable([NewKcpPeer(now) EXCEPT !.rmt_wnd = w], now)
                            EXCEPT !.state = "Authenticated"])
           /\ UNCHANGED <<now, drop>>
  <2> PICK w \in 0..RmtWnd :
             Begin(f, [SendReliable([NewKcpPeer(now) EXCEPT !.rmt_wnd = w], now)
                         EXCEPT !.state = "Authenticated"])
    BY <1>6
  <2>1. PICK n, r, z : /\ n = [NewKcpPeer(now) EXCEPT !.rmt_wnd = w]
                       /\ r = SendReliable(n, now) /\ z = [r EXCEPT !.state = "Authenticated"]
    OBVIOUS
  <2>2. peer'[f] = z /\ heard'[f] = now /\ now' = now
    BY <1>6, <2>1 DEF Begin, TypeOK
  <2>8. n = Heard(now, w)
    BY <2>1, Zenon DEF Heard
  <2>7. /\ Typed(n) /\ Shape(n) /\ n.snd_buf = <<>> /\ ~n.dead
        /\ n.start = now /\ n.LastPingTime = 0
    <3>1. w \in Nat /\ now \in Nat
      BY <1>5, ConstantTypes
    <3> QED
      BY <2>8, <3>1, NewlyHeard
  <2>3. SilenceOf(r, now, new, now, gap, "receive", f \in todo)
    BY <1>5, <2>1, <2>7, NewSilence
  <2>4. Typed(r)
    BY <1>5, <2>1, <2>7, SendReliableType
  <2>5. /\ z.start = r.start /\ z.LastPingTime = r.LastPingTime /\ z.snd_buf = r.snd_buf
        /\ z.dead = r.dead /\ z.rmt_wnd = r.rmt_wnd
    BY <2>1, <2>4 DEF Typed, PeerType
  <2>6. SilenceOf(z, now, new, now, gap, "receive", f \in todo)
    BY <2>3, <2>5, Frame DEF SilenceOf
  <2> QED
    BY <1>3, <1>4, <1>5, <2>2, <2>6, LoneStep
<1>7. CASE /\ Becomes(f, Disconnect(peer[f]), "bye")
           /\ UNCHANGED <<heard, lastTick, answered, refused>>
  <2>1. PICK z : z = Disconnect(p)
    OBVIOUS
  <2>2. z.once
    BY <1>5, <2>1, DisconnectLike
  <2>3. peer'[f] = z
    BY <1>3, <1>7, <2>1 DEF Becomes, TypeOK
  <2> QED
    BY <1>3, <1>4, <1>5, <2>2, <2>3, LoneStep
<1>8. CASE /\ peer[f].state \in {"Connected", "Authenticated"}
           /\ \E k \in (IF m = "Ack" THEN Sent(peer[f]) ELSE {0}), w \in 0..RmtWnd :
                Becomes(f, Input(peer[f], m, k, w, now), "none")
           /\ UNCHANGED <<heard, lastTick, answered, refused>>
  <2>1. PICK k \in (IF m = "Ack" THEN Sent(p) ELSE {0}), w \in 0..RmtWnd :
               Becomes(f, Input(p, m, k, w, now), "none")
    BY <1>3, <1>8
  <2>2. k \in 0..Len(p.snd_buf) /\ w \in Nat
    BY <1>5, <2>1, ConstantTypes DEF Sent, Typed, PeerType
  <2>3. PICK z : z = Input(p, m, k, w, now)
    OBVIOUS
  <2>4. z.once = p.once
    BY <1>5, <2>3, InputLike DEF Like
  <2>5. peer'[f] = z /\ now' = now + Slept(p, z) /\ heard'[f] = h
    BY <1>3, <1>8, <2>1, <2>3 DEF Becomes, TypeOK
  <2>6. now' = now
    BY <1>5, <2>4, <2>5, SleptNat
  <2>7. ASSUME ~z.once
        PROVE  SilenceOf(z, h, new, now, gap, "receive", f \in todo)
    <3>1. Live(f)
      BY <1>3, <1>8, <2>4, <2>7 DEF Live
    <3>2. h \in Nat /\ SilenceOf(p, h, in, now, gap, "receive", f \in todo)
      BY <1>3, <1>4, <3>1, LiveFacts
    <3> QED
      BY <1>2, <1>4, <1>5, <2>2, <2>3, <3>2, InputSilence
  <2> QED
    BY <1>3, <1>4, <1>5, <2>5, <2>6, <2>7, LoneStep
<1>9. CASE /\ \/ peer[f].state = "Disconnected"
              \/ m # "Hello" /\ peer[f].state = "None"
           /\ UNCHANGED <<now, peer, heard, lastTick, answered, refused, drop>>
  <2>1. peer'[f] = p /\ (p.once \/ p.state = "None")
    BY <1>3, <1>5, <1>9 DEF Shape
  <2> QED
    BY <1>3, <1>4, <1>5, <2>1, LoneStep
<1> QED
  BY <1>1, <1>6, <1>7, <1>8, <1>9

\* What TickIncoming leaves of a peer it does not drop.
Ticked(p, h, t) ==
  /\ Typed(p) /\ SegmentsInv(p, t) /\ Schedule(p, h, {}) /\ Visited(p, h, t)
  /\ (p.snd_buf = <<>> /\ p.rmt_wnd > 0) => p.start + p.LastPingTime <= h

\* SendPing and SendPong.
LEMMA SendTimedTicked ==
  ASSUME NEW p, Typed(p), Shape(p), NEW h \in Nat, NEW t \in Nat, NEW z, z = SendTimed(p, t),
         SegmentsInv(p, t), Schedule(p, h, {}),
         \/ Visited(p, h, t)
         \/ p.snd_buf = <<>> /\ t <= h + Latest(1) /\ ~p.dead
  PROVE  Ticked(z, h, t) /\ (z.snd_buf # <<>> \/ z.rmt_wnd = 0)
<1>1. PICK q : q = [p EXCEPT !.lastReceiveTime = Time(p, t)]
  OBVIOUS
<1>2. z = SendReliable(q, t) /\ q.snd_buf = p.snd_buf /\ q.dead = p.dead
      /\ q.rmt_wnd = p.rmt_wnd
  BY <1>1 DEF SendTimed, Typed, PeerType
<1>3. Typed(q)
  BY <1>1, TimeType DEF Typed, PeerType
<1>4. SegmentsInv(q, t) /\ Schedule(q, h, {}) /\ (Visited(p, h, t) => Visited(q, h, t))
  BY <1>2, Frame
<1>5. /\ SegmentsInv(z, t) /\ Schedule(z, h, {}) /\ Visited(z, h, t)
      /\ z.snd_buf # <<>> \/ z.rmt_wnd = 0
  BY <1>2, <1>3, <1>4, SendTick
<1>6. Typed(z)
  BY SendTimedType
<1> QED
  BY <1>5, <1>6, SMTT(30) DEF Ticked

LEMMA NotDue ==
  ASSUME NEW a \in Nat, NEW b \in Nat, NEW i \in Nat, NEW h \in Nat, NEW t \in Nat,
         ~(t - a >= b + i), a + b <= h
  PROVE  t < h + i
  OBVIOUS

\* A ping is sent as soon as none is on its way.
LEMMA PingSilence ==
  ASSUME NEW p, Typed(p), Shape(p), NEW h \in Nat, NEW in, NEW t \in Nat, NEW g \in Nat,
         g <= MaxGap, ~p.dead, SilenceOf(p, h, in, t, g, "tick", TRUE),
         NEW time \in Nat, time = t - p.start, time \in Uint32,
         (p.LastPingTime + PING_INTERVAL) % ClockSize = p.LastPingTime + PING_INTERVAL,
         NEW z, z = HandlePing(p, time, t)
  PROVE  Ticked(z, h, t) /\ in = {}
<1>1. /\ in = {} /\ SegmentsInv(p, t) /\ Schedule(p, h, {}) /\ Rested(p, h, t - g)
      /\ (p.snd_buf = <<>> /\ p.rmt_wnd > 0) => p.start + p.LastPingTime <= h
  <2>1. in = {}
    BY DEF SilenceOf
  <2> QED
    BY <2>1 DEF SilenceOf
<1>2. p \in PeerType /\ p.rmt_wnd \in Nat /\ p.start \in Nat /\ p.LastPingTime \in Nat
  BY DEF Typed, PeerType, Shape
<1>3. PICK u \in Int : u = t - g /\ t <= u + MaxGap /\ Rested(p, h, u)
  BY <1>1, ConstantTypes
<1>4. MaxGap \in Nat /\ PING_INTERVAL \in Nat /\ Latest(1) = PING_INTERVAL + MaxGap
  BY ConstantTypes, DetectionIs
<1>5. p.snd_buf # <<>> => Visited(p, h, t)
  BY <1>1, <1>2, <1>3, RestedVisited
<1>9. Shut(p) => Visited(p, h, t)
  BY DEF Visited
<1>6. p.snd_buf = <<>> /\ ~Shut(p) => t <= h + Latest(1)
  BY <1>3, <1>4 DEF Rested
<1>7. CASE time >= p.LastPingTime + PING_INTERVAL
  <2>1. PICK q : q = SendTimed(p, t)
    OBVIOUS
  <2>2. z = [q EXCEPT !.LastPingTime = time]
    BY <1>7, <2>1 DEF HandlePing
  <2>3. Ticked(q, h, t) /\ (q.snd_buf # <<>> \/ q.rmt_wnd = 0)
    BY <1>1, <1>5, <1>6, <1>9, <2>1, SendTimedTicked
  <2>4. z.snd_buf = q.snd_buf /\ z.dead = q.dead /\ z.rmt_wnd = q.rmt_wnd /\ Typed(z)
    BY <2>2, <2>3 DEF Ticked, Typed, PeerType
  <2> QED
    <3>1. SegmentsInv(z, t) /\ Schedule(z, h, {}) /\ Visited(z, h, t)
      BY <2>3, <2>4, Frame DEF Ticked
    <3>2. z.snd_buf # <<>> \/ ~(z.rmt_wnd > 0)
      BY <2>3, <2>4
    <3> QED
      BY <1>1, <2>4, <3>1, <3>2 DEF Ticked
<1>8. CASE ~(time >= p.LastPingTime + PING_INTERVAL)
  <2>1. z = p
    BY <1>8 DEF HandlePing
  <2>2. p.snd_buf = <<>> /\ p.rmt_wnd > 0 => t < h + PING_INTERVAL
    <3> SUFFICES ASSUME p.snd_buf = <<>>, p.rmt_wnd > 0 PROVE t < h + PING_INTERVAL
      OBVIOUS
    <3>1. p.start + p.LastPingTime <= h
      BY <1>1
    <3>2. PICK a \in Nat, b \in Nat, i \in Nat :
            a = p.start /\ b = p.LastPingTime /\ i = PING_INTERVAL
      BY <1>2, <1>4
    <3>3. ~(t - a >= b + i) /\ a + b <= h
      BY <1>8, <3>1, <3>2, Zenon
    <3> QED
      BY <3>2, <3>3, NotDue
  <2>3. Visited(p, h, t)
    <3>1. p.snd_buf = <<>> => Shut(p) \/ p.rmt_wnd > 0
      BY <1>2 DEF Shut
    <3> QED
      BY <1>5, <1>9, <2>2, <3>1 DEF Visited
  <2> QED
    BY <1>1, <2>1, <2>3 DEF Ticked
<1> QED
  BY <1>7, <1>8

LEMMA ReceivedSilence ==
  ASSUME NEW p, NEW h \in Nat, NEW t \in Nat, Ticked(p, h, t), Shape(p), NEW time \in Uint32, NEW z,
         z = ReceiveAll(p, time, t) \/ z = ReceiveHello(p, t)
  PROVE  Ticked(z, h, t)
<1>0. Typed(p) /\ Time(p, t) \in Uint32
  BY TimeType DEF Ticked, Typed
<1>1. CASE z = ReceiveHello(p, t)
  <2>1. Typed(z)
    BY <1>0, <1>1, ReceiveHelloType
  <2>2. /\ z.snd_buf = p.snd_buf /\ z.dead = p.dead /\ z.start = p.start /\ z.LastPingTime = p.LastPingTime
        /\ z.rmt_wnd = p.rmt_wnd
    BY <1>0, <1>1 DEF ReceiveHello, Typed, PeerType
  <2> QED
    BY <2>1, <2>2, Frame DEF Ticked
<1>2. CASE z = ReceiveAll(p, time, t)
  <2>1. PICK q, r : /\ q = IF p.inbox = {} THEN p
                           ELSE [p EXCEPT !.inbox = {}, !.lastReceiveTime = Time(p, t)]
                    /\ r = SendTimed(q, t)
    OBVIOUS
  <2>2. z = q \/ z = [r EXCEPT !.LastPongTime = time]
    BY <1>2, <2>1 DEF ReceiveAll
  <2>3. Typed(q)
    BY <1>0, <2>1 DEF Typed, PeerType
  <2>4. /\ q.snd_buf = p.snd_buf /\ q.dead = p.dead /\ q.start = p.start
        /\ q.LastPingTime = p.LastPingTime /\ q.rmt_wnd = p.rmt_wnd
    BY <1>0, <2>1 DEF Typed, PeerType
  <2>5. Shape(q)
    BY <1>0, <2>1, TimeNat DEF Shape
  <2>6. Ticked(q, h, t)
    BY <2>3, <2>4, Frame DEF Ticked
  <2>7. Ticked(r, h, t) /\ (r.snd_buf # <<>> \/ r.rmt_wnd = 0)
    BY <2>1, <2>3, <2>5, <2>6, SendTimedTicked DEF Ticked
  <2>8. CASE z = q
    BY <2>6, <2>8
  <2>9. CASE z = [r EXCEPT !.LastPongTime = time]
    <3>1. z.snd_buf = r.snd_buf /\ z.dead = r.dead /\ z.rmt_wnd = r.rmt_wnd /\ Typed(z)
      BY <2>7, <2>9 DEF Ticked, Typed, PeerType
    <3> QED
      BY <2>7, <3>1, Frame DEF Ticked
  <2> QED
    BY <2>2, <2>8, <2>9
<1> QED
  BY <1>1, <1>2

LEMMA TickIncomingSilence ==
  ASSUME Lone, NoWrap, TypeOK, Inv, SilenceInv, NEW f \in Peers, TickIncoming(f)
  PROVE  SilenceInv'
<1>1. PICK p, h, in, time, p1, p2, t, p3 :
        /\ p = peer[f] /\ h = heard[f] /\ in = sock[f]
        /\ time = Time(p, now) /\ p1 = HandleTimeout(p, time)
        /\ p2 = HandleDeadLink(p1) /\ t = now + Slept(p, p2)
        /\ p3 = HandlePing(p2, time, t)
  OBVIOUS
<1>2. Typed(p) /\ Shape(p) /\ now \in Nat /\ gap \in Nat /\ gap <= MaxGap /\ time \in Nat
  BY <1>1, TimeNat DEF TypeOK, Typed, Inv, Shapes, SilenceInv
<1>3. time \in Uint32
  BY <1>1, <1>2, TimeType DEF Typed
<1>4. Shape(p1) /\ (~p1.once => p1 = p)
  BY <1>1, <1>2, HandleTimeoutLike
<1>5. Shape(p2) /\ (~p2.once => p2 = p1 /\ ~p1.once /\ ~p1.dead)
  <2>1. Shape(p2) /\ (~p2.once => p2 = p1) /\ (p1.once => p2.once)
    BY <1>1, <1>4, HandleDeadLinkLike
  <2>2. p1.dead => p2.once
    BY <1>1, <1>4, DisconnectLike DEF HandleDeadLink
  <2> QED
    BY <2>1, <2>2
<1>6. t \in Nat
  BY <1>1, <1>2, SleptNat
<1>7. Shape(p3) /\ p3.once = p2.once /\ p3.start = p2.start
  <2>1. Shape(p2) /\ time \in Nat /\ t \in Nat
    BY <1>2, <1>5, <1>6
  <2>2. /\ Shape(HandlePing(p2, time, t)) /\ HandlePing(p2, time, t).start = p2.start
        /\ HandlePing(p2, time, t).once = p2.once
    BY <2>1, HandlePingLike, Zenon
  <2> QED
    BY <1>1, <2>2
<1>8. /\ f \in todo /\ f \notin todo' /\ phase = "tick"
      /\ UNCHANGED <<sock, phase, gap, heard>>
  BY DEF TickIncoming
<1>9. ASSUME NEW z, peer'[f] = z, now' = now + Slept(p, z), z.once = p3.once, p.state # "None",
             z = ReceiveAll(p3, time, t) \/ z = ReceiveHello(p3, t)
      PROVE  SilenceInv'
  <2>1. ASSUME ~z.once
        PROVE  SilenceOf(z, h, in, now', gap, "tick", FALSE)
    <3>1. p2 = p /\ ~p.once /\ ~p.dead
      BY <1>4, <1>5, <1>7, <1>9, <2>1
    <3>2. now' = now /\ t = now
      BY <1>1, <1>2, <1>9, <2>1, <3>1, SleptNat
    <3>3. Live(f)
      BY <1>1, <1>9, <3>1 DEF Live
    <3>4. /\ h \in Nat /\ SilenceOf(p, h, in, now, gap, "tick", TRUE)
          /\ Timers(p, lastTick[f], now) /\ lastTick[f] \in Nat
      BY <1>1, <1>8, <3>3, LiveFacts DEF TypeOK
    <3>5. p.start <= now /\ now + Timeout + PING_INTERVAL < ClockSize /\ p.start \in Nat
          /\ p.LastPingTime \in Nat /\ p.start + p.LastPingTime <= now
      BY <1>2, <3>4 DEF NoWrap, Timers, Shape
    <3>6. time = now - p.start
      BY <1>1, <1>2, <3>5, TimeUnwrapped, ConstantTypes
    <3>7. (p.LastPingTime + PING_INTERVAL) % ClockSize = p.LastPingTime + PING_INTERVAL
      <4>1. /\ p.LastPingTime + PING_INTERVAL \in Nat /\ ClockSize \in Nat
            /\ p.LastPingTime + PING_INTERVAL < ClockSize
        BY <1>2, <3>5, ConstantTypes
      <4> QED
        BY <4>1, ModSmall
    <3>8. Ticked(p3, h, now) /\ in = {}
      <4>1. p3 = HandlePing(p, time, now)
        BY <1>1, <3>1, <3>2
      <4> QED
        BY <1>2, <1>3, <3>1, <3>4, <3>6, <3>7, <4>1, PingSilence, ZenonT(60)
    <3>9. Ticked(z, h, now)
      BY <1>2, <1>3, <1>7, <1>9, <3>2, <3>4, <3>8, ReceivedSilence
    <3>10. z.start = p.start
      <4>1. p3.start = p2.start
        BY <1>7
      <4>2. z.start = p3.start
        BY <1>6, <1>7, <1>9, ReceiveAllLike, ReceiveHelloLike
      <4> QED
        BY <3>1, <4>1, <4>2
    <3>11. z.start <= h /\ h <= now
      BY <3>4, <3>10 DEF SilenceOf
    <3> QED
      BY <3>2, <3>8, <3>9, <3>11 DEF SilenceOf, Ticked
  <2>2. heard'[f] = h /\ sock'[f] = in /\ gap' = gap /\ phase' = "tick" /\ FALSE = (f \in todo')
    BY <1>1, <1>8
  <2> QED
    BY <1>2, <1>9, <2>1, <2>2, LoneStep
<1>10. \/ \E why : Becomes(f, ReceiveHello(p3, t), why) /\ p.state # "None"
       \/ \E why : Becomes(f, ReceiveAll(p3, time, t), why) /\ p.state # "None"
       \/ p.state = "Disconnected" /\ peer' = peer
  BY <1>1 DEF TickIncoming
<1>11. CASE \E why : Becomes(f, ReceiveHello(p3, t), why) /\ p.state # "None"
  <2>1. PICK z : z = ReceiveHello(p3, t)
    OBVIOUS
  <2>2. z.once = p3.once
    BY <1>6, <1>7, <2>1, ReceiveHelloLike
  <2>3. peer'[f] = z /\ now' = now + Slept(p, z)
    BY <1>1, <1>11, <2>1 DEF Becomes, TypeOK
  <2> QED
    BY <1>9, <1>11, <2>1, <2>2, <2>3
<1>12. CASE \E why : Becomes(f, ReceiveAll(p3, time, t), why) /\ p.state # "None"
  <2>1. PICK z : z = ReceiveAll(p3, time, t)
    OBVIOUS
  <2>2. z.once = p3.once
    BY <1>6, <1>7, <2>1, ReceiveAllLike
  <2>3. peer'[f] = z /\ now' = now + Slept(p, z)
    BY <1>1, <1>12, <2>1 DEF Becomes, TypeOK
  <2> QED
    BY <1>9, <1>12, <2>1, <2>2, <2>3
<1>13. CASE p.state = "Disconnected" /\ peer' = peer
  <2>1. peer'[f] = p /\ p.once
    BY <1>1, <1>2, <1>13 DEF Shape
  <2>2. gap' = gap
    BY <1>8
  <2> QED
    BY <1>2, <2>1, <2>2, LoneStep
<1> QED
  BY <1>10, <1>11, <1>12, <1>13

\* TickOutgoing: flush transmits what is due; a peer that is not flushed yet
\* is younger than Interval.
LEMMA TickOutgoingSilence ==
  ASSUME Lone, Interval <= PING_INTERVAL, NoWrap, TypeOK, Inv, SilenceInv,
         NEW f \in Peers, TickOutgoing(f)
  PROVE  SilenceInv'
<1>1. PICK p, h, in, p1, t, q, r :
        /\ p = peer[f] /\ h = heard[f] /\ in = sock[f] /\ p1 = HandleDeadLink(p)
        /\ t = now + Slept(p, p1) /\ q = Flush(p1, t)
        /\ r = [q EXCEPT !.flushInterval = NearestRto(q.snd_buf, t)]
  OBVIOUS
<1>2. Typed(p) /\ Shape(p) /\ now \in Nat /\ gap \in Nat /\ gap <= MaxGap
  BY <1>1 DEF TypeOK, Typed, Inv, Shapes, SilenceInv
<1>3. Shape(p1) /\ (~p1.once => p1 = p) /\ (p.once => p1.once) /\ (p.dead => p1.once)
  <2>1. Shape(p1) /\ (~p1.once => p1 = p) /\ (p.once => p1.once)
    BY <1>1, <1>2, HandleDeadLinkLike
  <2>2. p.dead => p1.once
    BY <1>1, <1>2, DisconnectLike DEF HandleDeadLink
  <2> QED
    BY <2>1, <2>2
<1>4. Typed(p1) /\ t \in Nat
  BY <1>1, <1>2, HandleType, SleptNat
<1>5. Typed(q) /\ Like(p1, q)
  BY <1>1, <1>3, <1>4, FlushType, FlushLike DEF Typed
<1>6. /\ r.snd_buf = q.snd_buf /\ r.dead = q.dead /\ r.start = q.start
      /\ r.LastPingTime = q.LastPingTime /\ r.once = q.once /\ r.rmt_wnd = q.rmt_wnd
  BY <1>1, <1>5 DEF Typed, PeerType
<1>7. /\ f \in todo /\ f \notin todo' /\ phase = "flush"
      /\ UNCHANGED <<sock, phase, gap, heard>>
  BY DEF TickOutgoing
<1>8. ASSUME NEW z, peer'[f] = z, now' = now + Slept(p, z), p.state # "None",
             \/ z = r
             \/ z = p1 /\ p1.flushInterval # 0 /\ ~(Time(p1, t) >= p1.flushInterval)
      PROVE  SilenceInv'
  <2>1. ASSUME ~z.once
        PROVE  SilenceOf(z, h, in, now', gap, "flush", FALSE)
    <3>1. ~p1.once
      BY <1>5, <1>6, <1>8, <2>1 DEF Like
    <3>2. p1 = p /\ ~p.once /\ ~p.dead
      BY <1>3, <3>1
    <3>3. now' = now /\ t = now
      BY <1>1, <1>2, <1>8, <2>1, <3>1, SleptNat
    <3>4. Live(f)
      BY <1>1, <1>8, <3>2 DEF Live
    <3>5. /\ h \in Nat /\ p \in PeerType /\ SilenceOf(p, h, in, now, gap, "flush", TRUE)
          /\ Timers(p, lastTick[f], now) /\ lastTick[f] \in Nat
      BY <1>1, <1>7, <3>4, LiveFacts DEF TypeOK
    <3>6. /\ in = {} /\ SegmentsInv(p, now) /\ Schedule(p, h, {}) /\ Visited(p, h, now)
          /\ p.start <= h /\ h <= now
          /\ ((p.snd_buf = <<>> /\ p.rmt_wnd > 0) => p.start + p.LastPingTime <= h)
      BY <3>5 DEF SilenceOf
    <3>7. CASE z = r
      <4>1. q = Flush(p, now)
        BY <1>1, <3>2, <3>3
      <4>2. SegmentsInv(q, now) /\ Schedule(q, h, {})
        BY <1>2, <3>5, <3>6, <4>1, FlushInv
      <4>3. Rested(q, h, now)
        BY <1>2, <3>5, <3>6, <4>1, FlushVisited
      <4>4. (q.snd_buf = <<>> => p.snd_buf = <<>>) /\ q.rmt_wnd = p.rmt_wnd
        BY <1>2, <3>5, <4>1, FlushShut
      <4>5. SegmentsInv(z, now) /\ Schedule(z, h, {}) /\ Rested(z, h, now)
        BY <1>6, <3>7, <4>2, <4>3, Frame
      <4>6. /\ z.start = p.start /\ z.LastPingTime = p.LastPingTime
            /\ z.snd_buf = <<>> => p.snd_buf = <<>>
            /\ z.rmt_wnd = p.rmt_wnd
        BY <1>5, <1>6, <3>2, <3>7, <4>4 DEF Like
      <4> QED
        BY <3>3, <3>6, <4>5, <4>6 DEF SilenceOf
    <3>8. CASE z = p1 /\ p1.flushInterval # 0 /\ ~(Time(p1, t) >= p1.flushInterval)
      <4>1. p.start \in Nat /\ p.start <= now /\ p.flushInterval \in 0..Interval
        BY <1>2, <3>5, <3>6 DEF Shape, PeerType, Timers
      <4>2. now < ClockSize
        BY <1>2, ConstantTypes DEF NoWrap
      <4>3. Time(p, now) = now - p.start
        BY <1>2, <4>1, <4>2, TimeUnwrapped
      <4>4. now - p.start < p.flushInterval
        BY <1>2, <3>2, <3>3, <3>8, <4>1, <4>3
      <4>5. now < h + PING_INTERVAL
        BY <1>2, <3>5, <3>6, <4>1, <4>4, ConstantTypes
      <4>6. Rested(p, h, now)
        BY <3>2, <4>5 DEF Rested
      <4> QED
        BY <3>2, <3>3, <3>6, <3>8, <4>6 DEF SilenceOf
    <3> QED
      BY <1>8, <3>7, <3>8
  <2>2. heard'[f] = h /\ sock'[f] = in /\ gap' = gap /\ phase' = "flush" /\ FALSE = (f \in todo')
    BY <1>1, <1>7
  <2> QED
    BY <1>2, <1>8, <2>1, <2>2, LoneStep
<1>9. CASE p.state = "Disconnected"
  <2>1. peer' = peer
    BY <1>1, <1>9 DEF TickOutgoing
  <2>2. peer'[f] = p /\ p.once
    BY <1>1, <1>2, <1>9, <2>1 DEF Shape
  <2>3. gap' = gap
    BY <1>7
  <2> QED
    BY <1>2, <2>2, <2>3, LoneStep
<1>10. CASE p.state = "None"
  <2>1. p1.state = "None" \/ p1.once
    BY <1>3, <1>10
  <2>2. peer'[f] \in {r, p1}
    BY <1>1, <1>10 DEF TickOutgoing, Becomes, TypeOK
  <2>3. r.state = "None" \/ r.once
    <3>1. q.state = p1.state
      BY <1>1, <1>3, FlushLike
    <3>2. r.state = q.state
      BY <1>1, <1>5 DEF Typed, PeerType
    <3> QED
      BY <1>5, <1>6, <2>1, <3>1, <3>2 DEF Like
  <2>4. gap' = gap
    BY <1>7
  <2>5. PICK z : peer'[f] = z /\ (z.state = "None" \/ z.once)
    BY <2>1, <2>2, <2>3
  <2> QED
    BY <1>2, <2>4, <2>5, LoneStep
<1>11. CASE p.state # "Disconnected" /\ p.state # "None"
  <2>1. PICK z : /\ z = IF p1.flushInterval = 0 \/ Time(p1, t) >= p1.flushInterval THEN r ELSE p1
    OBVIOUS
  <2>2. Becomes(f, z, "dead_link")
    BY <1>1, <1>11, <2>1, Zenon DEF TickOutgoing
  <2>3. peer'[f] = z /\ now' = now + Slept(p, z)
    BY <1>1, <2>2 DEF Becomes, TypeOK
  <2> QED
    BY <1>8, <1>11, <2>1, <2>3
<1> QED
  BY <1>9, <1>10, <1>11

LEMMA InitSilence == Init => SilenceInv
  BY NoPeerShape, ConstantTypes DEF Init, SilenceInv, Live

LEMMA NextSilence ==
  ASSUME Lone, Interval <= PING_INTERVAL
  PROVE  NoWrap /\ TypeOK /\ Inv /\ SilenceInv /\ [Next]_vars => SilenceInv'
<1> SUFFICES ASSUME NoWrap, TypeOK, Inv, SilenceInv, [Next]_vars
             PROVE  SilenceInv'
  OBVIOUS
<1>1. CASE Wait \/ BeginTick \/ EndReceive \/ EndIncoming \/ EndTick
  BY <1>1, TickerSilence
<1>2. CASE UNCHANGED vars
  BY <1>2 DEF vars, SilenceInv, Live, SilenceOf
<1> QED
  BY <1>1, <1>2, ConnectSilence, SendSilence, ReceiveSilence, ArriveSilence,
     TickIncomingSilence, TickOutgoingSilence DEF Next

LEMMA SilenceBounded ==
  ASSUME TypeOK, Inv, SilenceInv
  PROVE  SilentPeerIsDropped
<1> SUFFICES ASSUME NEW f \in Peers, peer[f].state # "None", ~peer[f].once, ~Shut(peer[f])
             PROVE  now - heard[f] <= DetectionTime
  BY DEF SilentPeerIsDropped
<1>1. PICK p, h, in : p = peer[f] /\ h = heard[f] /\ in = sock[f]
  OBVIOUS
<1>2. Live(f)
  BY DEF Live
<1>3. /\ p \in PeerType /\ h \in Nat /\ now \in Nat /\ gap \in Nat /\ gap <= MaxGap
      /\ now - gap \in Int /\ SilenceOf(p, h, in, now, gap, phase, f \in todo)
  BY <1>1, <1>2, LiveFacts
<1>4. /\ DetectionTime = Latest(MaxRetransmits) + MaxGap /\ Latest(MaxRetransmits) \in Nat
      /\ MaxGap \in Nat
  BY DetectionIs, ConstantTypes
<1>5. phase \in {"idle", "receive", "tick", "flush"}
  BY DEF TypeOK
<1>6. SegmentsInv(p, now) /\ Schedule(p, h, in)
  BY <1>3 DEF SilenceOf
<1>7. CASE phase \in {"idle", "receive"} \/ (phase = "tick" /\ f \in todo)
  <2>1. PICK u \in Int : u = now - gap /\ Rested(p, h, u)
    BY <1>3, <1>7 DEF SilenceOf
  <2>2. u <= h + Latest(MaxRetransmits)
    BY <1>1, <1>3, <1>6, <2>1, RestedBound
  <2> QED
    BY <1>1, <1>3, <1>4, <2>1, <2>2
<1>8. CASE (phase = "tick" /\ f \notin todo) \/ (phase = "flush" /\ f \in todo)
  <2>1. Visited(p, h, now)
    BY <1>3, <1>8 DEF SilenceOf
  <2>2. now <= h + Latest(MaxRetransmits)
    BY <1>1, <1>3, <1>6, <2>1, VisitedBound
  <2> QED
    BY <1>1, <1>3, <1>4, <2>2
<1>9. CASE phase = "flush" /\ f \notin todo
  <2>1. Rested(p, h, now)
    BY <1>3, <1>9 DEF SilenceOf
  <2>2. now <= h + Latest(MaxRetransmits)
    BY <1>1, <1>3, <1>6, <2>1, RestedBound
  <2> QED
    BY <1>1, <1>3, <1>4, <2>2
<1> QED
  BY <1>5, <1>7, <1>8, <1>9

(***************************************************************************)
(* For every MaxRetransmits, rto, backoff, pause of the application and    *)
(* size of the windows: a connected peer whose far end did not leave it a  *)
(* closed window and nothing in flight (Shut) is never older than          *)
(* DetectionTime without a datagram of it.  HandlePing and flush see to    *)
(* it, not HandleTimeout.  There is one far end, for another one's         *)
(* Disconnect holds the ticker up; and Interval is no longer than          *)
(* PING_INTERVAL, for TickOutgoing may leave out the flushes of a session  *)
(* that is younger than Interval.                                          *)
(***************************************************************************)
THEOREM SilenceIsFound ==
  Lone /\ Interval <= PING_INTERVAL /\ Spec /\ []NoWrap => []SilentPeerIsDropped
<1> SUFFICES ASSUME Lone, Interval <= PING_INTERVAL
             PROVE  Spec /\ []NoWrap => []SilentPeerIsDropped
  OBVIOUS
<1>1. NoWrap /\ TypeOK /\ Inv /\ SilenceInv /\ [Next]_vars => SilenceInv'
  BY NextSilence
<1>2. TypeOK /\ Inv /\ SilenceInv => SilentPeerIsDropped
  BY SilenceBounded
<1> QED
  BY <1>1, <1>2, InitType, NextType, InitInv, NextInv, InitSilence, PTL DEF Spec

----------------------------------------------------------------------------
(* Pings are answered *)

\* q has the pong timer and the clock of p.
SamePong(p, q) == q.start = p.start /\ q.LastPongTime = p.LastPongTime

(***************************************************************************)
(* LastPongTime is the time of the last pong that was due, on the clock of *)
(* this session: it was sent then, or there was no room for it.  It is     *)
(* zero at first, for a peer never disconnected was never Reset.           *)
(***************************************************************************)
Ponged(p, a, b, t) ==
  /\ a <= p.start + p.LastPongTime /\ b <= p.start + p.LastPongTime
  /\ p.start + p.LastPongTime <= t
  /\ p.start + p.LastPongTime <= a \/ p.start + p.LastPongTime <= b

PongInv == \A f \in Peers : Live(f) => Ponged(peer[f], answered[f], refused[f], now)

LEMMA FlushPong ==
  ASSUME NEW p \in PeerType, NEW t
  PROVE  SamePong(p, Flush(p, t)) /\ Flush(p, t).inbox = p.inbox
  BY DEF PeerType, SamePong, Flush

LEMMA SendReliablePong ==
  ASSUME NEW p \in PeerType, NEW t, NEW z, z = SendReliable(p, t)
  PROVE  SamePong(p, z) /\ z.inbox = p.inbox
<1>1. PICK q : q = [p EXCEPT !.snd_buf = Append(@, Unsent)]
  OBVIOUS
<1>2. q \in PeerType
  BY <1>1, AppendType
<1>3. SamePong(p, q) /\ q.inbox = p.inbox
  BY <1>1 DEF SamePong, PeerType
<1>4. SamePong(p, Flush(q, t)) /\ Flush(q, t).inbox = p.inbox
  BY <1>2, <1>3, FlushPong DEF SamePong
<1>5. SamePong(p, p)
  BY DEF SamePong
<1>6. z \in {p, q, Flush(q, t)}
  BY <1>1 DEF SendReliable, Unsent
<1> QED
  BY <1>3, <1>4, <1>5, <1>6

LEMMA SendTimedPong ==
  ASSUME NEW p \in PeerType, NEW t \in Nat, NEW z, z = SendTimed(p, t)
  PROVE  SamePong(p, z) /\ z.inbox = p.inbox
<1>1. PICK q : q = [p EXCEPT !.lastReceiveTime = Time(p, t)]
  OBVIOUS
<1>2. q \in PeerType /\ SamePong(p, q) /\ q.inbox = p.inbox
  BY <1>1, TimeType DEF SamePong, PeerType
<1>3. z = SendReliable(q, t)
  BY <1>1 DEF SendTimed
<1> QED
  BY <1>2, <1>3, SendReliablePong DEF SamePong

LEMMA HandlePingPong ==
  ASSUME NEW p, Typed(p), NEW time, NEW t \in Nat, NEW z, z = HandlePing(p, time, t)
  PROVE  SamePong(p, z) /\ z.inbox = p.inbox
<1>1. PICK q : q = SendTimed(p, t)
  OBVIOUS
<1>2. SamePong(p, q) /\ q.inbox = p.inbox /\ q \in PeerType
  BY <1>1, SendTimedPong, SendTimedType DEF Typed
<1>3. z = p \/ z = [q EXCEPT !.LastPingTime = time]
  BY <1>1 DEF HandlePing
<1> QED
  BY <1>2, <1>3 DEF SamePong, PeerType

LEMMA InputPong ==
  ASSUME NEW p, Typed(p), NEW m \in Messages, NEW k \in 0..Len(p.snd_buf), NEW w \in Nat, NEW t \in Nat,
         NEW z, z = Input(p, m, k, w, t)
  PROVE  SamePong(p, z)
<1>1. PICK inb, buf, q : /\ inb = (IF m = "Ack" THEN p.inbox ELSE p.inbox \cup {m})
                         /\ buf = SubSeq(p.snd_buf, k + 1, Len(p.snd_buf))
                         /\ q = [p EXCEPT !.inbox = inb, !.rmt_wnd = w, !.snd_buf = buf]
  BY Zenon
<1>2. z = q \/ z = Flush(q, t)
  BY <1>1 DEF Input
<1>3. SamePong(p, q)
  BY <1>1 DEF Typed, PeerType, SamePong
<1>4. SamePong(q, Flush(q, t))
  <2>1. q = [q EXCEPT !.inbox = inb] /\ p \in PeerType
    BY <1>1 DEF Typed, PeerType
  <2> QED
    BY <1>1, <2>1 DEF Flush, SamePong, PeerType
<1> QED
  BY <1>2, <1>3, <1>4 DEF SamePong

LEMMA PongedLater ==
  ASSUME NEW p \in PeerType, NEW a, NEW b, NEW t \in Nat, NEW u \in Nat, t <= u, Ponged(p, a, b, t)
  PROVE  Ponged(p, a, b, u)
<1>1. p.start \in Nat /\ p.LastPongTime \in Nat
  BY ConstantTypes DEF PeerType, Uint32
<1>2. PICK last \in Nat : last = p.start + p.LastPongTime
  BY <1>1
<1>3. a <= last /\ b <= last /\ last <= u /\ (last <= a \/ last <= b)
  BY <1>2 DEF Ponged
<1> QED
  BY <1>2, <1>3, Zenon DEF Ponged

\* What becomes of a peer takes no less than no time.
LEMMA BecomesLater ==
  ASSUME TypeOK, NEW f \in Peers, NEW q, NEW why, Becomes(f, q, why)
  PROVE  now' \in Nat /\ now <= now' /\ peer' = [peer EXCEPT ![f] = q]
<1>1. now' = now + Slept(peer[f], q) /\ peer' = [peer EXCEPT ![f] = q] /\ now \in Nat
  BY DEF Becomes, TypeOK
<1>2. Slept(peer[f], q) \in Nat
  BY ConstantTypes DEF Slept
<1> QED
  BY <1>1, <1>2

\* Time passes, and of the peers and the history of pongs only f's may change.
Only(f) ==
  /\ now' \in Nat /\ now <= now'
  /\ \A g \in Peers \ {f} : /\ peer'[g] = peer[g] /\ answered'[g] = answered[g]
                           /\ refused'[g] = refused[g]

LEMMA PongStep ==
  ASSUME TypeOK, PongInv, NEW f \in Peers, Only(f),
         (peer'[f].state # "None" /\ ~peer'[f].once)
            => Ponged(peer'[f], answered'[f], refused'[f], now')
  PROVE  PongInv'
<1> SUFFICES ASSUME NEW g \in Peers, peer'[g].state # "None", ~peer'[g].once
             PROVE  Ponged(peer'[g], answered'[g], refused'[g], now')
  BY DEF PongInv, Live, Ponged
<1>1. CASE g = f
  BY <1>1
<1>2. CASE g # f
  <2>1. peer'[g] = peer[g] /\ answered'[g] = answered[g] /\ refused'[g] = refused[g]
    BY <1>2 DEF Only
  <2>2. Ponged(peer[g], answered[g], refused[g], now)
    BY <2>1 DEF PongInv, Live
  <2>3. Ponged(peer[g], answered[g], refused[g], now')
    BY <2>2, PongedLater DEF TypeOK, Only
  <2> QED
    BY <2>1, <2>3
<1> QED
  BY <1>1, <1>2

\* One that answers nothing.
LEMMA QuietStep ==
  ASSUME TypeOK, PongInv, NEW f \in Peers, Only(f), UNCHANGED <<answered, refused>>,
         (peer'[f].state # "None" /\ ~peer'[f].once)
            => SamePong(peer[f], peer'[f]) /\ peer[f].state # "None" /\ ~peer[f].once
  PROVE  PongInv'
<1>1. ASSUME peer'[f].state # "None", ~peer'[f].once
      PROVE  Ponged(peer'[f], answered'[f], refused'[f], now')
  <2>1. Ponged(peer[f], answered[f], refused[f], now) /\ SamePong(peer[f], peer'[f])
    BY <1>1 DEF PongInv, Live
  <2>2. Ponged(peer[f], answered[f], refused[f], now')
    BY <2>1, PongedLater DEF TypeOK, Only
  <2>3. answered'[f] = answered[f] /\ refused'[f] = refused[f]
    OBVIOUS
  <2> QED
    BY <2>1, <2>2, <2>3, Zenon DEF Ponged, SamePong
<1> QED
  BY <1>1, PongStep

\* TickIncoming, seen by a peer that was not disconnected before.
LEMMA TickTime ==
  ASSUME TypeOK, Inv, NoWrap, NEW f \in Peers, Live(f)
  PROVE  /\ Time(peer[f], now) = now - peer[f].start
         /\ peer[f].start \in Nat /\ peer[f].start <= now /\ now \in Nat /\ now < ClockSize
<1>1. Shape(peer[f]) /\ Timers(peer[f], lastTick[f], now) /\ now \in Nat /\ lastTick[f] \in Nat
  BY DEF Inv, Shapes, TimersInv, Live
<1>2. peer[f].start \in Nat /\ peer[f].start <= now
  BY <1>1 DEF Shape, Timers
<1>3. now < ClockSize
  BY <1>1, ConstantTypes DEF NoWrap
<1> QED
  BY <1>1, <1>2, <1>3, TimeUnwrapped

\* In a first session a pong is due by LastPongTime when it is by the history.
LEMMA DuePong ==
  ASSUME NoWrap, TypeOK, Inv, PongInv, NEW f \in Peers, Live(f)
  PROVE  PongDue(peer[f], Time(peer[f], now)) <=> "Ping" \in peer[f].inbox /\ Due(f)
<1>1. PICK p, time : p = peer[f] /\ time = Time(p, now)
  OBVIOUS
<1>2. time = now - p.start /\ p.start \in Nat /\ p.start <= now /\ now \in Nat
  BY <1>1, TickTime
<1>3. /\ Ponged(p, answered[f], refused[f], now) /\ p.LastPongTime \in Nat
      /\ answered[f] \in Nat /\ refused[f] \in Nat
  BY <1>1, ConstantTypes DEF PongInv, TypeOK, PeerType, Uint32
<1>4. PICK last \in Nat : last = p.start + p.LastPongTime
  BY <1>2, <1>3
<1>5. /\ answered[f] <= last /\ refused[f] <= last /\ last <= now
      /\ last <= answered[f] \/ last <= refused[f]
  BY <1>3, <1>4 DEF Ponged
<1>6. (p.LastPongTime + PING_INTERVAL) % ClockSize = p.LastPongTime + PING_INTERVAL
  <2>1. p.LastPongTime <= now /\ PING_INTERVAL \in Nat /\ ClockSize \in Nat /\ Timeout \in Nat
    BY <1>2, <1>3, <1>4, <1>5, ConstantTypes
  <2>2. p.LastPongTime + PING_INTERVAL \in Nat /\ p.LastPongTime + PING_INTERVAL < ClockSize
    BY <1>2, <1>3, <2>1 DEF NoWrap
  <2> QED
    BY <2>1, <2>2, ModSmall
<1>7. time >= p.LastPongTime + PING_INTERVAL <=> now - last >= PING_INTERVAL
  BY <1>2, <1>3, <1>4, ConstantTypes
<1>8. Due(f) <=> now - last >= PING_INTERVAL
  BY <1>2, <1>3, <1>5, ConstantTypes DEF Due
<1> QED
  BY <1>1, <1>6, <1>7, <1>8 DEF PongDue

LEMMA DisconnectPong ==
  ASSUME NEW p, Typed(p)
  PROVE  SamePong(p, Disconnect(p)) /\ Disconnect(p).inbox = p.inbox
  BY DEF Disconnect, SamePong, Typed, PeerType

\* The pong is sent when it is due and there is room for it.
LEMMA SendTimedLen ==
  ASSUME NEW p, Typed(p), NEW t \in Nat
  PROVE  /\ Len(p.snd_buf) \in Nat
         /\ Len(SendTimed(p, t).snd_buf) = IF Room(p) THEN Len(p.snd_buf) + 1 ELSE Len(p.snd_buf)
<1>1. PICK q, z : q = [p EXCEPT !.lastReceiveTime = Time(p, t)] /\ z = SendTimed(p, t)
  OBVIOUS
<1>2. z = SendReliable(q, t)
  BY <1>1 DEF SendTimed
<1>3. q \in PeerType /\ q.snd_buf = p.snd_buf /\ q.rmt_wnd = p.rmt_wnd
  BY <1>1, TimeType DEF Typed, PeerType
<1>4. PICK n : n = [q EXCEPT !.snd_buf = Append(@, Unsent)]
  OBVIOUS
<1>5. n \in PeerType /\ Len(n.snd_buf) = Len(q.snd_buf) + 1 /\ Len(q.snd_buf) \in Nat
  BY <1>3, <1>4, AppendType
<1>6. z = IF ~Room(q) THEN q ELSE IF ~Room(n) THEN Flush(n, t) ELSE n
  BY <1>2, <1>4 DEF SendReliable, Unsent
<1>7. Len(Flush(n, t).snd_buf) = Len(n.snd_buf)
  BY <1>5, FlushType
<1>8. Room(q) <=> Room(p)
  BY <1>3 DEF Room
<1>9. CASE Room(p)
  BY <1>1, <1>3, <1>5, <1>6, <1>7, <1>8, <1>9
<1>10. CASE ~Room(p)
  BY <1>1, <1>3, <1>5, <1>6, <1>8, <1>10
<1> QED
  BY <1>9, <1>10

LEMMA ReceiveAllPong ==
  ASSUME NEW p, Typed(p), NEW time \in Uint32, NEW t \in Nat, NEW z, z = ReceiveAll(p, time, t)
  PROVE  /\ z.start = p.start
         /\ PongDue(p, time) => z.LastPongTime = time
         /\ ~PongDue(p, time) => z.LastPongTime = p.LastPongTime
         /\ Len(z.snd_buf) > Len(p.snd_buf) <=> PongDue(p, time) /\ Room(p)
<1>1. PICK q, r : /\ q = IF p.inbox = {} THEN p
                         ELSE [p EXCEPT !.inbox = {}, !.lastReceiveTime = Time(p, t)]
                  /\ r = SendTimed(q, t)
  OBVIOUS
<1>2. z = IF PongDue(p, time) THEN [r EXCEPT !.LastPongTime = time] ELSE q
  BY <1>1 DEF ReceiveAll
<1>3. Time(p, t) \in Uint32
  BY TimeType DEF Typed
<1>4. Typed(q) /\ SamePong(p, q) /\ q.snd_buf = p.snd_buf /\ q.rmt_wnd = p.rmt_wnd
  BY <1>1, <1>3 DEF Typed, PeerType, SamePong
<1>5. SamePong(q, r) /\ Typed(r)
  BY <1>1, <1>4, SendTimedPong, SendTimedType DEF Typed
<1>6. /\ Len(q.snd_buf) \in Nat
      /\ Len(r.snd_buf) = IF Room(q) THEN Len(q.snd_buf) + 1 ELSE Len(q.snd_buf)
  <2>1. r = SendTimed(q, t) /\ Typed(q)
    BY <1>1, <1>4
  <2> QED
    BY <2>1, SendTimedLen, Zenon
<1>7. Room(q) <=> Room(p)
  BY <1>4 DEF Room
<1>8. CASE PongDue(p, time)
  <2>1. z.LastPongTime = time /\ z.start = r.start /\ z.snd_buf = r.snd_buf
    BY <1>2, <1>5, <1>8 DEF Typed, PeerType
  <2>2. Len(z.snd_buf) > Len(p.snd_buf) <=> Room(p)
    BY <1>4, <1>6, <1>7, <2>1
  <2> QED
    BY <1>4, <1>5, <1>8, <2>1, <2>2 DEF SamePong
<1>9. CASE ~PongDue(p, time)
  <2>1. z = q
    BY <1>2, <1>9
  <2>2. ~(Len(z.snd_buf) > Len(p.snd_buf))
    BY <1>4, <1>6, <2>1
  <2> QED
    BY <1>4, <1>9, <2>1, <2>2 DEF SamePong
<1> QED
  BY <1>8, <1>9

\* The checks before, and a ping, leave what is known of pongs alone.
LEMMA CheckedPong ==
  ASSUME TypeOK, Inv, NEW f \in Peers, NEW p, p = peer[f], NEW time, time = Time(p, now),
         NEW p1, p1 = HandleTimeout(p, time), NEW p2, p2 = HandleDeadLink(p1),
         NEW t, t = now + Slept(p, p2), NEW p3, p3 = HandlePing(p2, time, t)
  PROVE  /\ time \in Uint32 /\ t \in Nat
         /\ SamePong(p, p3) /\ p3.inbox = p.inbox /\ Typed(p3) /\ Shape(p3)
         /\ ~p3.once => ~p.once
         /\ p3.state = "None" \/ p3.once \/ p.state # "None"
<1>1. Typed(p) /\ Shape(p) /\ now \in Nat /\ time \in Nat
  BY TimeNat DEF TypeOK, Typed, Inv, Shapes
<1>2. time \in Uint32
  BY <1>1, TimeType DEF Typed
<1>3. Shape(p1) /\ Typed(p1) /\ SamePong(p, p1) /\ p1.inbox = p.inbox /\ (p.once => p1.once)
      /\ (~p1.once => p1 = p)
  <2>1. p1 = p \/ p1 = Disconnect(p)
    BY DEF HandleTimeout
  <2> QED
    BY <1>1, <2>1, HandleTimeoutLike, HandleType, DisconnectPong DEF SamePong
<1>4. Shape(p2) /\ Typed(p2) /\ SamePong(p1, p2) /\ p2.inbox = p1.inbox /\ (p1.once => p2.once)
      /\ (~p2.once => p2 = p1)
  <2>1. p2 = p1 \/ p2 = Disconnect(p1)
    BY DEF HandleDeadLink
  <2> QED
    BY <1>3, <2>1, HandleDeadLinkLike, HandleType, DisconnectPong DEF SamePong
<1>5. t \in Nat
  BY <1>1, SleptNat
<1>6. SamePong(p2, p3) /\ p3.inbox = p2.inbox
  BY <1>4, <1>5, HandlePingPong
<1>7. Typed(p3)
  BY <1>2, <1>4, <1>5, HandlePingType
<1>8. Shape(p3) /\ p3.once = p2.once /\ p3.state = p2.state
  <2>1. PICK q : q = SendTimed(p2, t)
    OBVIOUS
  <2>2. Shape(q) /\ q.once = p2.once /\ q.state = p2.state
    BY <1>4, <1>5, <2>1, SendTimedLike
  <2>3. p3 = p2 \/ p3 = [q EXCEPT !.LastPingTime = time]
    BY <2>1 DEF HandlePing
  <2>4. Shape(p2) /\ time \in Nat
    BY <1>1, <1>4
  <2> QED
    BY <2>2, <2>3, <2>4 DEF Shape
<1>9. SamePong(p, p3) /\ p3.inbox = p.inbox
  BY <1>3, <1>4, <1>6 DEF SamePong
<1>10. ~p3.once => p2 = p /\ ~p.once
  BY <1>3, <1>4, <1>8
<1> QED
  BY <1>2, <1>5, <1>7, <1>8, <1>9, <1>10

\* TickIncoming of an authenticated peer, as the history sees it.
LEMMA TickHistory ==
  ASSUME TypeOK, Inv, NEW f \in Peers, TickIncoming(f), peer[f].state = "Authenticated"
  PROVE  \E z, room :
           /\ peer' = [peer EXCEPT ![f] = z] /\ now' \in Nat /\ now <= now'
           /\ z.start = peer[f].start /\ (~z.once => ~peer[f].once)
           /\ PongDue(peer[f], Time(peer[f], now)) => z.LastPongTime = Time(peer[f], now)
           /\ ~PongDue(peer[f], Time(peer[f], now)) => z.LastPongTime = peer[f].LastPongTime
           /\ answered' = [answered EXCEPT ![f] =
                IF PongDue(peer[f], Time(peer[f], now)) /\ room THEN now ELSE @]
           /\ refused' = [refused EXCEPT ![f] =
                IF "Ping" \in peer[f].inbox /\ Due(f) /\ ~room THEN now ELSE @]
<1>1. PICK p, time, p1, p2, t, p3, p4, why :
        /\ p = peer[f] /\ time = Time(p, now) /\ p1 = HandleTimeout(p, time)
        /\ p2 = HandleDeadLink(p1) /\ t = now + Slept(p, p2)
        /\ p3 = HandlePing(p2, time, t) /\ p4 = ReceiveAll(p3, time, t)
        /\ why = IF p1 # p THEN "timeout" ELSE "dead_link"
  OBVIOUS
<1>2. /\ Becomes(f, p4, why)
      /\ answered' = [answered EXCEPT ![f] = IF Len(p4.snd_buf) > Len(p3.snd_buf) THEN now ELSE @]
      /\ refused' = [refused EXCEPT ![f] =
           IF "Ping" \in p.inbox /\ Due(f) /\ ~Room(p3) THEN now ELSE @]
  BY <1>1 DEF TickIncoming
<1>3. /\ time \in Uint32 /\ t \in Nat /\ SamePong(p, p3) /\ p3.inbox = p.inbox
      /\ Typed(p3) /\ Shape(p3) /\ (~p3.once => ~p.once)
  BY <1>1, CheckedPong
<1>4. PongDue(p3, time) <=> PongDue(p, time)
  BY <1>3 DEF PongDue, SamePong
<1>5. /\ p4.start = p3.start
      /\ PongDue(p3, time) => p4.LastPongTime = time
      /\ ~PongDue(p3, time) => p4.LastPongTime = p3.LastPongTime
      /\ Len(p4.snd_buf) > Len(p3.snd_buf) <=> PongDue(p3, time) /\ Room(p3)
  BY <1>1, <1>3, ReceiveAllPong
<1>6. p4.once = p3.once
  BY <1>1, <1>3, ReceiveAllLike
<1>7. peer' = [peer EXCEPT ![f] = p4] /\ now' \in Nat /\ now <= now'
  BY <1>2, BecomesLater
<1>8. p4.start = p.start /\ (~p4.once => ~p.once)
  BY <1>3, <1>5, <1>6 DEF SamePong
<1>9. /\ PongDue(p, time) => p4.LastPongTime = time
      /\ ~PongDue(p, time) => p4.LastPongTime = p.LastPongTime
  BY <1>3, <1>4, <1>5 DEF SamePong
<1> DEFINE Done(z, room) ==
        /\ peer' = [peer EXCEPT ![f] = z] /\ now' \in Nat /\ now <= now'
        /\ z.start = p.start /\ (~z.once => ~p.once)
        /\ PongDue(p, time) => z.LastPongTime = time
        /\ ~PongDue(p, time) => z.LastPongTime = p.LastPongTime
        /\ answered' = [answered EXCEPT ![f] = IF PongDue(p, time) /\ room THEN now ELSE @]
        /\ refused' = [refused EXCEPT ![f] = IF "Ping" \in p.inbox /\ Due(f) /\ ~room THEN now ELSE @]
<1>10. ASSUME Room(p3) PROVE Done(p4, TRUE)
  <2>1. answered' = [answered EXCEPT ![f] = IF PongDue(p, time) /\ TRUE THEN now ELSE @]
    <3>1. Len(p4.snd_buf) > Len(p3.snd_buf) <=> PongDue(p, time)
      BY <1>4, <1>5, <1>10
    <3> QED
      BY <1>2, <3>1
  <2>2. refused' = [refused EXCEPT ![f] = IF "Ping" \in p.inbox /\ Due(f) /\ ~TRUE THEN now ELSE @]
    BY <1>2, <1>10
  <2> QED
    BY <1>7, <1>8, <1>9, <2>1, <2>2
<1>11. ASSUME ~Room(p3) PROVE Done(p4, FALSE)
  <2>1. answered' = [answered EXCEPT ![f] = IF PongDue(p, time) /\ FALSE THEN now ELSE @]
    <3>1. ~(Len(p4.snd_buf) > Len(p3.snd_buf))
      BY <1>5, <1>11
    <3> QED
      BY <1>2, <3>1
  <2>2. refused' = [refused EXCEPT ![f] = IF "Ping" \in p.inbox /\ Due(f) /\ ~FALSE THEN now ELSE @]
    BY <1>2, <1>11
  <2> QED
    BY <1>7, <1>8, <1>9, <2>1, <2>2
<1>12. \E z, room : Done(z, room)
  <2> HIDE DEF Done
  <2> QED
    BY <1>10, <1>11
<1> QED
  BY <1>1, <1>12, Zenon

LEMMA TickIncomingPong ==
  ASSUME TypeOK, Inv, NoWrap, PongInv, NEW f \in Peers, TickIncoming(f)
  PROVE  PongInv'
<1>1. PICK p, time, p1, p2, t, p3 :
        /\ p = peer[f] /\ time = Time(p, now) /\ p1 = HandleTimeout(p, time)
        /\ p2 = HandleDeadLink(p1) /\ t = now + Slept(p, p2)
        /\ p3 = HandlePing(p2, time, t)
  OBVIOUS
<1>2. p.state \in {"Connected", "Authenticated", "Disconnected"}
  BY <1>1 DEF TickIncoming
<1>3. CASE p.state = "Connected"
  <2>1. PICK z : z = ReceiveHello(p3, t)
    OBVIOUS
  <2>2. UNCHANGED <<answered, refused>> /\ \E why : Becomes(f, z, why)
    BY <1>1, <1>3, <2>1 DEF TickIncoming
  <2>3. peer' = [peer EXCEPT ![f] = z] /\ now' \in Nat /\ now <= now'
    BY <2>2, BecomesLater
  <2>4. SamePong(p, p3) /\ Typed(p3) /\ Shape(p3) /\ (~p3.once => ~p.once) /\ t \in Nat
    BY <1>1, CheckedPong
  <2>5. z.once = p3.once
    BY <2>1, <2>4, ReceiveHelloLike
  <2>6. SamePong(p3, z)
    BY <2>1, <2>4 DEF ReceiveHello, Typed, PeerType, SamePong
  <2>7. ~z.once => SamePong(p, z) /\ ~p.once
    BY <2>4, <2>5, <2>6 DEF SamePong
  <2>8. Only(f) /\ peer'[f] = z
    BY <2>2, <2>3 DEF Only, TypeOK
  <2> QED
    BY <1>1, <1>3, <2>2, <2>7, <2>8, QuietStep
<1>4. CASE p.state = "Authenticated"
  <2>1. PICK z, room :
          /\ peer' = [peer EXCEPT ![f] = z] /\ now' \in Nat /\ now <= now'
          /\ z.start = p.start /\ (~z.once => ~p.once)
          /\ PongDue(p, time) => z.LastPongTime = time
          /\ ~PongDue(p, time) => z.LastPongTime = p.LastPongTime
          /\ answered' = [answered EXCEPT ![f] = IF PongDue(p, time) /\ room THEN now ELSE @]
          /\ refused' = [refused EXCEPT ![f] = IF "Ping" \in p.inbox /\ Due(f) /\ ~room THEN now ELSE @]
    BY <1>1, <1>4, TickHistory
  <2>2. PICK a, b : /\ a = IF PongDue(p, time) /\ room THEN now ELSE answered[f]
                    /\ b = IF "Ping" \in p.inbox /\ Due(f) /\ ~room THEN now ELSE refused[f]
    OBVIOUS
  <2>3. answered' = [answered EXCEPT ![f] = a] /\ refused' = [refused EXCEPT ![f] = b]
    BY <2>1, <2>2
  <2>4. ASSUME ~z.once PROVE Ponged(z, a, b, now')
    <3>1. Live(f)
      BY <1>1, <1>4, <2>1, <2>4 DEF Live
    <3>2. time = now - p.start /\ p.start \in Nat /\ p.start <= now /\ now \in Nat
      BY <1>1, <3>1, TickTime
    <3>3. Ponged(p, answered[f], refused[f], now) /\ p.LastPongTime \in Nat
          /\ answered[f] \in Nat /\ refused[f] \in Nat
      BY <1>1, <3>1, ConstantTypes DEF PongInv, TypeOK, PeerType, Uint32
    <3>4. PICK last \in Nat : last = p.start + p.LastPongTime
      BY <3>2, <3>3
    <3>5. /\ answered[f] <= last /\ refused[f] <= last /\ last <= now
          /\ last <= answered[f] \/ last <= refused[f]
      BY <3>3, <3>4 DEF Ponged
    <3>8. PongDue(p, time) <=> "Ping" \in p.inbox /\ Due(f)
      BY <1>1, <3>1, DuePong
    <3>6. CASE PongDue(p, time)
      <4>1. z.start + z.LastPongTime = now
        BY <2>1, <3>2, <3>6
      <4>2. a <= now /\ b <= now /\ (now <= a \/ now <= b)
        BY <2>2, <3>2, <3>3, <3>5, <3>6, <3>8
      <4> QED
        BY <2>1, <4>1, <4>2, Zenon DEF Ponged
    <3>7. CASE ~PongDue(p, time)
      <4>1. z.start + z.LastPongTime = last
        BY <2>1, <3>4, <3>7
      <4>2. a <= last /\ b <= last /\ (last <= a \/ last <= b) /\ last <= now'
        BY <2>1, <2>2, <3>2, <3>3, <3>5, <3>7, <3>8
      <4> QED
        BY <4>1, <4>2, Zenon DEF Ponged
    <3> QED
      BY <3>6, <3>7
  <2>5. Only(f) /\ peer'[f] = z /\ answered'[f] = a /\ refused'[f] = b
    BY <2>1, <2>3 DEF Only, TypeOK
  <2> QED
    BY <2>4, <2>5, PongStep
<1>5. CASE p.state = "Disconnected"
  BY <1>1, <1>5 DEF TickIncoming, PongInv, Live
<1> QED
  BY <1>2, <1>3, <1>4, <1>5

LEMMA ConnectPong ==
  ASSUME TypeOK, Inv, PongInv, NEW f \in Peers, Connect(f)
  PROVE  PongInv'
<1>1. PICK p, z : /\ p = IF peer[f].state = "None" THEN NewKcpPeer(now) ELSE Reset(peer[f], now)
                  /\ z = SendReliable(p, now)
  OBVIOUS
<1>2. peer' = [peer EXCEPT ![f] = z] /\ answered' = [answered EXCEPT ![f] = now]
      /\ refused' = [refused EXCEPT ![f] = now] /\ now' = now
  BY <1>1 DEF Connect, Begin
<1>3. now \in Nat /\ Shape(peer[f]) /\ peer[f] \in PeerType
  BY DEF TypeOK, Inv, Shapes
<1>4. p \in PeerType /\ Shape(p)
  BY <1>1, <1>3, NewType, ResetType, NewShape, ResetShape DEF Typed
<1>5. SamePong(p, z) /\ z.once = p.once
  BY <1>1, <1>4, SendReliablePong, SendReliableLike DEF Like
<1>6. ~p.once => p.start = now /\ p.LastPongTime = 0
  <2>1. CASE peer[f].state = "None"
    BY <1>1, <2>1 DEF NewKcpPeer
  <2>2. CASE peer[f].state # "None"
    <3>1. peer[f].once
      BY <1>3, <2>2 DEF Connect, Shape
    <3> QED
      BY <1>1, <1>3, <2>2, <3>1, ResetShape
  <2> QED
    BY <2>1, <2>2
<1>7. (z.state # "None" /\ ~z.once) => Ponged(z, now, now, now')
  BY <1>2, <1>3, <1>5, <1>6 DEF SamePong, Ponged
<1>8. Only(f) /\ peer'[f] = z /\ answered'[f] = now /\ refused'[f] = now
  BY <1>2, <1>3 DEF Only, TypeOK
<1> QED
  BY <1>7, <1>8, PongStep

LEMMA ReceivePong ==
  ASSUME TypeOK, Inv, PongInv, NEW f \in Peers, Receive(f)
  PROVE  PongInv'
<1>1. PICK m \in sock[f] : Receive(f)!(m)
  BY DEF Receive
<1>2. m \in Messages /\ Typed(peer[f]) /\ now \in Nat /\ Shape(peer[f])
  BY DEF TypeOK, Typed, Inv, Shapes
<1>3. CASE /\ \E w \in 0..RmtWnd :
                Begin(f, [SendReliable([NewKcpPeer(now) EXCEPT !.rmt_wnd = w], now)
                            EXCEPT !.state = "Authenticated"])
           /\ UNCHANGED <<now, drop>>
  <2> PICK w \in 0..RmtWnd :
             Begin(f, [SendReliable([NewKcpPeer(now) EXCEPT !.rmt_wnd = w], now)
                         EXCEPT !.state = "Authenticated"])
    BY <1>3
  <2>1. PICK n, r, z : /\ n = [NewKcpPeer(now) EXCEPT !.rmt_wnd = w] /\ r = SendReliable(n, now)
                       /\ z = [r EXCEPT !.state = "Authenticated"]
    OBVIOUS
  <2>2. Typed(n) /\ n.start = now /\ n.LastPongTime = 0
    <3>1. n = Heard(now, w)
      BY <2>1, Zenon DEF Heard
    <3>2. w \in Nat
      BY ConstantTypes
    <3> QED
      BY <1>2, <3>1, <3>2, NewlyHeard
  <2>3. SamePong(n, r) /\ Typed(r)
    BY <1>2, <2>1, <2>2, SendReliablePong, SendReliableType DEF Typed
  <2>4. z.start = now /\ z.LastPongTime = 0
    BY <2>1, <2>2, <2>3 DEF Typed, PeerType, SamePong
  <2>5. peer' = [peer EXCEPT ![f] = z] /\ answered' = [answered EXCEPT ![f] = now]
        /\ refused' = [refused EXCEPT ![f] = now] /\ now' = now
    BY <1>3, <2>1 DEF Begin
  <2>6. Ponged(z, now, now, now')
    BY <1>2, <2>4, <2>5 DEF Ponged
  <2>7. Only(f) /\ peer'[f] = z /\ answered'[f] = now /\ refused'[f] = now
    BY <1>2, <2>5 DEF Only, TypeOK
  <2> QED
    BY <2>6, <2>7, PongStep
<1>4. CASE Becomes(f, Disconnect(peer[f]), "bye") /\ UNCHANGED <<heard, lastTick, answered, refused>>
  <2>1. PICK z : z = Disconnect(peer[f]) /\ peer' = [peer EXCEPT ![f] = z]
               /\ now' \in Nat /\ now <= now'
    BY <1>4, BecomesLater
  <2>2. z.once
    BY <1>2, <2>1, DisconnectLike
  <2>3. Only(f) /\ peer'[f] = z
    BY <1>4, <2>1 DEF Only, TypeOK
  <2> QED
    BY <1>4, <2>2, <2>3, QuietStep
<1>5. CASE /\ peer[f].state \in {"Connected", "Authenticated"}
           /\ \E k \in (IF m = "Ack" THEN Sent(peer[f]) ELSE {0}), w \in 0..RmtWnd :
                Becomes(f, Input(peer[f], m, k, w, now), "none")
           /\ UNCHANGED <<heard, lastTick, answered, refused>>
  <2>1. PICK k \in (IF m = "Ack" THEN Sent(peer[f]) ELSE {0}), w \in 0..RmtWnd :
               Becomes(f, Input(peer[f], m, k, w, now), "none")
    BY <1>5
  <2>2. k \in 0..Len(peer[f].snd_buf)
    BY <1>2, <2>1 DEF Sent, Typed, PeerType
  <2>6. w \in Nat
    BY <2>1, ConstantTypes
  <2>3. PICK z : z = Input(peer[f], m, k, w, now) /\ peer' = [peer EXCEPT ![f] = z]
               /\ now' \in Nat /\ now <= now'
    BY <2>1, BecomesLater
  <2>4. SamePong(peer[f], z)
    BY <1>2, <2>2, <2>3, <2>6, InputPong
  <2>5. z.once = peer[f].once
    BY <1>2, <2>3, InputLike DEF Like
  <2>7. Only(f) /\ peer'[f] = z
    BY <1>5, <2>3 DEF Only, TypeOK
  <2> QED
    BY <1>5, <2>4, <2>5, <2>7, QuietStep
<1>6. CASE UNCHANGED <<now, peer, heard, lastTick, answered, refused, drop>>
  BY <1>6 DEF PongInv, Live
<1> QED
  BY <1>1, <1>3, <1>4, <1>5, <1>6

LEMMA SendPongInv ==
  ASSUME TypeOK, Inv, PongInv, NEW f \in Peers, Send(f)
  PROVE  PongInv'
<1>1. PICK z : z = SendTimed(peer[f], now)
  OBVIOUS
<1>2. peer[f] \in PeerType /\ now \in Nat /\ Shape(peer[f])
  BY DEF TypeOK, Inv, Shapes
<1>3. SamePong(peer[f], z) /\ z.once = peer[f].once
  BY <1>1, <1>2, SendTimedPong, SendTimedLike
<1>4. peer' = [peer EXCEPT ![f] = z] /\ UNCHANGED <<answered, refused, now>> /\ peer[f].state # "None"
  BY <1>1 DEF Send
<1>5. Only(f) /\ peer'[f] = z
  BY <1>2, <1>4 DEF Only, TypeOK
<1> QED
  BY <1>3, <1>4, <1>5, QuietStep

LEMMA TickOutgoingPong ==
  ASSUME TypeOK, Inv, PongInv, NEW f \in Peers, TickOutgoing(f)
  PROVE  PongInv'
<1>1. PICK p, p1, t, q, r :
        /\ p = peer[f] /\ p1 = HandleDeadLink(p) /\ t = now + Slept(p, p1)
        /\ q = Flush(p1, t) /\ r = [q EXCEPT !.flushInterval = NearestRto(q.snd_buf, t)]
  OBVIOUS
<1>2. Typed(p) /\ Shape(p) /\ now \in Nat
  BY <1>1 DEF TypeOK, Typed, Inv, Shapes
<1>3. Shape(p1) /\ (~p1.once => p1 = p) /\ Typed(p1) /\ t \in Nat
  BY <1>1, <1>2, HandleDeadLinkLike, HandleType, SleptNat
<1>4. Like(p1, q) /\ q.state = p1.state /\ SamePong(p1, q) /\ q \in PeerType
  BY <1>1, <1>3, FlushLike, FlushPong, FlushType DEF Typed
<1>5. SamePong(p1, r) /\ r.once = p1.once /\ r.state = p1.state
  BY <1>1, <1>4 DEF Like, PeerType, SamePong
<1>6. \/ UNCHANGED <<now, peer, drop>>
      \/ \E z : (z = r \/ z = p1) /\ Becomes(f, z, "dead_link")
  BY <1>1, Zenon DEF TickOutgoing
<1>7. UNCHANGED <<answered, refused>>
  BY DEF TickOutgoing
<1>8. CASE UNCHANGED <<now, peer, drop>>
  BY <1>7, <1>8 DEF PongInv, Live
<1>9. CASE \E z : (z = r \/ z = p1) /\ Becomes(f, z, "dead_link")
  <2>1. PICK z : (z = r \/ z = p1) /\ peer' = [peer EXCEPT ![f] = z]
               /\ now' \in Nat /\ now <= now'
    BY <1>9, BecomesLater
  <2>2. (z.state # "None" /\ ~z.once) => SamePong(p, z) /\ p.state # "None" /\ ~p.once
    BY <1>3, <1>5, <2>1 DEF SamePong
  <2>3. Only(f) /\ peer'[f] = z
    BY <1>7, <2>1 DEF Only, TypeOK
  <2> QED
    BY <1>1, <1>7, <2>2, <2>3, QuietStep
<1> QED
  BY <1>6, <1>8, <1>9

LEMMA InitPong == Init => PongInv
  BY NoPeerShape DEF Init, PongInv, Live

LEMMA SamePeers ==
  ASSUME TypeOK, PongInv, UNCHANGED <<peer, answered, refused>>, now' = now \/ now' = now + 1
  PROVE  PongInv'
<1> SUFFICES ASSUME NEW f \in Peers, Live(f)
             PROVE  Ponged(peer[f], answered[f], refused[f], now')
  BY DEF PongInv, Live
<1>1. Ponged(peer[f], answered[f], refused[f], now) /\ peer[f] \in PeerType /\ now \in Nat
  BY DEF PongInv, TypeOK
<1>2. now' \in Nat /\ now <= now'
  BY <1>1
<1> QED
  BY <1>1, <1>2, PongedLater

LEMMA NextPong == NoWrap /\ TypeOK /\ Inv /\ PongInv /\ [Next]_vars => PongInv'
<1> SUFFICES ASSUME NoWrap, TypeOK, Inv, PongInv, [Next]_vars
             PROVE  PongInv'
  OBVIOUS
<1>1. CASE Wait \/ BeginTick \/ EndReceive \/ EndTick \/ UNCHANGED vars
  <2>1. UNCHANGED <<peer, answered, refused>> /\ (now' = now \/ now' = now + 1)
    BY <1>1 DEF Wait, BeginTick, EndReceive, EndTick, vars
  <2> QED
    BY <2>1, SamePeers
<1>2. CASE EndIncoming
  <2>1. \A f \in Peers : peer'[f] = peer[f] \/ peer'[f] = NoPeer
    BY <1>2 DEF EndIncoming
  <2>2. UNCHANGED <<answered, refused, now>>
    BY <1>2 DEF EndIncoming
  <2>3. \A f \in Peers : Live(f)' => peer'[f] = peer[f] /\ Live(f)
    BY <2>1, NoPeerShape DEF Live
  <2> QED
    BY <2>2, <2>3 DEF PongInv
<1>3. ASSUME NEW f \in Peers, NEW m \in Messages, Arrive(f, m)
      PROVE  PongInv'
  <2>1. UNCHANGED <<peer, answered, refused, now>>
    BY <1>3 DEF Arrive
  <2> QED
    BY <2>1, SamePeers
<1> QED
  BY <1>1, <1>2, <1>3, ConnectPong, SendPongInv, ReceivePong, TickIncomingPong,
     TickOutgoingPong DEF Next

\* The only step that visits f in the phase "tick" is its TickIncoming.
LEMMA VisitIsTick ==
  ASSUME [Next]_vars, NEW f \in Peers, phase = "tick", f \in todo \ todo'
  PROVE  TickIncoming(f)
<1>1. ASSUME NEW g \in Peers, TickIncoming(g) PROVE TickIncoming(f)
  <2>1. todo' = todo \ {g}
    BY <1>1 DEF TickIncoming
  <2>2. g = f
    BY <2>1
  <2> QED
    BY <1>1, <2>2
<1>2. ~(Wait \/ BeginTick \/ EndReceive \/ EndTick \/ EndIncoming \/ UNCHANGED vars)
  BY DEF Wait, BeginTick, EndReceive, EndTick, EndIncoming, vars
<1>3. \A g \in Peers : ~(Connect(g) \/ Send(g) \/ Receive(g) \/ TickOutgoing(g))
  BY DEF Connect, Send, Receive, TickOutgoing
<1>4. \A g \in Peers, m \in Messages : ~Arrive(g, m)
  BY DEF Arrive
<1> QED
  BY <1>1, <1>2, <1>3, <1>4 DEF Next

LEMMA LiveAnswers ==
  ASSUME NoWrap, TypeOK, Inv, PongInv, [Next]_vars, NEW f \in Peers, ~peer[f].once
  PROVE  Answers(f)
<1> SUFFICES ASSUME peer[f].state = "Authenticated", phase = "tick", f \in todo \ todo'
             PROVE  /\ "Ping" \in peer[f].inbox /\ Due(f)
                         => answered'[f] = now \/ refused'[f] = now
                    /\ answered'[f] # answered[f] => Due(f)
  BY DEF Answers
<1>1. TickIncoming(f)
  BY VisitIsTick
<1>2. PICK p, time : p = peer[f] /\ time = Time(p, now)
  OBVIOUS
<1>3. PICK room :
        /\ answered' = [answered EXCEPT ![f] = IF PongDue(p, time) /\ room THEN now ELSE @]
        /\ refused' = [refused EXCEPT ![f] =
             IF "Ping" \in p.inbox /\ Due(f) /\ ~room THEN now ELSE @]
  BY <1>1, <1>2, TickHistory
<1>4. PongDue(p, time) <=> "Ping" \in p.inbox /\ Due(f)
  BY <1>2, DuePong DEF Live
<1>5. ASSUME "Ping" \in p.inbox, Due(f)
      PROVE  answered'[f] = now \/ refused'[f] = now
  <2>1. CASE room
    BY <1>3, <1>4, <1>5, <2>1 DEF TypeOK
  <2>2. CASE ~room
    BY <1>3, <1>5, <2>2 DEF TypeOK
  <2> QED
    BY <2>1, <2>2
<1>6. answered'[f] # answered[f] => Due(f)
  BY <1>3, <1>4 DEF TypeOK
<1> QED
  BY <1>2, <1>5, <1>6

(***************************************************************************)
(* In the first session of a peer, and as long as its clock has not        *)
(* wrapped, TickIncoming sends a pong for the ping it finds when a pong is *)
(* due, unless the windows have no room for it; and it sends none within   *)
(* PING_INTERVAL of one that was sent or refused.                          *)
(***************************************************************************)
THEOREM FirstSessionAnswers == Spec /\ []NoWrap => FirstPingsAnswered
<1>1. NoWrap /\ TypeOK /\ Inv /\ PongInv /\ [Next]_vars
        => [\A f \in Peers : ~peer[f].once => Answers(f)]_vars
  BY LiveAnswers
<1> QED
  BY <1>1, InitType, NextType, InitInv, NextInv, InitPong, NextPong, PTL
     DEF Spec, FirstPingsAnswered

\* A peer of a server is made by its first Hello, and disconnected for good.
Served(p) == p.state # "Connected" /\ (p.once => p.state = "Disconnected")

ServerInv == role = "server" /\ \A f \in Peers : Served(peer[f])

LEMMA ServedStep ==
  ASSUME TypeOK, ServerInv, role' = role, NEW f \in Peers, NEW r,
         peer' = [peer EXCEPT ![f] = r], Served(r)
  PROVE  ServerInv'
<1>1. \A g \in Peers : Served(peer'[g])
  BY DEF TypeOK, ServerInv
<1> QED
  BY <1>1 DEF ServerInv, Served

LEMMA DisconnectServed ==
  ASSUME NEW p, Shape(p), Served(p)
  PROVE  Served(Disconnect(p))
  BY DEF Disconnect, Served, Shape

LEMMA ReceiveAllState ==
  ASSUME NEW p, Shape(p), NEW time, NEW t \in Nat, NEW z, z = ReceiveAll(p, time, t)
  PROVE  z.state = p.state
<1>1. PICK q, r : /\ q = IF p.inbox = {} THEN p
                         ELSE [p EXCEPT !.inbox = {}, !.lastReceiveTime = Time(p, t)]
                  /\ r = SendTimed(q, t)
  OBVIOUS
<1>2. z = q \/ z = [r EXCEPT !.LastPongTime = time]
  BY <1>1 DEF ReceiveAll
<1>3. Shape(q) /\ q.state = p.state
  BY <1>1, TimeNat DEF Shape
<1>4. Shape(r) /\ r.state = q.state
  BY <1>1, <1>3, SendTimedLike
<1> QED
  BY <1>2, <1>3, <1>4 DEF Shape

LEMMA NextServed ==
  TypeOK /\ Inv /\ ServerInv /\ [Next]_vars => ServerInv'
<1> SUFFICES ASSUME TypeOK, Inv, ServerInv, [Next]_vars
             PROVE  ServerInv'
  OBVIOUS
<1>0. \A f \in Peers : Shape(peer[f]) /\ Typed(peer[f]) /\ Served(peer[f])
  BY DEF TypeOK, Typed, Inv, Shapes, ServerInv
<1>1. now \in Nat /\ role = "server"
  BY DEF TypeOK, ServerInv
<1>2. CASE Wait \/ BeginTick \/ EndReceive \/ EndTick \/ UNCHANGED vars
  <2>1. UNCHANGED <<peer, role>>
    BY <1>2 DEF Wait, BeginTick, EndReceive, EndTick, vars
  <2> QED
    BY <2>1 DEF ServerInv, Served
<1>3. CASE EndIncoming
  <2>1. \A f \in Peers : peer'[f] = peer[f] \/ peer'[f] = NoPeer
    BY <1>3 DEF EndIncoming
  <2>2. Served(NoPeer)
    BY DEF NoPeer, NewKcpPeer, Served
  <2>3. \A f \in Peers : Served(peer'[f])
    BY <1>0, <2>1, <2>2
  <2>4. role' = role
    BY <1>3 DEF EndIncoming
  <2> QED
    BY <1>1, <2>3, <2>4 DEF ServerInv, Served
<1>4. ASSUME NEW f \in Peers, NEW m \in Messages, Arrive(f, m)
      PROVE  ServerInv'
  <2>1. UNCHANGED <<peer, role>>
    BY <1>4 DEF Arrive
  <2> QED
    BY <2>1 DEF ServerInv, Served
<1>5. ASSUME NEW f \in Peers, Connect(f)
      PROVE  ServerInv'
  BY <1>1, <1>5 DEF Connect
<1>6. ASSUME NEW f \in Peers, Send(f)
      PROVE  ServerInv'
  <2>1. PICK z : z = SendTimed(peer[f], now)
    OBVIOUS
  <2>2. peer' = [peer EXCEPT ![f] = z] /\ role' = role
    BY <1>6, <2>1 DEF Send
  <2>3. z.state = peer[f].state /\ z.once = peer[f].once
    BY <1>0, <1>1, <2>1, SendTimedLike
  <2>4. Served(z)
    BY <1>0, <2>3 DEF Served
  <2> QED
    BY <2>2, <2>4, ServedStep
<1>7. ASSUME NEW f \in Peers, Receive(f)
      PROVE  ServerInv'
  <2>1. PICK m \in sock[f] : Receive(f)!(m)
    BY <1>7 DEF Receive
  <2>2. role' = role
    BY <2>1
  <2>3. CASE \E w \in 0..RmtWnd :
               Begin(f, [SendReliable([NewKcpPeer(now) EXCEPT !.rmt_wnd = w], now)
                           EXCEPT !.state = "Authenticated"])
    <3>0. PICK w \in 0..RmtWnd :
                 Begin(f, [SendReliable([NewKcpPeer(now) EXCEPT !.rmt_wnd = w], now)
                             EXCEPT !.state = "Authenticated"])
      BY <2>3
    <3>1. PICK n, r, z : /\ n = [NewKcpPeer(now) EXCEPT !.rmt_wnd = w] /\ r = SendReliable(n, now)
                         /\ z = [r EXCEPT !.state = "Authenticated"]
      OBVIOUS
    <3>2. Shape(n) /\ ~n.once
      <4>1. n = Heard(now, w)
        BY <3>1, Zenon DEF Heard
      <4>2. w \in Nat
        BY <3>0, ConstantTypes
      <4> QED
        BY <1>1, <4>1, <4>2, NewlyHeard
    <3>3. Shape(r) /\ ~r.once
      BY <3>1, <3>2, SendReliableLike DEF Like
    <3>4. Served(z)
      BY <3>1, <3>3 DEF Served, Shape
    <3>5. peer' = [peer EXCEPT ![f] = z]
      BY <3>0, <3>1 DEF Begin
    <3> QED
      BY <2>2, <3>4, <3>5, ServedStep
  <2>4. CASE Becomes(f, Disconnect(peer[f]), "bye")
    <3>1. PICK z : z = Disconnect(peer[f]) /\ peer' = [peer EXCEPT ![f] = z]
      BY <2>4 DEF Becomes
    <3>2. Served(z)
      BY <1>0, <3>1, DisconnectServed
    <3> QED
      BY <2>2, <3>1, <3>2, ServedStep
  <2>5. CASE \E k \in (IF m = "Ack" THEN Sent(peer[f]) ELSE {0}), w \in 0..RmtWnd :
               Becomes(f, Input(peer[f], m, k, w, now), "none")
    <3>1. PICK k, w, z : z = Input(peer[f], m, k, w, now) /\ peer' = [peer EXCEPT ![f] = z]
      BY <2>5 DEF Becomes
    <3>2. z.state = peer[f].state /\ z.once = peer[f].once
      BY <1>0, <3>1, InputLike DEF Like
    <3>3. Served(z)
      BY <1>0, <3>2 DEF Served
    <3> QED
      BY <2>2, <3>1, <3>3, ServedStep
  <2>6. CASE UNCHANGED peer
    BY <2>2, <2>6 DEF ServerInv, Served
  <2> QED
    BY <2>1, <2>3, <2>4, <2>5, <2>6
<1>8. ASSUME NEW f \in Peers, TickIncoming(f)
      PROVE  ServerInv'
  <2>1. PICK p, time, p1, p2, t, p3 :
          /\ p = peer[f] /\ time = Time(p, now) /\ p1 = HandleTimeout(p, time)
          /\ p2 = HandleDeadLink(p1) /\ t = now + Slept(p, p2)
          /\ p3 = HandlePing(p2, time, t)
    OBVIOUS
  <2>2. role' = role
    BY <1>8 DEF TickIncoming
  <2>3. Shape(p) /\ Served(p) /\ time \in Nat
    BY <1>0, <1>1, <2>1, TimeNat
  <2>4. Shape(p1) /\ Served(p1)
    BY <2>1, <2>3, HandleTimeoutLike, DisconnectServed DEF HandleTimeout
  <2>5. Shape(p2) /\ Served(p2) /\ t \in Nat
    BY <1>1, <2>1, <2>4, HandleDeadLinkLike, DisconnectServed, SleptNat DEF HandleDeadLink
  <2>6. Shape(p3) /\ Served(p3)
    <3>1. /\ Shape(HandlePing(p2, time, t)) /\ HandlePing(p2, time, t).once = p2.once
          /\ HandlePing(p2, time, t).state = p2.state
      BY <2>3, <2>5, HandlePingLike, Zenon
    <3> QED
      BY <2>1, <2>5, <3>1 DEF Served
  <2>7. \/ \E why : Becomes(f, ReceiveAll(p3, time, t), why)
        \/ UNCHANGED peer
    BY <2>1, <2>3, <1>8 DEF TickIncoming, Served
  <2>8. CASE \E why : Becomes(f, ReceiveAll(p3, time, t), why)
    <3>1. PICK z : z = ReceiveAll(p3, time, t) /\ peer' = [peer EXCEPT ![f] = z]
      BY <2>8 DEF Becomes
    <3>2. z.once = p3.once
      BY <2>5, <2>6, <3>1, ReceiveAllLike
    <3>3. z.state = p3.state
      BY <2>5, <2>6, <3>1, ReceiveAllState
    <3>4. Served(z)
      BY <2>6, <3>2, <3>3 DEF Served
    <3> QED
      BY <2>2, <3>1, <3>4, ServedStep
  <2>9. CASE UNCHANGED peer
    BY <2>2, <2>9 DEF ServerInv, Served
  <2> QED
    BY <2>7, <2>8, <2>9
<1>9. ASSUME NEW f \in Peers, TickOutgoing(f)
      PROVE  ServerInv'
  <2>1. PICK p, p1, t, q, r :
          /\ p = peer[f] /\ p1 = HandleDeadLink(p) /\ t = now + Slept(p, p1)
          /\ q = Flush(p1, t) /\ r = [q EXCEPT !.flushInterval = NearestRto(q.snd_buf, t)]
    OBVIOUS
  <2>2. role' = role
    BY <1>9 DEF TickOutgoing
  <2>3. Shape(p1) /\ Served(p1)
    BY <1>0, <2>1, HandleDeadLinkLike, DisconnectServed DEF HandleDeadLink
  <2>4. Shape(q) /\ q.state = p1.state /\ q.once = p1.once
    BY <2>1, <2>3, FlushLike DEF Like
  <2>5. r.state = p1.state /\ r.once = p1.once
    BY <2>1, <2>4 DEF Shape
  <2>6. \/ UNCHANGED <<now, peer, drop>>
        \/ \E z : (z = r \/ z = p1) /\ Becomes(f, z, "dead_link")
    BY <1>9, <2>1, Zenon DEF TickOutgoing
  <2>7. CASE UNCHANGED peer
    BY <2>2, <2>7 DEF ServerInv, Served
  <2>8. CASE \E z : (z = r \/ z = p1) /\ Becomes(f, z, "dead_link")
    <3>1. PICK z : (z = r \/ z = p1) /\ peer' = [peer EXCEPT ![f] = z]
      BY <2>8 DEF Becomes
    <3>2. Served(z)
      BY <2>3, <2>5, <3>1 DEF Served
    <3> QED
      BY <2>2, <3>1, <3>2, ServedStep
  <2> QED
    BY <2>6, <2>7, <2>8
<1> QED
  BY <1>2, <1>3, <1>4, <1>5, <1>6, <1>7, <1>8, <1>9 DEF Next

LEMMA InitServed ==
  ASSUME Roles \subseteq {"server"}
  PROVE  Init => ServerInv
<1> SUFFICES ASSUME Init PROVE ServerInv
  OBVIOUS
<1>1. Served(NoPeer)
  BY DEF NoPeer, NewKcpPeer, Served
<1> QED
  BY <1>1 DEF Init, ServerInv

(***************************************************************************)
(* A server keeps to that in every session: its peers are never Reset,     *)
(* because it forgets one that was disconnected and makes a new one.       *)
(***************************************************************************)
THEOREM ServerAnswers ==
  Roles \subseteq {"server"} /\ Spec /\ []NoWrap => PingIsAnswered
<1> SUFFICES ASSUME Roles \subseteq {"server"}
             PROVE  Spec /\ []NoWrap => PingIsAnswered
  OBVIOUS
<1>1. NoWrap /\ TypeOK /\ Inv /\ PongInv /\ ServerInv /\ [Next]_vars
        => [\A f \in Peers : Answers(f)]_vars
  <2> SUFFICES ASSUME NoWrap, TypeOK, Inv, PongInv, ServerInv, [Next]_vars, NEW f \in Peers
               PROVE  Answers(f)
    OBVIOUS
  <2>1. CASE peer[f].once
    <3>1. peer[f].state = "Disconnected"
      BY <2>1 DEF ServerInv, Served
    <3> QED
      BY <3>1 DEF Answers
  <2>2. CASE ~peer[f].once
    BY <2>2, LiveAnswers
  <2> QED
    BY <2>1, <2>2
<1>2. TypeOK /\ Inv /\ ServerInv /\ [Next]_vars => ServerInv'
  BY NextServed
<1>3. Init => ServerInv
  BY InitServed
<1> QED
  BY <1>1, <1>2, <1>3, InitType, NextType, InitInv, NextInv, InitPong, NextPong, PTL
     DEF Spec, PingIsAnswered
=============================================================================
