----------------------------- MODULE Heartbeat -----------------------------
(***************************************************************************)
(* Time in kcp2k: how a KcpPeer (peer.go) decides that the other end is    *)
(* gone, when the goroutine that ticks its KcpServer or KcpClient is also  *)
(* the one that sleeps 100ms in every Disconnect.                          *)
(*                                                                         *)
(* A tick reads the socket, ticks every peer and flushes every peer; the   *)
(* peers are visited one after the other, in any order.  A peer times out  *)
(* when lastReceiveTime is Timeout old, pings every PING_INTERVAL, and is  *)
(* dropped when a segment was transmitted MaxRetransmits times (dead_link).*)
(* KCP's clock and the peers' clocks are milliseconds; a peer's clock is a *)
(* uint32 that starts at its Reset.  The far end is the environment: it    *)
(* sends a message, an acknowledgement or a goodbye, or stays silent.      *)
(***************************************************************************)
EXTENDS Integers, Sequences

CONSTANTS
  Peers,           \* the far ends
  Roles,           \* what is looked at: a KcpServer, a KcpClient, or either
  Timeout,         \* KcpConfig.Timeout
  PING_INTERVAL,
  Linger,          \* the sleep of Disconnect
  MaxRetransmits,  \* KcpConfig.MaxRetransmits: dead_link
  Rto,             \* rx_rto, taken as constant
  Backoff,         \* what a retransmission adds to a segment's rto
  Interval,        \* KcpConfig.Interval
  SndWnd,          \* KcpConfig.SendWindowSize
  IKCP_WND_RCV,    \* the window NewKCP takes the far end to have
  RmtWnd,          \* the far ends' ReceiveWindowSize
  ClockSize,       \* 2^32: a peer's clock is a uint32
  MaxGap,          \* bound: the application's pause between two ticks
  Horizon          \* bound: the application stops ticking at this time

ASSUME HeartbeatAssumption ==
  /\ Roles \subseteq {"server", "client"}
  /\ {Timeout, PING_INTERVAL, Rto, Interval, MaxRetransmits, SndWnd, ClockSize,
      IKCP_WND_RCV} \subseteq Nat \ {0}
  /\ {Linger, Backoff, MaxGap, Horizon, RmtWnd} \subseteq Nat

VARIABLES
  role,      \* a KcpServer, or a KcpClient with its one peer
  now,       \* time.Now, in ms
  peer,      \* the KcpPeer of each far end, absent when its state is "None"
  sock,      \* what each far end sent and the socket still holds
  phase,     \* where the ticking goroutine is
  todo,      \* peers this phase has yet to visit
  gap,       \* ms since the last tick ended
  heard,     \* history: when each far end's last datagram arrived
  lastTick,  \* history: when each peer was last ticked
  answered,  \* history: when each peer last sent a pong, or its start
  refused,   \* history: when each peer last had no room for a pong, or its start
  drop       \* history: the peer this phase dropped last, and why

vars == <<role, now, peer, sock, phase, todo, gap, heard, lastTick, answered,
          refused, drop>>

----------------------------------------------------------------------------
(* KCP's retransmission timer *)

\* flush: the first transmission, or the one that is due, with a longer rto.
Transmit(seg, t) ==
  IF seg.xmit = 0
  THEN [xmit |-> 1, rto |-> Rto, resendts |-> t + Rto]
  ELSE IF t >= seg.resendts
  THEN [xmit |-> seg.xmit + 1, rto |-> seg.rto + Backoff,
        resendts |-> t + seg.rto + Backoff]
  ELSE seg

\* What flush returns: the time to the nearest resend, at most Interval.
NearestRto(buf, t) ==
  LET due == {Interval} \cup
             {n \in 1..Interval : \E i \in DOMAIN buf : buf[i].resendts = t + n}
  IN  CHOOSE n \in due : \A m \in due : n <= m

(***************************************************************************)
(* flush.  snd_buf stands for KCP's snd_buf and the snd_queue behind it: a *)
(* segment enters the former when the windows have room for it, and is     *)
(* transmitted at once.  dead_link is a verdict that nothing takes back.   *)
(***************************************************************************)
Flush(p, t) ==
  LET InWindow(i) == p.snd_buf[i].xmit > 0 \/ (i <= SndWnd /\ i <= p.rmt_wnd)
      buf == [i \in DOMAIN p.snd_buf |-> IF InWindow(i) THEN Transmit(p.snd_buf[i], t)
                                         ELSE p.snd_buf[i]]
  IN  [p EXCEPT !.snd_buf = buf,
                !.dead = @ \/ \E i \in DOMAIN buf : buf[i].xmit >= MaxRetransmits]

\* Mutant: SendReliable without flow control.
SendReliableUnchecked(p, t) ==
  [p EXCEPT !.snd_buf = Append(@, [xmit |-> 0, rto |-> 0, resendts |-> 0])]

\* WaitSnd against both windows.
Room(p) == Len(p.snd_buf) < SndWnd /\ Len(p.snd_buf) < p.rmt_wnd

\* SendReliable: refused when a window is full, flushed when it fills up.
SendReliable(p, t) ==
  LET q == [p EXCEPT !.snd_buf = Append(@, [xmit |-> 0, rto |-> 0, resendts |-> 0])]
  IN  IF ~Room(p) THEN p
      ELSE IF ~Room(q) THEN Flush(q, t)
      ELSE q

----------------------------------------------------------------------------
(* KcpPeer *)

\* Time: ms since the peer's Reset.
Time(p, t) == (t - p.start) % ClockSize

\* NewKcpPeer.  inbox: the kinds of messages waiting in rcv_queue.
NewKcpPeer(t) ==
  [state |-> "Connected", once |-> FALSE, start |-> t, lastReceiveTime |-> 0,
   LastPingTime |-> 0, LastPongTime |-> 0, flushInterval |-> 0,
   dead |-> FALSE, snd_buf |-> <<>>, rmt_wnd |-> IKCP_WND_RCV, inbox |-> {}]

\* Reset: disconnectOnce, LastPongTime and flushInterval survive it.
Reset(p, t) ==
  [NewKcpPeer(t) EXCEPT !.once = p.once, !.LastPongTime = p.LastPongTime,
                        !.flushInterval = p.flushInterval]

NoPeer == [NewKcpPeer(0) EXCEPT !.state = "None"]

\* Disconnect: only the first call does anything, and sleeps for Linger.
Disconnect(p) == IF p.once THEN p
                 ELSE [p EXCEPT !.once = TRUE, !.state = "Disconnected"]

Slept(before, after) == IF after.once /\ ~before.once THEN Linger ELSE 0

\* Mutant: sending leaves lastReceiveTime alone.
SendTimedQuietly(p, t) == SendReliable(p, t)

\* SendPing, SendPong and SendData all push the timeout back.
SendTimed(p, t) ==
  SendReliable([p EXCEPT !.lastReceiveTime = Time(p, t)], t)

HandleTimeout(p, time) ==
  IF time >= (p.lastReceiveTime + Timeout) % ClockSize THEN Disconnect(p) ELSE p

\* Mutant: the verdict of flush is not looked at.
HandleDeadLinkIgnored(p) == p

HandleDeadLink(p) == IF p.dead THEN Disconnect(p) ELSE p

HandlePing(p, time, t) ==
  IF time >= (p.LastPingTime + PING_INTERVAL) % ClockSize
  THEN [SendTimed(p, t) EXCEPT !.LastPingTime = time]
  ELSE p

\* Mutant: off by one.
PongDueTooLate(p, time) == /\ "Ping" \in p.inbox
                           /\ time > (p.LastPongTime + PING_INTERVAL) % ClockSize

\* Is the tick at this time to answer a ping?
PongDue(p, time) == /\ "Ping" \in p.inbox
                    /\ time >= (p.LastPongTime + PING_INTERVAL) % ClockSize

\* ReceiveNextReliable in the loop of TickIncoming_Authenticated.
ReceiveAll(p, time, t) ==
  LET q == IF p.inbox = {} THEN p
           ELSE [p EXCEPT !.inbox = {}, !.lastReceiveTime = Time(p, t)]
  IN  IF PongDue(p, time) THEN [SendTimed(q, t) EXCEPT !.LastPongTime = time]
      ELSE q

\* ReceiveNextReliable, once, in TickIncoming_Connected: Hello comes first.
ReceiveHello(p, t) ==
  IF "Hello" \in p.inbox
  THEN [p EXCEPT !.inbox = @ \ {"Hello"}, !.state = "Authenticated",
                 !.lastReceiveTime = Time(p, t)]
  ELSE p

\* Input: advertises the window w and acknowledges the first k segments; a
\* sliding window flushes.
Input(p, m, k, w, t) ==
  LET q == [p EXCEPT !.inbox = IF m = "Ack" THEN @ ELSE @ \cup {m},
                     !.rmt_wnd = w,
                     !.snd_buf = SubSeq(@, k + 1, Len(@))]
  IN  IF k > 0 THEN Flush(q, t) ELSE q

\* Segments the far end may have acknowledged: a prefix of the sent ones.
Sent(p) == {k \in 0..Len(p.snd_buf) : \A i \in 1..k : p.snd_buf[i].xmit > 0}

----------------------------------------------------------------------------
(* The far ends and the users *)

\* Any other message does to the timers what a ping does that is not answered.
Messages == {"Hello", "Ping", "Ack", "Bye"}

\* What far end f may send now: Hello first, and once.
MaySend(f) ==
  CASE peer[f].state = "None" -> IF role = "client" THEN {} ELSE {"Hello"}
    [] peer[f].state = "Connected" ->
         IF "Hello" \in peer[f].inbox THEN {} ELSE {"Hello"}
    [] peer[f].state = "Authenticated" -> {"Ping", "Ack", "Bye"}
    [] peer[f].state = "Disconnected" -> {}

\* A datagram that arrives during a tick is one that arrives after it.
Arrive(f, m) ==
  /\ phase = "idle"
  /\ m \in MaySend(f) \ sock[f]
  /\ sock' = [sock EXCEPT ![f] = @ \cup {m}]
  /\ heard' = [heard EXCEPT ![f] = now]
  /\ UNCHANGED <<role, now, peer, phase, todo, gap, lastTick, answered,
                 refused, drop>>

\* A session begins: what the history knows of the peer is forgotten.
Begin(f, p) ==
  /\ peer' = [peer EXCEPT ![f] = p]
  /\ heard' = [heard EXCEPT ![f] = now]
  /\ lastTick' = [lastTick EXCEPT ![f] = now]
  /\ answered' = [answered EXCEPT ![f] = now]
  /\ refused' = [refused EXCEPT ![f] = now]

\* KcpClient.Connect: refused while connected.
Connect(f) ==
  /\ role = "client" /\ phase = "idle"
  /\ peer[f].state \in {"None", "Disconnected"}
  /\ Begin(f, SendReliable(IF peer[f].state = "None" THEN NewKcpPeer(now)
                           ELSE Reset(peer[f], now), now))
  /\ sock' = [sock EXCEPT ![f] = {}]
  /\ UNCHANGED <<role, now, phase, todo, gap, drop>>

\* KcpServer.Send and KcpClient.Send.
Send(f) ==
  /\ phase = "idle"
  /\ peer[f].state = "Authenticated"
  /\ peer' = [peer EXCEPT ![f] = SendTimed(@, now)]
  /\ UNCHANGED <<role, now, sock, phase, todo, gap, heard, lastTick, answered,
                 refused, drop>>

----------------------------------------------------------------------------
(* The ticking goroutine *)

Active == {f \in Peers : peer[f].state # "None"}

\* Is a segment outstanding that was transmitted MaxRetransmits times?
Overdue(p) == \E i \in DOMAIN p.snd_buf : p.snd_buf[i].xmit >= MaxRetransmits

NoDrop == [why |-> "none", silent |-> 0, stall |-> 0, unacked |-> FALSE]

\* The peer of f becomes p, which may have taken a Disconnect.
Becomes(f, p, why) ==
  LET gone == Slept(peer[f], p) > 0
  IN  /\ peer' = [peer EXCEPT ![f] = p]
      /\ now' = now + Slept(peer[f], p)
      /\ drop' = IF gone
                 THEN [why |-> why, silent |-> now - heard[f],
                       stall |-> now - lastTick[f], unacked |-> Overdue(peer[f])]
                 ELSE drop

\* Between two ticks the application does something else.
Wait ==
  /\ phase = "idle" /\ gap < MaxGap /\ now < Horizon
  /\ now' = now + 1 /\ gap' = gap + 1
  /\ UNCHANGED <<role, peer, sock, phase, todo, heard, lastTick, answered,
                 refused, drop>>

\* Every tick takes some time, the last read of the socket waits for it.
BeginTick ==
  /\ phase = "idle" /\ gap > 0 /\ now < Horizon
  /\ phase' = "receive"
  /\ UNCHANGED <<role, now, peer, sock, todo, gap, heard, lastTick, answered,
                 refused, drop>>

\* processMessage and RawInput: one datagram of f.  A first Hello makes a
\* server's peer, which answers it; a peer being removed hears nothing.
Receive(f) == \E m \in sock[f] :
  /\ phase = "receive"
  /\ sock' = [sock EXCEPT ![f] = @ \ {m}]
  /\ \/ /\ m = "Hello" /\ peer[f].state = "None"
        /\ \E w \in 0..RmtWnd :
             Begin(f, [SendReliable([NewKcpPeer(now) EXCEPT !.rmt_wnd = w], now)
                         EXCEPT !.state = "Authenticated"])
        /\ UNCHANGED <<now, drop>>
     \/ /\ m = "Bye" /\ peer[f].state = "Authenticated"
        /\ Becomes(f, Disconnect(peer[f]), "bye")
        /\ UNCHANGED <<heard, lastTick, answered, refused>>
     \/ /\ m # "Bye" /\ peer[f].state \in {"Connected", "Authenticated"}
        /\ \E k \in (IF m = "Ack" THEN Sent(peer[f]) ELSE {0}), w \in 0..RmtWnd :
             Becomes(f, Input(peer[f], m, k, w, now), "none")
        /\ UNCHANGED <<heard, lastTick, answered, refused>>
     \/ /\ \/ peer[f].state = "Disconnected"
           \/ m # "Hello" /\ peer[f].state = "None"
        /\ UNCHANGED <<now, peer, heard, lastTick, answered,
                 refused, drop>>
  /\ UNCHANGED <<role, phase, todo, gap>>

\* The socket is empty; the server takes its snapshot of the connections.
EndReceive ==
  /\ phase = "receive" /\ \A f \in Peers : sock[f] = {}
  /\ phase' = "tick" /\ todo' = Active
  /\ UNCHANGED <<role, now, peer, sock, gap, heard, lastTick, answered, refused>>
  /\ drop' = NoDrop

\* For PING_INTERVAL, f has sent no pong, was refused none and is connected.
Due(f) == now - answered[f] >= PING_INTERVAL /\ now - refused[f] >= PING_INTERVAL

\* KcpPeer.TickIncoming: a peer that a check disconnects is ticked on, later
\* by the time Disconnect slept.
TickIncoming(f) ==
  LET p    == peer[f]
      time == Time(p, now)
      p1   == HandleTimeout(p, time)
      p2   == HandleDeadLink(p1)
      t    == now + Slept(p, p2)
      p3   == HandlePing(p2, time, t)
      p4   == ReceiveAll(p3, time, t)
  IN  /\ phase = "tick" /\ f \in todo
      /\ todo' = todo \ {f}
      /\ lastTick' = [lastTick EXCEPT ![f] = now]
      /\ \/ /\ p.state = "Connected"
            /\ Becomes(f, ReceiveHello(p3, t),
                       IF p1 # p THEN "timeout" ELSE "dead_link")
            /\ UNCHANGED <<answered, refused>>
         \/ /\ p.state = "Authenticated"
            /\ Becomes(f, p4,
                       IF p1 # p THEN "timeout" ELSE "dead_link")
            /\ answered' = [answered EXCEPT ![f] =
                 IF Len(p4.snd_buf) > Len(p3.snd_buf) THEN now ELSE @]
            /\ refused' = [refused EXCEPT ![f] =
                 IF "Ping" \in p.inbox /\ Due(f) /\ ~Room(p3) THEN now ELSE @]
         \/ /\ p.state = "Disconnected"
            /\ UNCHANGED <<now, peer, answered, refused, drop>>
      /\ UNCHANGED <<role, sock, phase, gap, heard>>

\* All are ticked; a server forgets the disconnected ones.
EndIncoming ==
  /\ phase = "tick" /\ todo = {}
  /\ phase' = "flush"
  /\ peer' = [f \in Peers |->
                IF peer[f].state = "Disconnected" /\ role = "server" THEN NoPeer
                ELSE peer[f]]
  /\ todo' = {f \in Peers : peer'[f].state # "None"}
  /\ UNCHANGED <<role, now, sock, gap, heard, lastTick, answered, refused>>
  /\ drop' = NoDrop

\* KcpPeer.TickOutgoing: flush returns a duration, which is kept as the time
\* of the next flush.
TickOutgoing(f) ==
  LET p  == peer[f]
      p1 == HandleDeadLink(p)
      t  == now + Slept(p, p1)
      q  == Flush(p1, t)
  IN  /\ phase = "flush" /\ f \in todo
      /\ todo' = todo \ {f}
      /\ IF p.state = "Disconnected"
         THEN UNCHANGED <<now, peer, drop>>
         ELSE Becomes(f, IF p1.flushInterval = 0 \/ Time(p1, t) >= p1.flushInterval
                         THEN [q EXCEPT !.flushInterval = NearestRto(q.snd_buf, t)]
                         ELSE p1, "dead_link")
      /\ UNCHANGED <<role, sock, phase, gap, heard, lastTick, answered, refused>>

EndTick ==
  /\ phase = "flush" /\ todo = {}
  /\ phase' = "idle" /\ gap' = 0
  /\ UNCHANGED <<role, now, peer, sock, todo, heard, lastTick, answered, refused>>
  /\ drop' = NoDrop

----------------------------------------------------------------------------

Init ==
  /\ role \in Roles
  /\ now = 0 /\ phase = "idle" /\ todo = {} /\ gap = 0
  /\ peer = [f \in Peers |-> NoPeer]
  /\ sock = [f \in Peers |-> {}]
  /\ heard = [f \in Peers |-> 0]
  /\ lastTick = [f \in Peers |-> 0]
  /\ answered = [f \in Peers |-> 0]
  /\ refused = [f \in Peers |-> 0]
  /\ drop = NoDrop

Next ==
  \/ Wait \/ BeginTick \/ EndReceive \/ EndIncoming \/ EndTick
  \/ \E f \in Peers :
       \/ Connect(f) \/ Send(f) \/ Receive(f)
       \/ TickIncoming(f) \/ TickOutgoing(f)
       \/ \E m \in Messages : Arrive(f, m)

Spec == Init /\ [][Next]_vars

----------------------------------------------------------------------------
(* Properties *)

Uint32 == 0..ClockSize - 1

Segment == [xmit : Nat, rto : Nat, resendts : Nat]

PeerType ==
  [state : {"None", "Connected", "Authenticated", "Disconnected"},
   once : BOOLEAN, start : Nat, lastReceiveTime : Uint32, LastPingTime : Uint32,
   LastPongTime : Uint32, flushInterval : 0..Interval, dead : BOOLEAN,
   snd_buf : Seq(Segment), rmt_wnd : Nat, inbox : SUBSET Messages]

Drop == [why : {"none", "timeout", "dead_link", "bye"}, silent : Int,
         stall : Int, unacked : BOOLEAN]

\* Type invariant: the clocks and timers of the peers, which never have more
\* than SndWnd segments outstanding.
TypeOK ==
  /\ role \in Roles
  /\ now \in Nat /\ gap \in Nat
  /\ peer \in [Peers -> PeerType]
  /\ \A f \in Peers : Len(peer[f].snd_buf) <= SndWnd
  /\ sock \in [Peers -> SUBSET Messages]
  /\ phase \in {"idle", "receive", "tick", "flush"}
  /\ todo \in SUBSET Peers
  /\ heard \in [Peers -> Nat]
  /\ lastTick \in [Peers -> Nat]
  /\ answered \in [Peers -> Nat]
  /\ refused \in [Peers -> Nat]
  /\ drop \in Drop

(***************************************************************************)
(* HandleTimeout measures this end's ticker, never the far end's silence:  *)
(* SendPing resets lastReceiveTime at least every PING_INTERVAL of ticks,  *)
(* so a peer that times out had not been ticked for longer than            *)
(* Timeout - PING_INTERVAL, whatever was or was not received.              *)
(***************************************************************************)
TimeoutMeansStall == drop.why = "timeout" => drop.stall + PING_INTERVAL > Timeout

(***************************************************************************)
(* A far end that falls silent is found out, not by HandleTimeout but by   *)
(* the pings it does not acknowledge: the next ping is due, is transmitted *)
(* MaxRetransmits times with growing waits, and the next tick sees         *)
(* dead_link.  Each wait ends with a tick, at most MaxGap late when no     *)
(* other far end's Disconnect holds the ticker up.                         *)
(***************************************************************************)
DetectionTime ==
  PING_INTERVAL + 2 * MaxGap
  + (MaxRetransmits - 1) * (Rto + MaxGap)
  + Backoff * (((MaxRetransmits - 1) * (MaxRetransmits - 2)) \div 2)

\* The far end last advertised a closed window, and nothing is in flight.
Shut(p) == p.rmt_wnd = 0 /\ (p.snd_buf = <<>> \/ p.snd_buf[1].xmit = 0)

\* Unless it closed its window before: every ping is refused then.
SilentPeerIsDropped ==
  \A f \in Peers :
    (peer[f].state # "None" /\ ~peer[f].once /\ ~Shut(peer[f])) =>
      now - heard[f] <= DetectionTime

\* With the window closed nothing drops it: SendPing puts HandleTimeout off,
\* and a window probe is not counted towards dead_link.
SilenceIsAlwaysFound ==
  \A f \in Peers :
    (peer[f].state # "None" /\ ~peer[f].once) => now - heard[f] <= DetectionTime

\* A tick of f that finds a ping when a pong is due sends one or has no room
\* for it in the windows; and no tick sends one that is not due.
Answers(f) ==
  phase = "tick" /\ f \in todo \ todo' /\ peer[f].state = "Authenticated" =>
    /\ "Ping" \in peer[f].inbox /\ Due(f) => answered'[f] = now \/ refused'[f] = now
    /\ answered'[f] # answered[f] => Due(f)

(***************************************************************************)
(* In the first session of a peer pings are sent back at most once every   *)
(* PING_INTERVAL, as the comment in TickIncoming_Authenticated says, and   *)
(* none is passed over when a pong is due: SendPong takes it, or the       *)
(* windows have no room for it.  LastPongTime is set in both cases.        *)
(***************************************************************************)
FirstPingsAnswered == [][\A f \in Peers : ~peer[f].once => Answers(f)]_vars

(***************************************************************************)
(* The same in every session of a peer: a server's peers live for one, a   *)
(* client's peer is Reset, which keeps the LastPongTime of the old clock.  *)
(***************************************************************************)
PingIsAnswered == [][\A f \in Peers : Answers(f)]_vars

(***************************************************************************)
(* What the comment in HandleTimeout says: timeouts only happen when the   *)
(* connection is really lost, nothing of the far end arrived for Timeout.  *)
(***************************************************************************)
TimeoutOnlyWhenLost == drop.why = "timeout" => drop.silent >= Timeout

(***************************************************************************)
(* What HandleDeadLink says when it disconnects: a message was             *)
(* retransmitted MaxRetransmits times without ack.                         *)
(***************************************************************************)
DeadLinkMeansUnacked == drop.why = "dead_link" => drop.unacked

(***************************************************************************)
(* Interval is the time between two flushes: when TickOutgoing is done     *)
(* with a peer, the next flush is still ahead.                             *)
(***************************************************************************)
NextFlushIsAhead ==
  [][\A f \in Peers :
       /\ phase = "flush" /\ f \in todo \ todo'
       /\ peer'[f].state \in {"Connected", "Authenticated"}
       => Time(peer'[f], now') < peer'[f].flushInterval]_vars
=============================================================================
