# Verification of kcp2k-go

kcp2k-go is a reliable-UDP session library: a Go port of kcp2k on top of a port of the
KCP ARQ protocol. This directory holds TLA+ modules that model its core, TLC
configurations that check them on small instances, and proofs checked by TLAPS. Source
lines are those of `../src`; `PROJECT.json` maps every definition to them.

## The system

| Part | State | Operations | What makes it correct |
|---|---|---|---|
| `KCP` (kcp.go) | `snd_queue`, `snd_buf`, `snd_una`, `snd_nxt`, `rcv_nxt`, `rcv_buf`, `rcv_queue`, `acklist`, `rmt_wnd`, `cwnd`, `ssthresh`, `incr`, `probe`, `probe_wait`, `state` | `Send`, `Recv`, `Input`, `flush` | messages arrive whole, once, in order; nothing is freed while it may still be needed; the windows hold; what was accepted is delivered in the end, or the link is given up |
| `RingBuffer` (ringbuffer.go) | `head`, `tail`, `elements` | `Push`, `Pop`, `Peek`, `Discard`, `Clear`, `ForEach`, `ForEachReverse`, `grow` | it is a FIFO queue, wrapped or grown; no stale reference survives |
| `KcpPeer` (peer.go) | the KCP, `State`, `Cookie`, `disconnectOnce`, time stamps, buffers, a lock | `SendData`, `SendReliable`, `OnRawInput*`, `TickIncoming`, `TickOutgoing`, `Disconnect`, `Reset` | handshake, then data, then exactly one end of the session |
| `KcpClient` (client.go) | a peer, its socket, `connected` | `Connect`, `Send`, `Disconnect`, `RawInput`, ticks | the user hears of one session at a time, from one server |
| `KcpServer`, `KcpServerConnection` (server.go, connection.go) | `connections`, `toRemove`, a peer and a cookie per connection | `processMessage`, `createConnection`, `Send`, `Disconnect`, ticks | `OnConnected`/`OnDisconnected` pair up; late datagrams of an old session do not count in a new one |
| hash and cookies (common.go) | none | `ConnectionHash`, `GenerateCookie` | collisions of the hash do no harm to the callbacks |
| timers of `KcpPeer` (peer.go, kcp.go) | `lastReceiveTime`, `LastPingTime`, `LastPongTime`, `resendts`, `xmit`, `state` | `HandleTimeout`, `HandlePing`, `HandleDeadLink`, pongs | a silent far end is found out, a talking one is not dropped, pings are answered |
| RTT estimator (kcp.go) | `rx_srtt`, `rx_rttvar`, `rx_rto`, `rx_minrto`, `interval` | `update_ack`, `NoDelay` | signed shifts and `uint32` conversions stay in range; the timeout exceeds the round trip |
| sizes (peer.go, kcp.go) | `Mtu`, `mtu`, `mss`, maximum sizes | `SetMtu`, `WndSize`, `Send`, `flush`, `SendUnreliable` | what is accepted fits the window, what is sent fits the mtu |
| locks and callbacks (server.go, peer.go) | the peer's mutex, `disconnectOnce`, the server's maps | `Send`, `Disconnect`, `Start`, `Stop`, the tick, the user's callbacks | nobody waits in a circle; connections leave the map after their end and only then |
| `Pool` (pool.go) | two `sync.Pool`s, pointers and what they point to | `Get`, `Put` | a buffer has one owner |
| configuration, logging, headers, connection pool | none of their own | | see "Not modelled" |

How they interact. The user's goroutine calls `Send` and `Disconnect`; a ticking
goroutine calls `RawInput` for each datagram of the socket, then the ticks. Both end in
`KcpPeer`, which takes its lock around every call of `KCP`. `KCP` calls back into the
peer to write datagrams, and the peer calls back into client or server
(`OnAuthenticated`, `OnData`, `OnDisconnected`), which change the server's map and the
client's flags. The two ends share nothing but UDP.

What is hard in this code: datagrams are lost, repeated and overtaken; `Input` flushes
from inside; acknowledged segments stay in `snd_buf` with their buffers already in the
pool; windows are closed and opened by messages that may be lost; one peer object
serves several sessions; `Disconnect` may come from the user, from the other end and
from a tick, in any order, and sleeps 100 ms in the middle. `PROJECT.json` lists these
hazards line by line with the properties that guard them.

## Modules

    ReliableChannel    what the two users of a reliable channel are promised
      ^ implemented by
    Kcp                two KCPs, the peers that drive them, the network
      MCKcp            instances for TLC
      KcpProofs        theorems about Kcp
    FifoQueue
      ^ implemented by
    RingBuffer         MCRingBuffer;  RingBufferProofs
    Session            client, server and connections;  MCSession;  SessionProofs
    Heartbeat          clocks, pings, timeouts, dead links;  HeartbeatProofs
    ServerThreads      goroutines, locks, callbacks of a server;  MCServerThreads;
                       ServerThreadsProofs
    Serial             32-bit sequence numbers, for what Kcp takes as naturals;
                       SerialProofs
    RttEstimator       the retransmission timeout
    Sizes              bytes of messages, segments and datagrams
      ArithmeticProofs theorems about RttEstimator and Sizes
    ItemPool
      ^ implemented by
    Pool               MCPool;  PoolProofs

Kcp leaves out what the modules below it in this list look at more closely: time (the
environment chooses which timers have expired; Heartbeat has the clock), the width of
sequence numbers (Serial), the timeout's value (RttEstimator) and bytes (Sizes). Session
and ServerThreads look at the same server from two sides: messages and cookies there,
locks and goroutines here.

### Kcp

The variables carry the names of the fields of `KCP`, each a function of the end, `A` or
`B`. `sent`, `stream` and `delivered` are history: the messages `Send` accepted, their
fragments, and the messages `Recv` returned.

| Action | Code |
|---|---|
| `SendReliable` | `KcpPeer.SendReliable` with `KCP.Send`, its flow-control refusal and the flush of a full window |
| `TickOutgoing` | `KcpPeer.TickOutgoing` of a peer that is not disconnected: `HandleDeadLink`, then one `flush(false)`, also when the former disconnected |
| `HandleDeadLink` | the same check at the head of `TickIncoming` |
| `Recv` | `ReceiveNextReliable` with `PeekSize` and `KCP.Recv`, including the move from `rcv_buf` and the WINS it schedules |
| `Deliver` | `RawInput` takes a datagram off the socket; `Input` begins |
| `InputAck`, `InputPush`, `InputProbe` | one turn of `Input`'s loop: header (`rmt_wnd`, `parse_una`, `shrink_buf`), then the command |
| `InputEnd` | the tail of `Input`: `cwnd`, then a full flush if the window slid, else the acknowledgements |

`Flush` is the whole of `flush(false)` in the code's order: acknowledgements, probes,
slide of the send window, the classes of transmission (first, fast, early, timed out),
the dead-link mark, the congestion window. An action is one critical section of the
peer's lock; only `Input` is split, one step per segment, and the end is busy meanwhile.
`gone` says that `HandleDeadLink` has disconnected the peer: it is not ticked or read any
more. `SendReliable` and `Input` do not look at `State` and go on, with their flushes, until
the owner forgets the peer.

Data is abstract, control is not. A message is the sequence of its mss-sized chunks.
Which timers have expired and which segments are older than the time stamp of an ACK is
chosen by the environment, so the model has at least the behaviours of the code for
every timing. `xmit` and `fastack` saturate at the largest value they are compared with.
The network keeps any part of what was ever sent and not lost; a delivered datagram
stays and may come again. `cwnd` and `incr` are computed modulo `UMod` where `uint32`
wraps: `ssthresh + resent` does so on every fast retransmission with `FastResend = 0`.

### Session

KCP is reduced to what the session can see of it: the messages a peer accepted, the
sequence numbers acknowledged, the segments received. What is kept in full: cookies,
the handshake, the `Hello` that creates a connection and the datagrams that do not, the
temporary peer of an unknown address, `disconnectOnce`, `Reset`, the order of a tick
(checks first, then reading), the deferred removal of connections, and the two halves
of a user's `Disconnect` around its sleep. The ticking goroutine of each side takes one
step per datagram and one per tick; the user's calls come in between. Disconnects made
by a tick happen within that tick, sleep included.

`ConnectionHash` is computed from the IP and port behind each address (`Endpoint`); the
instance's two endpoints, 10.0.0.1:50031 and 10.0.0.2:50000, have the same hash.

### Heartbeat

One `KcpServer` or `KcpClient` (`role`), its ticking goroutine, and far ends that send
`Hello`, `Ping`, acknowledgements and goodbyes or fall silent. A tick is taken apart:
`BeginTick`, one `Receive` per datagram, `EndReceive`, one `TickIncoming` per peer in any
order, `EndIncoming` (removal), one `TickOutgoing` per peer, `EndTick`. `now` advances while
the application waits (`Wait`) and by `Linger` in every `Disconnect` (`Becomes`), since it
sleeps 100 ms in the goroutine that ticks everyone. Each peer has the code's timers,
relative to its `Reset` and modulo `ClockSize`; `Reset` keeps what the code forgets to
clear (`disconnectOnce`, `LastPongTime`, `flushInterval`). A segment is its `xmit`, `rto` and
`resendts`. `Rto` is constant here, and congestion control is off, its default. `rmt_wnd` is what
the far end's last segment said, anything up to `RmtWnd`. `Room` is the flow control of
`SendReliable`: without room it refuses pings and pongs as it does data. `answered` and
`refused` are history: when a peer last sent a pong, and when one that was `Due` found no
room.

### ServerThreads

Every goroutine has a stack of frames, a place in the code and the connection it is
about; an action replaces the innermost frame by what that piece of code goes on to
call. The peer's lock and `disconnectOnce` are in `conns`; code under the server's own
mutex `mu`, which is never held over a call, is one step. `UserCalls` says what the
application's goroutines call, `Calls` what each callback may call in turn. `TickOutgoing`
ranges over the map itself, without `mu`, as the code does; `onDisconnected` looks the
connection up by id after the sleep, as the code does.

Which callbacks are safe. `NoWaitCycle` holds when `OnConnected` and `OnData` send and
disconnect, `OnDisconnected` sends and `OnError` calls nothing (`Polite`), and when `OnError`
disconnects and `OnDisconnected` calls nothing (`Strict`). TLC finds a deadlock for each of
these policies: `OnError` sends (`SendReliable` calls it with the peer's lock);
`OnDisconnected` disconnects, or sends no data, which disconnects (a `sync.Once` waits for
itself); `OnError` disconnects and `OnDisconnected` sends (two goroutines, one with the
lock and one inside the Once).

What a message makes `TickIncoming` call is `MessageCalls`: the user, `SendPong`,
`Disconnect`, or `OnError` and `Disconnect`. One message a tick stands for the loop of
`TickIncoming_Authenticated`, whose turns are alike and hold nothing between them.

### Serial

One direction of a connection with sequence numbers modulo `SnMod`, compared by
`_itimediff`, in `snd_buf` and in the receiver's heap. A history gives each segment its true
number. `SerialAssumption` is what the code relies on: a window is less than half of the
numbers, and the network keeps no PUSH until half a round of segments (2^31) have followed
the one it carries, and no ACK until as many have followed its una. A retransmission is
as old as its segment.

### RttEstimator, Sizes

`update_ack` and `NoDelay` with the code's signed shifts and `uint32` conversions, for samples
of any size that an int32 holds; the sum of `update_ack` may wrap around. `Sizes` keeps
lengths only: what `Reset` makes of a configuration, `Send`'s fragments and `flush`'s packing
of segments (`makeSpace`, one action per encoded segment), and the unreliable channel.

### Pool

`Get` and `Put` one memory access per step, the garbage collector emptying either
`sync.Pool` at any moment. Every pool of the repository is made by `New`, so `items.Get` never
returns nil (pool.go:38-43). The refinement to `ItemPool` takes effect at the accesses to
`items`.

### RingBuffer

The slice, `head` and `tail` with the code's modular arithmetic and both growth rules;
the refinement maps the stretch between `head` and `tail` to the queue of `FifoQueue`.

## Runs

| Run | Instance | Shows |
|---|---|---|
| kcp_safety | two messages of two fragments, send window 4, receive window 3, 2 datagrams in flight, dead link at the first transmission | `TypeOK`, `InOrderDelivery`, `WireMatchesStream`, `NothingFreedEarly`, `NeverOverrun`, `NothingHeldBack`, `WindowsBounded`, `NoStepBack`, `ImplementsChannel` |
| kcp_live | three messages, congestion control on, send window 3, receive window 2, remote window presumed 3, two segments per datagram, dead link after 2 transmissions | `EventuallyDelivered` |
| ring_buffer | slices of 3 to 7, discards up to 4 | `TypeOK`, `IterationInOrder`, `NoStaleSlots`, `IsQueue` |
| session_replay | one address, two cookies, two reliable messages a peer, 2 datagrams in flight | `NoReplay`, `OneServer` |
| session_reconnect | two sessions from two addresses that hash to one id | `TypeOK`, `PairedCallbacks` |
| session_disconnect | as session_replay | violated: the finding below |
| heartbeat | a server's peer or a client with several sessions, up to time 10, `Timeout` 3, pings every 2, pauses up to 2, dead link after 2 transmissions, remote window presumed 2 and advertised as 0 or 1 | `TypeOK`, `TimeoutMeansStall`, `SilentPeerIsDropped`, `FirstPingsAnswered` |
| threads | a ticker, a goroutine that starts, stops and disconnects, one that sends and disconnects, two connections under one id, callbacks `Polite` | `TypeOK`, `NoWaitCycle`, `RemovedAreDisconnected`, `DisconnectedIsRemoved`, `EveryCallReturns` |
| pool | three goroutines, four items, four pointers | `TypeOK`, `PointersAreSpare`, `ImplementsItemPool` |
| serial_numbers | numbers modulo 8, windows of 3, ten segments | `TypeOK`, `MovedInOrder`, `FreedWereReceived`, `OldestIsUnderstood`, `NextIsNotHeldBack` |
| rtt_estimator | round trips of 0 to 40, intervals below, inside and above the clamps | `EstimatesInRange`, `SettledTimeoutSuffices` |
| sizes | mtus at and above the least one, windows of 0 to 6, lengths around every multiple of mss | `TypeOK`, `MessageFitsWindow`, `DatagramFits` |

Bounds, and why they are enough to see the interesting cases:

- `NetCap` bounds the datagrams in flight at a moment, not in a behaviour: any of them
  may be lost, kept or delivered again at each step. With two, a stale datagram can wait
  while newer ones pass it, which is what reordering and duplication come down to.
  kcp_live has one, which may still be lost or repeated; KcpLiveWindow.cfg has two.
- `MaxSent` and the window sizes of kcp_safety give four fragments against windows of three
  and four: the windows fill, close and reopen, messages straddle the window,
  retransmissions and acknowledgements of all positions occur. The two messages are
  alike, so the run sees messages merged, split, lost or repeated, and fragments out of
  place; that two different messages are not exchanged is the theorem
  `DeliveredInOrder`. kcp_live needs three messages: cwnd lets a second segment out only
  after the first is acknowledged, and only then can one overtake another and
  `ssthresh + resent` wrap.
- `DeadLink` 1 in kcp_safety makes a peer give up at the tick that follows its first
  transmission. That tick still flushes, so each segment may be retransmitted by it, and
  so may those that `SendReliable` and `Input` flush afterwards; the acknowledgements of all
  that keep coming. With `DeadLink` 2 the instance has 1.4 million states;
  KcpRetransmit.cfg checks it with a send window of 2. kcp_live has `DeadLink` 2: the
  window closes and reopens while no transmission is repeated too often.
- `FastResend` is 0 in the runs, the setting that wraps; a fast retransmission sends what a
  timer may send anyway. KcpDuplex.cfg turns it on.
- `Cookies` bounds the connections a server ever creates, `Addr` the sessions a client
  ever starts, `MaxOut` the reliable messages of a peer, Hello included.
- In heartbeat `Horizon` gives a client time for a session, its end and another one, and is
  more than `DetectionTime`, 9 there, so that `SilentPeerIsDropped` has something to refute.
  A far end that advertises 1 fills its window with one segment, one that advertises 0
  closes it, and 2, which `NewKCP` presumes there, lets a ping and a pong wait together.
  `Timeout - PING_INTERVAL` is 1 and a pause lasts up to 2, so that timeouts happen.
- `MaxConns` 2 lets an id be taken by a second connection once the first one has left the
  map. `MaxStarts` 1 keeps a stopped server stopped, so that no connection can take the id
  of one whose `Disconnect` still sleeps; ThreadsRestart.cfg lets it.
- Serial's ten segments go round the eight numbers once, with every old datagram `Lifetime`
  allows still around. `FRG_MAX` is 4 and `IKCP_MTU_DEF` 80 in sizes, so that both sides of
  every limit are among the lengths.
- Symmetry is used on goroutines, items and pointers of `Pool`, whose properties are safety
  properties and treat them alike.

Deadlock checking is off in two runs: in heartbeat the application stops ticking at
`Horizon`, in serial_numbers all `Total` segments have been sent and read. Each property has
a mutant in `PROJECT.json`: a plausible bug in one definition that makes the run fail.

### Fairness

kcp_live: `FairSpec` assumes of the sender that `Input` terminates and that it is ticked
with its timers expired (`SF` on `TickOutgoing`), and of the receiver that its user reads
(`SF` on `Recv`) and that its window updates leave. The code calls the ticks in a loop for
ever, and both timers (`resendts`, `ts_probe`) expire when nothing happens.

Nothing is assumed of the delivery of data or acknowledgements: a segment may be lost as
often as it is sent. The sender then gives up after `MaxRetransmits` transmissions
(`HandleDeadLink`), and `EventuallyDelivered` says just that: every message that was accepted
is delivered or its sender gives the link up as dead. The retransmission of what is
outstanding must lead to one or the other; that it may end in a dead link is no excuse
for the window: a sender whose window is closed transmits nothing that could be counted.
For window probes and for window updates, which are repeated without end, the network is
assumed to let one through in the end (strong fairness of the delivery of a WASK at the
receiver, and of a datagram that would raise `rmt_wnd` at the sender). Nor is any datagram
duplicated for ever (`[]<>Quiet`): an ACK that advertises a window of 0 and is delivered
again for ever overwrites `rmt_wnd` each time, and the window never opens. No fairness is
assumed of `Send`, nor of `HandleDeadLink`, which `TickOutgoing` contains.

threads: strong fairness of each goroutine's `Call` and of the ticker's `Tick`. The scheduler
runs every goroutine, Go's mutexes hand over to a waiter that has waited 1 ms, and the
application ticks in a loop (main.go:182-195). `Tick` contains `EndReceive`: the socket runs
empty now and then. Nothing is assumed of `UserCall` and `processMessage`.

## What the runs say about time

- `HandleTimeout` never reports silence. `SendPing`, `SendPong` and `SendData` set
  `lastReceiveTime`, and a ping is due every `PING_INTERVAL`, so a peer times out only when
  its own ticker did not come for longer than `Timeout - PING_INTERVAL`
  (`TimeoutMeansStall`; proved for all parameters).
- What finds a silent far end is `dead_link`, after `DetectionTime`: a ping's 20 transmissions
  (the default `MaxRetransmits`) with a wait that grows by half of `rx_rto` each time with
  nodelay, by all of it otherwise, some 104.5 or 190 times `rx_rto` in all
  (`SilentPeerIsDropped`; proved for one far end and an `Interval` of at most
  `PING_INTERVAL`).
- One silent far end is never found: the one whose last segment advertised a window of 0
  and acknowledged all that was transmitted (`Shut`). `SendReliable` refuses every ping
  (peer.go:574), `SendPing` has put `HandleTimeout` off by then (peer.go:517), and window probes
  do not count towards `dead_link`. `SilentPeerIsDropped` excepts it, and
  HeartbeatClosed.cfg shows it (`SilenceIsAlwaysFound`).
- In a peer's first session a tick that finds a ping when a pong is due, none having been
  sent or refused for `PING_INTERVAL`, sends one, unless the windows have no room for it,
  and no tick sends one that is not due (`FirstPingsAnswered`; in a server in every
  session; both proved). `LastPongTime` is set for a refused pong too (peer.go:881), so that
  pings go without an answer for another `PING_INTERVAL`.

## Finding

**A client cannot be disconnected twice** (session_disconnect). `Disconnect` runs under
`disconnectOnce`, and `Reset`, which `Connect` uses for a new session, does not renew it. The
test at client_server_test.go:310 expects ten rounds of connecting and disconnecting to
work.

## Further configurations

Not among the runs; each is checked with `tlc -config <cfg> <module>`.

| Configuration | Module | Result |
|---|---|---|
| KcpDuplex.cfg | MCKcp | passes: both ends send, two segments per datagram, fast resend on; two peers that both gave up may stop, so deadlock is not checked |
| KcpRetransmit.cfg | MCKcp | passes: kcp_safety with a send window of 2 and dead link after 2 transmissions |
| KcpLiveWindow.cfg | MCKcp | passes: `EventuallyDelivered` with a receive window of 1 and two datagrams in flight |
| HeartbeatServer.cfg | Heartbeat | passes: a server with `Timeout` 4 up to time 11, and `PingIsAnswered` |
| HeartbeatClosed.cfg | Heartbeat | violates `SilenceIsAlwaysFound`: a far end that closed its window and fell silent is not dropped (peer.go:517, 574) |
| ThreadsStrict.cfg | MCServerThreads | passes: `NoWaitCycle` under the callbacks `Strict` |
| SessionFinal.cfg | MCSession | violates `DisconnectedIsFinal`: `HandleTimeout` and `HandleDeadLink` disconnect and return into the tick, which goes on reading; a Hello in the queue authenticates the peer again. peer.go:790 says a disconnected peer's tick does nothing |
| SessionHello.cfg | MCSession | violates `HelloTeachesCookie`: a Ping that overtakes the Hello is acknowledged by a temporary peer under a fresh cookie, which the client adopts. connection.go:49 says the client learns the cookie from the Hello's reply |
| SessionCookie.cfg | MCSession | violates `ConnectedHasCookie`: `GenerateCookie` may return 0, which a client takes for none (client.go:175, 222) |
| HeartbeatPong.cfg | Heartbeat | violates `PingIsAnswered`: `Reset` starts the clock again and keeps `LastPongTime`, so a client's next session leaves pings unanswered until it is as old as the last one's last pong. peer.go:876 says a ping is sent back, at most once per `PING_INTERVAL` |
| HeartbeatWrap.cfg | Heartbeat | violates `TimeoutOnlyWhenLost`: `lastReceiveTime + Timeout` wraps in the last `Timeout` ms of 2^32 (49.7 days) and a live peer is dropped (peer.go:703-704) |
| HeartbeatStorm.cfg | Heartbeat | violates `TimeoutOnlyWhenLost`: enough goodbyes in one tick, some 90 of 100 ms against a `Timeout` of 10000, keep the ticker from another far end, which is then dropped although its datagrams arrived (peer.go:485) |
| HeartbeatDeadLink.cfg | Heartbeat | violates `DeadLinkMeansUnacked`: `state` is not taken back when the acknowledgement comes after all; peer.go:723 reports "without ack" |
| HeartbeatFlush.cfg | Heartbeat | violates `NextFlushIsAhead`: flush's duration is kept and compared as a time, so that every tick flushes (peer.go:931) |
| ThreadsEcho.cfg | MCServerThreads | violates `NoMapRace`: the echo example's main goroutine stops the server (main.go:209-211) while the ticker ranges over the map (server.go:275) |
| ThreadsRestart.cfg | MCServerThreads | violates `RemovedAreDisconnected`: a `Disconnect` that sleeps across `Stop`, `Start` and a new Hello removes the connection that took its id (server.go:384) |
| SizesSmallMtu.cfg | Sizes | violates `DatagramFits`: with `Mtu` below 55 `SetMtu` refuses, `Reset` does not look, and datagrams of up to 1405 bytes leave (peer.go:269) |

## Proofs

Every theorem holds for all values of the constants that the module's assumption admits:
all windows, messages, numbers of goroutines, timeouts, and every behaviour of the
network, the far ends or the scheduler. A safety theorem is shown from an inductive
invariant: it holds initially, every action keeps it (one lemma per action), and it
implies the property. TLC checked each of these invariants on the module's run before it
was proved.

### Kcp (KcpProofs)

- `TypeCorrect`: `Spec => []TypeOK`. `TypeOK` is inductive as it stands because it says
  more than types: `snd_buf` holds exactly `snd_una .. snd_nxt-1`, and a segment has lost
  its data exactly when it is marked acknowledged. Without the first, `shrink_buf` could
  not be shown to move `snd_una` up to `una` at most; without the second, a PUSH on the
  wire could carry a recycled buffer. Lemma `FlushEffect` says once what `flush(false)` may
  do; each action has a lemma of its own.
- `NeverFreedEarly`: `Spec => []NothingFreedEarly`. The invariant `AckInv` follows an
  acknowledgement back to its source: `snd_una`, the acknowledged marks, the `una` and the
  ACKs on the wire and the pending `acklist` speak only of sequence numbers the other end
  has received, and what is received stays received.
- `NeverStepsBack`: `Spec => NoStepBack`, from `TypeOK` and `FlushEffect`.
- `ReceiverNeverOverrun`, `WindowsStayBounded`, `NothingIsHeldBack`: `NeverOverrun`,
  `WindowsBounded` and `NothingHeldBack`, from `WindowInv`. `rmt_wnd` is whatever
  the last segment said, and may be that of an older header than `snd_una`. The invariant
  bounds every window on the wire by the receiver's whole window; with `snd_una` at most
  the receiver's `rcv_nxt`, which is `AckInv`'s, the sender stays below
  `rcv_nxt + rcv_wnd`, which only grows. If `rcv_wnd` is less than the 32 that `NewKCP`
  presumes, this cannot hold at first, and `NeverOverrun` says so. For the receiver the
  invariant says what the loops of `parse_data` and of `Recv` each leave behind.
- `WireIsFaithful`: `Spec => []WireMatchesStream`. The invariant `StreamInv` places every
  segment: the send queue continues the window, and the segments of the window, of the
  wire, of `rcv_buf` and of `rcv_queue` are those of `stream` at their sequence numbers.
- `DeliveredInOrder`: `Spec => []InOrderDelivery`. The invariant `ReadInv` adds that
  `stream` is the messages of `sent` one after the other, and that a reader always stands
  between two of them. The queue then starts with a whole message or with part of one;
  `PeekSize` refuses the latter, because `ReliableMaxMessageSize` keeps a message below 256
  fragments and `frg + 1` does not wrap; and `Recv` stops at the first `frg` of 0, which
  ends the message.
- `KcpImplementsChannel`: `Spec => ImplementsChannel`, that is `Channel!Spec`. `sent` and
  `delivered` are the channel's own variables: `SendReliable` is its `Send`, `Recv` its
  `Receive`, every other action a stutter.

### Serial (SerialProofs)

`NumbersTypeCorrect`, `StreamNeverWraps`, `OldAcksFreeNothing`, `HeapOrdersTheWrap` and
`OldestStaysUnderstood` are all five invariants of the run, for every modulus. The
inductive `Inv` says where the sender's window, the receiver's and every datagram on the
way lie among the true numbers; from it any two numbers that the code compares are less
than half a round apart, where `_itimediff` is right (lemma `Diff`). That the heap pops the
next segment first needs more: `Less` agrees with the order of the true numbers on
everything in `rcv_buf`, so the n-th pop exists and is unique. The assumption is
`2 * Wnd < SnMod` and `2 * Lifetime <= SnMod`, for `uint32` a window of less than 2^31 and
no datagram that is overtaken by 2^31 later segments.

### RingBuffer (RingBufferProofs)

`RingIsQueue` is the refinement of `FifoQueue`; `RingTypeCorrect`, `RingIterates` and
`RingKeepsNothing` are the run's invariants, for every initial size and element set.
`RingInv` is `TypeOK` and that exactly the slots between `head` and `tail`, going round, hold
an element. The rest is arithmetic about indices modulo the size of the slice (lemmas
`ModWrap`, `SlotOfType`), which `grow` changes under a ring that may be wrapped.

### Pool (PoolProofs)

`PoolIsItemPool` is the refinement of `ItemPool`, `SparePointers` and `PoolTypeCorrect` the
run's invariants, for any sets of goroutines, items and pointers. `PoolInv` gives every
step of `Get` and `Put` the meaning of its variables (`AtStep`), and every item one place:
behind one pointer of `items`, or with one goroutine (`OneOwner`, `HandIsApart`). The
refinement takes effect where a pointer enters or leaves `items`, and `OneOwner` is what
makes the item that leaves one that nobody has.

### ServerThreads (ServerThreadsProofs)

- `ThreadsTypeCorrect`: for all callbacks, however deeply they nest (`Shape`).
- `NobodyWaitsInACircle`: `Orderly /\ Spec => []NoWaitCycle`. `Orderly` are the two
  disciplines above, of which the run has `Polite` and ThreadsStrict.cfg `Strict`; without
  them TLC finds deadlocks, so the hypothesis cannot go. The invariant `Holders` says that
  a goroutine which has a lock or is inside a `disconnectOnce` has the frame that gives it
  back, and above that frame only places the discipline allows: in the first, who has a
  lock waits for nothing and who is inside a Once waits for locks at most; in the second
  the other way round. So a chain of waiting goroutines has at most two links.
- `OnlyTheDisconnectedAreRemoved`: `MaxStarts <= 1 /\ Spec => []RemovedAreDisconnected`,
  for all callbacks. `onDisconnected` goes by the id, after a sleep. The invariants
  (`TickerStack`, `OneInside`, `MapInv`) say that of the connections that ever had an id at
  most one is not yet removed, and that it is the one in the map as long as a goroutine
  sleeps in its `Disconnect`. `Stop` empties the map, and a second `Start` breaks this: a
  sleep that began before `Stop` ends after the id is taken again (ThreadsRestart.cfg).

### Heartbeat (HeartbeatProofs)

`NoWrap` keeps the peers' clocks below 2^32 (49.7 days); HeartbeatWrap.cfg shows what
happens otherwise.

- `PeersTypeCorrect`: `Spec => []TypeOK`, without `NoWrap`.
- `TimeoutIsStall`: `Spec /\ []NoWrap => []TimeoutMeansStall`, for all timeouts,
  intervals, pauses and numbers of far ends. The invariant says of every peer that can
  still be disconnected that at its last tick its last ping was less than `PING_INTERVAL`
  old, and that `lastReceiveTime` is no older than that ping.
- `SilenceIsFound`: `Lone /\ Interval <= PING_INTERVAL /\ Spec /\ []NoWrap =>
  []SilentPeerIsDropped`. `DetectionTime` adds up the waits of a segment's transmissions;
  `SilenceInv` says, for each place of the ticker in its round, that the oldest segment
  has been transmitted as often as its age demands or, if none is on the way, that a ping
  is not due yet or the window is closed (`Shut`). `rmt_wnd` may be smaller than what is
  in flight, and what is in flight then goes on being retransmitted; what waits behind it
  is transmitted when the window has room. `Lone`, one far end: the `Disconnect` of
  another one sleeps in the ticker and the detection is late by so much. `Interval <=
  PING_INTERVAL`: because `flushInterval` holds a duration and is compared as a time,
  `TickOutgoing` flushes nothing in a session younger than that; the configured 10 to 5000
  ms against 1000 ms is where the code leaves the hypothesis, and the delay is then one
  `Interval` at most.
- `FirstSessionAnswers`: `Spec /\ []NoWrap => FirstPingsAnswered`, from `PongInv`: in a
  peer's first session `LastPongTime` is the time of the last pong sent or refused,
  whichever is later, on the clock it is compared with. A tick sends a pong exactly if
  one is due and there is room for it after the tick's own ping (`LiveAnswers`), which shows
  in the length of `snd_buf`. `ServerAnswers` is the same for every session of a server
  (`PingIsAnswered`), whose peers are never `Reset`; HeartbeatPong.cfg shows that it is not
  true of a client.

### Session (SessionProofs)

For any addresses, also with colliding hashes, any cookies and whatever the network does
with the datagrams.

- `CallbacksArePaired`: `Spec => []PairedCallbacks`. The property is inductive once the
  counters are known to be numbers: the closure `onDisconnected` reports a connection in
  the step that puts it into `toRemove`, and only if it is in the map and not there yet,
  and only `processMessage` puts one into the map.
- `StateTyped`: `Spec => []TypeOK`. The invariant `Shape` adds what is in flight: every
  datagram is one that a peer makes, with a message of a peer and a sequence number below
  the bound. That a tick hands over messages and calls, and nothing else, is a lemma about
  `AtPlaces`, for which the n-th of a finite set of places exists and is unique.
- `DataAreNotReplayed`: `Spec => []NoReplay`, over all the connections the server makes for
  a session of the client. The state does not show what an abandoned session had sent, or
  for whom a connection that is gone was made, so `ReplayInv` says that there are such
  histories: `S`, the messages sent from each address; `K`, the cookie the session at an
  address keeps to (0: none yet); `O`, the address each cookie was drawn for. A datagram
  from an address carries 0 or its `K`, and with 0 no Data. A connection with a cookie
  other than the address's `K` has therefore received no Data (`NoData`), and it never
  will; the one with that cookie has handed over exactly the Data among the first `nxt`
  messages of `S` (`Copies`, `Count`). As a cookie is drawn once, there is at most one
  such connection, and its successor cannot start again. The proof needs neither an
  injective `ConnectionHash` nor nonzero cookies.
- `OneServerIsHeard`: `0 \notin Cookies` gives `Spec => []OneServer`. `OneInv` says that
  there is `T`, what was sent under each cookie, that starts with the Hello, and that the
  client's messages are those of `T` at its own cookie. The first message that the client
  takes teaches it the cookie, unless that is 0, and `RawInput` then refuses the others.
  `GenerateCookie` does not exclude 0: with it the client goes on to listen to any
  connection, and the hypothesis cannot go (with `Cookies = {0, 1}` TLC finds `OneServer`
  violated in SessionReplay.cfg; SessionCookie.cfg shows the cookie 0 from another side).

A step of either party is classified once (`ConnectStep`, `ClientStep`, `ServerStep`,
`ServerTick`, `ServerAdmits`: which peer goes from where to where, what it transmits), and
each of the last two theorems has one lemma per class.

### RttEstimator, Sizes (ArithmeticProofs)

- `EstimatesStayInRange`, `TimeoutSuffices`: for every bound on the samples, the 2^31-1 of
  int32 included, and all configured intervals. The first is inductive as it stands: an
  average and a deviation of numbers in `0..MaxRtt`, rounded down, stay there. The second is
  arithmetic about where the estimates rest: srtt at most 7 below the round trip and
  rttvar at most 7, so that nothing wraps, and an interval of at least 8 (10 in the code)
  is added.
- `SizesTypeCorrect`, `AcceptedFits`, `DatagramsFit`: for every window and every mtu that
  `SetMtu` takes (`MtusTaken`; SizesSmallMtu.cfg shows the others). The invariant carries
  that the state's limits are those `Reset` derived, and that queued fragments are at most
  mss long; lemma `RoundUp` counts the fragments of a message.

### Assumptions

Of `Kcp`, that the two ends differ, the configuration consists of naturals (windows
positive), messages are nonempty sequences of chunks and `Nil` is none of them; of `Serial`
the one quoted above; of `RingBuffer` that `Zero` is no element and `RINGBUFFER_MIN` at least
2; of `Pool` that `Zero` is no item and `Nil` no pointer; of `ServerThreads` that the ticker is
none of the users' goroutines and that calls and callbacks are those of the library; of
the others the naturals and orderings in `HeartbeatAssumption`, `RttAssumption`,
`SizesAssumption`, `EndpointAssumption` and `SessionAssumption`. TLC evaluates them on
every run. `OneServerIsHeard` has a hypothesis of its own, and so have the theorems that
name `Orderly`, `MaxStarts`, `Lone`, `Interval` or `NoWrap`.

### Only model-checked

`EventuallyDelivered`, `DisconnectedIsRemoved` and `EveryCallReturns`: liveness under fairness
is out of the prover's reach. Every other property of the passing runs is a theorem.

## Not modelled

- `Update` and `Check`, which peer.go does not call; stream mode, which nothing switches
  on; window, mtu and nodelay settings changed while a connection runs.
- `HandleChoked`: it clears `snd_buf` without the lock and without moving `snd_una`; what a
  flush in another goroutine then finds in the slice is beyond these models. It ends the
  session in the same call.
- The contents of the unreliable data channel: one datagram, one callback, nothing kept.
  Its callbacks are in `ServerThreads`, its sizes in `Sizes`.
- Dialling, name resolution, failures of the socket calls.
- The connection pool (connection_pool.go): a server makes one, and nothing takes a
  connection from it. buffer_pool.go is three instances of `Pool`. The pool discipline of
  segments is part of `Kcp` (data becomes `Nil` when the code returns the buffer).
- Byte encodings, malformed datagrams, logging, the echo client and the stress programs.

## Plan

Done: `Kcp` with its channel, `RingBuffer`, `Session`, `Heartbeat`, `ServerThreads`, `Serial`,
`RttEstimator`, `Sizes`, `Pool`; every safety property of the passing runs, and every
refinement, is proved. Next: shorter proofs where two invariants overlap (`ReplayInv` and
`OneInv` say much the same of the two directions), and the hazards that so far only a
configuration outside the list of runs shows.
