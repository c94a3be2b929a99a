------------------------------ MODULE Session ------------------------------
(***************************************************************************)
(* The life of a kcp2k session: one KcpClient (client.go) and a KcpServer  *)
(* (server.go, connection.go), each driving KcpPeers (peer.go) over a UDP  *)
(* network that loses, duplicates and reorders datagrams.  The client may  *)
(* connect again and again; every Connect dials from a new address.        *)
(*                                                                         *)
(* KCP itself is module Kcp's business.  Here a peer's KCP is the list of  *)
(* reliable messages it accepted, the sequence numbers it knows to be      *)
(* acknowledged, and the segments it received: enough to see what happens  *)
(* when the datagrams of one end reach peers that were not made for it.    *)
(*                                                                         *)
(* The ticking goroutine of each side takes one step per datagram and one  *)
(* per tick of its peers.  The user's goroutine calls Connect, Send and    *)
(* Disconnect between those steps; its Disconnect takes two, for the 100ms *)
(* it sleeps before the callback.  There is no clock: a tick may find the  *)
(* peer timed out, its link dead or choked, and a ping due, or not.        *)
(***************************************************************************)
EXTENDS Naturals, Sequences, FiniteSets, SequencesExt

CONSTANTS
  Addr,        \* the addresses DialUDP may be given, one per Connect
  Cookies,     \* the numbers GenerateCookie may return
  Endpoint,    \* the IP and port behind each address
  NoAddr,      \* the client has no socket
  MaxOut,      \* bound: reliable messages a peer accepts (its send window)
  MaxPings,    \* bound: pings among them
  NetCap       \* bound: datagrams in flight

ASSUME EndpointAssumption ==
  \A a \in Addr : Endpoint[a].ip \in Seq(0..255) /\ Endpoint[a].port \in 0..65535

ASSUME SessionAssumption ==
  /\ Cookies \subseteq Nat
  /\ NoAddr \notin Addr
  /\ MaxOut \in Nat \ {0}
  /\ MaxPings \in Nat
  /\ NetCap \in Nat

VARIABLES
  client,       \* KcpClient.peer
  sock,         \* KcpClient.conn: the address it is bound to
  connected,    \* KcpClient.connected
  closing,      \* the user's Disconnect sleeps before OnDisconnected
  asked,        \* history: the user's last call that has returned
  used,         \* addresses dialled so far
  connections,  \* KcpServer.connections: id -> [addr, peer]
  toRemove,     \* KcpServer.toRemove
  kicking,      \* ids whose Disconnect by the server's user sleeps
  issued,       \* cookies GenerateCookie returned so far
  opened,       \* history: id -> calls of the server's onConnected
  closed,       \* history: id -> calls of the server's onDisconnected
  got,          \* history: addr -> Data the server's user was given
  net           \* datagrams in flight

clientVars == <<client, sock, connected, closing, asked, used>>
serverVars == <<connections, toRemove, kicking, issued, opened, closed, got>>
vars == <<clientVars, serverVars, net>>

\* ConnectionHash: the bytes of the IP and then the port, base 31.
ConnectionHash(addr) == FoldLeft(LAMBDA h, b : h * 31 + b, 0, addr.ip) * 31 + addr.port

\* Connection ids.
Hash == [a \in Addr |-> ConnectionHash(Endpoint[a])]
Id == {Hash[a] : a \in Addr}

----------------------------------------------------------------------------
(* KcpPeer *)

\* A reliable message: its header and, for Data, who sent it and its number.
Message(hdr, src, n) == [hdr |-> hdr, src |-> src, n |-> n]
Bare(hdr) == Message(hdr, 0, 0)

\* The places in s of the messages with a header in hdrs.
Bearing(s, hdrs) == {i \in 1..Len(s) : s[i].hdr \in hdrs}

\* What s has at the given places, in order: the one of rank n is the n-th.
Rank(places, i) == Cardinality({j \in places : j <= i})
AtPlaces(s, places) ==
  [n \in 1..Cardinality(places) |-> s[CHOOSE i \in places : Rank(places, i) = n]]

\* NewKcpPeer.  events: the callbacks it made; data: what OnData was given.
NewKcpPeer(cookie) ==
  [state |-> "Connected", cookie |-> cookie, once |-> FALSE,
   out |-> <<>>, acked |-> {}, rcvd |-> <<>>, nxt |-> 0,
   events |-> <<>>, data |-> <<>>]

\* Reset: everything but disconnectOnce.
Reset(peer) == [NewKcpPeer(0) EXCEPT !.once = peer.once]

\* SendReliable, refused by flow control when the window is full.
SendReliable(peer, m) ==
  IF Len(peer.out) < MaxOut THEN [peer EXCEPT !.out = Append(@, m)] ELSE peer

\* SendData on the reliable channel: the next Data of src.
SendData(peer, src) ==
  SendReliable(peer, Message("Data", src,
    Cardinality(Bearing(peer.out, {"Data"})) + 1))

\* Disconnect: only the first call of a peer's life does anything.
Disconnect(peer) ==
  IF peer.once THEN peer
  ELSE [peer EXCEPT !.once = TRUE, !.state = "Disconnected",
                    !.events = Append(@, "OnDisconnected")]

\* The number of contiguous segments a peer has received (rcv_nxt).
RcvNxt(peer) ==
  CHOOSE n \in 0..Cardinality(DOMAIN peer.rcvd) :
    n \notin DOMAIN peer.rcvd /\ 0..(n - 1) \subseteq DOMAIN peer.rcvd

\* Input of one segment: una and ACK acknowledge, PUSH is stored once.
Input(peer, d) ==
  [peer EXCEPT
    !.acked = @ \cup {sn \in 0..(Len(peer.out) - 1) :
                        sn < d.una \/ (d.kind = "ACK" /\ sn = d.sn)},
    !.rcvd = IF d.kind = "PUSH" /\ d.sn \notin DOMAIN @
             THEN [sn \in DOMAIN @ \cup {d.sn} |->
                     IF sn = d.sn THEN d.msg ELSE peer.rcvd[sn]]
             ELSE @]

\* The messages ReceiveNextReliable would return one after the other.
Pending(peer) ==
  [i \in 1..(RcvNxt(peer) - peer.nxt) |-> peer.rcvd[peer.nxt + i - 1]]

\* Is a ping, or the answer to one, due?  The bound may rule pings out.
Maybe == IF MaxPings = 0 THEN {FALSE} ELSE BOOLEAN

(***************************************************************************)
(* TickIncoming_Connected: the checks, then at most one message.  A failed *)
(* check disconnects, and the tick goes on.  A server's peer answers Hello *)
(* with Hello (KcpServerConnection.OnAuthenticated).                       *)
(***************************************************************************)
Checks(peer, broken, ping) ==
  LET p == IF broken THEN Disconnect(peer) ELSE peer
  IN  IF ping /\ Cardinality(Bearing(p.out, {"Ping"})) < MaxPings
      THEN SendReliable(p, Bare("Ping")) ELSE p

OnAuthenticated(peer, server) ==
  LET p == [peer EXCEPT !.state = "Authenticated",
                        !.events = Append(@, "OnAuthenticated")]
  IN  IF server THEN SendReliable(p, Bare("Hello")) ELSE p

TickIncoming_Connected(peer, server) ==
  LET m == Head(Pending(peer))
      p == [peer EXCEPT !.nxt = @ + 1]
  IN  IF Pending(peer) = <<>> THEN peer
      ELSE CASE m.hdr = "Hello" -> OnAuthenticated(p, server)
             [] m.hdr = "Data"  -> Disconnect(p)
             [] OTHER           -> p

\* TickIncoming_Authenticated: all messages.  Hello disconnects, and the
\* loop goes on; of several pings in a tick one is answered, if any.
TickIncoming_Authenticated(peer, pong) ==
  LET batch   == Pending(peer)
      firstHello(i) == batch[i].hdr = "Hello" /\ ~peer.once
                       /\ \A j \in 1..(i - 1) : batch[j].hdr # "Hello"
      calls   == [i \in 1..Len(batch) |->
                    CASE batch[i].hdr = "Data" -> "OnData"
                      [] firstHello(i)         -> "OnDisconnected"
                      [] OTHER                 -> "none"]
      p       == IF Bearing(batch, {"Hello"}) # {} THEN Disconnect(peer) ELSE peer
      q       == IF pong /\ Bearing(batch, {"Ping"}) # {}
                 THEN SendReliable(p, Bare("Pong")) ELSE p
  IN  [q EXCEPT !.nxt = @ + Len(batch),
                !.data = @ \o AtPlaces(batch, Bearing(batch, {"Data"})),
                !.events = peer.events
                  \o AtPlaces(calls, {i \in 1..Len(batch) : calls[i] # "none"})]

TickIncoming(peer, broken, ping, pong, server) ==
  LET p == Checks(peer, broken, ping)
  IN  CASE peer.state = "Connected"     -> TickIncoming_Connected(p, server)
        [] peer.state = "Authenticated" -> TickIncoming_Authenticated(p, pong)
        [] peer.state = "Disconnected"  -> peer

----------------------------------------------------------------------------
(* The network. *)

Datagram(to, addr, cookie, kind, sn, msg, una) ==
  [to |-> to, addr |-> addr, cookie |-> cookie, kind |-> kind, sn |-> sn,
   msg |-> msg, una |-> una]

\* flush: every unacknowledged segment.  Which of them are due is not told
\* apart from which of them get lost.
Flush(to, addr, peer) ==
  {Datagram(to, addr, peer.cookie, "PUSH", sn, peer.out[sn + 1], RcvNxt(peer)) :
     sn \in 0..(Len(peer.out) - 1) \ peer.acked}

\* Input acknowledges a PUSH at once.
Ack(to, addr, peer, d) ==
  IF d.kind = "PUSH"
  THEN {Datagram(to, addr, peer.cookie, "ACK", d.sn, Bare("none"), RcvNxt(peer))}
  ELSE {}

\* SendDisconnect: five copies, if Disconnect did anything.
Bye(to, addr, before, after) ==
  IF after.once /\ ~before.once
  THEN {Datagram(to, addr, before.cookie, "BYE", 0, Bare("none"), 0)}
  ELSE {}

Transmit(out) ==
  /\ net' \in SUBSET (net \cup out)
  /\ Cardinality(net') <= NetCap

----------------------------------------------------------------------------
(* KcpClient *)

\* What OnDisconnected and OnAuthenticated leave of the client.
Callbacks(before, after) ==
  LET down == after.once /\ ~before.once
      up   == before.state # "Authenticated" /\ after.state = "Authenticated"
  IN  /\ sock' = IF down THEN NoAddr ELSE sock
      /\ connected' = (up \/ (connected /\ ~down))

Connect(a) ==
  /\ ~connected /\ ~closing
  /\ a \notin used
  /\ client' = SendReliable(Reset(client), Bare("Hello"))
  /\ sock' = a
  /\ used' = used \cup {a}
  /\ asked' = "Connect"
  /\ UNCHANGED <<connected, closing, serverVars, net>>

ClientSend ==
  /\ connected /\ ~closing
  /\ client.cookie # 0
  /\ Len(client.out) < MaxOut
  /\ client' = SendData(client, sock)
  /\ UNCHANGED <<sock, connected, closing, asked, used, serverVars, net>>

\* Disconnect, up to the sleep.
ClientDisconnect ==
  /\ ~closing
  /\ IF client.once
     THEN asked' = "Disconnect" /\ UNCHANGED <<client, closing, net>>
     ELSE /\ client' = [client EXCEPT !.once = TRUE, !.state = "Disconnected"]
          /\ closing' = TRUE
          /\ Transmit(IF sock = NoAddr THEN {}
                      ELSE Bye("server", sock, client, client'))
          /\ UNCHANGED asked
  /\ UNCHANGED <<sock, connected, used, serverVars>>

\* Disconnect, after the sleep: OnDisconnected.
ClientDisconnected ==
  /\ closing
  /\ closing' = FALSE
  /\ client' = [client EXCEPT !.events = Append(@, "OnDisconnected")]
  /\ sock' = NoAddr
  /\ connected' = FALSE
  /\ asked' = "Disconnect"
  /\ UNCHANGED <<used, serverVars, net>>

\* Mutant: the client does not compare cookies.
AcceptsAnyCookie(peer, cookie) == TRUE

\* The client learns its cookie from the first message and then keeps to it.
Accepts(peer, cookie) == peer.cookie = 0 \/ peer.cookie = cookie

ClientRawInput(d) ==
  LET p == [client EXCEPT !.cookie = IF @ = 0 THEN d.cookie ELSE @]
  IN  /\ d.to = "client" /\ d.addr = sock
      /\ Accepts(client, d.cookie)
      /\ client' = IF d.kind = "BYE" THEN Disconnect(p) ELSE Input(p, d)
      /\ Transmit(Ack("server", sock, client', d)
                    \cup Bye("server", sock, p, client'))
      /\ Callbacks(client, client')
      /\ UNCHANGED <<closing, asked, used, serverVars>>

ClientTickIncoming ==
  \E broken \in BOOLEAN, ping, pong \in Maybe :
    /\ used # {}
    /\ client' = TickIncoming(client, broken, ping, pong, FALSE)
    /\ Transmit(IF sock = NoAddr THEN {}
                ELSE Bye("server", sock, client, client'))
    /\ Callbacks(client, client')
    /\ UNCHANGED <<closing, asked, used, serverVars>>

\* TickOutgoing: a dead link disconnects, which closes the socket.
ClientTickOutgoing ==
  \E dead \in BOOLEAN :
    /\ used # {}
    /\ client.state # "Disconnected"
    /\ client' = IF dead THEN Disconnect(client) ELSE client
    /\ Transmit(IF sock = NoAddr THEN {}
                ELSE IF client'.once /\ ~client.once
                THEN Bye("server", sock, client, client')
                ELSE Flush("server", sock, client))
    /\ Callbacks(client, client')
    /\ UNCHANGED <<closing, asked, used, serverVars>>

----------------------------------------------------------------------------
(* KcpServer *)

Conn(addr, peer) == [addr |-> addr, peer |-> peer]

\* f with x mapped to y.
With(f, x, y) == [k \in DOMAIN f \cup {x} |-> IF k = x THEN y ELSE f[k]]

\* The Data a tick handed to onData, by address.
GotMore(before, after) ==
  [a \in Addr |-> got[a] \o
     (IF \E id \in DOMAIN before : before[id].addr = a
      THEN LET id == CHOOSE id \in DOMAIN before : before[id].addr = a
           IN  SubSeq(after[id].peer.data, Len(before[id].peer.data) + 1,
                      Len(after[id].peer.data))
      ELSE <<>>)]

\* The onDisconnected closure for the ids in "down": a connection of the map
\* is scheduled for removal, once.
ScheduleRemoval(down) ==
  LET new == (down \cap DOMAIN connections) \ toRemove
  IN  /\ toRemove' = toRemove \cup new
      /\ closed' = [id \in Id |-> IF id \in new THEN closed[id] + 1 ELSE closed[id]]

Down(before, after) ==
  {id \in DOMAIN before : after[id].peer.once /\ ~before[id].peer.once}

\* Mutant: the server does not compare cookies.
ServerAcceptsAny(peer, cookie) == TRUE

\* KcpServerConnection.RawInput: the cookie counts once authenticated.
ServerAccepts(peer, cookie) ==
  peer.state = "Authenticated" => peer.cookie = cookie

\* processMessage for a connection of the map.
ServerRawInput(d) ==
  LET id == Hash[d.addr]
      c  == connections[id]
      p  == IF d.kind = "BYE" THEN Disconnect(c.peer) ELSE Input(c.peer, d)
  IN  /\ d.to = "server"
      /\ id \in DOMAIN connections \ toRemove
      /\ ServerAccepts(c.peer, d.cookie)
      /\ connections' = [connections EXCEPT ![id].peer = p]
      /\ ScheduleRemoval(Down(connections, connections'))
      /\ Transmit(Ack("client", c.addr, p, d)
                    \cup Bye("client", c.addr, c.peer, p))
      /\ UNCHANGED <<clientVars, kicking, issued, opened, got>>

\* processMessage for an unknown address: a peer with a fresh cookie is given
\* the datagram and ticked.  It stays only if it was a Hello.
ServerAccept(d) ==
  LET id == Hash[d.addr]
  IN  /\ d.to = "server"
      /\ id \notin DOMAIN connections \cup toRemove
      /\ d.kind # "BYE"
      /\ \E cookie \in Cookies \ issued :
           LET p == Input(NewKcpPeer(cookie), d)
               q == TickIncoming(p, FALSE, FALSE, FALSE, TRUE)
           IN  /\ issued' = issued \cup {cookie}
               /\ Transmit(Ack("client", d.addr, p, d)
                             \cup Bye("client", d.addr, p, q))
               /\ ScheduleRemoval(IF q.once THEN {id} ELSE {})
               /\ IF q.state = "Authenticated"
                  THEN /\ connections' = With(connections, id, Conn(d.addr, q))
                       /\ opened' = [opened EXCEPT ![id] = @ + 1]
                  ELSE UNCHANGED <<connections, opened>>
      /\ UNCHANGED <<clientVars, kicking, got>>

\* Mutants: toRemove is not cleared; the connections are not deleted.
RemoveScheduledUncleared(after, gone) ==
  /\ connections' = [id \in DOMAIN after \ gone |-> after[id]]
  /\ toRemove' = gone
RemoveScheduledKept(after, gone) == connections' = after /\ toRemove' = {}

\* The end of TickIncoming: the connections in toRemove are deleted.
RemoveScheduled(after, gone) ==
  /\ connections' = [id \in DOMAIN after \ gone |-> after[id]]
  /\ toRemove' = {}

\* TickIncoming: every connection is ticked, then the removals are made.
ServerTickIncoming ==
  \E broken \in [DOMAIN connections -> BOOLEAN],
     ping, pong \in [DOMAIN connections -> Maybe] :
    LET after == [id \in DOMAIN connections |->
                    [connections[id] EXCEPT !.peer =
                       TickIncoming(@, broken[id], ping[id], pong[id], TRUE)]]
        new   == Down(connections, after) \ toRemove
        gone  == toRemove \cup new
    IN  /\ RemoveScheduled(after, gone)
        /\ closed' = [id \in Id |-> IF id \in new THEN closed[id] + 1 ELSE closed[id]]
        /\ got' = GotMore(connections, after)
        /\ Transmit(UNION {Bye("client", after[id].addr, connections[id].peer,
                               after[id].peer) : id \in DOMAIN after})
        /\ UNCHANGED <<clientVars, kicking, issued, opened>>

\* TickOutgoing: a connection whose link is dead says goodbye and is flushed
\* all the same; it stays in the map until the next TickIncoming.
ServerTickOutgoing ==
  \E dead \in SUBSET DOMAIN connections :
    LET live  == {id \in DOMAIN connections :
                    connections[id].peer.state # "Disconnected"}
        after == [id \in DOMAIN connections |->
                    IF id \in dead \cap live
                    THEN [connections[id] EXCEPT !.peer = Disconnect(@)]
                    ELSE connections[id]]
    IN  /\ connections' = after
        /\ ScheduleRemoval(Down(connections, after))
        /\ Transmit(UNION {Bye("client", after[id].addr, connections[id].peer,
                               after[id].peer)
                           \cup Flush("client", after[id].addr, after[id].peer) :
                             id \in live})
        /\ UNCHANGED <<clientVars, kicking, issued, opened, got>>

ServerSend(id) ==
  /\ id \in DOMAIN connections
  /\ Len(connections[id].peer.out) < MaxOut
  /\ connections' = [connections EXCEPT ![id].peer = SendData(@, @.cookie)]
  /\ UNCHANGED <<clientVars, toRemove, kicking, issued, opened, closed, got, net>>

\* Disconnect by the server's user, up to the sleep and after it.
ServerDisconnect(id) ==
  /\ id \in DOMAIN connections
  /\ ~connections[id].peer.once
  /\ connections' = [connections EXCEPT
       ![id].peer.once = TRUE, ![id].peer.state = "Disconnected"]
  /\ kicking' = kicking \cup {id}
  /\ Transmit(Bye("client", connections[id].addr, connections[id].peer,
                  connections'[id].peer))
  /\ UNCHANGED <<clientVars, toRemove, issued, opened, closed, got>>

ServerDisconnected(id) ==
  /\ id \in kicking
  /\ kicking' = kicking \ {id}
  /\ connections' = [connections EXCEPT
       ![id].peer.events = Append(@, "OnDisconnected")]
  /\ ScheduleRemoval({id})
  /\ UNCHANGED <<clientVars, issued, opened, got, net>>

----------------------------------------------------------------------------

Init ==
  /\ client = NewKcpPeer(0)
  /\ sock = NoAddr
  /\ connected = FALSE
  /\ closing = FALSE
  /\ asked = "none"
  /\ used = {}
  /\ connections = <<>>
  /\ toRemove = {}
  /\ kicking = {}
  /\ issued = {}
  /\ opened = [id \in Id |-> 0]
  /\ closed = [id \in Id |-> 0]
  /\ got = [a \in Addr |-> <<>>]
  /\ net = {}

Next ==
  \/ \E a \in Addr : Connect(a)
  \/ ClientSend
  \/ ClientDisconnect
  \/ ClientDisconnected
  \/ \E d \in net : ClientRawInput(d)
  \/ ClientTickIncoming
  \/ ClientTickOutgoing
  \/ \E d \in net : ServerRawInput(d)
  \/ \E d \in net : ServerAccept(d)
  \/ ServerTickIncoming
  \/ ServerTickOutgoing
  \/ \E id \in Id : ServerSend(id)
  \/ \E id \in Id : ServerDisconnect(id)
  \/ \E id \in Id : ServerDisconnected(id)

Spec == Init /\ [][Next]_vars

----------------------------------------------------------------------------
(* Properties. *)

Messages == [hdr : {"Hello", "Ping", "Pong", "Data", "none"},
             src : Addr \cup Nat \cup {NoAddr}, n : Nat]

IsPeer(p) ==
  /\ p.state \in {"Connected", "Authenticated", "Disconnected"}
  /\ p.cookie \in Nat
  /\ p.once \in BOOLEAN
  /\ p.out \in Seq(Messages) /\ Len(p.out) <= MaxOut
  /\ p.acked \subseteq 0..(Len(p.out) - 1)
  /\ \A sn \in DOMAIN p.rcvd : sn \in Nat /\ p.rcvd[sn] \in Messages
  /\ p.nxt \in 0..RcvNxt(p)
  /\ p.events \in Seq({"OnAuthenticated", "OnData", "OnDisconnected"})
  /\ p.data \in Seq(Messages)

\* The shape of the state.  A connection waits for its removal, or for the
\* end of a Disconnect, only while it is in the map.
TypeOK ==
  /\ IsPeer(client)
  /\ sock \in Addr \cup {NoAddr}
  /\ connected \in BOOLEAN /\ closing \in BOOLEAN
  /\ used \subseteq Addr
  /\ DOMAIN connections \subseteq Id
  /\ \A id \in DOMAIN connections : /\ IsPeer(connections[id].peer)
                                     /\ connections[id].addr \in Addr
                                     /\ Hash[connections[id].addr] = id
  /\ toRemove \subseteq DOMAIN connections
  /\ kicking \subseteq DOMAIN connections
  /\ issued \subseteq Cookies
  /\ opened \in [Id -> Nat] /\ closed \in [Id -> Nat]

\* The Data of src, from the first on and in order.
InOrder(data, src) ==
  \A i \in 1..Len(data) : data[i] = Message("Data", src, i)

\* However often the server drops a client and takes a late or repeated Hello
\* of it for a new one, its user is handed the Data of a client's session
\* once and in order: the cookie keeps the datagrams of the old connection
\* out of the new one.
NoReplay == \A a \in Addr : InOrder(got[a], a)

\* The client's user is handed Data of one connection only, the one whose
\* cookie the client learned.
OneServer == InOrder(client.data, client.cookie)

\* The server's user is told of the end of exactly those connections it was
\* told of, once each.
PairedCallbacks ==
  \A id \in Id :
    opened[id] = closed[id] +
      (IF id \in DOMAIN connections \ toRemove THEN 1 ELSE 0)

\* When the user's Disconnect has returned, the client is not connected (a
\* client that is told it is connected after its socket was closed is
\* DisconnectedIsFinal's business).
DisconnectObeyed == asked = "Disconnect" /\ sock # NoAddr => ~connected

\* OnDisconnected is the last callback of a session.
DisconnectedIsFinal ==
  \A i \in 1..Len(client.events) :
    client.events[i] = "OnDisconnected" => i = Len(client.events)

\* The server answers the first Hello of a session so that the client learns
\* the cookie of the connection it was given.
HelloTeachesCookie ==
  \A id \in DOMAIN connections :
    connections[id].addr = sock /\ client.cookie # 0 /\ closed[id] = 0 =>
      client.cookie = connections[id].peer.cookie

\* A client that was told it is connected has learned a cookie, which its
\* Send waits for: the server includes one in all it sends.
ConnectedHasCookie == connected => client.cookie # 0

============================================================================
