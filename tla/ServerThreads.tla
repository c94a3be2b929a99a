--------------------------- MODULE ServerThreads ---------------------------
(***************************************************************************)
(* The goroutines of a KcpServer (server.go) and its connections           *)
(* (connection.go, peer.go): one goroutine ticks the server, others call   *)
(* Send, Disconnect, Stop and Start, and every callback may call back into *)
(* the server.  What is modelled is who holds what while calling whom: the *)
(* lock of each peer, its disconnectOnce, the maps connections and         *)
(* toRemove.  The server's own mutex mu is never held over a call, so what *)
(* it guards is one step.                                                  *)
(*                                                                         *)
(* Each goroutine has a stack of frames, the innermost first; a frame is a *)
(* place in the code and the connection, id or set of connections it is    *)
(* about.                                                                  *)
(***************************************************************************)
EXTENDS Naturals, Sequences, FiniteSets, Functions

CONSTANTS
  Ticker,     \* the goroutine that ticks
  Users,      \* the application's other goroutines
  Nobody,     \* holds a lock that is free
  Id,         \* connection ids
  UserCalls,  \* what each of the application's goroutines calls
  Calls,      \* what each callback may call
  MaxConns,   \* bound: connections made
  MaxStarts   \* bound: successful calls of Start

Callbacks == {"OnConnected", "OnData", "OnDisconnected", "OnError"}
API == {"server.Send", "server.SendEmpty", "server.Disconnect", "server.Stop",
        "server.Start"}

ASSUME ServerThreadsAssumption ==
  /\ Ticker \notin Users /\ Nobody \notin Users \cup {Ticker}
  /\ UserCalls \in [Users -> SUBSET API]
  /\ Calls \in [Callbacks -> SUBSET API]
  /\ MaxConns \in Nat /\ MaxStarts \in Nat

VARIABLES
  stack,        \* the frames of each goroutine
  conns,        \* the connections made so far, in order: [id, lock, once, owner]
  connections,  \* KcpServer.connections: id -> connection
  toRemove,     \* KcpServer.toRemove
  listening,    \* KcpServer.conn # nil
  starts        \* how often the server was started

vars == <<stack, conns, connections, toRemove, listening, starts>>

Procs == Users \cup {Ticker}
Conn == DOMAIN conns

Frame(at, x) == [at |-> at, x |-> x]

\* Goroutine g is at this place; what it then has to do replaces the frame.
At(g, at) == stack[g] # <<>> /\ Head(stack[g]).at = at
Arg(g) == Head(stack[g]).x
Do(g, frames) == stack' = [stack EXCEPT ![g] = frames \o Tail(@)]

Callback(name, c) == Frame(name, conns[c].id)

\* peer.State: Authenticated until Disconnect begins.
Disconnected(c) == conns[c].once # "new"

----------------------------------------------------------------------------
(* KcpServer's operations *)

\* The goroutine calls the server; a callback returns or makes one call.
UserCall(g) ==
  /\ g \in Users /\ stack[g] = <<>>
  /\ \E call \in UserCalls[g], i \in Id : stack' = [stack EXCEPT ![g] = <<Frame(call, i)>>]
  /\ UNCHANGED <<conns, connections, toRemove, listening, starts>>

CallBack(g) == \E name \in Callbacks :
  /\ At(g, name)
  /\ \/ Do(g, <<>>)
     \/ \E call \in Calls[name] : Do(g, <<Frame(call, Arg(g))>>)
  /\ UNCHANGED <<conns, connections, toRemove, listening, starts>>

\* Send and Disconnect look the connection up under RLock.
Lookup(g, at, then) ==
  /\ At(g, at)
  /\ Do(g, IF Arg(g) \in DOMAIN connections
           THEN <<Frame(then, connections[Arg(g)])>> ELSE <<>>)
  /\ UNCHANGED <<conns, connections, toRemove, listening, starts>>

Send(g) == \/ Lookup(g, "server.Send", "SendReliable")
           \/ Lookup(g, "server.SendEmpty", "SendEmpty")
Disconnect(g) == Lookup(g, "server.Disconnect", "peer.Disconnect")

\* Stop forgets the connections and closes the socket, and calls nobody.
Stop(g) ==
  /\ At(g, "server.Stop") /\ Do(g, <<>>)
  /\ connections' = <<>> /\ toRemove' = {} /\ listening' = FALSE
  /\ UNCHANGED <<conns, starts>>

\* Start fails when the server is running or the port is taken.
Start(g) ==
  /\ At(g, "server.Start") /\ Do(g, <<>>)
  /\ \/ UNCHANGED <<listening, starts>>
     \/ /\ ~listening /\ starts < MaxStarts
        /\ listening' = TRUE /\ starts' = starts + 1
  /\ UNCHANGED <<conns, connections, toRemove>>

----------------------------------------------------------------------------
(* KcpPeer and the callbacks createConnection wraps *)

Free(c) == conns[c].lock = Nobody
Lock(c, g) == conns' = [conns EXCEPT ![c].lock = g]

\* SendData of no data: reported, and disconnects.
SendEmpty(g) ==
  /\ At(g, "SendEmpty")
  /\ Do(g, <<Callback("OnError", Arg(g)), Frame("peer.Disconnect", Arg(g))>>)
  /\ UNCHANGED <<conns, connections, toRemove, listening, starts>>

\* Mutant: a message that was refused is sent again.
SendReliableRetried(g) ==
  /\ At(g, "SendReliable") /\ Free(Arg(g))
  /\ \/ Do(g, <<>>) /\ UNCHANGED conns
     \/ /\ Lock(Arg(g), g)
        /\ Do(g, <<Callback("OnError", Arg(g)), Frame("Unlock", Arg(g)),
                   Frame("SendReliable", Arg(g))>>)
  /\ UNCHANGED <<connections, toRemove, listening, starts>>

\* SendReliable: OnError is called with the lock held.
SendReliable(g) ==
  /\ At(g, "SendReliable") /\ Free(Arg(g))
  /\ \/ Do(g, <<>>) /\ UNCHANGED conns
     \/ /\ Lock(Arg(g), g)
        /\ Do(g, <<Callback("OnError", Arg(g)), Frame("Unlock", Arg(g))>>)
  /\ UNCHANGED <<connections, toRemove, listening, starts>>

Unlock(g) ==
  /\ At(g, "Unlock") /\ Do(g, <<>>) /\ Lock(Arg(g), Nobody)
  /\ UNCHANGED <<connections, toRemove, listening, starts>>

\* OnRawInputReliable, and the flush of TickOutgoing: locked, no callback.
Locked(g) ==
  /\ At(g, "Locked") /\ Free(Arg(g)) /\ Do(g, <<>>)
  /\ UNCHANGED <<conns, connections, toRemove, listening, starts>>

\* OnRawInputUnreliable: no lock; Data is handed over while authenticated, a
\* goodbye disconnects, an unknown header is reported and disconnects.
OnRawInputUnreliable(g) ==
  LET c == Arg(g) IN
  /\ At(g, "OnRawInputUnreliable")
  /\ \/ Do(g, IF Disconnected(c) THEN <<>> ELSE <<Callback("OnData", c)>>)
     \/ Do(g, <<Frame("peer.Disconnect", c)>>)
     \/ Do(g, <<Callback("OnError", c), Frame("peer.Disconnect", c)>>)
  /\ UNCHANGED <<conns, connections, toRemove, listening, starts>>

\* What TickIncoming calls for a message, or for none, without the lock: the
\* user, SendPong, Disconnect for a header out of turn, OnError first for Data
\* that are empty or out of turn.
MessageCalls(c) ==
  {<<>>, <<Callback("OnData", c)>>, <<Frame("SendReliable", c)>>,
   <<Frame("peer.Disconnect", c)>>,
   <<Callback("OnError", c), Frame("peer.Disconnect", c)>>}

\* Mutant: an invalid message disconnects before the lock is released.
ReceiveNextReliableLocked(g) ==
  LET c == Arg(g) IN
  /\ At(g, "ReceiveNextReliable") /\ Free(c)
  /\ \/ (\E calls \in MessageCalls(c) : Do(g, calls)) /\ UNCHANGED conns
     \/ /\ Lock(c, g)
        /\ Do(g, <<Callback("OnError", c), Frame("peer.Disconnect", c),
                   Frame("Unlock", c)>>)
  /\ UNCHANGED <<connections, toRemove, listening, starts>>

\* ReceiveNextReliable, and what becomes of the message: an unknown header is
\* reported with the lock, and disconnects without it.  One turn stands for
\* TickIncoming_Authenticated's loop: its turns are alike and share no lock.
ReceiveNextReliable(g) ==
  LET c == Arg(g) IN
  /\ At(g, "ReceiveNextReliable") /\ Free(c)
  /\ \/ (\E calls \in MessageCalls(c) : Do(g, calls)) /\ UNCHANGED conns
     \/ /\ Lock(c, g)
        /\ Do(g, <<Callback("OnError", c), Frame("Unlock", c),
                   Frame("peer.Disconnect", c)>>)
  /\ UNCHANGED <<connections, toRemove, listening, starts>>

\* Disconnect: disconnectOnce.Do runs the first call, and the others wait
\* until it is done.
PeerDisconnect(g) ==
  LET c == Arg(g) IN
  /\ At(g, "peer.Disconnect") /\ conns[c].once # "running"
  /\ IF conns[c].once = "done" THEN Do(g, <<>>) /\ UNCHANGED conns
     ELSE /\ Do(g, <<Frame("sleep", c)>>)
          /\ conns' = [conns EXCEPT ![c].once = "running", ![c].owner = g]
  /\ UNCHANGED <<connections, toRemove, listening, starts>>

\* Mutants: the connection instead of its id; nothing is scheduled.
onDisconnectedByConn(g) ==
  LET c == Arg(g) IN
  /\ At(g, "sleep")
  /\ toRemove' = toRemove \cup {c}
  /\ Do(g, <<Callback("OnDisconnected", c), Frame("once", c)>>)
  /\ UNCHANGED <<conns, connections, listening, starts>>

onDisconnectedUnscheduled(g) ==
  LET c == Arg(g) IN
  /\ At(g, "sleep")
  /\ Do(g, <<Callback("OnDisconnected", c), Frame("once", c)>>)
  /\ UNCHANGED <<conns, connections, toRemove, listening, starts>>

\* onDisconnected, after the sleep: by id, in whatever map there is now.
onDisconnected(g) ==
  LET c == Arg(g)
      i == conns[c].id
      known == i \in DOMAIN connections /\ i \notin toRemove
  IN  /\ At(g, "sleep")
      /\ toRemove' = IF known THEN toRemove \cup {i} ELSE toRemove
      /\ Do(g, IF known THEN <<Callback("OnDisconnected", c), Frame("once", c)>>
               ELSE <<Frame("once", c)>>)
      /\ UNCHANGED <<conns, connections, listening, starts>>

OnceReturns(g) ==
  /\ At(g, "once") /\ Do(g, <<>>)
  /\ conns' = [conns EXCEPT ![Arg(g)].once = "done", ![Arg(g)].owner = Nobody]
  /\ UNCHANGED <<connections, toRemove, listening, starts>>

\* onConnected: adds to the map, then calls the user.
onConnected(g) ==
  LET c == Arg(g) IN
  /\ At(g, "onConnected")
  /\ connections' = [i \in DOMAIN connections \cup {conns[c].id} |->
                       IF i = conns[c].id THEN c ELSE connections[i]]
  /\ Do(g, <<Callback("OnConnected", c)>>)
  /\ UNCHANGED <<conns, toRemove, listening, starts>>

----------------------------------------------------------------------------
(* The ticking goroutine *)

\* processMessage: a datagram of a known connection, on either channel, or the
\* Hello of a new one, which is answered and added.  A connection being removed
\* is ignored.
processMessage ==
  LET g == Ticker IN
  /\ At(g, "receive") /\ listening
  /\ \E i \in Id \ toRemove :
       \/ /\ i \in DOMAIN connections
          /\ \E then \in {"Locked", "OnRawInputUnreliable"} :
               Do(g, <<Frame(then, connections[i]), Frame("receive", {})>>)
          /\ UNCHANGED conns
       \/ /\ i \notin DOMAIN connections /\ Len(conns) < MaxConns
          /\ conns' = Append(conns, [id |-> i, lock |-> Nobody,
                                     once |-> "new", owner |-> Nobody])
          /\ LET c == Len(conns')
             IN  Do(g, <<Frame("SendReliable", c), Frame("onConnected", c),
                         Frame("receive", {})>>)
  /\ UNCHANGED <<connections, toRemove, listening, starts>>

\* The socket is empty: the snapshot of the connections, under RLock.
EndReceive ==
  /\ At(Ticker, "receive")
  /\ Do(Ticker, <<Frame("tick", Range(connections))>>)
  /\ UNCHANGED <<conns, connections, toRemove, listening, starts>>

\* Mutant: toRemove is not cleared.
TickAllUncleared ==
  LET S == Arg(Ticker) IN
  /\ At(Ticker, "tick")
  /\ IF S = {}
     THEN /\ Do(Ticker, <<Frame("range", {})>>)
          /\ connections' = Restrict(connections, DOMAIN connections \ toRemove)
     ELSE /\ \E c \in S : Do(Ticker, <<Frame("TickIncoming", c),
                                       Frame("tick", S \ {c})>>)
          /\ UNCHANGED connections
  /\ UNCHANGED <<conns, toRemove, listening, starts>>

\* The loop over the snapshot, then the removal of the disconnected.
TickAll ==
  LET S == Arg(Ticker) IN
  /\ At(Ticker, "tick")
  /\ IF S = {}
     THEN /\ Do(Ticker, <<Frame("range", {})>>)
          /\ connections' = Restrict(connections, DOMAIN connections \ toRemove)
          /\ toRemove' = {}
     ELSE /\ \E c \in S : Do(Ticker, <<Frame("TickIncoming", c),
                                       Frame("tick", S \ {c})>>)
          /\ UNCHANGED <<connections, toRemove>>
  /\ UNCHANGED <<conns, listening, starts>>

\* KcpPeer.TickIncoming: a failed check, a ping, the messages.
TickIncoming ==
  LET c == Arg(Ticker)
      receive == Frame("ReceiveNextReliable", c)
  IN  /\ At(Ticker, "TickIncoming")
      /\ IF Disconnected(c) THEN Do(Ticker, <<>>)
         ELSE \/ Do(Ticker, <<receive>>)
              \/ Do(Ticker, <<Frame("SendReliable", c), receive>>)
              \/ Do(Ticker, <<Callback("OnError", c), Frame("peer.Disconnect", c),
                              receive>>)
      /\ UNCHANGED <<conns, connections, toRemove, listening, starts>>

\* TickOutgoing's loop ranges over the map itself, without mu.
RangeAll ==
  LET S == Arg(Ticker)
      rest == Range(connections) \ S
  IN  /\ At(Ticker, "range")
      /\ IF rest = {} THEN Do(Ticker, <<Frame("receive", {})>>)
         ELSE \E c \in rest : Do(Ticker, <<Frame("TickOutgoing", c),
                                           Frame("range", S \cup {c})>>)
      /\ UNCHANGED <<conns, connections, toRemove, listening, starts>>

TickOutgoing ==
  LET c == Arg(Ticker) IN
  /\ At(Ticker, "TickOutgoing")
  /\ IF Disconnected(c) THEN Do(Ticker, <<>>)
     ELSE \/ Do(Ticker, <<Frame("Locked", c)>>)
          \/ Do(Ticker, <<Callback("OnError", c), Frame("peer.Disconnect", c),
                          Frame("Locked", c)>>)
  /\ UNCHANGED <<conns, connections, toRemove, listening, starts>>

----------------------------------------------------------------------------

Init ==
  /\ stack = [g \in Procs |-> IF g = Ticker THEN <<Frame("receive", {})>> ELSE <<>>]
  /\ conns = <<>> /\ connections = <<>> /\ toRemove = {}
  /\ listening = FALSE /\ starts = 0

\* What a goroutine does once it is in a call.
Call(g) ==
  \/ CallBack(g) \/ Send(g) \/ Disconnect(g) \/ Stop(g) \/ Start(g)
  \/ SendEmpty(g) \/ SendReliable(g) \/ Unlock(g) \/ Locked(g)
  \/ OnRawInputUnreliable(g) \/ ReceiveNextReliable(g)
  \/ PeerDisconnect(g) \/ onDisconnected(g) \/ OnceReturns(g) \/ onConnected(g)

Tick == TickAll \/ TickIncoming \/ RangeAll \/ TickOutgoing \/ EndReceive

Next ==
  \/ \E g \in Procs : UserCall(g) \/ Call(g)
  \/ Tick \/ processMessage

Spec == Init /\ [][Next]_vars

\* The scheduler runs every goroutine, Go's mutexes starve nobody, and the
\* socket runs empty.
FairSpec ==
  /\ Spec
  /\ \A g \in Procs : SF_vars(Call(g))
  /\ SF_vars(Tick)

----------------------------------------------------------------------------
(* Properties *)

ConnPlaces == {"SendEmpty", "SendReliable", "Unlock", "Locked",
               "OnRawInputUnreliable",
               "ReceiveNextReliable", "peer.Disconnect", "sleep", "once",
               "onConnected", "TickIncoming", "TickOutgoing"}

IsFrame(f) ==
  \/ f.at \in Callbacks \cup API /\ f.x \in Id
  \/ f.at \in ConnPlaces /\ f.x \in Conn
  \/ f.at \in {"receive", "tick", "range"} /\ f.x \subseteq Conn

\* Type invariant: the goroutines' places, the locks and the maps.
TypeOK ==
  /\ \A g \in Procs : \A n \in 1..Len(stack[g]) : IsFrame(stack[g][n])
  /\ conns \in Seq([id : Id, lock : Procs \cup {Nobody},
                    once : {"new", "running", "done"}, owner : Procs \cup {Nobody}])
  /\ DOMAIN connections \subseteq Id /\ Range(connections) \subseteq Conn
  /\ toRemove \subseteq Id /\ listening \in BOOLEAN
  /\ starts \in 0..MaxStarts

\* The goroutine g waits for: the holder of a lock, the one inside the Once.
WaitsFor(g) ==
  CASE \E at \in {"SendReliable", "Locked", "ReceiveNextReliable"} : At(g, at) ->
         conns[Arg(g)].lock
    [] At(g, "peer.Disconnect") -> conns[Arg(g)].owner
    [] OTHER -> Nobody

(***************************************************************************)
(* No deadlock, also not of one goroutine with itself: SendReliable and    *)
(* ReceiveNextReliable call OnError with the peer's lock, Disconnect calls *)
(* OnDisconnected inside disconnectOnce.  Nobody waits in a circle as long *)
(* as the callbacks keep to Calls.                                         *)
(***************************************************************************)
NoWaitCycle ==
  \A S \in (SUBSET Procs) \ {{}} : \E g \in S : WaitsFor(g) \notin S

(***************************************************************************)
(* onDisconnected marks the connection that disconnected: what the next    *)
(* tick deletes from the map is not a connection that is alive.  It goes   *)
(* by the id, and looks after a sleep.                                     *)
(***************************************************************************)
RemovedAreDisconnected ==
  \A i \in toRemove : i \in DOMAIN connections /\ Disconnected(connections[i])

\* The ticker is inside the loop of KcpServer.TickOutgoing.
Ranging == \E n \in 1..Len(stack[Ticker]) : stack[Ticker][n].at = "range"

(***************************************************************************)
(* The echo example stops the server from main while another goroutine     *)
(* ticks it: the map is not written while TickOutgoing ranges over it, a   *)
(* fatal error of the Go runtime.                                          *)
(***************************************************************************)
NoMapRace ==
  [][connections' # connections /\ Ranging => stack'[Ticker] # stack[Ticker]]_vars

(***************************************************************************)
(* Whoever disconnects a connection, and in whichever phase of the tick,   *)
(* it leaves the map: the sleep ends, toRemove is filled, the tick that    *)
(* comes empties it.                                                       *)
(***************************************************************************)
DisconnectedIsRemoved ==
  \A i \in Id, c \in 1..MaxConns :
    (i \in DOMAIN connections /\ connections[i] = c /\ Disconnected(c))
      ~> ~(i \in DOMAIN connections /\ connections[i] = c)

\* Every call of an application goroutine returns, callbacks included.
EveryCallReturns == \A g \in Users : (stack[g] # <<>>) ~> (stack[g] = <<>>)
=============================================================================
