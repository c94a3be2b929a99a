------------------------ MODULE ServerThreadsProofs ------------------------
(***************************************************************************)
(* Proofs about the goroutines of a KcpServer, for any number of them, of  *)
(* connections and of ids:                                                 *)
(*   - the types, from Shape (stacks are sequences of frames);             *)
(*   - nobody waits in a circle, if the callbacks are Orderly, from        *)
(*     Holders: who holds a lock or is inside a disconnectOnce has the     *)
(*     frame that gives it back, and above it only harmless places;        *)
(*   - what is removed was disconnected, if the server is started once,    *)
(*     from TickerStack, OneInside and MapInv: one goroutine at most is    *)
(*     inside a disconnectOnce, and of the connections with an id one at   *)
(*     most has yet to be removed, the one the map has.                    *)
(* Every step is first shown to be of one of a few Kinds, by what it does  *)
(* to the stack and the connections.                                       *)
(***************************************************************************)
EXTENDS ServerThreads, TLAPS, SequenceTheorems

----------------------------------------------------------------------------
(* Stacks of frames. *)

Base == {"receive", "tick", "range"}
Places == Callbacks \cup API \cup ConnPlaces \cup Base
Frames == [at : Places, x : Id \cup Nat \cup SUBSET Nat]

ConnRecord == [id : Id, lock : Procs \cup {Nobody},
               once : {"new", "running", "done"}, owner : Procs \cup {Nobody}]

\* A frame whose connections are those of C.
FrameOf(f, C) ==
  \/ f.at \in Callbacks \cup API /\ f.x \in Id
  \/ f.at \in ConnPlaces /\ f.x \in C
  \/ f.at \in Base /\ f.x \subseteq C

FramesOf(s, C) == \A n \in 1..Len(s) : FrameOf(s[n], C)

\* The types a proof needs: TypeOK's, and that stacks are sequences.
Shape ==
  /\ stack \in [Procs -> Seq(Frames)]
  /\ \A g \in Procs : FramesOf(stack[g], Conn)
  /\ conns \in Seq(ConnRecord)
  /\ DOMAIN connections \subseteq Id
  /\ \A i \in DOMAIN connections : connections[i] \in Conn
  /\ toRemove \subseteq Id /\ listening \in BOOLEAN
  /\ starts \in 0..MaxStarts

LEMMA ShapeIsTypeOK == Shape => TypeOK
<1> SUFFICES ASSUME Shape PROVE TypeOK
  OBVIOUS
<1>1. \A g \in Procs : \A n \in 1..Len(stack[g]) : IsFrame(stack[g][n])
  BY DEF Shape, FramesOf, FrameOf, IsFrame, Base
<1>2. Range(connections) \subseteq Conn
  BY DEF Shape, Range
<1> QED  BY <1>1, <1>2 DEF Shape, TypeOK, ConnRecord

\* The head of a sequence is replaced by fs.
LEMMA Replaced ==
  ASSUME NEW S, NEW s \in Seq(S), s # <<>>, NEW fs \in Seq(S)
  PROVE  /\ fs \o Tail(s) \in Seq(S)
         /\ Len(fs \o Tail(s)) = Len(fs) + Len(s) - 1
         /\ Len(s) \in Nat \ {0} /\ Len(fs) \in Nat
         /\ \A k \in 1..Len(fs) : (fs \o Tail(s))[k] = fs[k]
         /\ \A m \in 2..Len(s) : (fs \o Tail(s))[m - 1 + Len(fs)] = s[m]
         /\ \A k \in 1..Len(fs \o Tail(s)) : k > Len(fs) =>
              /\ k - Len(fs) + 1 \in 2..Len(s)
              /\ (fs \o Tail(s))[k] = s[k - Len(fs) + 1]
<1> DEFINE r == Tail(s)
<1>1. r \in Seq(S) /\ Len(r) = Len(s) - 1 /\ \A i \in 1..Len(r) : r[i] = s[i + 1]
  BY HeadTailProperties
<1>2. Len(s) \in Nat \ {0} /\ Len(fs) \in Nat
  BY EmptySeq, LenProperties
<1> HIDE DEF r
<1>3. /\ fs \o r \in Seq(S) /\ Len(fs \o r) = Len(fs) + Len(r)
      /\ \A i \in 1..Len(fs) + Len(r) :
           (fs \o r)[i] = IF i <= Len(fs) THEN fs[i] ELSE r[i - Len(fs)]
  BY <1>1, ConcatProperties
<1>4. \A k \in 1..Len(fs) : (fs \o r)[k] = fs[k]
  BY <1>1, <1>2, <1>3
<1>5. \A m \in 2..Len(s) : (fs \o r)[m - 1 + Len(fs)] = s[m]
  <2> SUFFICES ASSUME NEW m \in 2..Len(s)
               PROVE  (fs \o r)[m - 1 + Len(fs)] = s[m]
    OBVIOUS
  <2>1. /\ m - 1 + Len(fs) \in 1..Len(fs) + Len(r) /\ m - 1 + Len(fs) > Len(fs)
        /\ (m - 1 + Len(fs)) - Len(fs) = m - 1
        /\ m - 1 \in 1..Len(r) /\ (m - 1) + 1 = m
    BY <1>1, <1>2
  <2>2. (fs \o r)[m - 1 + Len(fs)] = r[m - 1]
    BY <1>2, <1>3, <2>1
  <2> QED  BY <1>1, <2>1, <2>2
<1>6. ASSUME NEW k \in 1..Len(fs \o r), k > Len(fs)
      PROVE  /\ k - Len(fs) + 1 \in 2..Len(s)
             /\ (fs \o r)[k] = s[k - Len(fs) + 1]
  <2>1. k \in 1..Len(fs) + Len(r) /\ k - Len(fs) \in 1..Len(r)
        /\ k - Len(fs) + 1 \in 2..Len(s) /\ ~(k <= Len(fs))
    BY <1>1, <1>2, <1>3, <1>6
  <2>2. (fs \o r)[k] = r[k - Len(fs)]
    BY <1>3, <2>1
  <2> QED  BY <1>1, <2>1, <2>2
<1>7. Len(fs \o r) = Len(fs) + Len(s) - 1
  BY <1>1, <1>2, <1>3
<1> QED  BY <1>2, <1>3, <1>4, <1>5, <1>6, <1>7 DEF r

\* Goroutine g replaces its innermost frame by fs.
Pushing(g, fs) ==
  /\ stack[g] # <<>>
  /\ fs \in Seq(Frames)
  /\ Do(g, fs)
  /\ FramesOf(fs, Conn')

\* What Pushing leaves of the stacks.
LEMMA PushedStacks ==
  ASSUME stack \in [Procs -> Seq(Frames)], NEW g \in Procs, NEW fs, Pushing(g, fs)
  PROVE  /\ stack' \in [Procs -> Seq(Frames)]
         /\ \A h \in Procs \ {g} : stack'[h] = stack[h]
         /\ Len(stack'[g]) = Len(fs) + Len(stack[g]) - 1
         /\ Len(stack[g]) \in Nat \ {0} /\ Len(fs) \in Nat
         /\ Head(stack[g]) = stack[g][1] /\ stack[g][1] \in Frames
         /\ \A k \in 1..Len(fs) : stack'[g][k] = fs[k]
         /\ \A m \in 2..Len(stack[g]) : stack'[g][m - 1 + Len(fs)] = stack[g][m]
         /\ \A k \in 1..Len(stack'[g]) : k > Len(fs) =>
              /\ k - Len(fs) + 1 \in 2..Len(stack[g])
              /\ stack'[g][k] = stack[g][k - Len(fs) + 1]
<1>1. stack[g] \in Seq(Frames) /\ stack[g] # <<>> /\ fs \in Seq(Frames)
  BY DEF Pushing
<1>2. stack' = [stack EXCEPT ![g] = fs \o Tail(stack[g])]
  BY DEF Pushing, Do
<1>3. stack'[g] = fs \o Tail(stack[g]) /\ \A h \in Procs \ {g} : stack'[h] = stack[h]
  BY <1>2
<1>4. fs \o Tail(stack[g]) \in Seq(Frames)
  BY <1>1, Replaced
<1>5. stack' \in [Procs -> Seq(Frames)]
  BY <1>2, <1>4
<1>6. Head(stack[g]) = stack[g][1] /\ stack[g][1] \in Frames
  BY <1>1, HeadTailProperties, EmptySeq, ElementOfSeq
<1> QED  BY <1>1, <1>3, <1>5, <1>6, Replaced

\* The frames stay frames of the connections there are.
LEMMA PushedFrames ==
  ASSUME stack \in [Procs -> Seq(Frames)], \A h \in Procs : FramesOf(stack[h], Conn),
         NEW g \in Procs, NEW fs, Pushing(g, fs), Conn \subseteq Conn'
  PROVE  /\ stack' \in [Procs -> Seq(Frames)]
         /\ \A h \in Procs : FramesOf(stack'[h], Conn')
<1>1. \A f : FrameOf(f, Conn) => FrameOf(f, Conn')
  BY DEF FrameOf
<1>2. \A h \in Procs \ {g} : FramesOf(stack'[h], Conn')
  BY <1>1, PushedStacks DEF FramesOf
<1>3. ASSUME NEW k \in 1..Len(stack'[g])
      PROVE  FrameOf(stack'[g][k], Conn')
  <2>1. CASE k <= Len(fs)
    <3>1. k \in 1..Len(fs)
      BY <2>1, PushedStacks
    <3> QED  BY <3>1, PushedStacks DEF Pushing, FramesOf
  <2>2. CASE k > Len(fs)
    <3>1. k - Len(fs) + 1 \in 1..Len(stack[g])
      BY <2>2, PushedStacks
    <3>2. FrameOf(stack[g][k - Len(fs) + 1], Conn)
      BY <3>1 DEF FramesOf
    <3> QED  BY <1>1, <2>2, <3>2, PushedStacks
  <2>3. Len(fs) \in Nat
    BY PushedStacks
  <2> QED  BY <2>1, <2>2, <2>3
<1> QED  BY <1>2, <1>3, PushedStacks DEF FramesOf

----------------------------------------------------------------------------
(* What the actions push. *)

\* Frames of the three kinds.
LEMMA FrameKinds ==
  ASSUME NEW C \in SUBSET Nat
  PROVE  /\ \A at, x : Frame(at, x).at = at /\ Frame(at, x).x = x
         /\ \A at \in Callbacks \cup API, x \in Id :
              Frame(at, x) \in Frames /\ FrameOf(Frame(at, x), C)
         /\ \A at \in ConnPlaces, x \in C :
              Frame(at, x) \in Frames /\ FrameOf(Frame(at, x), C)
         /\ \A at \in Base, x \in SUBSET C :
              Frame(at, x) \in Frames /\ FrameOf(Frame(at, x), C)
  BY DEF Frame, Frames, FrameOf, Places

\* Short sequences.
LEMMA Tuples ==
  ASSUME NEW S, NEW a \in S, NEW b \in S, NEW c \in S
  PROVE  /\ <<a>> \in Seq(S) /\ Len(<<a>>) = 1 /\ <<a>>[1] = a
         /\ <<a, b>> \in Seq(S) /\ Len(<<a, b>>) = 2
         /\ <<a, b>>[1] = a /\ <<a, b>>[2] = b
         /\ <<a, b, c>> \in Seq(S) /\ Len(<<a, b, c>>) = 3
         /\ <<a, b, c>>[1] = a /\ <<a, b, c>>[2] = b /\ <<a, b, c>>[3] = c
  OBVIOUS

\* The innermost frame of a goroutine, and the connections there are.
LEMMA AtPlace ==
  ASSUME Shape, NEW g \in Procs, NEW at, At(g, at)
  PROVE  /\ stack[g] # <<>> /\ Head(stack[g]) = stack[g][1] /\ Head(stack[g]).at = at
         /\ Head(stack[g]) = Frame(at, Arg(g))
         /\ at \in Callbacks \cup API => Arg(g) \in Id
         /\ at \in ConnPlaces => Arg(g) \in Conn
         /\ at \in Base => Arg(g) \subseteq Conn
<1>1. stack[g] \in Seq(Frames) /\ stack[g] # <<>> /\ Head(stack[g]).at = at
  BY DEF Shape, At
<1>2. Head(stack[g]) = stack[g][1] /\ 1 \in 1..Len(stack[g]) /\ stack[g][1] \in Frames
  BY <1>1, HeadTailProperties, EmptySeq, ElementOfSeq, LenProperties
<1>3. FrameOf(stack[g][1], Conn)
  BY <1>2 DEF Shape, FramesOf
<1>4. Head(stack[g]) = Frame(at, Arg(g))
  BY <1>1, <1>2 DEF Frame, Frames, Arg
<1> QED  BY <1>1, <1>2, <1>3, <1>4 DEF FrameOf, Arg, Callbacks, API, ConnPlaces, Base

LEMMA ConnTypes ==
  ASSUME Shape
  PROVE  /\ Conn = 1..Len(conns) /\ Conn \in SUBSET Nat /\ Len(conns) \in Nat
         /\ \A c \in Conn : /\ conns[c] \in ConnRecord /\ conns[c].id \in Id
                            /\ \A name \in Callbacks : Callback(name, c) = Frame(name, conns[c].id)
<1>1. conns \in Seq(ConnRecord)
  BY DEF Shape
<1>2. Conn = 1..Len(conns) /\ Len(conns) \in Nat
  BY <1>1, LenProperties DEF Conn
<1>3. \A c \in Conn : conns[c] \in ConnRecord
  BY <1>1, <1>2, ElementOfSeq
<1> QED  BY <1>2, <1>3 DEF ConnRecord, Callback

(***************************************************************************)
(* Two disciplines that keep the callbacks from waiting in a circle.       *)
(* OnError is called with the lock of the peer, OnDisconnected inside its  *)
(* disconnectOnce: either OnError calls nothing that locks or disconnects, *)
(* and OnDisconnected nothing that disconnects; or OnError does not send,  *)
(* and OnDisconnected neither sends nor disconnects.                       *)
(***************************************************************************)
Harmless == {"server.Stop", "server.Start"}

Quiet == Calls["OnError"] \subseteq Harmless

Orderly ==
  \/ Quiet /\ Calls["OnDisconnected"] \subseteq Harmless \cup {"server.Send"}
  \/ /\ Calls["OnError"] \subseteq Harmless \cup {"server.Disconnect", "server.SendEmpty"}
     /\ Calls["OnDisconnected"] \subseteq Harmless

\* The places a goroutine may be at while it holds a lock, or is inside a
\* disconnectOnce.
AboveUnlock ==
  {"OnError"} \cup Harmless \cup
  (IF Quiet THEN {}
   ELSE {"server.Disconnect", "server.SendEmpty", "SendEmpty", "peer.Disconnect",
         "sleep", "once", "OnDisconnected"})

AboveOnce ==
  {"OnDisconnected"} \cup Harmless \cup
  (IF Quiet THEN {"server.Send", "SendReliable", "OnError", "Unlock"} ELSE {})

\* What replaces the innermost frame is at places of A if that one is.
Within(A, g, fs) ==
  Head(stack[g]).at \in A => \A k \in 1..Len(fs) : fs[k].at \in A

Disciplined(g, fs) ==
  Orderly => Within(AboveUnlock, g, fs) /\ Within(AboveOnce, g, fs)

\* Places whose frames hold something or are the ticker's own.
Special == Base \cup {"onConnected", "sleep", "once", "Unlock"}

Ordinary(g, fs) ==
  /\ Head(stack[g]).at \notin Special
  /\ \A k \in 1..Len(fs) : fs[k].at \notin Special

\* A step that is only about calls: no lock, no disconnectOnce, no map.
Calling(g) ==
  \E fs \in Seq(Frames) : Pushing(g, fs) /\ Disciplined(g, fs) /\ Ordinary(g, fs)

\* The places of a frame list, as a set.
LEMMA CallingBy ==
  ASSUME Shape, NEW g \in Procs, NEW at, At(g, at), at \notin Special,
         NEW fs \in Seq(Frames), Do(g, fs), conns' = conns, FramesOf(fs, Conn),
         NEW P, \A k \in 1..Len(fs) : fs[k].at \in P, P \cap Special = {},
         Orderly => (at \in AboveUnlock => P \subseteq AboveUnlock),
         Orderly => (at \in AboveOnce => P \subseteq AboveOnce)
  PROVE  Calling(g)
<1>1. Conn' = Conn
  BY DEF Conn
<1>2. Pushing(g, fs)
  BY <1>1, AtPlace DEF Pushing
<1>3. Head(stack[g]).at = at
  BY AtPlace
<1>4. Disciplined(g, fs)
  BY <1>3 DEF Disciplined, Within
<1>5. Ordinary(g, fs)
  BY <1>3 DEF Ordinary
<1> QED  BY <1>2, <1>4, <1>5 DEF Calling

\* The same for the sequences of frames the code has.
LEMMA CallingTuples ==
  ASSUME Shape, NEW g \in Procs, NEW at, At(g, at), at \notin Special, conns' = conns
  PROVE  /\ Do(g, <<>>) => Calling(g)
         /\ \A a \in Frames :
              /\ Do(g, <<a>>) /\ FrameOf(a, Conn) /\ a.at \notin Special
              /\ Orderly => /\ at \in AboveUnlock => a.at \in AboveUnlock
                            /\ at \in AboveOnce => a.at \in AboveOnce
              => Calling(g)
         /\ \A a, b \in Frames :
              /\ Do(g, <<a, b>>) /\ FrameOf(a, Conn) /\ FrameOf(b, Conn)
              /\ {a.at, b.at} \cap Special = {}
              /\ Orderly => /\ at \in AboveUnlock => {a.at, b.at} \subseteq AboveUnlock
                            /\ at \in AboveOnce => {a.at, b.at} \subseteq AboveOnce
              => Calling(g)
         /\ \A a, b, c \in Frames :
              /\ Do(g, <<a, b, c>>)
              /\ FrameOf(a, Conn) /\ FrameOf(b, Conn) /\ FrameOf(c, Conn)
              /\ {a.at, b.at, c.at} \cap Special = {}
              /\ at \notin AboveUnlock \cup AboveOnce
              => Calling(g)
<1>1. Do(g, <<>>) => Calling(g)
  <2> SUFFICES ASSUME Do(g, <<>>) PROVE Calling(g)
    OBVIOUS
  <2> DEFINE fs == <<>>
             P == {}
  <2>1. fs \in Seq(Frames) /\ Len(fs) = 0
    BY EmptySeq
  <2>2. \A k \in 1..Len(fs) : fs[k].at \in P
    BY <2>1
  <2>3. FramesOf(fs, Conn)
    BY <2>1 DEF FramesOf
  <2>4. Do(g, fs)
    OBVIOUS
  <2> HIDE DEF fs
  <2> QED  BY <2>1, <2>2, <2>3, <2>4, CallingBy
<1>2. ASSUME NEW a \in Frames,
             Do(g, <<a>>), FrameOf(a, Conn), a.at \notin Special,
             Orderly => /\ at \in AboveUnlock => a.at \in AboveUnlock
                        /\ at \in AboveOnce => a.at \in AboveOnce
      PROVE  Calling(g)
  <2> DEFINE fs == <<a>>
             P == {a.at}
  <2>1. fs \in Seq(Frames) /\ Len(fs) = 1 /\ fs[1] = a
    BY Tuples
  <2>2. Do(g, fs)
    BY <1>2
  <2> HIDE DEF fs
  <2>3. \A k \in 1..Len(fs) : k = 1
    BY <2>1
  <2>4. \A k \in 1..Len(fs) : fs[k].at \in P
    BY <2>1, <2>3
  <2>5. FramesOf(fs, Conn)
    BY <1>2, <2>1, <2>3 DEF FramesOf
  <2>6. P \cap Special = {}
    BY <1>2
  <2>7. Orderly => (at \in AboveUnlock => P \subseteq AboveUnlock)
    BY <1>2
  <2>8. Orderly => (at \in AboveOnce => P \subseteq AboveOnce)
    BY <1>2
  <2> HIDE DEF P
  <2> QED  BY <2>1, <2>2, <2>4, <2>5, <2>6, <2>7, <2>8, CallingBy
<1>3. ASSUME NEW a \in Frames, NEW b \in Frames,
             Do(g, <<a, b>>), FrameOf(a, Conn), FrameOf(b, Conn),
             {a.at, b.at} \cap Special = {},
             Orderly => /\ at \in AboveUnlock => {a.at, b.at} \subseteq AboveUnlock
                        /\ at \in AboveOnce => {a.at, b.at} \subseteq AboveOnce
      PROVE  Calling(g)
  <2> DEFINE fs == <<a, b>>
             P == {a.at, b.at}
  <2>1. fs \in Seq(Frames) /\ Len(fs) = 2 /\ fs[1] = a /\ fs[2] = b
    BY Tuples
  <2>2. Do(g, fs)
    BY <1>3
  <2> HIDE DEF fs
  <2>3. \A k \in 1..Len(fs) : k = 1 \/ k = 2
    BY <2>1
  <2>4. \A k \in 1..Len(fs) : fs[k].at \in P
    BY <2>1, <2>3
  <2>5. FramesOf(fs, Conn)
    BY <1>3, <2>1, <2>3 DEF FramesOf
  <2>6. P \cap Special = {}
    BY <1>3
  <2>7. Orderly => (at \in AboveUnlock => P \subseteq AboveUnlock)
    BY <1>3
  <2>8. Orderly => (at \in AboveOnce => P \subseteq AboveOnce)
    BY <1>3
  <2> HIDE DEF P
  <2> QED  BY <2>1, <2>2, <2>4, <2>5, <2>6, <2>7, <2>8, CallingBy
<1>4. ASSUME NEW a \in Frames, NEW b \in Frames, NEW c \in Frames,
             Do(g, <<a, b, c>>),
             FrameOf(a, Conn), FrameOf(b, Conn), FrameOf(c, Conn),
             {a.at, b.at, c.at} \cap Special = {},
             at \notin AboveUnlock \cup AboveOnce
      PROVE  Calling(g)
  <2> DEFINE fs == <<a, b, c>>
             P == {a.at, b.at, c.at}
  <2>1. fs \in Seq(Frames) /\ Len(fs) = 3 /\ fs[1] = a /\ fs[2] = b /\ fs[3] = c
    BY Tuples
  <2>2. Do(g, fs)
    BY <1>4
  <2> HIDE DEF fs
  <2>3. \A k \in 1..Len(fs) : k = 1 \/ k = 2 \/ k = 3
    BY <2>1
  <2>4. \A k \in 1..Len(fs) : fs[k].at \in P
    BY <2>1, <2>3
  <2>5. FramesOf(fs, Conn)
    BY <1>4, <2>1, <2>3 DEF FramesOf
  <2>6. P \cap Special = {}
    BY <1>4
  <2> HIDE DEF P
  <2> QED  BY <1>4, <2>1, <2>2, <2>4, <2>5, <2>6, CallingBy
<1> QED  BY <1>1, <1>2, <1>3, <1>4

\* A frame of the application or of the server, which goes by the id.
LEMMA UserFrame ==
  ASSUME Shape, NEW at \in Callbacks \cup API, NEW i \in Id
  PROVE  \E a \in Frames : a = Frame(at, i) /\ FrameOf(a, Conn) /\ a.at = at
<1>1. Conn \in SUBSET Nat
  BY ConnTypes
<1>2. Frame(at, i) \in Frames /\ FrameOf(Frame(at, i), Conn) /\ Frame(at, i).at = at
  BY <1>1, FrameKinds
<1> QED  BY <1>2

\* A callback returns, or makes one of the calls it may make.
LEMMA CallBackCalls ==
  ASSUME Shape, NEW g \in Procs, CallBack(g)
  PROVE  Calling(g)
<1>1. PICK name \in Callbacks :
        /\ At(g, name)
        /\ Do(g, <<>>) \/ \E call \in Calls[name] : Do(g, <<Frame(call, Arg(g))>>)
  BY DEF CallBack
<1>2. conns' = conns
  BY DEF CallBack
<1>3. name \notin Special
  BY DEF Callbacks, Special, Base
<1>4. CASE Do(g, <<>>)
  BY <1>1, <1>2, <1>3, <1>4, CallingTuples
<1>5. ASSUME NEW call \in Calls[name], Do(g, <<Frame(call, Arg(g))>>)
      PROVE  Calling(g)
  <2>1. call \in API /\ Arg(g) \in Id
    BY <1>1, ServerThreadsAssumption, AtPlace
  <2>2. PICK a \in Frames : /\ a = Frame(call, Arg(g)) /\ FrameOf(a, Conn)
                            /\ a.at = call
    BY <2>1, UserFrame
  <2>3. Do(g, <<a>>)
    BY <1>5, <2>2 DEF Do
  <2>4. a.at \notin Special
    BY <2>1, <2>2 DEF API, Special, Base
  <2>5. ASSUME Orderly, name \in AboveUnlock
        PROVE  a.at \in AboveUnlock
    BY <1>1, <2>2, <2>5 DEF Orderly, AboveUnlock, Quiet, Harmless, Callbacks
  <2>6. ASSUME Orderly, name \in AboveOnce
        PROVE  a.at \in AboveOnce
    BY <1>1, <2>2, <2>6 DEF Orderly, AboveOnce, Quiet, Harmless, Callbacks
  <2> QED  BY <1>1, <1>2, <1>3, <2>2, <2>3, <2>4, <2>5, <2>6, CallingTuples
<1> QED  BY <1>1, <1>4, <1>5

\* A place on a connection.
LEMMA PlaceFrame ==
  ASSUME Shape, NEW c \in Conn, NEW at \in ConnPlaces
  PROVE  \E a \in Frames : a = Frame(at, c) /\ FrameOf(a, Conn) /\ a.at = at /\ a.x = c
<1>1. Conn \in SUBSET Nat
  BY ConnTypes
<1>2. Frame(at, c) \in Frames /\ FrameOf(Frame(at, c), Conn)
  BY <1>1, FrameKinds, ZenonT(60)
<1>3. Frame(at, c).at = at /\ Frame(at, c).x = c
  BY DEF Frame
<1> QED  BY <1>2, <1>3

\* One call on a connection replaces the frame.
LEMMA OneCall ==
  ASSUME Shape, NEW g \in Procs, NEW at, At(g, at), at \notin Special, conns' = conns,
         NEW then \in ConnPlaces \ Special, NEW c \in Conn, Do(g, <<Frame(then, c)>>),
         Orderly => /\ at \in AboveUnlock => then \in AboveUnlock
                    /\ at \in AboveOnce => then \in AboveOnce
  PROVE  Calling(g)
<1>1. PICK a \in Frames : a = Frame(then, c) /\ FrameOf(a, Conn) /\ a.at = then
  BY PlaceFrame
<1>2. Do(g, <<a>>)
  BY <1>1 DEF Do
<1> QED  BY <1>1, <1>2, CallingTuples

\* Send and Disconnect find the connection, or not.
LEMMA LookupCalls ==
  ASSUME Shape, NEW g \in Procs, NEW at, NEW then \in ConnPlaces \ Special,
         at \notin Special, Lookup(g, at, then),
         Orderly => /\ at \in AboveUnlock => then \in AboveUnlock
                    /\ at \in AboveOnce => then \in AboveOnce
  PROVE  Calling(g)
<1>1. At(g, at) /\ conns' = conns
  BY DEF Lookup
<1>2. CASE Arg(g) \in DOMAIN connections
  <2>1. Do(g, <<Frame(then, connections[Arg(g)])>>)
    BY <1>2 DEF Lookup
  <2>2. PICK c \in Conn : c = connections[Arg(g)]
    BY <1>2 DEF Shape
  <2>3. Do(g, <<Frame(then, c)>>)
    BY <2>1, <2>2 DEF Do
  <2> QED  BY <1>1, <2>3, OneCall
<1>3. CASE Arg(g) \notin DOMAIN connections
  <2>1. Do(g, <<>>)
    BY <1>3 DEF Lookup
  <2> QED  BY <1>1, <2>1, CallingTuples
<1> QED  BY <1>2, <1>3

LEMMA SendCalls ==
  ASSUME Shape, NEW g \in Procs, Send(g)
  PROVE  Calling(g)
<1>1. CASE Lookup(g, "server.Send", "SendReliable")
  <2>1. "SendReliable" \in ConnPlaces \ Special /\ "server.Send" \notin Special
    BY DEF ConnPlaces, Special, Base
  <2>2. /\ "server.Send" \in AboveUnlock => "SendReliable" \in AboveUnlock
        /\ "server.Send" \in AboveOnce => "SendReliable" \in AboveOnce
    BY DEF AboveUnlock, AboveOnce, Harmless
  <2> QED  BY <1>1, <2>1, <2>2, LookupCalls
<1>2. CASE Lookup(g, "server.SendEmpty", "SendEmpty")
  <2>1. "SendEmpty" \in ConnPlaces \ Special /\ "server.SendEmpty" \notin Special
    BY DEF ConnPlaces, Special, Base
  <2>2. /\ "server.SendEmpty" \in AboveUnlock => "SendEmpty" \in AboveUnlock
        /\ "server.SendEmpty" \in AboveOnce => "SendEmpty" \in AboveOnce
    BY DEF AboveUnlock, AboveOnce, Harmless
  <2> QED  BY <1>2, <2>1, <2>2, LookupCalls
<1> QED  BY <1>1, <1>2 DEF Send

LEMMA DisconnectCalls ==
  ASSUME Shape, NEW g \in Procs, Disconnect(g)
  PROVE  Calling(g)
<1>1. "peer.Disconnect" \in ConnPlaces \ Special /\ "server.Disconnect" \notin Special
  BY DEF ConnPlaces, Special, Base
<1>2. /\ "server.Disconnect" \in AboveUnlock => "peer.Disconnect" \in AboveUnlock
      /\ "server.Disconnect" \in AboveOnce => "peer.Disconnect" \in AboveOnce
  BY DEF AboveUnlock, AboveOnce, Harmless
<1> QED  BY <1>1, <1>2, LookupCalls DEF Disconnect

\* The calls that return at once.
LEMMA ReturningCalls ==
  ASSUME Shape, NEW g \in Procs, conns' = conns, Do(g, <<>>),
         NEW at \in {"server.Stop", "server.Start", "SendReliable", "Locked",
                     "ReceiveNextReliable", "peer.Disconnect", "TickIncoming",
                     "TickOutgoing"},
         At(g, at)
  PROVE  Calling(g)
<1>1. at \notin Special
  BY DEF Special, Base
<1> QED  BY <1>1, CallingTuples

\* An error is reported, and what comes then.
LEMMA ErrorFrame ==
  ASSUME Shape, NEW c \in Conn, NEW name \in Callbacks
  PROVE  \E a \in Frames : /\ a = Callback(name, c) /\ FrameOf(a, Conn)
                           /\ a.at = name /\ a.at \notin Special
<1>1. Callback(name, c) = Frame(name, conns[c].id) /\ conns[c].id \in Id
  BY ConnTypes
<1>2. name \notin Special
  BY DEF Callbacks, Special, Base
<1> QED  BY <1>1, <1>2, UserFrame

LEMMA SendEmptyCalls ==
  ASSUME Shape, NEW g \in Procs, SendEmpty(g)
  PROVE  Calling(g)
<1>1. At(g, "SendEmpty") /\ conns' = conns
      /\ Do(g, <<Callback("OnError", Arg(g)), Frame("peer.Disconnect", Arg(g))>>)
  BY DEF SendEmpty
<1>2. Arg(g) \in Conn
  BY <1>1, AtPlace DEF ConnPlaces
<1>3. PICK a \in Frames : a = Callback("OnError", Arg(g)) /\ FrameOf(a, Conn) /\ a.at = "OnError"
  BY <1>2, ErrorFrame DEF Callbacks
<1>4. PICK b \in Frames : /\ b = Frame("peer.Disconnect", Arg(g)) /\ FrameOf(b, Conn)
                          /\ b.at = "peer.Disconnect"
  BY <1>2, PlaceFrame DEF ConnPlaces
<1>5. Do(g, <<a, b>>)
  BY <1>1, <1>3, <1>4 DEF Do
<1>6. "SendEmpty" \notin Special /\ {a.at, b.at} \cap Special = {}
  BY <1>3, <1>4 DEF Special, Base
<1>7. /\ "SendEmpty" \in AboveUnlock => {a.at, b.at} \subseteq AboveUnlock
      /\ "SendEmpty" \in AboveOnce => {a.at, b.at} \subseteq AboveOnce
  BY <1>3, <1>4 DEF AboveUnlock, AboveOnce, Harmless
<1> QED  BY <1>1, <1>3, <1>4, <1>5, <1>6, <1>7, CallingTuples

\* What a message makes its reader call.
LEMMA MessageCalled ==
  ASSUME Shape, NEW g \in Procs, conns' = conns, NEW c \in Conn,
         NEW at \in ConnPlaces \ (Special \cup AboveUnlock \cup AboveOnce),
         At(g, at), \E calls \in MessageCalls(c) : Do(g, calls)
  PROVE  Calling(g)
<1>1. PICK a \in Frames : a = Callback("OnData", c) /\ FrameOf(a, Conn) /\ a.at = "OnData"
  BY ErrorFrame DEF Callbacks
<1>2. PICK b \in Frames : b = Frame("SendReliable", c) /\ FrameOf(b, Conn) /\ b.at = "SendReliable"
  BY PlaceFrame DEF ConnPlaces
<1>3. PICK d \in Frames : /\ d = Frame("peer.Disconnect", c) /\ FrameOf(d, Conn)
                          /\ d.at = "peer.Disconnect"
  BY PlaceFrame DEF ConnPlaces
<1>4. PICK e \in Frames : e = Callback("OnError", c) /\ FrameOf(e, Conn) /\ e.at = "OnError"
  BY ErrorFrame DEF Callbacks
<1>5. {a.at, b.at, d.at, e.at} \cap Special = {}
  BY <1>1, <1>2, <1>3, <1>4 DEF Special, Base
<1>6. \/ Do(g, <<>>) \/ Do(g, <<a>>) \/ Do(g, <<b>>) \/ Do(g, <<d>>) \/ Do(g, <<e, d>>)
  BY <1>1, <1>2, <1>3, <1>4 DEF MessageCalls
<1> QED  BY <1>1, <1>2, <1>3, <1>4, <1>5, <1>6, CallingTuples

LEMMA LockedCalls ==
  ASSUME Shape, NEW g \in Procs, Locked(g)
  PROVE  Calling(g)
  BY ReturningCalls DEF Locked

LEMMA OnRawInputUnreliableCalls ==
  ASSUME Shape, NEW g \in Procs, OnRawInputUnreliable(g)
  PROVE  Calling(g)
<1>1. At(g, "OnRawInputUnreliable") /\ conns' = conns
  BY DEF OnRawInputUnreliable
<1>2. PICK c \in Conn : c = Arg(g)
  BY <1>1, AtPlace DEF ConnPlaces
<1>3. \E calls \in MessageCalls(c) : Do(g, calls)
  BY <1>2 DEF OnRawInputUnreliable, MessageCalls
<1>4. "OnRawInputUnreliable" \in ConnPlaces
                             \ (Special \cup AboveUnlock \cup AboveOnce)
  BY DEF ConnPlaces, Special, Base, AboveUnlock, AboveOnce, Harmless
<1> QED  BY <1>1, <1>3, <1>4, MessageCalled

\* The ticks of one connection.
LEMMA TickIncomingCalls ==
  ASSUME Shape, TickIncoming
  PROVE  Calling(Ticker)
<1>1. At(Ticker, "TickIncoming") /\ conns' = conns /\ Ticker \in Procs
  BY DEF TickIncoming, Procs
<1>2. PICK c \in Conn : c = Arg(Ticker)
  BY <1>1, AtPlace DEF ConnPlaces
<1>3. \/ Do(Ticker, <<>>)
      \/ Do(Ticker, <<Frame("ReceiveNextReliable", c)>>)
      \/ Do(Ticker, <<Frame("SendReliable", c), Frame("ReceiveNextReliable", c)>>)
      \/ Do(Ticker, <<Callback("OnError", c), Frame("peer.Disconnect", c),
                      Frame("ReceiveNextReliable", c)>>)
  BY <1>2 DEF TickIncoming, Do, Callback
<1>4. "TickIncoming" \notin Special \cup AboveUnlock \cup AboveOnce
  BY DEF Special, Base, AboveUnlock, AboveOnce, Harmless
<1>5. PICK r \in Frames : /\ r = Frame("ReceiveNextReliable", c) /\ FrameOf(r, Conn)
                          /\ r.at = "ReceiveNextReliable"
  BY PlaceFrame DEF ConnPlaces
<1>6. PICK b \in Frames : b = Frame("SendReliable", c) /\ FrameOf(b, Conn) /\ b.at = "SendReliable"
  BY PlaceFrame DEF ConnPlaces
<1>7. PICK e \in Frames : e = Callback("OnError", c) /\ FrameOf(e, Conn) /\ e.at = "OnError"
  BY ErrorFrame DEF Callbacks
<1>8. PICK d \in Frames : /\ d = Frame("peer.Disconnect", c) /\ FrameOf(d, Conn)
                          /\ d.at = "peer.Disconnect"
  BY PlaceFrame DEF ConnPlaces
<1>9. {r.at, b.at, e.at, d.at} \cap Special = {}
  BY <1>5, <1>6, <1>7, <1>8 DEF Special, Base
<1>10. \/ Do(Ticker, <<>>) \/ Do(Ticker, <<r>>) \/ Do(Ticker, <<b, r>>)
       \/ Do(Ticker, <<e, d, r>>)
  BY <1>3, <1>5, <1>6, <1>7, <1>8 DEF Do
<1>11. CASE Do(Ticker, <<>>)
  BY <1>1, <1>4, <1>11, CallingTuples
<1>12. CASE Do(Ticker, <<r>>)
  BY <1>1, <1>4, <1>5, <1>9, <1>12, CallingTuples
<1>13. CASE Do(Ticker, <<b, r>>)
  BY <1>1, <1>4, <1>5, <1>6, <1>9, <1>13, CallingTuples
<1>14. CASE Do(Ticker, <<e, d, r>>)
  BY <1>1, <1>4, <1>5, <1>7, <1>8, <1>9, <1>14, CallingTuples
<1> QED  BY <1>10, <1>11, <1>12, <1>13, <1>14

LEMMA TickOutgoingCalls ==
  ASSUME Shape, TickOutgoing
  PROVE  Calling(Ticker)
<1>1. At(Ticker, "TickOutgoing") /\ conns' = conns /\ Ticker \in Procs
  BY DEF TickOutgoing, Procs
<1>2. PICK c \in Conn : c = Arg(Ticker)
  BY <1>1, AtPlace DEF ConnPlaces
<1>3. \/ Do(Ticker, <<>>)
      \/ Do(Ticker, <<Frame("Locked", c)>>)
      \/ Do(Ticker, <<Callback("OnError", c), Frame("peer.Disconnect", c),
                      Frame("Locked", c)>>)
  BY <1>2 DEF TickOutgoing, Do, Callback
<1>4. "TickOutgoing" \notin Special \cup AboveUnlock \cup AboveOnce
  BY DEF Special, Base, AboveUnlock, AboveOnce, Harmless
<1>5. PICK r \in Frames : r = Frame("Locked", c) /\ FrameOf(r, Conn) /\ r.at = "Locked"
  BY PlaceFrame DEF ConnPlaces
<1>6. PICK e \in Frames : e = Callback("OnError", c) /\ FrameOf(e, Conn) /\ e.at = "OnError"
  BY ErrorFrame DEF Callbacks
<1>7. PICK d \in Frames : /\ d = Frame("peer.Disconnect", c) /\ FrameOf(d, Conn)
                          /\ d.at = "peer.Disconnect"
  BY PlaceFrame DEF ConnPlaces
<1>8. {r.at, e.at, d.at} \cap Special = {}
  BY <1>5, <1>6, <1>7 DEF Special, Base
<1>9. Do(Ticker, <<>>) \/ Do(Ticker, <<r>>) \/ Do(Ticker, <<e, d, r>>)
  BY <1>3, <1>5, <1>6, <1>7 DEF Do
<1>10. CASE Do(Ticker, <<>>)
  BY <1>1, <1>4, <1>10, CallingTuples
<1>11. CASE Do(Ticker, <<r>>)
  BY <1>1, <1>4, <1>5, <1>8, <1>11, CallingTuples
<1>12. CASE Do(Ticker, <<e, d, r>>)
  BY <1>1, <1>4, <1>5, <1>6, <1>7, <1>8, <1>12, CallingTuples
<1> QED  BY <1>9, <1>10, <1>11, <1>12

----------------------------------------------------------------------------
(* The steps that are more than calls, each with the frames fs it pushes. *)

Replacing(g, fs) == Pushing(g, fs) /\ Disciplined(g, fs)

\* The lock of c is taken for the time of OnError.
Locking(g, c, fs) ==
  /\ Replacing(g, fs) /\ Head(stack[g]).at \notin Special
  /\ Len(fs) \in 2..3
  /\ fs[1].at = "OnError" /\ fs[2] = Frame("Unlock", c)
  /\ Len(fs) = 3 => fs[3].at \notin Special
  /\ conns[c].lock = Nobody
  /\ conns' = [conns EXCEPT ![c].lock = g]

Unlocking(g, c, fs) ==
  /\ Replacing(g, fs) /\ Head(stack[g]) = Frame("Unlock", c) /\ Len(fs) = 0
  /\ conns' = [conns EXCEPT ![c].lock = Nobody]

\* disconnectOnce runs: the state changes, the sleep begins.
Entering(g, c, fs) ==
  /\ Replacing(g, fs) /\ Head(stack[g]).at \notin Special
  /\ Len(fs) = 1 /\ fs[1] = Frame("sleep", c)
  /\ conns[c].once = "new"
  /\ conns' = [conns EXCEPT ![c].once = "running", ![c].owner = g]

\* The sleep is over; OnDisconnected may be called, inside disconnectOnce.
Waking(g, c, fs) ==
  /\ Replacing(g, fs) /\ Head(stack[g]) = Frame("sleep", c)
  /\ Len(fs) \in 1..2 /\ fs[Len(fs)] = Frame("once", c)
  /\ Len(fs) = 2 => fs[1].at = "OnDisconnected"
  /\ conns' = conns

Returning(g, c, fs) ==
  /\ Replacing(g, fs) /\ Head(stack[g]) = Frame("once", c) /\ Len(fs) = 0
  /\ conns' = [conns EXCEPT ![c].once = "done", ![c].owner = Nobody]

\* The connection that was made is added.
Joins(g, c, fs) ==
  /\ Replacing(g, fs) /\ Head(stack[g]) = Frame("onConnected", c)
  /\ Len(fs) = 1 /\ fs[1].at \notin Special
  /\ conns' = conns

\* The ticker goes on, its own frame stays the outermost.
Ticking(fs) ==
  /\ Replacing(Ticker, fs) /\ Head(stack[Ticker]).at \in Base
  /\ Len(fs) \in 1..2 /\ fs[Len(fs)].at \in Base
  /\ Len(fs) = 2 => fs[1].at \notin Special
  /\ conns' = conns

\* The ticker makes connection c.
Making(c, i, fs) ==
  /\ Replacing(Ticker, fs) /\ Head(stack[Ticker]).at = "receive"
  /\ Len(fs) = 3 /\ fs[1].at \notin Special /\ fs[2] = Frame("onConnected", c)
  /\ fs[3].at = "receive"
  /\ c = Len(conns) + 1
  /\ conns' = Append(conns, [id |-> i, lock |-> Nobody, once |-> "new", owner |-> Nobody])

\* Frames of three at most, for the lists the code pushes.
LEMMA ReplacingTuples ==
  ASSUME Shape, NEW g \in Procs, NEW at, At(g, at), Conn \subseteq Conn',
         NEW a \in Frames, NEW b \in Frames, NEW c \in Frames
  PROVE  /\ Do(g, <<>>) => Replacing(g, <<>>)
         /\ /\ Do(g, <<a>>) /\ FrameOf(a, Conn')
            /\ Orderly => /\ at \in AboveUnlock => a.at \in AboveUnlock
                          /\ at \in AboveOnce => a.at \in AboveOnce
            => Replacing(g, <<a>>)
         /\ /\ Do(g, <<a, b>>) /\ FrameOf(a, Conn') /\ FrameOf(b, Conn')
            /\ Orderly => /\ at \in AboveUnlock => {a.at, b.at} \subseteq AboveUnlock
                          /\ at \in AboveOnce => {a.at, b.at} \subseteq AboveOnce
            => Replacing(g, <<a, b>>)
         /\ /\ Do(g, <<a, b, c>>)
            /\ FrameOf(a, Conn') /\ FrameOf(b, Conn') /\ FrameOf(c, Conn')
            /\ at \notin AboveUnlock \cup AboveOnce
            => Replacing(g, <<a, b, c>>)
<1>1. stack[g] # <<>> /\ Head(stack[g]).at = at
  BY AtPlace
<1>2. ASSUME Do(g, <<>>)
      PROVE  Replacing(g, <<>>)
  <2>1. <<>> \in Seq(Frames) /\ Len(<<>>) = 0
    BY EmptySeq
  <2>2. \A k \in 1..Len(<<>>) : FALSE
    BY <2>1
  <2> QED  BY <1>1, <1>2, <2>1, <2>2 DEF Replacing, Pushing, Disciplined, Within, FramesOf
<1>3. ASSUME Do(g, <<a>>), FrameOf(a, Conn'),
             Orderly => /\ at \in AboveUnlock => a.at \in AboveUnlock
                        /\ at \in AboveOnce => a.at \in AboveOnce
      PROVE  Replacing(g, <<a>>)
  <2> DEFINE fs == <<a>>
  <2>1. fs \in Seq(Frames) /\ \A k \in 1..Len(fs) : fs[k] = a
    BY Tuples
  <2>2. FramesOf(fs, Conn')
    BY <1>3, <2>1 DEF FramesOf
  <2>3. Orderly => Within(AboveUnlock, g, fs) /\ Within(AboveOnce, g, fs)
    BY <1>1, <1>3, <2>1 DEF Within
  <2> QED  BY <1>1, <1>3, <2>1, <2>2, <2>3 DEF Replacing, Pushing, Disciplined
<1>4. ASSUME Do(g, <<a, b>>), FrameOf(a, Conn'), FrameOf(b, Conn'),
             Orderly => /\ at \in AboveUnlock => {a.at, b.at} \subseteq AboveUnlock
                        /\ at \in AboveOnce => {a.at, b.at} \subseteq AboveOnce
      PROVE  Replacing(g, <<a, b>>)
  <2> DEFINE fs == <<a, b>>
  <2>1. fs \in Seq(Frames) /\ \A k \in 1..Len(fs) : fs[k] = a \/ fs[k] = b
    BY Tuples
  <2>2. FramesOf(fs, Conn')
    BY <1>4, <2>1 DEF FramesOf
  <2>3. Orderly => Within(AboveUnlock, g, fs) /\ Within(AboveOnce, g, fs)
    BY <1>1, <1>4, <2>1 DEF Within
  <2> QED  BY <1>1, <1>4, <2>1, <2>2, <2>3 DEF Replacing, Pushing, Disciplined
<1>5. ASSUME Do(g, <<a, b, c>>),
             FrameOf(a, Conn'), FrameOf(b, Conn'), FrameOf(c, Conn'),
             at \notin AboveUnlock \cup AboveOnce
      PROVE  Replacing(g, <<a, b, c>>)
  <2> DEFINE fs == <<a, b, c>>
  <2>1. fs \in Seq(Frames) /\ \A k \in 1..Len(fs) : fs[k] = a \/ fs[k] = b \/ fs[k] = c
    BY Tuples
  <2>2. FramesOf(fs, Conn')
    BY <1>5, <2>1 DEF FramesOf
  <2>3. Within(AboveUnlock, g, fs) /\ Within(AboveOnce, g, fs)
    BY <1>1, <1>5 DEF Within
  <2> QED  BY <1>1, <1>5, <2>1, <2>2, <2>3 DEF Replacing, Pushing, Disciplined
<1> QED  BY <1>2, <1>3, <1>4, <1>5

\* An EXCEPT on a record of conns leaves the connections there are.
LEMMA ConnKept ==
  ASSUME Shape, NEW c \in Conn, NEW g
  PROVE  /\ conns' = [conns EXCEPT ![c].lock = g] => Conn' = Conn
         /\ \A o : conns' = [conns EXCEPT ![c].once = o, ![c].owner = g] => Conn' = Conn
         /\ conns' = conns => Conn' = Conn
  BY DEF Conn, Shape

LEMMA SendReliableLocks ==
  ASSUME Shape, NEW g \in Procs, SendReliable(g)
  PROVE  \/ Calling(g) /\ conns' = conns
         \/ \E c \in Conn, fs \in Seq(Frames) : Locking(g, c, fs)
<1>1. At(g, "SendReliable") /\ Free(Arg(g))
  BY DEF SendReliable
<1>2. PICK c \in Conn : c = Arg(g)
  BY <1>1, AtPlace DEF ConnPlaces
<1>3. CASE Do(g, <<>>) /\ conns' = conns
  BY <1>1, <1>3, ReturningCalls
<1>4. CASE /\ conns' = [conns EXCEPT ![Arg(g)].lock = g]
           /\ Do(g, <<Callback("OnError", Arg(g)), Frame("Unlock", Arg(g))>>)
  <2>1. PICK e \in Frames : e = Callback("OnError", c) /\ FrameOf(e, Conn) /\ e.at = "OnError"
    BY ErrorFrame DEF Callbacks
  <2>2. PICK u \in Frames : u = Frame("Unlock", c) /\ FrameOf(u, Conn) /\ u.at = "Unlock"
    BY PlaceFrame DEF ConnPlaces
  <2>3. Do(g, <<e, u>>) /\ conns' = [conns EXCEPT ![c].lock = g]
    BY <1>2, <1>4, <2>1, <2>2 DEF Do
  <2>4. Conn' = Conn
    BY <2>3, ConnKept
  <2>5. /\ "SendReliable" \in AboveUnlock => {e.at, u.at} \subseteq AboveUnlock
        /\ "SendReliable" \in AboveOnce => {e.at, u.at} \subseteq AboveOnce
    BY <2>1, <2>2 DEF AboveUnlock, AboveOnce, Harmless
  <2>6. Replacing(g, <<e, u>>)
    BY <1>1, <2>1, <2>2, <2>3, <2>4, <2>5, ReplacingTuples
  <2>7. Head(stack[g]).at \notin Special
    BY <1>1, AtPlace DEF Special, Base
  <2>8. <<e, u>> \in Seq(Frames) /\ Len(<<e, u>>) = 2 /\ <<e, u>>[1] = e /\ <<e, u>>[2] = u
    BY Tuples
  <2>9. conns[c].lock = Nobody
    BY <1>1, <1>2 DEF Free
  <2>10. Locking(g, c, <<e, u>>)
    BY <2>1, <2>2, <2>3, <2>6, <2>7, <2>8, <2>9 DEF Locking
  <2> QED  BY <2>8, <2>10
<1> QED  BY <1>3, <1>4 DEF SendReliable, Lock

LEMMA ReceiveNextReliableLocks ==
  ASSUME Shape, NEW g \in Procs, ReceiveNextReliable(g)
  PROVE  \/ Calling(g) /\ conns' = conns
         \/ \E c \in Conn, fs \in Seq(Frames) : Locking(g, c, fs)
<1>1. At(g, "ReceiveNextReliable") /\ Free(Arg(g))
  BY DEF ReceiveNextReliable
<1>2. PICK c \in Conn : c = Arg(g)
  BY <1>1, AtPlace DEF ConnPlaces
<1>3. "ReceiveNextReliable" \notin Special \cup AboveUnlock \cup AboveOnce
  BY DEF Special, Base, AboveUnlock, AboveOnce, Harmless
<1>4. "ReceiveNextReliable" \in ConnPlaces
  BY DEF ConnPlaces
<1>5. CASE (\E calls \in MessageCalls(Arg(g)) : Do(g, calls)) /\ conns' = conns
  BY <1>1, <1>2, <1>3, <1>4, <1>5, MessageCalled
<1>6. CASE /\ conns' = [conns EXCEPT ![Arg(g)].lock = g]
           /\ Do(g, <<Callback("OnError", Arg(g)), Frame("Unlock", Arg(g)),
                      Frame("peer.Disconnect", Arg(g))>>)
  <2>1. PICK e \in Frames : e = Callback("OnError", c) /\ FrameOf(e, Conn) /\ e.at = "OnError"
    BY ErrorFrame DEF Callbacks
  <2>2. PICK u \in Frames : u = Frame("Unlock", c) /\ FrameOf(u, Conn) /\ u.at = "Unlock"
    BY PlaceFrame DEF ConnPlaces
  <2>3. PICK d \in Frames : /\ d = Frame("peer.Disconnect", c) /\ FrameOf(d, Conn)
                            /\ d.at = "peer.Disconnect"
    BY PlaceFrame DEF ConnPlaces
  <2>4. Do(g, <<e, u, d>>) /\ conns' = [conns EXCEPT ![c].lock = g]
    BY <1>2, <1>6, <2>1, <2>2, <2>3 DEF Do
  <2>5. Conn' = Conn
    BY <2>4, ConnKept
  <2>6. Replacing(g, <<e, u, d>>)
    BY <1>1, <1>3, <2>1, <2>2, <2>3, <2>4, <2>5, ReplacingTuples
  <2>7. Head(stack[g]).at \notin Special /\ d.at \notin Special
    BY <1>1, <2>3, AtPlace DEF Special, Base
  <2>8. /\ <<e, u, d>> \in Seq(Frames) /\ Len(<<e, u, d>>) = 3
        /\ <<e, u, d>>[1] = e /\ <<e, u, d>>[2] = u /\ <<e, u, d>>[3] = d
    BY Tuples
  <2>9. conns[c].lock = Nobody
    BY <1>1, <1>2 DEF Free
  <2>10. Locking(g, c, <<e, u, d>>)
    BY <2>1, <2>2, <2>4, <2>6, <2>7, <2>8, <2>9 DEF Locking
  <2> QED  BY <2>8, <2>10
<1> QED  BY <1>5, <1>6 DEF ReceiveNextReliable, Lock

LEMMA UnlockUnlocks ==
  ASSUME Shape, NEW g \in Procs, Unlock(g)
  PROVE  \E c \in Conn, fs \in Seq(Frames) : Unlocking(g, c, fs)
<1>1. At(g, "Unlock") /\ Do(g, <<>>) /\ conns' = [conns EXCEPT ![Arg(g)].lock = Nobody]
  BY DEF Unlock, Lock
<1>2. PICK c \in Conn : c = Arg(g)
  BY <1>1, AtPlace DEF ConnPlaces
<1>3. conns' = [conns EXCEPT ![c].lock = Nobody] /\ Head(stack[g]) = Frame("Unlock", c)
  BY <1>1, <1>2, AtPlace
<1>4. Conn' = Conn
  BY <1>3, ConnKept
<1>5. PICK u \in Frames : u = Frame("Unlock", c)
  BY PlaceFrame DEF ConnPlaces
<1>6. Replacing(g, <<>>)
  BY <1>1, <1>4, <1>5, ReplacingTuples
<1>7. <<>> \in Seq(Frames) /\ Len(<<>>) = 0
  BY EmptySeq
<1> QED  BY <1>3, <1>6, <1>7 DEF Unlocking

LEMMA PeerDisconnectEnters ==
  ASSUME Shape, NEW g \in Procs, PeerDisconnect(g)
  PROVE  \/ Calling(g) /\ conns' = conns
         \/ \E c \in Conn, fs \in Seq(Frames) : Entering(g, c, fs)
<1>1. At(g, "peer.Disconnect") /\ conns[Arg(g)].once # "running"
  BY DEF PeerDisconnect
<1>2. PICK c \in Conn : c = Arg(g)
  BY <1>1, AtPlace DEF ConnPlaces
<1>3. CASE conns[c].once = "done"
  <2>1. Do(g, <<>>) /\ conns' = conns
    BY <1>2, <1>3 DEF PeerDisconnect
  <2> QED  BY <1>1, <2>1, ReturningCalls
<1>4. CASE conns[c].once # "done"
  <2>1. /\ Do(g, <<Frame("sleep", Arg(g))>>)
        /\ conns' = [conns EXCEPT ![Arg(g)].once = "running", ![Arg(g)].owner = g]
    BY <1>2, <1>4 DEF PeerDisconnect
  <2>2. PICK f \in Frames : f = Frame("sleep", c) /\ FrameOf(f, Conn) /\ f.at = "sleep"
    BY PlaceFrame DEF ConnPlaces
  <2>3. Do(g, <<f>>) /\ conns' = [conns EXCEPT ![c].once = "running", ![c].owner = g]
    BY <1>2, <2>1, <2>2 DEF Do
  <2>4. Conn' = Conn
    BY <2>3, ConnKept
  <2>5. /\ "peer.Disconnect" \in AboveUnlock => f.at \in AboveUnlock
        /\ "peer.Disconnect" \in AboveOnce => f.at \in AboveOnce
    BY <2>2 DEF AboveUnlock, AboveOnce, Harmless
  <2>6. Replacing(g, <<f>>)
    BY <1>1, <2>2, <2>3, <2>4, <2>5, ReplacingTuples
  <2>7. Head(stack[g]).at \notin Special
    BY <1>1, AtPlace DEF Special, Base
  <2>8. <<f>> \in Seq(Frames) /\ Len(<<f>>) = 1 /\ <<f>>[1] = f
    BY Tuples
  <2>9. conns[c].once = "new"
    BY <1>1, <1>2, <1>4, ConnTypes DEF ConnRecord
  <2>10. Entering(g, c, <<f>>)
    BY <2>2, <2>3, <2>6, <2>7, <2>8, <2>9 DEF Entering
  <2> QED  BY <2>8, <2>10
<1> QED  BY <1>3, <1>4

LEMMA onDisconnectedWakes ==
  ASSUME Shape, NEW g \in Procs, onDisconnected(g)
  PROVE  \E c \in Conn, fs \in Seq(Frames) :
           /\ Waking(g, c, fs)
           /\ toRemove' = IF conns[c].id \in DOMAIN connections /\ conns[c].id \notin toRemove
                          THEN toRemove \cup {conns[c].id} ELSE toRemove
<1>1. At(g, "sleep") /\ conns' = conns
  BY DEF onDisconnected
<1>2. PICK c \in Conn : c = Arg(g)
  BY <1>1, AtPlace DEF ConnPlaces
<1>3. toRemove' = IF conns[c].id \in DOMAIN connections /\ conns[c].id \notin toRemove
                  THEN toRemove \cup {conns[c].id} ELSE toRemove
  BY <1>2 DEF onDisconnected
<1>4. PICK e \in Frames : /\ e = Callback("OnDisconnected", c) /\ FrameOf(e, Conn)
                          /\ e.at = "OnDisconnected"
  BY ErrorFrame DEF Callbacks
<1>5. PICK o \in Frames : o = Frame("once", c) /\ FrameOf(o, Conn) /\ o.at = "once"
  BY PlaceFrame DEF ConnPlaces
<1>6. Do(g, <<e, o>>) \/ Do(g, <<o>>)
  BY <1>2, <1>4, <1>5 DEF onDisconnected, Do
<1>7. Conn' = Conn
  BY <1>1, ConnKept
<1>8. /\ "sleep" \in AboveUnlock => {e.at, o.at} \subseteq AboveUnlock
      /\ "sleep" \in AboveOnce => {e.at, o.at} \subseteq AboveOnce
  BY <1>4, <1>5 DEF AboveUnlock, AboveOnce, Harmless
<1>9. Head(stack[g]) = Frame("sleep", c)
  BY <1>1, <1>2, AtPlace
<1>10. CASE Do(g, <<e, o>>)
  <2>1. Replacing(g, <<e, o>>)
    BY <1>1, <1>4, <1>5, <1>7, <1>8, <1>10, ReplacingTuples
  <2>2. <<e, o>> \in Seq(Frames) /\ Len(<<e, o>>) = 2 /\ <<e, o>>[1] = e /\ <<e, o>>[2] = o
    BY Tuples
  <2>3. Waking(g, c, <<e, o>>)
    BY <1>1, <1>4, <1>5, <1>9, <2>1, <2>2 DEF Waking
  <2> QED  BY <1>3, <2>2, <2>3
<1>11. CASE Do(g, <<o>>)
  <2>1. Replacing(g, <<o>>)
    BY <1>1, <1>5, <1>7, <1>8, <1>11, ReplacingTuples
  <2>2. <<o>> \in Seq(Frames) /\ Len(<<o>>) = 1 /\ <<o>>[1] = o
    BY Tuples
  <2>3. Waking(g, c, <<o>>)
    BY <1>1, <1>5, <1>9, <2>1, <2>2 DEF Waking
  <2> QED  BY <1>3, <2>2, <2>3
<1> QED  BY <1>6, <1>10, <1>11

LEMMA OnceReturnsReturns ==
  ASSUME Shape, NEW g \in Procs, OnceReturns(g)
  PROVE  \E c \in Conn, fs \in Seq(Frames) : Returning(g, c, fs)
<1>1. /\ At(g, "once") /\ Do(g, <<>>)
      /\ conns' = [conns EXCEPT ![Arg(g)].once = "done", ![Arg(g)].owner = Nobody]
  BY DEF OnceReturns
<1>2. PICK c \in Conn : c = Arg(g)
  BY <1>1, AtPlace DEF ConnPlaces
<1>3. /\ conns' = [conns EXCEPT ![c].once = "done", ![c].owner = Nobody]
      /\ Head(stack[g]) = Frame("once", c)
  BY <1>1, <1>2, AtPlace
<1>4. Conn' = Conn
  BY <1>3, ConnKept
<1>5. PICK u \in Frames : u = Frame("once", c)
  BY PlaceFrame DEF ConnPlaces
<1>6. Replacing(g, <<>>)
  BY <1>1, <1>4, <1>5, ReplacingTuples
<1>7. <<>> \in Seq(Frames) /\ Len(<<>>) = 0
  BY EmptySeq
<1> QED  BY <1>3, <1>6, <1>7 DEF Returning

LEMMA onConnectedJoins ==
  ASSUME Shape, NEW g \in Procs, onConnected(g)
  PROVE  \E c \in Conn, fs \in Seq(Frames) :
           /\ Joins(g, c, fs)
           /\ connections' = [i \in DOMAIN connections \cup {conns[c].id} |->
                                IF i = conns[c].id THEN c ELSE connections[i]]
<1>1. At(g, "onConnected") /\ conns' = conns
  BY DEF onConnected
<1>2. PICK c \in Conn : c = Arg(g)
  BY <1>1, AtPlace DEF ConnPlaces
<1>3. connections' = [i \in DOMAIN connections \cup {conns[c].id} |->
                        IF i = conns[c].id THEN c ELSE connections[i]]
  BY <1>2 DEF onConnected
<1>4. PICK e \in Frames : /\ e = Callback("OnConnected", c) /\ FrameOf(e, Conn)
                          /\ e.at \notin Special
  BY ErrorFrame DEF Callbacks
<1>5. Do(g, <<e>>)
  BY <1>2, <1>4 DEF onConnected, Do
<1>6. Conn' = Conn
  BY <1>1, ConnKept
<1>7. "onConnected" \notin AboveUnlock \cup AboveOnce
  BY DEF AboveUnlock, AboveOnce, Harmless
<1>8. Replacing(g, <<e>>)
  BY <1>1, <1>4, <1>5, <1>6, <1>7, ReplacingTuples
<1>9. <<e>> \in Seq(Frames) /\ Len(<<e>>) = 1 /\ <<e>>[1] = e
  BY Tuples
<1>10. Head(stack[g]) = Frame("onConnected", c)
  BY <1>1, <1>2, AtPlace
<1>11. Joins(g, c, <<e>>)
  BY <1>1, <1>4, <1>8, <1>9, <1>10 DEF Joins
<1> QED  BY <1>3, <1>9, <1>11

\* The ticker replaces its own frame, after a step on a connection or not.
LEMMA TickingTuples ==
  ASSUME Shape, NEW at \in Base, At(Ticker, at), conns' = conns,
         NEW next \in Base, NEW S \in SUBSET Conn
  PROVE  /\ Do(Ticker, <<Frame(next, S)>>) => \E fs \in Seq(Frames) : Ticking(fs)
         /\ \A then \in ConnPlaces \ Special, c \in Conn :
              Do(Ticker, <<Frame(then, c), Frame(next, S)>>) =>
                \E fs \in Seq(Frames) : Ticking(fs)
<1>1. Ticker \in Procs /\ Conn' = Conn /\ Conn \in SUBSET Nat
  BY ConnTypes DEF Procs, Conn
<1>2. at \notin AboveUnlock \cup AboveOnce
  BY DEF AboveUnlock, AboveOnce, Harmless, Base
<1>3. PICK b \in Frames : b = Frame(next, S) /\ FrameOf(b, Conn) /\ b.at = next
  <2>1. Frame(next, S) \in Frames /\ FrameOf(Frame(next, S), Conn)
    BY <1>1, FrameKinds, ZenonT(60)
  <2>2. Frame(next, S).at = next
    BY DEF Frame
  <2> QED  BY <2>1, <2>2
<1>4. Head(stack[Ticker]).at \in Base
  BY <1>1, AtPlace
<1>5. ASSUME Do(Ticker, <<Frame(next, S)>>)
      PROVE  \E fs \in Seq(Frames) : Ticking(fs)
  <2>1. Do(Ticker, <<b>>)
    BY <1>3, <1>5 DEF Do
  <2>2. Replacing(Ticker, <<b>>)
    BY <1>1, <1>2, <1>3, <2>1, ReplacingTuples
  <2>3. <<b>> \in Seq(Frames) /\ Len(<<b>>) = 1 /\ <<b>>[1] = b
    BY Tuples
  <2>4. Ticking(<<b>>)
    BY <1>3, <1>4, <2>2, <2>3 DEF Ticking
  <2> QED  BY <2>3, <2>4
<1>6. ASSUME NEW then \in ConnPlaces \ Special, NEW c \in Conn,
             Do(Ticker, <<Frame(then, c), Frame(next, S)>>)
      PROVE  \E fs \in Seq(Frames) : Ticking(fs)
  <2>1. PICK a \in Frames : a = Frame(then, c) /\ FrameOf(a, Conn) /\ a.at = then
    BY PlaceFrame
  <2>2. Do(Ticker, <<a, b>>)
    BY <1>3, <1>6, <2>1 DEF Do
  <2>3. Replacing(Ticker, <<a, b>>)
    BY <1>1, <1>2, <1>3, <2>1, <2>2, ReplacingTuples
  <2>4. <<a, b>> \in Seq(Frames) /\ Len(<<a, b>>) = 2 /\ <<a, b>>[1] = a /\ <<a, b>>[2] = b
    BY Tuples
  <2>5. Ticking(<<a, b>>)
    BY <1>3, <1>4, <2>1, <2>3, <2>4 DEF Ticking
  <2> QED  BY <2>4, <2>5
<1> QED  BY <1>5, <1>6

LEMMA RangeConn == Shape => Range(connections) \subseteq Conn
  BY DEF Shape, Range

LEMMA EndReceiveTicks ==
  ASSUME Shape, EndReceive
  PROVE  \E fs \in Seq(Frames) : Ticking(fs)
<1>1. /\ At(Ticker, "receive") /\ conns' = conns
      /\ Do(Ticker, <<Frame("tick", Range(connections))>>)
  BY DEF EndReceive
<1>2. PICK S \in SUBSET Conn : S = Range(connections)
  BY RangeConn
<1>3. Do(Ticker, <<Frame("tick", S)>>)
  BY <1>1, <1>2 DEF Do
<1>4. "receive" \in Base /\ "tick" \in Base
  BY DEF Base
<1> QED  BY <1>1, <1>3, <1>4, TickingTuples

LEMMA TickAllTicks ==
  ASSUME Shape, TickAll
  PROVE  \E fs \in Seq(Frames) : Ticking(fs)
<1>1. At(Ticker, "tick") /\ conns' = conns /\ Ticker \in Procs
  BY DEF TickAll, Procs
<1>2. PICK S \in SUBSET Conn : S = Arg(Ticker)
  BY <1>1, AtPlace DEF Base
<1>3. \/ Do(Ticker, <<Frame("range", {})>>)
      \/ \E c \in S : Do(Ticker, <<Frame("TickIncoming", c), Frame("tick", S \ {c})>>)
  BY <1>2 DEF TickAll, Do
<1>4. "range" \in Base /\ "tick" \in Base /\ "TickIncoming" \in ConnPlaces \ Special
  BY DEF Base, Special, ConnPlaces
<1>5. CASE Do(Ticker, <<Frame("range", {})>>)
  <2>1. PICK E \in SUBSET Conn : E = {}
    OBVIOUS
  <2>2. Do(Ticker, <<Frame("range", E)>>)
    BY <1>5, <2>1 DEF Do
  <2> QED  BY <1>1, <1>4, <2>2, TickingTuples
<1>6. ASSUME NEW c \in S, Do(Ticker, <<Frame("TickIncoming", c), Frame("tick", S \ {c})>>)
      PROVE  \E fs \in Seq(Frames) : Ticking(fs)
  <2>1. PICK E \in SUBSET Conn : E = S \ {c}
    OBVIOUS
  <2>2. c \in Conn /\ Do(Ticker, <<Frame("TickIncoming", c), Frame("tick", E)>>)
    BY <1>6, <2>1 DEF Do
  <2> QED  BY <1>1, <1>4, <2>2, TickingTuples
<1> QED  BY <1>3, <1>5, <1>6

LEMMA RangeAllTicks ==
  ASSUME Shape, RangeAll
  PROVE  \E fs \in Seq(Frames) : Ticking(fs)
<1>1. At(Ticker, "range") /\ conns' = conns /\ Ticker \in Procs
  BY DEF RangeAll, Procs
<1>2. PICK S \in SUBSET Conn : S = Arg(Ticker)
  BY <1>1, AtPlace DEF Base
<1>3. \/ Do(Ticker, <<Frame("receive", {})>>)
      \/ \E c \in Conn : Do(Ticker, <<Frame("TickOutgoing", c), Frame("range", S \cup {c})>>)
  BY <1>2, RangeConn DEF RangeAll, Do
<1>4. "range" \in Base /\ "receive" \in Base /\ "TickOutgoing" \in ConnPlaces \ Special
  BY DEF Base, Special, ConnPlaces
<1>5. CASE Do(Ticker, <<Frame("receive", {})>>)
  <2>1. PICK E \in SUBSET Conn : E = {}
    OBVIOUS
  <2>2. Do(Ticker, <<Frame("receive", E)>>)
    BY <1>5, <2>1 DEF Do
  <2> QED  BY <1>1, <1>4, <2>2, TickingTuples
<1>6. ASSUME NEW c \in Conn,
             Do(Ticker, <<Frame("TickOutgoing", c), Frame("range", S \cup {c})>>)
      PROVE  \E fs \in Seq(Frames) : Ticking(fs)
  <2>1. PICK E \in SUBSET Conn : E = S \cup {c}
    OBVIOUS
  <2>2. Do(Ticker, <<Frame("TickOutgoing", c), Frame("range", E)>>)
    BY <1>6, <2>1 DEF Do
  <2> QED  BY <1>1, <1>4, <2>2, TickingTuples
<1> QED  BY <1>3, <1>5, <1>6

\* processMessage hands a datagram to its connection, or makes one.
LEMMA processMessageTicks ==
  ASSUME Shape, processMessage
  PROVE  \/ \E fs \in Seq(Frames) : Ticking(fs)
         \/ \E i \in Id \ (toRemove \cup DOMAIN connections), fs \in Seq(Frames) :
              listening /\ Making(Len(conns) + 1, i, fs)
<1>1. At(Ticker, "receive") /\ listening /\ Ticker \in Procs
  BY DEF processMessage, Procs
<1>2. PICK i \in Id \ toRemove :
        \/ /\ i \in DOMAIN connections
           /\ \E then \in {"Locked", "OnRawInputUnreliable"} :
                Do(Ticker, <<Frame(then, connections[i]), Frame("receive", {})>>)
           /\ UNCHANGED conns
        \/ /\ i \notin DOMAIN connections
           /\ conns' = Append(conns, [id |-> i, lock |-> Nobody,
                                      once |-> "new", owner |-> Nobody])
           /\ Do(Ticker, <<Frame("SendReliable", Len(conns')),
                           Frame("onConnected", Len(conns')), Frame("receive", {})>>)
  BY DEF processMessage
<1>3. "receive" \in Base /\ {"Locked", "OnRawInputUnreliable"} \subseteq ConnPlaces \ Special
  BY DEF Base, Special, ConnPlaces
<1>4. ASSUME i \in DOMAIN connections, NEW then \in {"Locked", "OnRawInputUnreliable"},
             Do(Ticker, <<Frame(then, connections[i]), Frame("receive", {})>>),
             conns' = conns
      PROVE  \E fs \in Seq(Frames) : Ticking(fs)
  <2>1. PICK E \in SUBSET Conn : E = {}
    OBVIOUS
  <2>2. PICK c \in Conn : c = connections[i]
    BY <1>4 DEF Shape
  <2>3. Do(Ticker, <<Frame(then, c), Frame("receive", E)>>)
    BY <1>4, <2>1, <2>2 DEF Do
  <2> QED  BY <1>1, <1>3, <1>4, <2>3, TickingTuples
<1>5. ASSUME i \notin DOMAIN connections,
             conns' = Append(conns, [id |-> i, lock |-> Nobody,
                                     once |-> "new", owner |-> Nobody]),
             Do(Ticker, <<Frame("SendReliable", Len(conns')),
                          Frame("onConnected", Len(conns')), Frame("receive", {})>>)
      PROVE  \E fs \in Seq(Frames) : Making(Len(conns) + 1, i, fs)
  <2>1. conns \in Seq(ConnRecord) /\ Len(conns) \in Nat
    BY ConnTypes DEF Shape
  <2>2. [id |-> i, lock |-> Nobody, once |-> "new", owner |-> Nobody] \in ConnRecord
    BY DEF ConnRecord
  <2>3. Len(conns') = Len(conns) + 1 /\ conns' \in Seq(ConnRecord)
    BY <1>5, <2>1, <2>2, AppendProperties
  <2>4. Conn' = 1..(Len(conns) + 1) /\ Conn = 1..Len(conns)
    BY <2>1, <2>3, LenProperties DEF Conn
  <2>5. Conn' \in SUBSET Nat /\ Conn \subseteq Conn' /\ Len(conns) + 1 \in Conn'
    BY <2>1, <2>4
  <2>6. PICK n \in Nat : n = Len(conns) + 1
    BY <2>1
  <2>7. /\ Frame("SendReliable", n) \in Frames /\ FrameOf(Frame("SendReliable", n), Conn')
        /\ Frame("onConnected", n) \in Frames /\ FrameOf(Frame("onConnected", n), Conn')
        /\ Frame("receive", {}) \in Frames /\ FrameOf(Frame("receive", {}), Conn')
    BY <1>3, <2>5, <2>6, FrameKinds DEF ConnPlaces
  <2>8. PICK a \in Frames, b \in Frames, r \in Frames :
          /\ a = Frame("SendReliable", n) /\ b = Frame("onConnected", n)
          /\ r = Frame("receive", {})
          /\ FrameOf(a, Conn') /\ FrameOf(b, Conn') /\ FrameOf(r, Conn')
    BY <2>7
  <2>9. Do(Ticker, <<a, b, r>>)
    BY <1>5, <2>3, <2>6, <2>8 DEF Do
  <2>10. "receive" \notin AboveUnlock \cup AboveOnce
    BY DEF AboveUnlock, AboveOnce, Harmless
  <2>11. Replacing(Ticker, <<a, b, r>>)
    BY <1>1, <2>5, <2>8, <2>9, <2>10, ReplacingTuples
  <2>12. /\ <<a, b, r>> \in Seq(Frames) /\ Len(<<a, b, r>>) = 3
         /\ <<a, b, r>>[1] = a /\ <<a, b, r>>[2] = b /\ <<a, b, r>>[3] = r
    BY Tuples
  <2>13. a.at \notin Special /\ r.at = "receive"
    BY <2>8 DEF Frame, Special, Base
  <2>14. Head(stack[Ticker]).at = "receive"
    BY <1>1, AtPlace
  <2>15. Making(Len(conns) + 1, i, <<a, b, r>>)
    BY <1>5, <2>6, <2>8, <2>11, <2>12, <2>13, <2>14 DEF Making
  <2> QED  BY <2>12, <2>15
<1> QED  BY <1>1, <1>2, <1>4, <1>5

\* The kinds of step there are.
Kinds ==
  \/ \E g \in Users : UserCall(g)
  \/ \E g \in Procs : Calling(g) /\ conns' = conns
  \/ \E g \in Procs, c \in Conn, fs \in Seq(Frames) :
       \/ Locking(g, c, fs) \/ Unlocking(g, c, fs) \/ Entering(g, c, fs)
       \/ Waking(g, c, fs) \/ Returning(g, c, fs) \/ Joins(g, c, fs)
  \/ \E fs \in Seq(Frames) : Ticking(fs)
  \/ \E i \in Id, fs \in Seq(Frames) : Making(Len(conns) + 1, i, fs)

LEMMA StepKinds ==
  ASSUME Shape, Next
  PROVE  Kinds
<1>1. Ticker \in Procs
  BY DEF Procs
<1>2. ASSUME NEW g \in Procs, Call(g)
      PROVE  Kinds
  <2>1. CASE CallBack(g)
    BY <2>1, CallBackCalls DEF Kinds, CallBack
  <2>2. CASE Send(g)
    BY <2>2, SendCalls DEF Kinds, Send, Lookup
  <2>3. CASE Disconnect(g)
    BY <2>3, DisconnectCalls DEF Kinds, Disconnect, Lookup
  <2>4. CASE Stop(g)
    BY <2>4, ReturningCalls DEF Kinds, Stop
  <2>5. CASE Start(g)
    BY <2>5, ReturningCalls DEF Kinds, Start
  <2>6. CASE SendEmpty(g)
    BY <2>6, SendEmptyCalls DEF Kinds, SendEmpty
  <2>7. CASE SendReliable(g)
    BY <2>7, SendReliableLocks DEF Kinds
  <2>8. CASE Unlock(g)
    BY <2>8, UnlockUnlocks DEF Kinds
  <2>9. CASE Locked(g)
    BY <2>9, LockedCalls DEF Kinds, Locked
  <2>10. CASE ReceiveNextReliable(g)
    BY <2>10, ReceiveNextReliableLocks DEF Kinds
  <2>11. CASE PeerDisconnect(g)
    BY <2>11, PeerDisconnectEnters DEF Kinds
  <2>12. CASE onDisconnected(g)
    BY <2>12, onDisconnectedWakes DEF Kinds
  <2>13. CASE OnceReturns(g)
    BY <2>13, OnceReturnsReturns DEF Kinds
  <2>14. CASE onConnected(g)
    BY <2>14, onConnectedJoins DEF Kinds
  <2>15. CASE OnRawInputUnreliable(g)
    BY <2>15, OnRawInputUnreliableCalls DEF Kinds, OnRawInputUnreliable
  <2> QED  BY <1>2, <2>1, <2>2, <2>3, <2>4, <2>5, <2>6, <2>7, <2>8, <2>9, <2>10,
              <2>11, <2>12, <2>13, <2>14, <2>15 DEF Call
<1>3. ASSUME NEW g \in Procs, UserCall(g)
      PROVE  Kinds
  BY <1>3 DEF Kinds, UserCall
<1>4. CASE TickAll
  BY <1>4, TickAllTicks DEF Kinds
<1>5. CASE TickIncoming
  BY <1>1, <1>5, TickIncomingCalls DEF Kinds, TickIncoming
<1>6. CASE RangeAll
  BY <1>6, RangeAllTicks DEF Kinds
<1>7. CASE TickOutgoing
  BY <1>1, <1>7, TickOutgoingCalls DEF Kinds, TickOutgoing
<1>8. CASE EndReceive
  BY <1>8, EndReceiveTicks DEF Kinds
<1>9. CASE processMessage
  BY <1>9, processMessageTicks DEF Kinds
<1> QED  BY <1>2, <1>3, <1>4, <1>5, <1>6, <1>7, <1>8, <1>9 DEF Next, Tick

----------------------------------------------------------------------------
(* Types. *)

\* Whatever the kind, a goroutine replaces its innermost frame or makes a call.
LEMMA KindsReplace ==
  ASSUME Kinds
  PROVE  \/ \E g \in Users : UserCall(g)
         \/ \E g \in Procs, fs \in Seq(Frames) : Replacing(g, fs)
<1> DEFINE Goal == \E g \in Procs, fs \in Seq(Frames) : Replacing(g, fs)
<1>1. ASSUME NEW g \in Procs, Calling(g)
      PROVE  Goal
  BY <1>1 DEF Calling, Replacing
<1>2. ASSUME NEW g \in Procs, NEW c \in Conn, NEW fs \in Seq(Frames),
             \/ Locking(g, c, fs) \/ Unlocking(g, c, fs) \/ Entering(g, c, fs)
             \/ Waking(g, c, fs) \/ Returning(g, c, fs) \/ Joins(g, c, fs)
      PROVE  Goal
  <2>1. Replacing(g, fs)
    BY <1>2 DEF Locking, Unlocking, Entering, Waking, Returning, Joins
  <2> QED  BY <2>1
<1>3. ASSUME NEW fs \in Seq(Frames), Ticking(fs)
      PROVE  Goal
  BY <1>3 DEF Ticking, Procs
<1>4. ASSUME NEW i \in Id, NEW fs \in Seq(Frames), Making(Len(conns) + 1, i, fs)
      PROVE  Goal
  BY <1>4 DEF Making, Procs
<1> QED  BY <1>1, <1>2, <1>3, <1>4 DEF Kinds

\* Whatever the kind, connections are only added.
LEMMA ConnsStep ==
  ASSUME Shape, Kinds
  PROVE  conns' \in Seq(ConnRecord) /\ Conn \subseteq Conn'
<1>1. conns \in Seq(ConnRecord) /\ Conn = 1..Len(conns) /\ Len(conns) \in Nat
  BY ConnTypes DEF Shape
<1>2. ASSUME conns' = conns
      PROVE  conns' \in Seq(ConnRecord) /\ Conn \subseteq Conn'
  BY <1>1, <1>2 DEF Conn
<1>3. ASSUME NEW c \in Conn, NEW r \in ConnRecord, conns' = [conns EXCEPT ![c] = r]
      PROVE  conns' \in Seq(ConnRecord) /\ Conn \subseteq Conn'
  <2>1. conns' \in Seq(ConnRecord) /\ Len(conns') = Len(conns)
    BY <1>1, <1>3, ExceptSeq
  <2> QED  BY <1>3, <2>1 DEF Conn
<1>4. ASSUME NEW c \in Conn, NEW g \in Procs \cup {Nobody},
             conns' = [conns EXCEPT ![c].lock = g]
      PROVE  conns' \in Seq(ConnRecord) /\ Conn \subseteq Conn'
  <2>1. conns[c] \in ConnRecord
    BY ConnTypes
  <2>2. PICK r \in ConnRecord : r = [conns[c] EXCEPT !.lock = g]
    BY <2>1 DEF ConnRecord
  <2>3. conns' = [conns EXCEPT ![c] = r]
    BY <1>4, <2>2
  <2> QED  BY <1>3, <2>3
<1>5. ASSUME NEW c \in Conn, NEW g \in Procs \cup {Nobody}, NEW o \in {"running", "done"},
             conns' = [conns EXCEPT ![c].once = o, ![c].owner = g]
      PROVE  conns' \in Seq(ConnRecord) /\ Conn \subseteq Conn'
  <2>1. conns[c] \in ConnRecord
    BY ConnTypes
  <2>2. PICK r \in ConnRecord : r = [conns[c] EXCEPT !.once = o, !.owner = g]
    BY <2>1 DEF ConnRecord
  <2>3. conns' = [conns EXCEPT ![c] = r]
    BY <1>5, <2>2
  <2> QED  BY <1>3, <2>3
<1>6. ASSUME NEW i \in Id, NEW fs \in Seq(Frames), Making(Len(conns) + 1, i, fs)
      PROVE  conns' \in Seq(ConnRecord) /\ Conn \subseteq Conn'
  <2>1. [id |-> i, lock |-> Nobody, once |-> "new", owner |-> Nobody] \in ConnRecord
    BY DEF ConnRecord
  <2>2. conns' \in Seq(ConnRecord) /\ Len(conns') = Len(conns) + 1
    BY <1>1, <1>6, <2>1, AppendProperties DEF Making
  <2>3. Conn' = 1..Len(conns')
    BY <2>2, LenProperties DEF Conn
  <2> QED  BY <1>1, <2>2, <2>3
<1>7. CASE \E g \in Users : UserCall(g)
  BY <1>2, <1>7 DEF UserCall
<1>8. CASE \E g \in Procs : Calling(g) /\ conns' = conns
  BY <1>2, <1>8
<1>9. ASSUME NEW g \in Procs, NEW c \in Conn, NEW fs \in Seq(Frames),
             Locking(g, c, fs) \/ Unlocking(g, c, fs)
      PROVE  conns' \in Seq(ConnRecord) /\ Conn \subseteq Conn'
  BY <1>4, <1>9 DEF Locking, Unlocking
<1>10. ASSUME NEW g \in Procs, NEW c \in Conn, NEW fs \in Seq(Frames),
              Entering(g, c, fs) \/ Returning(g, c, fs)
       PROVE  conns' \in Seq(ConnRecord) /\ Conn \subseteq Conn'
  BY <1>5, <1>10 DEF Entering, Returning
<1>11. ASSUME NEW g \in Procs, NEW c \in Conn, NEW fs \in Seq(Frames),
              Waking(g, c, fs) \/ Joins(g, c, fs)
       PROVE  conns' \in Seq(ConnRecord) /\ Conn \subseteq Conn'
  BY <1>2, <1>11 DEF Waking, Joins
<1>12. CASE \E fs \in Seq(Frames) : Ticking(fs)
  BY <1>2, <1>12 DEF Ticking
<1> QED  BY <1>6, <1>7, <1>8, <1>9, <1>10, <1>11, <1>12 DEF Kinds

\* A goroutine of the application calls the server.
LEMMA UserCallStack ==
  ASSUME Shape, NEW g \in Users, UserCall(g)
  PROVE  /\ stack[g] = <<>> /\ g \in Procs /\ conns' = conns
         /\ \E f \in Frames : /\ f.at \in API /\ FrameOf(f, Conn)
                              /\ stack' = [stack EXCEPT ![g] = <<f>>]
<1>1. PICK call \in UserCalls[g], i \in Id :
        stack' = [stack EXCEPT ![g] = <<Frame(call, i)>>]
  BY DEF UserCall
<1>2. call \in API
  BY ServerThreadsAssumption
<1>3. PICK f \in Frames : f = Frame(call, i) /\ FrameOf(f, Conn) /\ f.at = call
  BY <1>2, UserFrame
<1> QED  BY <1>1, <1>2, <1>3 DEF UserCall, Procs

LEMMA StackShape ==
  ASSUME Shape, Kinds
  PROVE  /\ stack' \in [Procs -> Seq(Frames)]
         /\ \A h \in Procs : FramesOf(stack'[h], Conn')
<1> DEFINE Goal == /\ stack' \in [Procs -> Seq(Frames)]
                   /\ \A h \in Procs : FramesOf(stack'[h], Conn')
<1>1. Conn \subseteq Conn'
  BY ConnsStep
<1>2. stack \in [Procs -> Seq(Frames)] /\ \A h \in Procs : FramesOf(stack[h], Conn)
  BY DEF Shape
<1>3. ASSUME NEW g \in Procs, NEW fs, Pushing(g, fs)
      PROVE  Goal
  BY <1>1, <1>2, <1>3, PushedFrames
<1>4. ASSUME NEW g \in Users, UserCall(g)
      PROVE  Goal
  <2>1. g \in Procs /\ conns' = conns
    BY <1>4, UserCallStack
  <2>2. PICK f \in Frames : FrameOf(f, Conn) /\ stack' = [stack EXCEPT ![g] = <<f>>]
    BY <1>4, UserCallStack
  <2>3. <<f>> \in Seq(Frames) /\ \A k \in 1..Len(<<f>>) : <<f>>[k] = f
    BY Tuples
  <2>4. Conn' = Conn
    BY <2>1 DEF Conn
  <2>5. FramesOf(<<f>>, Conn')
    BY <2>2, <2>3, <2>4 DEF FramesOf
  <2>6. stack' \in [Procs -> Seq(Frames)]
    BY <1>2, <2>2, <2>3
  <2>7. \A h \in Procs : stack'[h] = IF h = g THEN <<f>> ELSE stack[h]
    BY <1>2, <2>1, <2>2
  <2> QED  BY <1>2, <2>4, <2>5, <2>6, <2>7
<1> QED  BY <1>3, <1>4, KindsReplace DEF Replacing

\* The maps and the flags.
LEMMA MapsShape ==
  ASSUME Shape, Next, Conn \subseteq Conn'
  PROVE  /\ DOMAIN connections' \subseteq Id
         /\ \A i \in DOMAIN connections' : connections'[i] \in Conn'
         /\ toRemove' \subseteq Id /\ listening' \in BOOLEAN
         /\ starts' \in 0..MaxStarts
<1>1. /\ DOMAIN connections \subseteq Id
      /\ \A i \in DOMAIN connections : connections[i] \in Conn
      /\ toRemove \subseteq Id /\ listening \in BOOLEAN
      /\ starts \in 0..MaxStarts /\ MaxStarts \in Nat
  BY ServerThreadsAssumption DEF Shape
<1> DEFINE Goal == /\ DOMAIN connections' \subseteq Id
                   /\ \A i \in DOMAIN connections' : connections'[i] \in Conn'
                   /\ toRemove' \subseteq Id /\ listening' \in BOOLEAN
                   /\ starts' \in 0..MaxStarts
<1> SUFFICES Goal
  OBVIOUS
<1>2. ASSUME UNCHANGED <<connections, toRemove, listening, starts>>
      PROVE  Goal
  BY <1>1, <1>2
<1>3. ASSUME NEW g \in Procs, Stop(g)
      PROVE  Goal
  <2>1. connections' = <<>> /\ toRemove' = {} /\ listening' = FALSE /\ starts' = starts
    BY <1>3 DEF Stop
  <2>2. DOMAIN connections' = {}
    BY <2>1
  <2> QED  BY <1>1, <2>1, <2>2
<1>4. ASSUME NEW g \in Procs, Start(g)
      PROVE  Goal
  <2>1. connections' = connections /\ toRemove' = toRemove
    BY <1>4 DEF Start
  <2>2. \/ listening' = listening /\ starts' = starts
        \/ listening' = TRUE /\ starts < MaxStarts /\ starts' = starts + 1
    BY <1>4, Zenon DEF Start
  <2>3. starts' \in 0..MaxStarts
    BY <1>1, <2>2
  <2>4. listening' \in BOOLEAN
    BY <1>1, <2>2, Zenon
  <2> QED  BY <1>1, <2>1, <2>3, <2>4
<1>5. ASSUME NEW g \in Procs, onDisconnected(g)
      PROVE  Goal
  <2>1. UNCHANGED <<connections, listening, starts>>
    BY <1>5 DEF onDisconnected
  <2>2. toRemove' \subseteq Id
    BY <1>1, <1>5, onDisconnectedWakes
  <2> QED  BY <1>1, <2>1, <2>2
<1>6. ASSUME NEW g \in Procs, onConnected(g)
      PROVE  Goal
  <2>1. UNCHANGED <<toRemove, listening, starts>>
    BY <1>6 DEF onConnected
  <2>2. PICK c \in Conn : connections' = [i \in DOMAIN connections \cup {conns[c].id} |->
                                            IF i = conns[c].id THEN c ELSE connections[i]]
    BY <1>6, onConnectedJoins
  <2>3. conns[c].id \in Id
    BY ConnTypes
  <2> QED  BY <1>1, <2>1, <2>2, <2>3
<1>7. CASE TickAll
  <2>1. UNCHANGED <<listening, starts>>
    BY <1>7 DEF TickAll
  <2>2. \/ UNCHANGED <<connections, toRemove>>
        \/ /\ connections' = [i \in DOMAIN connections \ toRemove |-> connections[i]]
           /\ toRemove' = {}
    BY <1>7 DEF TickAll, Restrict
  <2> QED  BY <1>1, <2>1, <2>2
<1>8. ASSUME NEW g \in Procs, Call(g)
      PROVE  Goal
  <2>1. CASE CallBack(g) \/ Send(g) \/ Disconnect(g) \/ SendEmpty(g) \/ Locked(g)
    BY <1>2, <2>1 DEF CallBack, Send, Disconnect, Lookup, SendEmpty, Locked
  <2>2. CASE SendReliable(g) \/ Unlock(g) \/ ReceiveNextReliable(g)
    BY <1>2, <2>2 DEF SendReliable, Unlock, ReceiveNextReliable
  <2>3. CASE PeerDisconnect(g) \/ OnceReturns(g)
    BY <1>2, <2>3 DEF PeerDisconnect, OnceReturns
  <2>4. CASE OnRawInputUnreliable(g)
    BY <1>2, <2>4 DEF OnRawInputUnreliable
  <2> QED  BY <1>3, <1>4, <1>5, <1>6, <1>8, <2>1, <2>2, <2>3, <2>4 DEF Call
<1>9. ASSUME NEW g \in Procs, UserCall(g)
      PROVE  Goal
  BY <1>2, <1>9 DEF UserCall
<1>10. CASE TickIncoming \/ RangeAll \/ TickOutgoing \/ EndReceive \/ processMessage
  BY <1>2, <1>10 DEF TickIncoming, RangeAll, TickOutgoing, EndReceive, processMessage
<1> HIDE DEF Goal
<1>11. CASE \E g \in Procs : UserCall(g) \/ Call(g)
  BY <1>8, <1>9, <1>11
<1>12. CASE Tick \/ processMessage
  BY <1>7, <1>10, <1>12, Zenon DEF Tick
<1> QED  BY <1>11, <1>12, Zenon DEF Next

LEMMA NextShape == Shape /\ [Next]_vars => Shape'
<1> SUFFICES ASSUME Shape, [Next]_vars PROVE Shape'
  OBVIOUS
<1>1. CASE Next
  <2>1. Kinds
    BY <1>1, StepKinds
  <2>2. conns' \in Seq(ConnRecord) /\ Conn \subseteq Conn'
    BY <2>1, ConnsStep
  <2> QED  BY <1>1, <2>1, <2>2, StackShape, MapsShape DEF Shape
<1>2. CASE UNCHANGED vars
  <2>1. Conn' = Conn
    BY <1>2 DEF vars, Conn
  <2> QED  BY <1>2, <2>1 DEF vars, Shape
<1> QED  BY <1>1, <1>2

LEMMA InitShape == Init => Shape
<1> SUFFICES ASSUME Init PROVE Shape
  OBVIOUS
<1>1. Conn = {} /\ conns \in Seq(ConnRecord) /\ DOMAIN connections = {}
  BY EmptySeq DEF Init, Conn
<1>2. PICK f \in Frames : f = Frame("receive", {}) /\ FrameOf(f, Conn)
  <2>1. Frame("receive", {}) \in Frames /\ FrameOf(Frame("receive", {}), Conn)
    BY <1>1, FrameKinds DEF Base
  <2> QED  BY <2>1
<1>3. <<f>> \in Seq(Frames) /\ FramesOf(<<f>>, Conn)
  <2>1. <<f>> \in Seq(Frames) /\ \A k \in 1..Len(<<f>>) : <<f>>[k] = f
    BY Tuples
  <2> QED  BY <1>2, <2>1 DEF FramesOf
<1>4. <<>> \in Seq(Frames) /\ FramesOf(<<>>, Conn)
  BY EmptySeq DEF FramesOf
<1>5. stack = [g \in Procs |-> IF g = Ticker THEN <<f>> ELSE <<>>]
  BY <1>2 DEF Init
<1>6. stack \in [Procs -> Seq(Frames)] /\ \A g \in Procs : FramesOf(stack[g], Conn)
  BY <1>3, <1>4, <1>5
<1>7. toRemove \subseteq Id /\ listening \in BOOLEAN /\ starts \in 0..MaxStarts
  <2>1. MaxStarts \in Nat
    BY ServerThreadsAssumption
  <2>2. toRemove \subseteq Id /\ starts \in 0..MaxStarts
    BY <2>1 DEF Init
  <2>3. listening \in BOOLEAN
    BY Zenon DEF Init
  <2> QED  BY <2>2, <2>3
<1> QED  BY <1>1, <1>6, <1>7 DEF Shape

LEMMA ShapeInvariant == Spec => []Shape
  BY InitShape, NextShape, PTL DEF Spec

\* The goroutines are at places of the code with connections that exist, and
\* the maps hold such connections, however the calls and callbacks nest.
THEOREM ThreadsTypeCorrect == Spec => []TypeOK
  BY ShapeInvariant, ShapeIsTypeOK, PTL

----------------------------------------------------------------------------
(* Nobody waits in a circle. *)

\* Frame f is on the stack of g, and what is above it is at places of A.
Holds(g, f, A) ==
  \E n \in 1..Len(stack[g]) :
    stack[g][n] = f /\ \A m \in 1..(n - 1) : stack[g][m].at \in A

\* Who holds a lock, or is inside a disconnectOnce, is on the way to give it
\* back, and meanwhile where the discipline allows.
Holders ==
  \A g \in Procs, c \in Conn :
    /\ conns[c].lock = g => Holds(g, Frame("Unlock", c), AboveUnlock)
    /\ conns[c].owner = g => \/ Holds(g, Frame("sleep", c), AboveOnce)
                             \/ Holds(g, Frame("once", c), AboveOnce)

\* A frame that is not the innermost stays where it is.
LEMMA HoldsKept ==
  ASSUME Shape, NEW g \in Procs, NEW fs, Pushing(g, fs), NEW A, Within(A, g, fs),
         NEW h \in Procs, NEW f, Holds(h, f, A), h = g => Head(stack[g]) # f
  PROVE  Holds(h, f, A)'
<1>1. stack \in [Procs -> Seq(Frames)]
  BY DEF Shape
<1>2. CASE h # g
  <2>1. stack'[h] = stack[h]
    BY <1>1, <1>2, PushedStacks
  <2> QED  BY <2>1 DEF Holds
<1>3. CASE h = g
  <2>1. PICK n \in 1..Len(stack[g]) :
          stack[g][n] = f /\ \A m \in 1..(n - 1) : stack[g][m].at \in A
    BY <1>3 DEF Holds
  <2>2. /\ Len(stack[g]) \in Nat \ {0} /\ Len(fs) \in Nat
        /\ Head(stack[g]) = stack[g][1]
        /\ Len(stack'[g]) = Len(fs) + Len(stack[g]) - 1
    BY <1>1, PushedStacks
  <2>3. n # 1
    BY <1>3, <2>1, <2>2
  <2>4. n \in 2..Len(stack[g]) /\ n - 1 + Len(fs) \in 1..Len(stack'[g])
    BY <2>1, <2>2, <2>3
  <2>5. stack'[g][n - 1 + Len(fs)] = f
    <3>1. \A m \in 2..Len(stack[g]) : stack'[g][m - 1 + Len(fs)] = stack[g][m]
      BY <1>1, PushedStacks
    <3>2. stack'[g][n - 1 + Len(fs)] = stack[g][n]
      BY <2>4, <3>1
    <3> QED  BY <2>1, <3>2
  <2>6. ASSUME NEW k \in 1..(n - 1 + Len(fs) - 1)
        PROVE  stack'[g][k].at \in A
    <3>1. CASE k <= Len(fs)
      <4>1. k \in 1..Len(fs) /\ 1 \in 1..(n - 1)
        BY <2>2, <2>4, <3>1
      <4>2. stack'[g][k] = fs[k]
        BY <1>1, <4>1, PushedStacks
      <4>3. Head(stack[g]).at \in A
        BY <2>1, <2>2, <4>1
      <4> QED  BY <4>1, <4>2, <4>3 DEF Within
    <3>2. CASE ~(k <= Len(fs))
      <4>1. k \in 1..Len(stack'[g]) /\ k > Len(fs) /\ k - Len(fs) + 1 \in 1..(n - 1)
        BY <2>2, <2>4, <3>2
      <4>2. stack'[g][k] = stack[g][k - Len(fs) + 1]
        BY <1>1, <4>1, PushedStacks
      <4> QED  BY <2>1, <4>1, <4>2
    <3> QED  BY <3>1, <3>2
  <2>7. \E q \in 1..Len(stack'[g]) :
          stack'[g][q] = f /\ \A k \in 1..(q - 1) : stack'[g][k].at \in A
    <3> DEFINE q == n - 1 + Len(fs)
    <3>1. q \in 1..Len(stack'[g]) /\ stack'[g][q] = f
      BY <2>4, <2>5
    <3>2. \A k \in 1..(q - 1) : stack'[g][k].at \in A
      BY <2>6
    <3> HIDE DEF q
    <3> QED  BY <3>1, <3>2
  <2> QED  BY <1>3, <2>7 DEF Holds
<1> QED  BY <1>2, <1>3

\* A frame that is pushed under frames at places of A.
LEMMA HoldsPushed ==
  ASSUME Shape, NEW g \in Procs, NEW fs, Pushing(g, fs), NEW A, NEW f,
         NEW k \in 1..Len(fs), fs[k] = f, \A m \in 1..(k - 1) : fs[m].at \in A
  PROVE  Holds(g, f, A)'
<1>1. stack \in [Procs -> Seq(Frames)]
  BY DEF Shape
<1>2. /\ Len(stack[g]) \in Nat \ {0} /\ Len(fs) \in Nat
      /\ Len(stack'[g]) = Len(fs) + Len(stack[g]) - 1
      /\ \A m \in 1..Len(fs) : stack'[g][m] = fs[m]
  BY <1>1, PushedStacks
<1>3. k \in 1..Len(stack'[g]) /\ \A m \in 1..(k - 1) : m \in 1..Len(fs)
  BY <1>2
<1>4. stack'[g][k] = f /\ \A m \in 1..(k - 1) : stack'[g][m].at \in A
  BY <1>2, <1>3
<1> QED  BY <1>3, <1>4 DEF Holds

\* The records of the connections after a step on one of them.
LEMMA LockFields ==
  ASSUME Shape, NEW c \in Conn, NEW g, conns' = [conns EXCEPT ![c].lock = g]
  PROVE  \A d \in Conn : /\ conns'[d].lock = IF d = c THEN g ELSE conns[d].lock
                         /\ conns'[d].owner = conns[d].owner
                         /\ conns'[d].once = conns[d].once
                         /\ conns'[d].id = conns[d].id
<1>1. ASSUME NEW d \in Conn
      PROVE  conns'[d] = IF d = c THEN [conns[d] EXCEPT !.lock = g] ELSE conns[d]
  BY DEF Conn
<1>2. ASSUME NEW d \in Conn
      PROVE  conns[d] \in ConnRecord
  BY ConnTypes
<1> QED  BY <1>1, <1>2 DEF ConnRecord

LEMMA OnceFields ==
  ASSUME Shape, NEW c \in Conn, NEW g, NEW o,
         conns' = [conns EXCEPT ![c].once = o, ![c].owner = g]
  PROVE  /\ \A d \in Conn \ {c} : conns'[d] = conns[d]
         /\ conns'[c].lock = conns[c].lock /\ conns'[c].owner = g
         /\ conns'[c].once = o /\ conns'[c].id = conns[c].id
<1> DEFINE New(r) == [r EXCEPT !.once = o, !.owner = g]
<1>1. ASSUME NEW r \in ConnRecord
      PROVE  /\ New(r).lock = r.lock /\ New(r).owner = g
             /\ New(r).once = o /\ New(r).id = r.id
  BY DEF ConnRecord
<1>2. conns'[c] = New(conns[c]) /\ conns[c] \in ConnRecord
  BY ConnTypes DEF Conn
<1> HIDE DEF New
<1>3. /\ conns'[c].lock = conns[c].lock /\ conns'[c].owner = g
      /\ conns'[c].once = o /\ conns'[c].id = conns[c].id
  BY <1>1, <1>2
<1>4. \A d \in Conn \ {c} : conns'[d] = conns[d]
  BY DEF Conn
<1> QED  BY <1>3, <1>4

LEMMA FrameInjective ==
  \A at, x, bt, y : Frame(at, x) = Frame(bt, y) => at = bt /\ x = y
<1> SUFFICES ASSUME NEW at, NEW x, NEW bt, NEW y, Frame(at, x) = Frame(bt, y)
             PROVE  at = bt /\ x = y
  OBVIOUS
<1>1. /\ Frame(at, x).at = at /\ Frame(at, x).x = x
      /\ Frame(bt, y).at = bt /\ Frame(bt, y).x = y
  BY DEF Frame
<1> QED  BY <1>1

\* Locks that stay held, and disconnectOnces that stay entered.
LEMMA LockKept ==
  ASSUME Shape, Orderly, Holders, NEW g \in Procs, NEW fs, Replacing(g, fs),
         NEW h \in Procs, NEW c \in Conn, conns[c].lock = h,
         h = g => Head(stack[g]) # Frame("Unlock", c)
  PROVE  Holds(h, Frame("Unlock", c), AboveUnlock)'
<1>1. Pushing(g, fs) /\ Within(AboveUnlock, g, fs)
  BY DEF Replacing, Disciplined
<1>2. Holds(h, Frame("Unlock", c), AboveUnlock)
  BY DEF Holders
<1> QED  BY <1>1, <1>2, HoldsKept

LEMMA OwnerKept ==
  ASSUME Shape, Orderly, Holders, NEW g \in Procs, NEW fs, Replacing(g, fs),
         NEW h \in Procs, NEW c \in Conn, conns[c].owner = h,
         h = g => Head(stack[g]) \notin {Frame("sleep", c), Frame("once", c)}
  PROVE  \/ Holds(h, Frame("sleep", c), AboveOnce)'
         \/ Holds(h, Frame("once", c), AboveOnce)'
<1>1. Pushing(g, fs) /\ Within(AboveOnce, g, fs)
  BY DEF Replacing, Disciplined
<1>2. CASE Holds(h, Frame("sleep", c), AboveOnce)
  BY <1>1, <1>2, HoldsKept
<1>3. CASE Holds(h, Frame("once", c), AboveOnce)
  BY <1>1, <1>3, HoldsKept
<1> QED  BY <1>2, <1>3 DEF Holders

\* A step that neither takes nor gives back.
LEMMA PlainHolders ==
  ASSUME Shape, Orderly, Holders, NEW g \in Procs, NEW fs, Replacing(g, fs),
         Head(stack[g]).at \notin {"Unlock", "sleep", "once"},
         NEW c \in Conn, NEW h \in Procs
  PROVE  /\ conns[c].lock = h => Holds(h, Frame("Unlock", c), AboveUnlock)'
         /\ conns[c].owner = h => \/ Holds(h, Frame("sleep", c), AboveOnce)'
                                  \/ Holds(h, Frame("once", c), AboveOnce)'
<1>1. Head(stack[g]) \notin {Frame("Unlock", c), Frame("sleep", c), Frame("once", c)}
  BY DEF Frame
<1> QED  BY <1>1, LockKept, OwnerKept

LEMMA LockingHolders ==
  ASSUME Shape, Orderly, Holders, NEW g \in Procs, NEW c \in Conn, NEW fs,
         Locking(g, c, fs)
  PROVE  Holders'
<1>1. Replacing(g, fs) /\ Head(stack[g]).at \notin {"Unlock", "sleep", "once"}
  BY DEF Locking, Special
<1>2. Conn' = Conn
  BY ConnKept DEF Locking
<1>3. \A d \in Conn : /\ conns'[d].lock = IF d = c THEN g ELSE conns[d].lock
                      /\ conns'[d].owner = conns[d].owner
  <2>1. conns' = [conns EXCEPT ![c].lock = g]
    BY DEF Locking
  <2> QED  BY <2>1, LockFields, ZenonT(60)
<1>4. Holds(g, Frame("Unlock", c), AboveUnlock)'
  <2>1. Len(fs) \in 2..3 /\ fs[1].at = "OnError" /\ fs[2] = Frame("Unlock", c)
    BY DEF Locking
  <2>2. 2 \in 1..Len(fs) /\ \A m \in 1..(2 - 1) : fs[m].at \in AboveUnlock
    BY <2>1 DEF AboveUnlock
  <2> QED  BY <1>1, <2>1, <2>2, HoldsPushed DEF Replacing
<1>5. ASSUME NEW h \in Procs, NEW d \in Conn
      PROVE  /\ conns'[d].lock = h => Holds(h, Frame("Unlock", d), AboveUnlock)'
             /\ conns'[d].owner = h => \/ Holds(h, Frame("sleep", d), AboveOnce)'
                                       \/ Holds(h, Frame("once", d), AboveOnce)'
  <2>1. /\ conns[d].lock = h => Holds(h, Frame("Unlock", d), AboveUnlock)'
        /\ conns[d].owner = h => \/ Holds(h, Frame("sleep", d), AboveOnce)'
                                 \/ Holds(h, Frame("once", d), AboveOnce)'
    BY <1>1, PlainHolders
  <2>2. CASE d = c
    BY <1>3, <1>4, <2>1, <2>2
  <2>3. CASE d # c
    BY <1>3, <2>1, <2>3
  <2> QED  BY <2>2, <2>3
<1> QED  BY <1>2, <1>5 DEF Holders

LEMMA UnlockingHolders ==
  ASSUME Shape, Orderly, Holders, NEW g \in Procs, NEW c \in Conn, NEW fs,
         Unlocking(g, c, fs)
  PROVE  Holders'
<1>1. Replacing(g, fs) /\ Head(stack[g]) = Frame("Unlock", c)
  BY DEF Unlocking
<1>2. Conn' = Conn /\ Nobody \notin Procs
  BY ConnKept, ServerThreadsAssumption DEF Unlocking, Procs
<1>3. \A d \in Conn : /\ conns'[d].lock = IF d = c THEN Nobody ELSE conns[d].lock
                      /\ conns'[d].owner = conns[d].owner
  <2>1. conns' = [conns EXCEPT ![c].lock = Nobody]
    BY DEF Unlocking
  <2> QED  BY <2>1, LockFields, ZenonT(60)
<1>4. ASSUME NEW h \in Procs, NEW d \in Conn, conns'[d].lock = h
      PROVE  Holds(h, Frame("Unlock", d), AboveUnlock)'
  <2>1. d # c /\ conns[d].lock = h
    BY <1>2, <1>3, <1>4
  <2>2. Head(stack[g]) # Frame("Unlock", d)
    BY <1>1, <2>1, FrameInjective
  <2> QED  BY <1>1, <2>1, <2>2, LockKept
<1>5. ASSUME NEW h \in Procs, NEW d \in Conn, conns'[d].owner = h
      PROVE  \/ Holds(h, Frame("sleep", d), AboveOnce)'
             \/ Holds(h, Frame("once", d), AboveOnce)'
  <2>1. conns[d].owner = h
    BY <1>3, <1>5
  <2>2. Head(stack[g]) \notin {Frame("sleep", d), Frame("once", d)}
    BY <1>1, FrameInjective
  <2> QED  BY <1>1, <2>1, <2>2, OwnerKept
<1> QED  BY <1>2, <1>4, <1>5 DEF Holders

LEMMA EnteringHolders ==
  ASSUME Shape, Orderly, Holders, NEW g \in Procs, NEW c \in Conn, NEW fs,
         Entering(g, c, fs)
  PROVE  Holders'
<1>1. Replacing(g, fs) /\ Head(stack[g]).at \notin {"Unlock", "sleep", "once"}
  BY DEF Entering, Special
<1>2. Conn' = Conn
  BY ConnKept DEF Entering
<1>3. /\ \A d \in Conn \ {c} : conns'[d] = conns[d]
      /\ conns'[c].lock = conns[c].lock /\ conns'[c].owner = g
  <2>1. conns' = [conns EXCEPT ![c].once = "running", ![c].owner = g]
    BY DEF Entering
  <2> QED  BY <2>1, OnceFields
<1>4. Holds(g, Frame("sleep", c), AboveOnce)'
  <2>1. Len(fs) = 1 /\ fs[1] = Frame("sleep", c)
    BY DEF Entering
  <2>2. 1 \in 1..Len(fs) /\ \A m \in 1..(1 - 1) : fs[m].at \in AboveOnce
    BY <2>1
  <2> QED  BY <1>1, <2>1, <2>2, HoldsPushed DEF Replacing
<1>5. ASSUME NEW h \in Procs, NEW d \in Conn
      PROVE  /\ conns'[d].lock = h => Holds(h, Frame("Unlock", d), AboveUnlock)'
             /\ conns'[d].owner = h => \/ Holds(h, Frame("sleep", d), AboveOnce)'
                                       \/ Holds(h, Frame("once", d), AboveOnce)'
  <2>1. /\ conns[d].lock = h => Holds(h, Frame("Unlock", d), AboveUnlock)'
        /\ conns[d].owner = h => \/ Holds(h, Frame("sleep", d), AboveOnce)'
                                 \/ Holds(h, Frame("once", d), AboveOnce)'
    BY <1>1, PlainHolders
  <2>2. CASE d = c
    BY <1>3, <1>4, <2>1, <2>2
  <2>3. CASE d # c
    BY <1>3, <2>1, <2>3
  <2> QED  BY <2>2, <2>3
<1> QED  BY <1>2, <1>5 DEF Holders

LEMMA WakingHolders ==
  ASSUME Shape, Orderly, Holders, NEW g \in Procs, NEW c \in Conn, NEW fs,
         Waking(g, c, fs)
  PROVE  Holders'
<1>1. Replacing(g, fs) /\ Head(stack[g]) = Frame("sleep", c) /\ conns' = conns
  BY DEF Waking
<1>2. Conn' = Conn
  BY <1>1 DEF Conn
<1>3. Holds(g, Frame("once", c), AboveOnce)'
  <2>1. /\ Len(fs) \in 1..2 /\ fs[Len(fs)] = Frame("once", c)
        /\ Len(fs) = 2 => fs[1].at = "OnDisconnected"
    BY DEF Waking
  <2>2. Len(fs) \in 1..Len(fs) /\ \A m \in 1..(Len(fs) - 1) : fs[m].at \in AboveOnce
    BY <2>1 DEF AboveOnce
  <2> QED  BY <1>1, <2>1, <2>2, HoldsPushed DEF Replacing
<1>4. ASSUME NEW h \in Procs, NEW d \in Conn, conns[d].lock = h
      PROVE  Holds(h, Frame("Unlock", d), AboveUnlock)'
  <2>1. Head(stack[g]) # Frame("Unlock", d)
    BY <1>1, FrameInjective
  <2> QED  BY <1>1, <1>4, <2>1, LockKept
<1>5. ASSUME NEW h \in Procs, NEW d \in Conn, conns[d].owner = h
      PROVE  \/ Holds(h, Frame("sleep", d), AboveOnce)'
             \/ Holds(h, Frame("once", d), AboveOnce)'
  <2>1. CASE h = g /\ d = c
    BY <1>3, <2>1
  <2>2. CASE h = g => d # c
    <3>1. h = g => Head(stack[g]) \notin {Frame("sleep", d), Frame("once", d)}
      BY <1>1, <2>2, FrameInjective
    <3> QED  BY <1>1, <1>5, <3>1, OwnerKept
  <2> QED  BY <2>1, <2>2
<1> QED  BY <1>1, <1>2, <1>4, <1>5 DEF Holders

LEMMA ReturningHolders ==
  ASSUME Shape, Orderly, Holders, NEW g \in Procs, NEW c \in Conn, NEW fs,
         Returning(g, c, fs)
  PROVE  Holders'
<1>1. Replacing(g, fs) /\ Head(stack[g]) = Frame("once", c)
  BY DEF Returning
<1>2. Conn' = Conn /\ Nobody \notin Procs
  BY ConnKept, ServerThreadsAssumption DEF Returning, Procs
<1>3. /\ \A d \in Conn \ {c} : conns'[d] = conns[d]
      /\ conns'[c].lock = conns[c].lock /\ conns'[c].owner = Nobody
  <2>1. conns' = [conns EXCEPT ![c].once = "done", ![c].owner = Nobody]
    BY DEF Returning
  <2> QED  BY <2>1, OnceFields
<1>4. ASSUME NEW h \in Procs, NEW d \in Conn, conns'[d].lock = h
      PROVE  Holds(h, Frame("Unlock", d), AboveUnlock)'
  <2>1. conns[d].lock = h
    BY <1>3, <1>4
  <2>2. Head(stack[g]) # Frame("Unlock", d)
    BY <1>1, FrameInjective
  <2> QED  BY <1>1, <2>1, <2>2, LockKept
<1>5. ASSUME NEW h \in Procs, NEW d \in Conn, conns'[d].owner = h
      PROVE  \/ Holds(h, Frame("sleep", d), AboveOnce)'
             \/ Holds(h, Frame("once", d), AboveOnce)'
  <2>1. d # c /\ conns[d].owner = h
    BY <1>2, <1>3, <1>5
  <2>2. Head(stack[g]) \notin {Frame("sleep", d), Frame("once", d)}
    BY <1>1, <2>1, FrameInjective
  <2> QED  BY <1>1, <2>1, <2>2, OwnerKept
<1> QED  BY <1>2, <1>4, <1>5 DEF Holders

\* The other steps, which leave the connections alone.
LEMMA OtherHolders ==
  ASSUME Shape, Orderly, Holders, NEW g \in Procs, NEW fs, Replacing(g, fs),
         Head(stack[g]).at \notin {"Unlock", "sleep", "once"}, conns' = conns
  PROVE  Holders'
<1>1. Conn' = Conn
  BY DEF Conn
<1>2. ASSUME NEW h \in Procs, NEW d \in Conn
      PROVE  /\ conns[d].lock = h => Holds(h, Frame("Unlock", d), AboveUnlock)'
             /\ conns[d].owner = h => \/ Holds(h, Frame("sleep", d), AboveOnce)'
                                      \/ Holds(h, Frame("once", d), AboveOnce)'
  BY PlainHolders
<1> QED  BY <1>1, <1>2 DEF Holders

LEMMA MakingHolders ==
  ASSUME Shape, Orderly, Holders, NEW i \in Id, NEW fs, Making(Len(conns) + 1, i, fs)
  PROVE  Holders'
<1> DEFINE r == [id |-> i, lock |-> Nobody, once |-> "new", owner |-> Nobody]
<1>1. Ticker \in Procs /\ Nobody \notin Procs
  BY ServerThreadsAssumption DEF Procs
<1>2. Replacing(Ticker, fs) /\ Head(stack[Ticker]).at \notin {"Unlock", "sleep", "once"}
  BY DEF Making
<1>3. conns \in Seq(ConnRecord) /\ Len(conns) \in Nat /\ r \in ConnRecord
  BY ConnTypes DEF Shape, ConnRecord
<1>4. conns' = Append(conns, r)
  BY DEF Making
<1> HIDE DEF r
<1>5. /\ Len(conns') = Len(conns) + 1 /\ conns' \in Seq(ConnRecord)
      /\ \A d \in 1..Len(conns) : conns'[d] = conns[d]
      /\ conns'[Len(conns) + 1] = r
  BY <1>3, <1>4, AppendProperties
<1>6. Conn' = 1..(Len(conns) + 1) /\ Conn = 1..Len(conns)
  BY <1>3, <1>5, LenProperties DEF Conn
<1>7. ASSUME NEW h \in Procs, NEW d \in Conn'
      PROVE  /\ conns'[d].lock = h => Holds(h, Frame("Unlock", d), AboveUnlock)'
             /\ conns'[d].owner = h => \/ Holds(h, Frame("sleep", d), AboveOnce)'
                                       \/ Holds(h, Frame("once", d), AboveOnce)'
  <2>1. CASE d \in Conn
    <3>1. conns'[d] = conns[d]
      BY <1>5, <1>6, <2>1
    <3> QED  BY <1>1, <1>2, <2>1, <3>1, PlainHolders
  <2>2. CASE d \notin Conn
    <3>1. d = Len(conns) + 1
      BY <1>3, <1>6, <2>2
    <3>2. conns'[d].lock = Nobody /\ conns'[d].owner = Nobody
      BY <1>5, <3>1 DEF r
    <3> QED  BY <1>1, <3>2
  <2> QED  BY <2>1, <2>2
<1> QED  BY <1>7 DEF Holders

LEMMA UserCallHolders ==
  ASSUME Shape, Holders, NEW g \in Users, UserCall(g)
  PROVE  Holders'
<1>1. stack[g] = <<>> /\ g \in Procs /\ conns' = conns
  BY UserCallStack
<1>2. PICK f \in Frames : stack' = [stack EXCEPT ![g] = <<f>>]
  BY UserCallStack
<1>3. \A h \in Procs \ {g} : stack'[h] = stack[h]
  BY <1>2 DEF Shape
<1>4. ASSUME NEW x, NEW A
      PROVE  ~Holds(g, x, A)
  BY <1>1 DEF Holds
<1>5. ASSUME NEW h \in Procs, NEW x, NEW A, Holds(h, x, A)
      PROVE  Holds(h, x, A)'
  <2>1. h # g
    BY <1>4, <1>5
  <2>2. stack'[h] = stack[h]
    BY <1>3, <2>1
  <2> QED  BY <1>5, <2>2 DEF Holds
<1>6. Conn' = Conn
  BY <1>1 DEF Conn
<1> QED  BY <1>1, <1>5, <1>6 DEF Holders

LEMMA NextHolders ==
  ASSUME Shape, Orderly, Holders, Kinds
  PROVE  Holders'
<1>1. Ticker \in Procs
  BY DEF Procs
<1>2. ASSUME NEW g \in Users, UserCall(g)
      PROVE  Holders'
  BY <1>2, UserCallHolders
<1>3. ASSUME NEW g \in Procs, Calling(g), conns' = conns
      PROVE  Holders'
  <2>1. PICK fs \in Seq(Frames) : Pushing(g, fs) /\ Disciplined(g, fs) /\ Ordinary(g, fs)
    BY <1>3 DEF Calling
  <2>2. Head(stack[g]).at \notin {"Unlock", "sleep", "once"}
    BY <2>1 DEF Ordinary, Special
  <2> QED  BY <1>3, <2>1, <2>2, OtherHolders DEF Replacing
<1>4. ASSUME NEW g \in Procs, NEW c \in Conn, NEW fs, Joins(g, c, fs)
      PROVE  Holders'
  <2>1. Head(stack[g]).at \notin {"Unlock", "sleep", "once"}
    BY <1>4 DEF Joins, Frame
  <2> QED  BY <1>4, <2>1, OtherHolders DEF Joins
<1>5. ASSUME NEW fs, Ticking(fs)
      PROVE  Holders'
  <2>1. Head(stack[Ticker]).at \notin {"Unlock", "sleep", "once"}
    BY <1>5 DEF Ticking, Base
  <2> QED  BY <1>1, <1>5, <2>1, OtherHolders DEF Ticking
<1>6. ASSUME NEW g \in Procs, NEW c \in Conn, NEW fs,
             \/ Locking(g, c, fs) \/ Unlocking(g, c, fs) \/ Entering(g, c, fs)
             \/ Waking(g, c, fs) \/ Returning(g, c, fs)
      PROVE  Holders'
  BY <1>6, LockingHolders, UnlockingHolders, EnteringHolders, WakingHolders,
     ReturningHolders
<1> QED  BY <1>2, <1>3, <1>4, <1>5, <1>6, MakingHolders DEF Kinds

\* The innermost frame of who holds something.
LEMMA HoldsHead ==
  ASSUME Shape, NEW g \in Procs, NEW f, NEW A, Holds(g, f, A)
  PROVE  Head(stack[g]) = f \/ Head(stack[g]).at \in A
<1>1. stack[g] \in Seq(Frames)
  BY DEF Shape
<1>2. PICK n \in 1..Len(stack[g]) :
        stack[g][n] = f /\ \A m \in 1..(n - 1) : stack[g][m].at \in A
  BY DEF Holds
<1>3. stack[g] # <<>> /\ Len(stack[g]) \in Nat
  BY <1>1, <1>2, EmptySeq, LenProperties
<1>4. Head(stack[g]) = stack[g][1]
  BY <1>1, <1>3, HeadTailProperties
<1>5. n = 1 \/ 1 \in 1..(n - 1)
  BY <1>2, <1>3
<1> QED  BY <1>2, <1>4, <1>5

\* Whom a goroutine waits for.
LEMMA WaitsForIs ==
  ASSUME Shape, NEW g \in Procs, WaitsFor(g) \in Procs
  PROVE  \/ /\ Head(stack[g]).at \in {"SendReliable", "Locked", "ReceiveNextReliable"}
            /\ \E c \in Conn : conns[c].lock = WaitsFor(g)
         \/ /\ Head(stack[g]).at = "peer.Disconnect"
            /\ \E c \in Conn : conns[c].owner = WaitsFor(g)
<1>1. Nobody \notin Procs
  BY ServerThreadsAssumption DEF Procs
<1>2. CASE \E at \in {"SendReliable", "Locked", "ReceiveNextReliable"} : At(g, at)
  <2>1. PICK at \in {"SendReliable", "Locked", "ReceiveNextReliable"} : At(g, at)
    BY <1>2
  <2>2. ~At(g, "peer.Disconnect")
    BY <2>1 DEF At
  <2>3. WaitsFor(g) = conns[Arg(g)].lock
    BY <1>2, <2>2 DEF WaitsFor
  <2>4. Arg(g) \in Conn /\ Head(stack[g]).at = at
    BY <2>1, AtPlace DEF ConnPlaces
  <2> QED  BY <2>3, <2>4
<1>3. CASE ~\E at \in {"SendReliable", "Locked", "ReceiveNextReliable"} : At(g, at)
  <2>1. At(g, "peer.Disconnect") /\ WaitsFor(g) = conns[Arg(g)].owner
    BY <1>1, <1>3 DEF WaitsFor
  <2>2. Arg(g) \in Conn /\ Head(stack[g]).at = "peer.Disconnect"
    BY <2>1, AtPlace DEF ConnPlaces
  <2> QED  BY <2>1, <2>2
<1> QED  BY <1>2, <1>3

\* Who holds a lock waits for nobody, or for one inside a disconnectOnce, who
\* waits for nobody; or the other way round.
LEMMA LockHolderWaits ==
  ASSUME Shape, Holders, NEW g \in Procs, NEW c \in Conn, conns[c].lock = g,
         WaitsFor(g) \in Procs
  PROVE  ~Quiet /\ \E d \in Conn : conns[d].owner = WaitsFor(g)
<1>1. Head(stack[g]) = Frame("Unlock", c) \/ Head(stack[g]).at \in AboveUnlock
  BY HoldsHead DEF Holders
<1>2. Head(stack[g]).at \in {"Unlock"} \cup AboveUnlock
  BY <1>1 DEF Frame
<1>3. Head(stack[g]).at \notin {"SendReliable", "Locked", "ReceiveNextReliable"}
  BY <1>2 DEF AboveUnlock, Harmless
<1>4. Head(stack[g]).at = "peer.Disconnect" /\ \E d \in Conn : conns[d].owner = WaitsFor(g)
  BY <1>3, WaitsForIs
<1>5. ~Quiet
  BY <1>2, <1>4 DEF AboveUnlock, Harmless
<1> QED  BY <1>4, <1>5

LEMMA OwnerWaits ==
  ASSUME Shape, Holders, NEW g \in Procs, NEW c \in Conn, conns[c].owner = g,
         WaitsFor(g) \in Procs
  PROVE  Quiet /\ \E d \in Conn : conns[d].lock = WaitsFor(g)
<1>1. \/ Head(stack[g]) = Frame("sleep", c) \/ Head(stack[g]) = Frame("once", c)
      \/ Head(stack[g]).at \in AboveOnce
  BY HoldsHead DEF Holders
<1>2. Head(stack[g]).at \in {"sleep", "once"} \cup AboveOnce
  BY <1>1 DEF Frame
<1>3. Head(stack[g]).at # "peer.Disconnect"
  BY <1>2 DEF AboveOnce, Harmless
<1>4. /\ Head(stack[g]).at \in {"SendReliable", "Locked", "ReceiveNextReliable"}
      /\ \E d \in Conn : conns[d].lock = WaitsFor(g)
  BY <1>3, WaitsForIs
<1>5. Quiet
  BY <1>2, <1>4 DEF AboveOnce, Harmless
<1> QED  BY <1>4, <1>5

LEMMA HoldersNoCycle == Shape /\ Holders => NoWaitCycle
<1> SUFFICES ASSUME Shape, Holders, NEW S \in (SUBSET Procs) \ {{}},
                    \A g \in S : WaitsFor(g) \in S
             PROVE  FALSE
  BY DEF NoWaitCycle
<1>1. PICK g \in S : g \in Procs
  OBVIOUS
<1>2. PICK h \in Procs : h = WaitsFor(g) /\ h \in S
  BY <1>1
<1>3. PICK k \in Procs : k = WaitsFor(h) /\ k \in S
  BY <1>2
<1>4. WaitsFor(k) \in Procs
  BY <1>3
<1>5. ASSUME NEW c \in Conn, conns[c].lock = h
      PROVE  FALSE
  <2>1. ~Quiet /\ \E d \in Conn : conns[d].owner = k
    BY <1>3, <1>5, LockHolderWaits
  <2> QED  BY <1>4, <2>1, OwnerWaits
<1>6. ASSUME NEW c \in Conn, conns[c].owner = h
      PROVE  FALSE
  <2>1. Quiet /\ \E d \in Conn : conns[d].lock = k
    BY <1>3, <1>6, OwnerWaits
  <2> QED  BY <1>4, <2>1, LockHolderWaits
<1>7. WaitsFor(g) \in Procs
  BY <1>2
<1> QED  BY <1>1, <1>2, <1>5, <1>6, <1>7, WaitsForIs

(***************************************************************************)
(* However many goroutines use the server and however their calls nest in  *)
(* callbacks, no goroutine waits for itself or in a circle for a peer's    *)
(* lock or its disconnectOnce, if the callbacks keep to one of the two     *)
(* disciplines.                                                            *)
(***************************************************************************)
THEOREM NobodyWaitsInACircle == Orderly /\ Spec => []NoWaitCycle
<1> SUFFICES ASSUME Orderly PROVE Spec => []NoWaitCycle
  OBVIOUS
<1>1. Init => Holders
  BY DEF Init, Holders, Conn
<1>2. Shape /\ Holders /\ [Next]_vars => Holders'
  <2> SUFFICES ASSUME Shape, Holders, [Next]_vars PROVE Holders'
    OBVIOUS
  <2>1. CASE Next
    BY <2>1, StepKinds, NextHolders
  <2>2. CASE UNCHANGED vars
    BY <2>2 DEF vars, Holders, Holds, Conn
  <2> QED  BY <2>1, <2>2
<1>3. Spec => []Holders
  BY <1>1, <1>2, ShapeInvariant, PTL DEF Spec
<1> QED  BY <1>3, ShapeInvariant, HoldersNoCycle, PTL

----------------------------------------------------------------------------
(* What is removed was disconnected. *)

\* Only the ticker ticks and makes connections.  Its own frame is the
\* outermost, and the connection it is making comes next.
TickerStack ==
  /\ \A g \in Users : \A n \in 1..Len(stack[g]) :
       stack[g][n].at \notin Base \cup {"onConnected"}
  /\ \A n \in 1..Len(stack[Ticker]) :
       /\ stack[Ticker][n].at \in Base => n = Len(stack[Ticker])
       /\ stack[Ticker][n].at = "onConnected" => n = Len(stack[Ticker]) - 1

\* A goroutine is inside the disconnectOnce of c, at most one at one place.
Inside(f, c) == f.at \in {"sleep", "once"} /\ f.x = c

Alone(c) ==
  \A g, h \in Procs : \A n \in 1..Len(stack[g]), m \in 1..Len(stack[h]) :
    Inside(stack[g][n], c) /\ Inside(stack[h][m], c) => g = h /\ n = m

OneInside ==
  /\ \A g \in Procs, c \in Conn : \A n \in 1..Len(stack[g]) :
       Inside(stack[g][n], c) => conns[c].once = "running"
  /\ \A c \in Conn : Alone(c)

\* Nobody is inside, except where g replaces its innermost frame.
OnlyHead(g, c) ==
  \A h \in Procs : \A m \in 1..Len(stack[h]) : Inside(stack[h][m], c) => h = g /\ m = 1

\* What g pushes goes inside at one place, and only if nobody else is.
GoesInside(g, fs, c, p) ==
  \A k \in 1..Len(fs) : Inside(fs[k], c) => k = p /\ OnlyHead(g, c)

\* Connection c has yet to reach onDisconnected, or to be added by onConnected.
Sleeping(c) == \E g \in Procs : \E n \in 1..Len(stack[g]) : stack[g][n] = Frame("sleep", c)
Pending(c) == conns[c].once = "new" \/ Sleeping(c)
Joining(c) == \E n \in 1..Len(stack[Ticker]) : stack[Ticker][n] = Frame("onConnected", c)

(***************************************************************************)
(* As long as the server is started once: of the connections with an id    *)
(* one at most is pending.  If the map has the id, it has that connection; *)
(* it has the id while the server listens, once the connection was added;  *)
(* and what is to be removed is in the map and not pending.                *)
(***************************************************************************)
StartedOnce == starts = 0 => Conn = {} /\ ~listening

JoiningIsNew == \A c \in Conn : Joining(c) => conns[c].id \notin DOMAIN connections

MapHasPending ==
  \A c \in Conn : Pending(c) /\ conns[c].id \in DOMAIN connections =>
                    connections[conns[c].id] = c

PendingIsInMap ==
  \A c \in Conn : listening /\ Pending(c) =>
                    conns[c].id \in DOMAIN connections \/ Joining(c)

OnePending ==
  \A c, d \in Conn :
    /\ Pending(c) \/ Joining(c)
    /\ Pending(d) \/ Joining(d)
    /\ conns[c].id = conns[d].id
    => c = d

RemovedNotPending ==
  \A i \in toRemove : i \in DOMAIN connections /\ ~Pending(connections[i])

MapInv ==
  /\ StartedOnce /\ JoiningIsNew /\ MapHasPending /\ PendingIsInMap
  /\ OnePending /\ RemovedNotPending

\* A place of a stack after a step is one that was pushed or was there.
LEMMA OldPlace ==
  ASSUME Shape, NEW g \in Procs, NEW fs, Pushing(g, fs), NEW h \in Procs,
         NEW k \in 1..Len(stack'[h]), ~(h = g /\ k \in 1..Len(fs))
  PROVE  \E m \in 1..Len(stack[h]) :
           /\ stack'[h][k] = stack[h][m]
           /\ h = g => m \in 2..Len(stack[g]) /\ m = k - Len(fs) + 1
           /\ h # g => m = k
<1>1. stack \in [Procs -> Seq(Frames)]
  BY DEF Shape
<1>2. CASE h # g
  <2>1. stack'[h] = stack[h]
    BY <1>1, <1>2, PushedStacks
  <2> QED  BY <1>2, <2>1
<1>3. CASE h = g
  <2>1. Len(stack[g]) \in Nat \ {0} /\ Len(fs) \in Nat
    BY <1>1, PushedStacks
  <2>2. k > Len(fs)
    BY <1>3, <2>1
  <2>3. k - Len(fs) + 1 \in 2..Len(stack[g]) /\ stack'[g][k] = stack[g][k - Len(fs) + 1]
    BY <1>1, <1>3, <2>2, PushedStacks
  <2>4. k - Len(fs) + 1 \in 1..Len(stack[g])
    BY <2>1, <2>3
  <2> QED  BY <1>3, <2>3, <2>4
<1> QED  BY <1>2, <1>3

\* Where the places are that were pushed, and how long the stacks become.
LEMMA NewPlaces ==
  ASSUME Shape, NEW g \in Procs, NEW fs, Pushing(g, fs)
  PROVE  /\ Len(stack'[g]) = Len(fs) + Len(stack[g]) - 1
         /\ Len(stack[g]) \in Nat \ {0} /\ Len(fs) \in Nat
         /\ Head(stack[g]) = stack[g][1] /\ 1 \in 1..Len(stack[g])
         /\ \A k \in 1..Len(fs) : stack'[g][k] = fs[k]
         /\ \A h \in Procs \ {g} : stack'[h] = stack[h]
         /\ \A m \in 2..Len(stack[g]) : /\ m - 1 + Len(fs) \in 1..Len(stack'[g])
                                        /\ stack'[g][m - 1 + Len(fs)] = stack[g][m]
<1>1. stack \in [Procs -> Seq(Frames)]
  BY DEF Shape
<1>2. Len(stack[g]) \in Nat \ {0} /\ Len(fs) \in Nat
      /\ Len(stack'[g]) = Len(fs) + Len(stack[g]) - 1
  BY <1>1, PushedStacks
<1>3. 1 \in 1..Len(stack[g])
  BY <1>2
<1>4. \A m \in 2..Len(stack[g]) : m - 1 + Len(fs) \in 1..Len(stack'[g])
  BY <1>2
<1> QED  BY <1>1, <1>2, <1>3, <1>4, PushedStacks

LEMMA TickerStackKept ==
  ASSUME Shape, TickerStack, NEW g \in Procs, NEW fs, Pushing(g, fs),
         \/ \A k \in 1..Len(fs) : fs[k].at \notin Base \cup {"onConnected"}
         \/ /\ g = Ticker /\ Head(stack[g]).at \in Base
            /\ \A k \in 1..Len(fs) : /\ fs[k].at \in Base => k = Len(fs)
                                     /\ fs[k].at = "onConnected" => k = Len(fs) - 1
  PROVE  TickerStack'
<1>1. Ticker \in Procs /\ Ticker \notin Users /\ Users \subseteq Procs
  BY ServerThreadsAssumption DEF Procs
<1>2. ASSUME NEW h \in Users, NEW n \in 1..Len(stack'[h])
      PROVE  stack'[h][n].at \notin Base \cup {"onConnected"}
  <2>1. CASE h = g /\ n \in 1..Len(fs)
    <3>1. stack'[h][n] = fs[n]
      BY <2>1, NewPlaces
    <3> QED  BY <1>1, <2>1, <3>1
  <2>2. CASE ~(h = g /\ n \in 1..Len(fs))
    <3>1. \E m \in 1..Len(stack[h]) : stack'[h][n] = stack[h][m]
      BY <1>1, <2>2, OldPlace
    <3> QED  BY <3>1 DEF TickerStack
  <2> QED  BY <2>1, <2>2
<1>3. ASSUME NEW n \in 1..Len(stack'[Ticker])
      PROVE  /\ stack'[Ticker][n].at \in Base => n = Len(stack'[Ticker])
             /\ stack'[Ticker][n].at = "onConnected" => n = Len(stack'[Ticker]) - 1
  <2>1. CASE g = Ticker /\ n \in 1..Len(fs)
    <3>1. stack'[Ticker][n] = fs[n]
      BY <2>1, NewPlaces
    <3>2. CASE Head(stack[g]).at \in Base
      <4>1. 1 = Len(stack[Ticker]) /\ Len(fs) \in Nat
        BY <2>1, <3>2, NewPlaces DEF TickerStack
      <4>2. Len(stack'[Ticker]) = Len(fs)
        <5>1. Len(stack'[g]) = Len(fs) + Len(stack[g]) - 1
          BY NewPlaces
        <5>2. Len(stack[g]) = 1 /\ \A a \in Nat : a + 1 - 1 = a
          BY <2>1, <4>1
        <5>3. Len(stack'[g]) = Len(fs)
          BY <4>1, <5>1, <5>2
        <5> QED  BY <2>1, <5>3
      <4> QED  BY <2>1, <3>1, <4>2
    <3>3. CASE fs[n].at \notin Base \cup {"onConnected"}
      BY <3>1, <3>3
    <3> QED  BY <2>1, <3>2, <3>3
  <2>2. CASE ~(g = Ticker /\ n \in 1..Len(fs))
    <3>1. PICK m \in 1..Len(stack[Ticker]) :
            /\ stack'[Ticker][n] = stack[Ticker][m]
            /\ Ticker = g => m \in 2..Len(stack[g]) /\ m = n - Len(fs) + 1
            /\ Ticker # g => m = n
      BY <1>1, <2>2, OldPlace
    <3>2. /\ stack[Ticker][m].at \in Base => m = Len(stack[Ticker])
          /\ stack[Ticker][m].at = "onConnected" => m = Len(stack[Ticker]) - 1
      BY DEF TickerStack
    <3>3. CASE Ticker = g
      <4>1. /\ Len(stack'[g]) = Len(fs) + Len(stack[g]) - 1
            /\ Len(stack[g]) \in Nat /\ Len(fs) \in Nat
        BY NewPlaces
      <4>2. /\ m = Len(stack[g]) => n = Len(stack'[g])
            /\ m = Len(stack[g]) - 1 => n = Len(stack'[g]) - 1
        BY <3>1, <3>3, <4>1
      <4> QED  BY <3>1, <3>2, <3>3, <4>2
    <3>4. CASE Ticker # g
      <4>1. stack'[Ticker] = stack[Ticker]
        BY <1>1, <3>4, NewPlaces
      <4> QED  BY <3>1, <3>2, <3>4, <4>1
    <3> QED  BY <3>3, <3>4
  <2> QED  BY <2>1, <2>2
<1> QED  BY <1>2, <1>3 DEF TickerStack

\* The places inside the disconnectOnce of c: none is pushed, or the one
\* there was is replaced by one.
LEMMA OneInsideKept ==
  ASSUME Shape, OneInside, NEW g \in Procs, NEW fs, Pushing(g, fs), NEW c \in Conn,
         NEW p, GoesInside(g, fs, c, p)
  PROVE  Alone(c)'
<1>1. ASSUME NEW a \in Procs, NEW b \in 1..Len(stack'[a]), ~(a = g /\ b \in 1..Len(fs))
      PROVE  \E q \in 1..Len(stack[a]) :
               /\ stack'[a][b] = stack[a][q]
               /\ a = g => q \in 2..Len(stack[g]) /\ q = b - Len(fs) + 1
               /\ a # g => q = b
  BY <1>1, OldPlace
<1> SUFFICES ASSUME NEW h \in Procs, NEW j \in Procs,
                    NEW n \in 1..Len(stack'[h]), NEW m \in 1..Len(stack'[j]),
                    Inside(stack'[h][n], c), Inside(stack'[j][m], c)
             PROVE  h = j /\ n = m
  BY DEF Alone
<1>2. \A k \in 1..Len(fs) : stack'[g][k] = fs[k] /\ (Inside(fs[k], c) => k = p)
  BY NewPlaces DEF GoesInside
<1>3. Len(fs) \in Nat /\ Len(stack[g]) \in Nat
  BY NewPlaces
<1>4. CASE h = g /\ n \in 1..Len(fs)
  <2>1. CASE j = g /\ m \in 1..Len(fs)
    BY <1>2, <1>4, <2>1
  <2>2. CASE ~(j = g /\ m \in 1..Len(fs))
    <3>1. PICK q \in 1..Len(stack[j]) :
            /\ stack'[j][m] = stack[j][q]
            /\ j = g => q \in 2..Len(stack[g])
      BY <2>2, OldPlace
    <3>2. j = g /\ q = 1
      BY <1>2, <1>4, <3>1 DEF GoesInside, OnlyHead
    <3> QED  BY <3>1, <3>2
  <2> QED  BY <2>1, <2>2
<1>5. CASE ~(h = g /\ n \in 1..Len(fs))
  <2>1. PICK q \in 1..Len(stack[h]) :
          /\ stack'[h][n] = stack[h][q]
          /\ h = g => q \in 2..Len(stack[g]) /\ q = n - Len(fs) + 1
          /\ h # g => q = n
    BY <1>1, <1>5
  <2>2. CASE j = g /\ m \in 1..Len(fs)
    <3>1. h = g /\ q = 1
      BY <1>2, <2>1, <2>2 DEF GoesInside, OnlyHead
    <3> QED  BY <2>1, <3>1
  <2>3. CASE ~(j = g /\ m \in 1..Len(fs))
    <3>1. PICK r \in 1..Len(stack[j]) :
            /\ stack'[j][m] = stack[j][r]
            /\ j = g => r \in 2..Len(stack[g]) /\ r = m - Len(fs) + 1
            /\ j # g => r = m
      BY <1>1, <2>3
    <3>2. h = j /\ q = r
      BY <2>1, <3>1 DEF OneInside, Alone
    <3>3. CASE h = g
      <4>1. n - Len(fs) + 1 = m - Len(fs) + 1 /\ n \in Int /\ m \in Int
        BY <2>1, <3>1, <3>2, <3>3
      <4> QED  BY <1>3, <3>2, <4>1
    <3>4. CASE h # g
      BY <2>1, <3>1, <3>2, <3>4
    <3> QED  BY <3>3, <3>4
  <2> QED  BY <2>2, <2>3
<1> QED  BY <1>4, <1>5

\* Who is inside a disconnectOnce is inside that of a connection there is.
LEMMA InsideConn ==
  ASSUME Shape, NEW h \in Procs, NEW m \in 1..Len(stack[h]), NEW c,
         Inside(stack[h][m], c)
  PROVE  c \in Conn
<1>1. FrameOf(stack[h][m], Conn)
  BY DEF Shape, FramesOf
<1> QED  BY <1>1 DEF FrameOf, Inside, Callbacks, API, ConnPlaces, Base

LEMMA InsideStep ==
  ASSUME Shape, OneInside, NEW g \in Procs, NEW fs, Pushing(g, fs),
         NEW p, \A c : GoesInside(g, fs, c, p),
         \A c, k : k \in 1..Len(fs) /\ Inside(fs[k], c) =>
                     c \in Conn /\ conns'[c].once = "running",
         \A c \in Conn : conns[c].once = "running" =>
                           conns'[c].once = "running" \/ Inside(Head(stack[g]), c)
  PROVE  OneInside'
<1>1. ASSUME NEW h \in Procs, NEW c \in Conn', NEW n \in 1..Len(stack'[h]),
             Inside(stack'[h][n], c)
      PROVE  c \in Conn /\ conns'[c].once = "running"
  <2>1. CASE h = g /\ n \in 1..Len(fs)
    <3>1. stack'[h][n] = fs[n]
      BY <2>1, NewPlaces
    <3> QED  BY <1>1, <2>1, <3>1
  <2>2. CASE ~(h = g /\ n \in 1..Len(fs))
    <3>1. PICK m \in 1..Len(stack[h]) :
            /\ stack'[h][n] = stack[h][m]
            /\ h = g => m \in 2..Len(stack[g])
      BY <2>2, OldPlace
    <3>2. c \in Conn
      BY <1>1, <3>1, InsideConn
    <3>3. conns[c].once = "running"
      BY <1>1, <3>1, <3>2 DEF OneInside
    <3>4. ~Inside(Head(stack[g]), c)
      <4> SUFFICES ASSUME Inside(Head(stack[g]), c) PROVE FALSE
        OBVIOUS
      <4>1. Inside(stack[g][1], c) /\ 1 \in 1..Len(stack[g])
        BY NewPlaces
      <4>2. h = g /\ m = 1
        BY <1>1, <3>1, <3>2, <4>1 DEF OneInside, Alone
      <4> QED  BY <3>1, <4>2
    <3> QED  BY <3>2, <3>3, <3>4
  <2> QED  BY <2>1, <2>2
<1>2. ASSUME NEW c \in Conn
      PROVE  Alone(c)'
  BY OneInsideKept
<1>3. ASSUME NEW c \in Conn'
      PROVE  Alone(c)'
  <2>1. CASE c \in Conn
    BY <1>2, <2>1
  <2>2. CASE c \notin Conn
    BY <1>1, <2>2 DEF Alone
  <2> QED  BY <2>1, <2>2
<1> QED  BY <1>1, <1>3 DEF OneInside

\* Steps that push no such frame and leave disconnectOnce alone.
LEMMA PlainInside ==
  ASSUME Shape, OneInside, NEW g \in Procs, NEW fs, Pushing(g, fs),
         \A k \in 1..Len(fs) : fs[k].at \notin {"sleep", "once"},
         \A c \in Conn : conns'[c].once = conns[c].once
  PROVE  OneInside'
<1>1. \A c : \A k \in 1..Len(fs) : ~Inside(fs[k], c)
  BY DEF Inside
<1>2. \A c : GoesInside(g, fs, c, 1)
  BY <1>1 DEF GoesInside
<1> QED  BY <1>1, <1>2, InsideStep

LEMMA EnteringInside ==
  ASSUME Shape, OneInside, NEW g \in Procs, NEW c \in Conn, NEW fs, Entering(g, c, fs)
  PROVE  OneInside'
<1>1. Pushing(g, fs) /\ Len(fs) = 1 /\ fs[1] = Frame("sleep", c) /\ conns[c].once = "new"
  BY DEF Entering, Replacing
<1>2. conns' = [conns EXCEPT ![c].once = "running", ![c].owner = g]
  BY DEF Entering
<1>3. /\ \A d \in Conn \ {c} : conns'[d] = conns[d]
      /\ conns'[c].lock = conns[c].lock /\ conns'[c].owner = g
      /\ conns'[c].once = "running" /\ conns'[c].id = conns[c].id
  BY <1>2, OnceFields
<1>4. \A d, k : k \in 1..Len(fs) /\ Inside(fs[k], d) => k = 1 /\ d = c
  BY <1>1 DEF Inside, Frame
<1>5. OnlyHead(g, c)
  BY <1>1 DEF OneInside, OnlyHead
<1>6. \A d : GoesInside(g, fs, d, 1)
  BY <1>4, <1>5 DEF GoesInside
<1>7. \A d \in Conn : conns[d].once = "running" => conns'[d].once = "running"
  BY <1>3
<1> QED  BY <1>1, <1>3, <1>4, <1>6, <1>7, InsideStep

LEMMA WakingInside ==
  ASSUME Shape, OneInside, NEW g \in Procs, NEW c \in Conn, NEW fs, Waking(g, c, fs)
  PROVE  OneInside'
<1>1. /\ Pushing(g, fs) /\ Len(fs) \in 1..2 /\ fs[Len(fs)] = Frame("once", c)
      /\ Len(fs) = 2 => fs[1].at = "OnDisconnected"
      /\ Head(stack[g]) = Frame("sleep", c) /\ conns' = conns
  BY DEF Waking, Replacing
<1>2. stack[g][1] = Frame("sleep", c) /\ 1 \in 1..Len(stack[g])
  BY <1>1, NewPlaces
<1>3. Inside(stack[g][1], c)
  BY <1>2 DEF Inside, Frame
<1>4. conns[c].once = "running" /\ OnlyHead(g, c)
  BY <1>2, <1>3 DEF OneInside, Alone, OnlyHead
<1>5. \A d, k : k \in 1..Len(fs) /\ Inside(fs[k], d) => k = Len(fs) /\ d = c
  <2>1. \A k \in 1..Len(fs) : k = Len(fs) \/ (k = 1 /\ Len(fs) = 2)
    BY <1>1
  <2>2. \A d : Inside(fs[Len(fs)], d) => d = c
    BY <1>1 DEF Inside, Frame
  <2>3. \A d : Len(fs) = 2 => ~Inside(fs[1], d)
    BY <1>1 DEF Inside
  <2> QED  BY <2>1, <2>2, <2>3
<1>6. PICK p : p = Len(fs)
  OBVIOUS
<1>7. \A d : GoesInside(g, fs, d, p)
  BY <1>4, <1>5, <1>6 DEF GoesInside
<1> QED  BY <1>1, <1>4, <1>5, <1>7, InsideStep

LEMMA ReturningInside ==
  ASSUME Shape, OneInside, NEW g \in Procs, NEW c \in Conn, NEW fs, Returning(g, c, fs)
  PROVE  OneInside'
<1>1. Pushing(g, fs) /\ Head(stack[g]) = Frame("once", c) /\ Len(fs) = 0
  BY DEF Returning, Replacing
<1>2. conns' = [conns EXCEPT ![c].once = "done", ![c].owner = Nobody]
  BY DEF Returning
<1>3. \A d \in Conn \ {c} : conns'[d] = conns[d]
  BY <1>2, OnceFields
<1>4. Inside(Head(stack[g]), c)
  BY <1>1 DEF Inside, Frame
<1>5. \A k \in 1..Len(fs) : FALSE
  BY <1>1
<1>6. \A d \in Conn : conns[d].once = "running" =>
                        conns'[d].once = "running" \/ Inside(Head(stack[g]), d)
  BY <1>3, <1>4
<1>7. \A d : GoesInside(g, fs, d, 1)
  BY <1>5 DEF GoesInside
<1> QED  BY <1>1, <1>5, <1>6, <1>7, InsideStep

\* A call of an application goroutine that was in none.
LEMMA UserCallInside ==
  ASSUME Shape, TickerStack, OneInside, NEW g \in Users, UserCall(g)
  PROVE  TickerStack' /\ OneInside'
<1>1. stack[g] = <<>> /\ g \in Procs /\ conns' = conns /\ Conn' = Conn
  BY UserCallStack DEF Conn
<1>2. PICK f \in Frames : f.at \in API /\ stack' = [stack EXCEPT ![g] = <<f>>]
  BY UserCallStack
<1>3. stack'[g] = <<f>> /\ \A h \in Procs \ {g} : stack'[h] = stack[h]
  BY <1>1, <1>2 DEF Shape
<1>4. \A n \in 1..Len(stack'[g]) : stack'[g][n].at \in API
  BY <1>2, <1>3
<1>5. API \cap (Base \cup {"onConnected", "sleep", "once"}) = {}
  BY DEF API, Base
<1>6. Ticker \in Procs \ {g}
  BY ServerThreadsAssumption DEF Procs
<1>7. TickerStack'
  <2>1. stack'[Ticker] = stack[Ticker]
    BY <1>3, <1>6
  <2>2. \A h \in Users : \A n \in 1..Len(stack'[h]) :
          stack'[h][n].at \notin Base \cup {"onConnected"}
    BY <1>3, <1>4, <1>5 DEF TickerStack, Procs
  <2> QED  BY <2>1, <2>2 DEF TickerStack
<1>8. ASSUME NEW h \in Procs, NEW n \in 1..Len(stack'[h]), NEW c,
             Inside(stack'[h][n], c)
      PROVE  h # g /\ stack'[h] = stack[h]
  <2>1. h # g
    BY <1>4, <1>5, <1>8 DEF Inside
  <2> QED  BY <1>3, <2>1
<1>9. OneInside'
  <2>1. ASSUME NEW h \in Procs, NEW c \in Conn, NEW n \in 1..Len(stack'[h]),
               Inside(stack'[h][n], c)
        PROVE  conns'[c].once = "running"
    BY <1>1, <1>8, <2>1 DEF OneInside
  <2>2. ASSUME NEW c \in Conn
        PROVE  Alone(c)'
    <3> SUFFICES ASSUME NEW h \in Procs, NEW j \in Procs,
                        NEW n \in 1..Len(stack'[h]), NEW m \in 1..Len(stack'[j]),
                        Inside(stack'[h][n], c), Inside(stack'[j][m], c)
                 PROVE  h = j /\ n = m
      BY DEF Alone
    <3>1. stack'[h] = stack[h] /\ stack'[j] = stack[j]
      BY <1>8
    <3>2. Alone(c)
      BY DEF OneInside
    <3> QED  BY <3>1, <3>2 DEF Alone
  <2> QED  BY <1>1, <2>1, <2>2 DEF OneInside
<1> QED  BY <1>7, <1>9

\* A step that pushes frames neither of the ticker nor inside a disconnectOnce.
LEMMA PlainStep ==
  ASSUME Shape, TickerStack, OneInside, NEW g \in Procs, NEW fs, Pushing(g, fs),
         \A k \in 1..Len(fs) : fs[k].at \notin Base \cup {"onConnected", "sleep", "once"},
         \A c \in Conn : conns'[c].once = conns[c].once
  PROVE  TickerStack' /\ OneInside'
<1>1. TickerStack'
  BY TickerStackKept
<1>2. OneInside'
  BY PlainInside
<1> QED  BY <1>1, <1>2

LEMMA LockingFrames ==
  ASSUME NEW g, NEW c, NEW fs, Locking(g, c, fs)
  PROVE  \A k \in 1..Len(fs) : fs[k].at \notin Base \cup {"onConnected", "sleep", "once"}
<1>1. /\ Len(fs) \in 2..3 /\ fs[1].at = "OnError" /\ fs[2].at = "Unlock"
      /\ Len(fs) = 3 => fs[3].at \notin Special
  BY DEF Locking, Frame
<1>2. \A k \in 1..Len(fs) : k = 1 \/ k = 2 \/ (k = 3 /\ Len(fs) = 3)
  <2>1. CASE Len(fs) = 2
    BY <2>1
  <2>2. CASE Len(fs) = 3
    BY <2>2
  <2> QED  BY <1>1, <2>1, <2>2
<1> QED  BY <1>1, <1>2 DEF Special, Base

LEMMA TickingFrames ==
  ASSUME NEW fs, Ticking(fs)
  PROVE  \A k \in 1..Len(fs) : /\ fs[k].at \notin {"onConnected", "sleep", "once"}
                               /\ fs[k].at \in Base => k = Len(fs)
<1>1. /\ Len(fs) \in 1..2 /\ fs[Len(fs)].at \in Base
      /\ Len(fs) = 2 => fs[1].at \notin Special
  BY DEF Ticking
<1>2. \A k \in 1..Len(fs) : k = Len(fs) \/ (k = 1 /\ Len(fs) = 2)
  BY <1>1
<1> QED  BY <1>1, <1>2 DEF Special, Base

LEMMA MakingFrames ==
  ASSUME NEW c, NEW i, NEW fs, Making(c, i, fs)
  PROVE  /\ Len(fs) = 3 /\ fs[2] = Frame("onConnected", c)
         /\ \A k \in 1..Len(fs) : /\ fs[k].at \notin {"sleep", "once"}
                                  /\ fs[k].at \in Base => k = 3
                                  /\ fs[k].at = "onConnected" => k = 2
<1>1. /\ Len(fs) = 3 /\ fs[1].at \notin Special /\ fs[2] = Frame("onConnected", c)
      /\ fs[2].at = "onConnected" /\ fs[3].at = "receive"
  BY DEF Making, Frame
<1>2. \A k \in 1..Len(fs) : k = 1 \/ k = 2 \/ k = 3
  BY <1>1
<1> QED  BY <1>1, <1>2 DEF Special, Base

\* The connections there were are not changed when one is made.
LEMMA MakingConns ==
  ASSUME Shape, NEW i \in Id, NEW fs, Making(Len(conns) + 1, i, fs)
  PROVE  /\ Conn' = Conn \cup {Len(conns) + 1} /\ Len(conns) + 1 \notin Conn
         /\ \A d \in Conn : conns'[d] = conns[d]
         /\ conns'[Len(conns) + 1].id = i
<1> DEFINE r == [id |-> i, lock |-> Nobody, once |-> "new", owner |-> Nobody]
<1>1. conns \in Seq(ConnRecord) /\ Len(conns) \in Nat /\ r \in ConnRecord /\ r.id = i
  BY ConnTypes DEF Shape, ConnRecord
<1>2. conns' = Append(conns, r)
  BY DEF Making
<1> HIDE DEF r
<1>3. /\ Len(conns') = Len(conns) + 1 /\ conns' \in Seq(ConnRecord)
      /\ \A d \in 1..Len(conns) : conns'[d] = conns[d]
      /\ conns'[Len(conns) + 1] = r
  BY <1>1, <1>2, AppendProperties
<1>4. Conn' = 1..(Len(conns) + 1) /\ Conn = 1..Len(conns)
  BY <1>1, <1>3, LenProperties DEF Conn
<1>5. 1..(Len(conns) + 1) = 1..Len(conns) \cup {Len(conns) + 1}
  BY <1>1
<1>6. Len(conns) + 1 \notin 1..Len(conns)
  BY <1>1
<1> QED  BY <1>1, <1>3, <1>4, <1>5, <1>6

LEMMA NextInside ==
  ASSUME Shape, TickerStack, OneInside, Kinds
  PROVE  TickerStack' /\ OneInside'
<1>1. Ticker \in Procs
  BY DEF Procs
<1>2. ASSUME NEW g \in Procs, Calling(g), conns' = conns
      PROVE  TickerStack' /\ OneInside'
  <2>1. PICK fs \in Seq(Frames) : Pushing(g, fs) /\ Ordinary(g, fs)
    BY <1>2 DEF Calling
  <2>2. \A k \in 1..Len(fs) : fs[k].at \notin Base \cup {"onConnected", "sleep", "once"}
    BY <2>1 DEF Ordinary, Special
  <2> QED  BY <1>2, <2>1, <2>2, PlainStep
<1>3. ASSUME NEW g \in Procs, NEW c \in Conn, NEW fs, Locking(g, c, fs)
      PROVE  TickerStack' /\ OneInside'
  <2>1. Pushing(g, fs) /\ conns' = [conns EXCEPT ![c].lock = g]
    BY <1>3 DEF Locking, Replacing
  <2>2. \A d \in Conn : conns'[d].once = conns[d].once
    BY <2>1, LockFields
  <2>3. \A k \in 1..Len(fs) : fs[k].at \notin Base \cup {"onConnected", "sleep", "once"}
    BY <1>3, LockingFrames
  <2> QED  BY <2>1, <2>2, <2>3, PlainStep
<1>4. ASSUME NEW g \in Procs, NEW c \in Conn, NEW fs, Unlocking(g, c, fs)
      PROVE  TickerStack' /\ OneInside'
  <2>1. Pushing(g, fs) /\ Len(fs) = 0 /\ conns' = [conns EXCEPT ![c].lock = Nobody]
    BY <1>4 DEF Unlocking, Replacing
  <2>2. \A d \in Conn : conns'[d].once = conns[d].once
    BY <2>1, LockFields
  <2>3. \A k \in 1..Len(fs) : fs[k].at \notin Base \cup {"onConnected", "sleep", "once"}
    BY <2>1
  <2> QED  BY <2>1, <2>2, <2>3, PlainStep
<1>5. ASSUME NEW g \in Procs, NEW c \in Conn, NEW fs, Entering(g, c, fs)
      PROVE  TickerStack' /\ OneInside'
  <2>1. Pushing(g, fs) /\ Len(fs) = 1 /\ fs[1].at = "sleep"
    BY <1>5 DEF Entering, Replacing, Frame
  <2>2. \A k \in 1..Len(fs) : fs[k].at \notin Base \cup {"onConnected"}
    BY <2>1 DEF Base
  <2>3. TickerStack'
    BY <2>1, <2>2, TickerStackKept
  <2> QED  BY <1>5, <2>3, EnteringInside
<1>6. ASSUME NEW g \in Procs, NEW c \in Conn, NEW fs, Waking(g, c, fs)
      PROVE  TickerStack' /\ OneInside'
  <2>1. /\ Pushing(g, fs) /\ Len(fs) \in 1..2 /\ fs[Len(fs)].at = "once"
        /\ Len(fs) = 2 => fs[1].at = "OnDisconnected"
    BY <1>6 DEF Waking, Replacing, Frame
  <2>2. \A k \in 1..Len(fs) : k = Len(fs) \/ (k = 1 /\ Len(fs) = 2)
    BY <2>1
  <2>3. \A k \in 1..Len(fs) : fs[k].at \notin Base \cup {"onConnected"}
    BY <2>1, <2>2 DEF Base
  <2>4. TickerStack'
    BY <2>1, <2>3, TickerStackKept
  <2> QED  BY <1>6, <2>4, WakingInside
<1>7. ASSUME NEW g \in Procs, NEW c \in Conn, NEW fs, Returning(g, c, fs)
      PROVE  TickerStack' /\ OneInside'
  <2>1. Pushing(g, fs) /\ Len(fs) = 0
    BY <1>7 DEF Returning, Replacing
  <2>2. \A k \in 1..Len(fs) : fs[k].at \notin Base \cup {"onConnected"}
    BY <2>1
  <2>3. TickerStack'
    BY <2>1, <2>2, TickerStackKept
  <2> QED  BY <1>7, <2>3, ReturningInside
<1>8. ASSUME NEW g \in Procs, NEW c \in Conn, NEW fs, Joins(g, c, fs)
      PROVE  TickerStack' /\ OneInside'
  <2>1. Pushing(g, fs) /\ Len(fs) = 1 /\ fs[1].at \notin Special /\ conns' = conns
    BY <1>8 DEF Joins, Replacing
  <2>2. \A k \in 1..Len(fs) : fs[k].at \notin Base \cup {"onConnected", "sleep", "once"}
    BY <2>1 DEF Special
  <2> QED  BY <2>1, <2>2, PlainStep
<1>9. ASSUME NEW fs, Ticking(fs)
      PROVE  TickerStack' /\ OneInside'
  <2>1. Pushing(Ticker, fs) /\ Head(stack[Ticker]).at \in Base /\ conns' = conns
    BY <1>9 DEF Ticking, Replacing
  <2>2. \A k \in 1..Len(fs) : /\ fs[k].at \notin {"onConnected", "sleep", "once"}
                              /\ fs[k].at \in Base => k = Len(fs)
    BY <1>9, TickingFrames
  <2>3. TickerStack'
    BY <1>1, <2>1, <2>2, TickerStackKept
  <2>4. OneInside'
    BY <1>1, <2>1, <2>2, PlainInside
  <2> QED  BY <2>3, <2>4
<1>10. ASSUME NEW i \in Id, NEW fs, Making(Len(conns) + 1, i, fs)
       PROVE  TickerStack' /\ OneInside'
  <2>1. PICK c : c = Len(conns) + 1 /\ Making(c, i, fs)
    BY <1>10
  <2>2. Pushing(Ticker, fs) /\ Head(stack[Ticker]).at \in Base
    BY <1>10 DEF Making, Replacing, Base
  <2>3. /\ Len(fs) = 3
        /\ \A k \in 1..Len(fs) : /\ fs[k].at \notin {"sleep", "once"}
                                 /\ fs[k].at \in Base => k = 3
                                 /\ fs[k].at = "onConnected" => k = 2
    BY <2>1, MakingFrames
  <2>4. TickerStack'
    <3>1. \A k \in 1..Len(fs) : /\ fs[k].at \in Base => k = Len(fs)
                                /\ fs[k].at = "onConnected" => k = Len(fs) - 1
      BY <2>3
    <3> QED  BY <1>1, <2>2, <3>1, TickerStackKept
  <2>5. \A d \in Conn : conns'[d].once = conns[d].once
    BY <1>10, MakingConns
  <2>6. OneInside'
    BY <1>1, <2>2, <2>3, <2>5, PlainInside
  <2> QED  BY <2>4, <2>6
<1> QED  BY <1>2, <1>3, <1>4, <1>5, <1>6, <1>7, <1>8, <1>9, <1>10, UserCallInside
            DEF Kinds

----------------------------------------------------------------------------
(* What a step leaves pending and joining. *)

\* Each place after a step.
LEMMA EachPlace ==
  ASSUME Shape, NEW g \in Procs, NEW fs, Pushing(g, fs)
  PROVE  \A h \in Procs : \A k \in 1..Len(stack'[h]) :
           \/ h = g /\ k \in 1..Len(fs) /\ stack'[h][k] = fs[k]
           \/ \E m \in 1..Len(stack[h]) : /\ stack'[h][k] = stack[h][m]
                                          /\ h = g => m \in 2..Len(stack[g])
<1> SUFFICES ASSUME NEW h \in Procs, NEW k \in 1..Len(stack'[h])
             PROVE  \/ h = g /\ k \in 1..Len(fs) /\ stack'[h][k] = fs[k]
                    \/ \E m \in 1..Len(stack[h]) :
                         /\ stack'[h][k] = stack[h][m]
                         /\ h = g => m \in 2..Len(stack[g])
  OBVIOUS
<1>1. CASE h = g /\ k \in 1..Len(fs)
  BY <1>1, NewPlaces
<1>2. CASE ~(h = g /\ k \in 1..Len(fs))
  BY <1>2, OldPlace
<1> QED  BY <1>1, <1>2

LEMMA SleepingStep ==
  ASSUME Shape, NEW g \in Procs, NEW fs, Pushing(g, fs), NEW c, Sleeping(c)'
  PROVE  Sleeping(c) \/ \E k \in 1..Len(fs) : fs[k] = Frame("sleep", c)
<1>1. \A h \in Procs : \A k \in 1..Len(stack'[h]) :
        \/ h = g /\ k \in 1..Len(fs) /\ stack'[h][k] = fs[k]
        \/ \E m \in 1..Len(stack[h]) : /\ stack'[h][k] = stack[h][m]
                                       /\ h = g => m \in 2..Len(stack[g])
  BY EachPlace
<1>2. PICK h \in Procs : \E n \in 1..Len(stack'[h]) : stack'[h][n] = Frame("sleep", c)
  BY DEF Sleeping
<1>3. PICK n \in 1..Len(stack'[h]) : stack'[h][n] = Frame("sleep", c)
  BY <1>2
<1>4. \/ h = g /\ n \in 1..Len(fs) /\ stack'[h][n] = fs[n]
      \/ \E m \in 1..Len(stack[h]) : /\ stack'[h][n] = stack[h][m]
                                     /\ h = g => m \in 2..Len(stack[g])
  BY <1>1
<1> QED  BY <1>3, <1>4 DEF Sleeping

LEMMA JoiningStep ==
  ASSUME Shape, NEW g \in Procs, NEW fs, Pushing(g, fs), NEW c, Joining(c)'
  PROVE  Joining(c) \/ \E k \in 1..Len(fs) : fs[k] = Frame("onConnected", c)
<1>1. \A h \in Procs : \A k \in 1..Len(stack'[h]) :
        \/ h = g /\ k \in 1..Len(fs) /\ stack'[h][k] = fs[k]
        \/ \E m \in 1..Len(stack[h]) : /\ stack'[h][k] = stack[h][m]
                                       /\ h = g => m \in 2..Len(stack[g])
  BY EachPlace
<1>2. PICK n \in 1..Len(stack'[Ticker]) : stack'[Ticker][n] = Frame("onConnected", c)
  BY DEF Joining
<1>3. \/ Ticker = g /\ n \in 1..Len(fs) /\ stack'[Ticker][n] = fs[n]
      \/ \E m \in 1..Len(stack[Ticker]) : /\ stack'[Ticker][n] = stack[Ticker][m]
                                          /\ Ticker = g => m \in 2..Len(stack[g])
  <2>1. Ticker \in Procs
    BY DEF Procs
  <2> QED  BY <1>1, <2>1
<1> QED  BY <1>2, <1>3 DEF Joining

LEMMA JoiningKept ==
  ASSUME Shape, NEW g \in Procs, NEW fs, Pushing(g, fs),
         Head(stack[g]).at # "onConnected", NEW c, Joining(c)
  PROVE  Joining(c)'
<1>1. PICK n \in 1..Len(stack[Ticker]) : stack[Ticker][n] = Frame("onConnected", c)
  BY DEF Joining
<1>2. Ticker \in Procs
  BY DEF Procs
<1>3. CASE g # Ticker
  <2>1. stack'[Ticker] = stack[Ticker]
    BY <1>2, <1>3, NewPlaces
  <2> QED  BY <1>1, <2>1 DEF Joining
<1>4. CASE g = Ticker
  <2>1. stack[g][n].at = "onConnected" /\ stack[g][1].at # "onConnected"
    BY <1>1, <1>4, NewPlaces DEF Frame
  <2>2. n # 1 /\ Len(stack[g]) \in Nat
    BY <2>1, NewPlaces
  <2>3. n \in 2..Len(stack[g])
    BY <1>4, <2>2
  <2>4. /\ n - 1 + Len(fs) \in 1..Len(stack'[g])
        /\ stack'[g][n - 1 + Len(fs)] = stack[g][n]
    BY <2>3, NewPlaces
  <2> QED  BY <1>1, <1>4, <2>4 DEF Joining
<1> QED  BY <1>3, <1>4

\* The connections stay, and nothing becomes pending or joining.
Keeps ==
  /\ Conn' = Conn
  /\ \A c \in Conn : /\ conns'[c].id = conns[c].id
                     /\ Pending(c)' => Pending(c)
                     /\ Joining(c)' => Joining(c)

Steady == Keeps /\ \A c \in Conn : Joining(c) => Joining(c)'

\* A step that pushes no such frame.
LEMMA PlainKeeps ==
  ASSUME Shape, NEW g \in Procs, NEW fs, Pushing(g, fs), Conn' = Conn,
         \A k \in 1..Len(fs) : fs[k].at \notin {"onConnected", "sleep"},
         \A c \in Conn : /\ conns'[c].id = conns[c].id
                         /\ conns'[c].once = "new" => conns[c].once = "new"
  PROVE  Keeps /\ (Head(stack[g]).at # "onConnected" => Steady)
<1>1. \A c : \A k \in 1..Len(fs) :
        fs[k] # Frame("onConnected", c) /\ fs[k] # Frame("sleep", c)
  BY DEF Frame
<1>2. ASSUME NEW c \in Conn, Joining(c)'
      PROVE  Joining(c)
  BY <1>1, <1>2, JoiningStep
<1>3. ASSUME NEW c \in Conn, Pending(c)'
      PROVE  Pending(c)
  <2>1. CASE conns'[c].once = "new"
    BY <2>1 DEF Pending
  <2>2. CASE Sleeping(c)'
    <3>1. Sleeping(c)
      BY <1>1, <2>2, SleepingStep
    <3> QED  BY <3>1 DEF Pending
  <2> QED  BY <1>3, <2>1, <2>2 DEF Pending
<1>4. Keeps
  BY <1>2, <1>3 DEF Keeps
<1>5. ASSUME Head(stack[g]).at # "onConnected", NEW c \in Conn, Joining(c)
      PROVE  Joining(c)'
  BY <1>5, JoiningKept
<1> QED  BY <1>4, <1>5 DEF Steady

LEMMA CallingSteady ==
  ASSUME Shape, NEW g \in Procs, Calling(g), conns' = conns
  PROVE  Steady
<1>1. PICK fs \in Seq(Frames) : Pushing(g, fs) /\ Ordinary(g, fs)
  BY DEF Calling
<1>2. /\ Head(stack[g]).at # "onConnected" /\ Conn' = Conn
      /\ \A k \in 1..Len(fs) : fs[k].at \notin {"onConnected", "sleep"}
  BY <1>1 DEF Ordinary, Special, Conn
<1> QED  BY <1>1, <1>2, PlainKeeps

LEMMA LockingSteady ==
  ASSUME Shape, NEW g \in Procs, NEW c \in Conn, NEW fs,
         Locking(g, c, fs) \/ Unlocking(g, c, fs)
  PROVE  Steady
<1>1. PICK p : conns' = [conns EXCEPT ![c].lock = p]
  BY DEF Locking, Unlocking
<1>2. Pushing(g, fs) /\ Head(stack[g]).at # "onConnected"
  BY DEF Locking, Unlocking, Replacing, Special, Frame
<1>3. \A k \in 1..Len(fs) : fs[k].at \notin {"onConnected", "sleep"}
  <2>1. CASE Locking(g, c, fs)
    BY <2>1, LockingFrames
  <2>2. CASE Unlocking(g, c, fs)
    BY <2>2 DEF Unlocking
  <2> QED  BY <2>1, <2>2
<1>4. Conn' = Conn
  BY <1>1, ConnKept
<1>5. \A d \in Conn : conns'[d].id = conns[d].id /\ conns'[d].once = conns[d].once
  BY <1>1, LockFields
<1> QED  BY <1>2, <1>3, <1>4, <1>5, PlainKeeps

LEMMA EnteringSteady ==
  ASSUME Shape, NEW g \in Procs, NEW c \in Conn, NEW fs, Entering(g, c, fs)
  PROVE  Steady
<1>1. /\ Pushing(g, fs) /\ Len(fs) = 1 /\ fs[1] = Frame("sleep", c)
      /\ conns[c].once = "new" /\ Head(stack[g]).at # "onConnected"
  BY DEF Entering, Replacing, Special
<1>2. conns' = [conns EXCEPT ![c].once = "running", ![c].owner = g]
  BY DEF Entering
<1>3. /\ \A d \in Conn \ {c} : conns'[d] = conns[d]
      /\ conns'[c].lock = conns[c].lock /\ conns'[c].owner = g
      /\ conns'[c].once = "running" /\ conns'[c].id = conns[c].id
  BY <1>2, OnceFields
<1>4. Conn' = Conn
  BY <1>2, ConnKept
<1>5. \A k \in 1..Len(fs) : k = 1
  BY <1>1
<1>6. ASSUME NEW d \in Conn, Pending(d)'
      PROVE  Pending(d)
  <2>1. CASE d = c
    BY <1>1, <2>1 DEF Pending
  <2>2. CASE d # c
    <3>1. \A k \in 1..Len(fs) : fs[k] # Frame("sleep", d)
      BY <1>1, <1>5, <2>2, FrameInjective
    <3>2. Sleeping(d)' => Sleeping(d)
      BY <1>1, <3>1, SleepingStep
    <3> QED  BY <1>3, <1>6, <2>2, <3>2 DEF Pending
  <2> QED  BY <2>1, <2>2
<1>7. ASSUME NEW d \in Conn, Joining(d)'
      PROVE  Joining(d)
  <2>1. \A k \in 1..Len(fs) : fs[k] # Frame("onConnected", d)
    BY <1>1, <1>5, FrameInjective
  <2> QED  BY <1>1, <1>7, <2>1, JoiningStep
<1>8. ASSUME NEW d \in Conn, Joining(d)
      PROVE  Joining(d)'
  BY <1>1, <1>8, JoiningKept
<1> QED  BY <1>3, <1>4, <1>6, <1>7, <1>8 DEF Steady, Keeps

\* After the sleep the connection is not pending any more.
LEMMA WakingSteady ==
  ASSUME Shape, OneInside, NEW g \in Procs, NEW c \in Conn, NEW fs, Waking(g, c, fs)
  PROVE  Steady /\ Pending(c) /\ ~Pending(c)'
<1>1. /\ Pushing(g, fs) /\ Len(fs) \in 1..2 /\ fs[Len(fs)].at = "once"
      /\ Len(fs) = 2 => fs[1].at = "OnDisconnected"
      /\ Head(stack[g]) = Frame("sleep", c) /\ conns' = conns
  BY DEF Waking, Replacing, Frame
<1>2. \A k \in 1..Len(fs) : k = Len(fs) \/ (k = 1 /\ Len(fs) = 2)
  BY <1>1
<1>3. \A k \in 1..Len(fs) : fs[k].at \notin {"onConnected", "sleep"}
  BY <1>1, <1>2
<1>4. Head(stack[g]).at # "onConnected" /\ Conn' = Conn
  BY <1>1 DEF Frame, Conn
<1>5. Steady
  BY <1>1, <1>3, <1>4, PlainKeeps
<1>6. stack[g][1] = Frame("sleep", c) /\ 1 \in 1..Len(stack[g])
  BY <1>1, NewPlaces
<1>7. Pending(c)
  BY <1>6 DEF Pending, Sleeping
<1>8. conns[c].once = "running" /\ OnlyHead(g, c)
  <2>1. Inside(stack[g][1], c)
    BY <1>6 DEF Inside, Frame
  <2> QED  BY <1>6, <2>1 DEF OneInside, Alone, OnlyHead
<1>9. ASSUME NEW h \in Procs, NEW n \in 1..Len(stack'[h])
      PROVE  stack'[h][n] # Frame("sleep", c)
  <2>1. CASE n \in 1..Len(fs) /\ stack'[h][n] = fs[n]
    BY <1>3, <2>1 DEF Frame
  <2>2. ASSUME NEW m \in 1..Len(stack[h]), stack'[h][n] = stack[h][m],
               h = g => m \in 2..Len(stack[g])
        PROVE  stack'[h][n] # Frame("sleep", c)
    <3>1. ~Inside(stack[h][m], c)
      BY <1>8, <2>2 DEF OnlyHead
    <3> QED  BY <2>2, <3>1 DEF Inside, Frame
  <2> QED  BY <1>1, <2>1, <2>2, EachPlace
<1>10. ~Sleeping(c)'
  BY <1>9 DEF Sleeping
<1>11. conns'[c].once # "new"
  BY <1>1, <1>8
<1> QED  BY <1>5, <1>7, <1>10, <1>11 DEF Pending

LEMMA ReturningSteady ==
  ASSUME Shape, NEW g \in Procs, NEW c \in Conn, NEW fs, Returning(g, c, fs)
  PROVE  Steady
<1>1. Pushing(g, fs) /\ Len(fs) = 0 /\ Head(stack[g]).at # "onConnected"
  BY DEF Returning, Replacing, Frame
<1>2. conns' = [conns EXCEPT ![c].once = "done", ![c].owner = Nobody]
  BY DEF Returning
<1>3. /\ \A d \in Conn \ {c} : conns'[d] = conns[d]
      /\ conns'[c].lock = conns[c].lock /\ conns'[c].owner = Nobody
      /\ conns'[c].once = "done" /\ conns'[c].id = conns[c].id
  BY <1>2, OnceFields
<1>4. Conn' = Conn
  BY <1>2, ConnKept
<1>5. \A k \in 1..Len(fs) : fs[k].at \notin {"onConnected", "sleep"}
  BY <1>1
<1>6. \A d \in Conn : /\ conns'[d].id = conns[d].id
                      /\ conns'[d].once = "new" => conns[d].once = "new"
  BY <1>3
<1> QED  BY <1>1, <1>4, <1>5, <1>6, PlainKeeps

LEMMA TickingSteady ==
  ASSUME Shape, NEW fs, Ticking(fs)
  PROVE  Steady
<1>1. Pushing(Ticker, fs) /\ Head(stack[Ticker]).at # "onConnected" /\ conns' = conns
  BY DEF Ticking, Replacing, Base
<1>2. Conn' = Conn /\ Ticker \in Procs
  BY <1>1 DEF Conn, Procs
<1>3. \A k \in 1..Len(fs) : fs[k].at \notin {"onConnected", "sleep"}
  BY TickingFrames
<1> QED  BY <1>1, <1>2, <1>3, PlainKeeps

\* The ticker makes one connection at a time.
LEMMA JoinsKeeps ==
  ASSUME Shape, TickerStack, NEW g \in Procs, NEW c \in Conn, NEW fs, Joins(g, c, fs)
  PROVE  /\ Keeps /\ Joining(c) /\ \A d \in Conn : Joining(d) => d = c
         /\ \A d \in Conn : ~Joining(d)'
<1>1. /\ Pushing(g, fs) /\ Head(stack[g]) = Frame("onConnected", c) /\ Len(fs) = 1
      /\ fs[1].at \notin Special /\ conns' = conns
  BY DEF Joins, Replacing
<1>2. \A k \in 1..Len(fs) : fs[k].at \notin {"onConnected", "sleep"}
  BY <1>1 DEF Special
<1>3. Keeps
  <2>1. Conn' = Conn
    BY <1>1 DEF Conn
  <2> QED  BY <1>1, <1>2, <2>1, PlainKeeps
<1>4. stack[g][1] = Frame("onConnected", c) /\ 1 \in 1..Len(stack[g])
  BY <1>1, NewPlaces
<1>5. g = Ticker
  BY <1>4 DEF TickerStack, Procs, Frame
<1>6. \A m \in 1..Len(stack[Ticker]) : stack[Ticker][m].at = "onConnected" => m = 1
  <2>1. 1 = Len(stack[Ticker]) - 1
    <3>1. stack[Ticker][1].at = "onConnected" /\ 1 \in 1..Len(stack[Ticker])
      BY <1>4, <1>5 DEF Frame
    <3> QED  BY <3>1 DEF TickerStack
  <2> QED  BY <2>1 DEF TickerStack
<1>7. Joining(c)
  BY <1>4, <1>5 DEF Joining
<1>8. ASSUME NEW d \in Conn, Joining(d)
      PROVE  d = c
  <2>1. PICK m \in 1..Len(stack[Ticker]) : stack[Ticker][m] = Frame("onConnected", d)
    BY <1>8 DEF Joining
  <2>2. m = 1
    BY <1>6, <2>1 DEF Frame
  <2> QED  BY <1>4, <1>5, <2>1, <2>2, FrameInjective
<1>9. ASSUME NEW n \in 1..Len(stack'[Ticker])
      PROVE  stack'[Ticker][n].at # "onConnected"
  <2>1. \/ n \in 1..Len(fs) /\ stack'[g][n] = fs[n]
        \/ \E m \in 1..Len(stack[g]) : /\ stack'[g][n] = stack[g][m]
                                       /\ m \in 2..Len(stack[g])
    <3>1. n \in 1..Len(stack'[g])
      BY <1>5
    <3> QED  BY <1>1, <3>1, EachPlace
  <2>2. CASE n \in 1..Len(fs) /\ stack'[g][n] = fs[n]
    BY <1>2, <1>5, <2>2
  <2>3. ASSUME NEW m \in 2..Len(stack[g]), stack'[g][n] = stack[g][m],
               m \in 1..Len(stack[g])
        PROVE  stack'[Ticker][n].at # "onConnected"
    BY <1>5, <1>6, <2>3
  <2> QED  BY <2>1, <2>2, <2>3
<1>10. \A d \in Conn : ~Joining(d)'
  BY <1>9 DEF Joining, Frame
<1> QED  BY <1>3, <1>7, <1>8, <1>10

\* And while it makes one, no other is joining.
LEMMA MakingAlone ==
  ASSUME Shape, TickerStack, NEW c, NEW i \in Id, NEW fs,
         c = Len(conns) + 1, Making(c, i, fs)
  PROVE  /\ \A d : ~Joining(d)
         /\ \A d : Joining(d)' => d = c
         /\ Joining(c)'
         /\ \A d \in Conn : Pending(d)' => Pending(d)
<1>2. Pushing(Ticker, fs) /\ Head(stack[Ticker]).at = "receive" /\ Ticker \in Procs
  BY DEF Making, Replacing, Procs
<1>3. /\ Len(fs) = 3 /\ fs[2] = Frame("onConnected", c)
      /\ \A k \in 1..Len(fs) : /\ fs[k].at \notin {"sleep", "once"}
                               /\ fs[k].at \in Base => k = 3
                               /\ fs[k].at = "onConnected" => k = 2
  BY MakingFrames
<1>4. Head(stack[Ticker]) = stack[Ticker][1] /\ 1 \in 1..Len(stack[Ticker])
  BY <1>2, NewPlaces
<1>5. Len(stack[Ticker]) = 1
  BY <1>2, <1>4 DEF TickerStack, Base
<1>6. \A d : ~Joining(d)
  <2>1. \A n \in 1..Len(stack[Ticker]) : stack[Ticker][n].at = "receive"
    BY <1>2, <1>4, <1>5
  <2> QED  BY <2>1 DEF Joining, Frame
<1>7. ASSUME NEW d, Joining(d)'
      PROVE  d = c
  <2>1. PICK k \in 1..Len(fs) : fs[k] = Frame("onConnected", d)
    BY <1>2, <1>6, <1>7, JoiningStep
  <2>2. k = 2
    BY <1>3, <2>1 DEF Frame
  <2> QED  BY <1>3, <2>1, <2>2, FrameInjective
<1>8. Joining(c)'
  <2>0. 2 \in 1..Len(fs)
    BY <1>3
  <2>1. stack'[Ticker][2] = fs[2]
    BY <1>2, <2>0, NewPlaces
  <2>2. Len(stack'[Ticker]) = 3
    <3>1. Len(stack'[Ticker]) = Len(fs) + Len(stack[Ticker]) - 1
      BY <1>2, NewPlaces
    <3> QED  BY <1>3, <1>5, <3>1
  <2> QED  BY <1>3, <2>1, <2>2 DEF Joining
<1>9. ASSUME NEW d \in Conn, Pending(d)'
      PROVE  Pending(d)
  <2>1. conns'[d] = conns[d]
    <3>1. Making(Len(conns) + 1, i, fs)
      OBVIOUS
    <3> QED  BY <3>1, MakingConns
  <2>2. \A k \in 1..Len(fs) : fs[k] # Frame("sleep", d)
    BY <1>3 DEF Frame
  <2>3. Sleeping(d)' => Sleeping(d)
    BY <1>2, <2>2, SleepingStep
  <2> QED  BY <1>9, <2>1, <2>3 DEF Pending
<1> QED  BY <1>6, <1>7, <1>8, <1>9

----------------------------------------------------------------------------
(* The maps. *)

\* Of the connections there were, no two with an id become pending.
LEMMA OnePendingKept ==
  ASSUME OnePending, Keeps
  PROVE  OnePending'
<1>1. Conn' = Conn
  BY DEF Keeps
<1>2. ASSUME NEW c \in Conn, NEW d \in Conn, Pending(c)' \/ Joining(c)',
             Pending(d)' \/ Joining(d)', conns'[c].id = conns'[d].id
      PROVE  c = d
  <2>1. (Pending(c) \/ Joining(c)) /\ (Pending(d) \/ Joining(d))
    BY <1>2 DEF Keeps
  <2>2. conns[c].id = conns[d].id
    BY <1>2 DEF Keeps
  <2> QED  BY <2>1, <2>2 DEF OnePending
<1> QED  BY <1>1, <1>2 DEF OnePending

\* A pending connection of the map that is to be removed stays not pending.
LEMMA NotPendingKept ==
  ASSUME Shape, Keeps, NEW i \in DOMAIN connections, ~Pending(connections[i]),
         connections'[i] = connections[i]
  PROVE  ~Pending(connections[i])'
<1>1. PICK c \in Conn : c = connections[i]
  BY DEF Shape
<1>2. ~Pending(c)'
  BY <1>1 DEF Keeps
<1>3. c = connections'[i]
  BY <1>1
<1> QED  BY <1>2, <1>3 DEF Pending, Sleeping

LEMMA SteadyMapInv ==
  ASSUME Shape, MapInv, Steady, UNCHANGED <<connections, toRemove, listening, starts>>
  PROVE  MapInv'
<1>1. Keeps /\ Conn' = Conn
  BY DEF Steady, Keeps
<1>2. /\ connections' = connections /\ toRemove' = toRemove
      /\ listening' = listening /\ starts' = starts
  OBVIOUS
<1>3. StartedOnce'
  BY <1>1, <1>2 DEF MapInv, StartedOnce
<1>4. JoiningIsNew'
  BY <1>1, <1>2 DEF MapInv, JoiningIsNew, Keeps
<1>5. MapHasPending'
  BY <1>1, <1>2 DEF MapInv, MapHasPending, Keeps
<1>6. PendingIsInMap'
  <2> SUFFICES ASSUME NEW c \in Conn, listening, Pending(c)'
               PROVE  conns'[c].id \in DOMAIN connections \/ Joining(c)'
    BY <1>1, <1>2 DEF PendingIsInMap
  <2>1. conns[c].id \in DOMAIN connections \/ Joining(c)
    BY <1>1 DEF MapInv, PendingIsInMap, Keeps
  <2> QED  BY <1>1, <2>1 DEF Steady, Keeps
<1>7. OnePending'
  BY <1>1, OnePendingKept DEF MapInv
<1>8. RemovedNotPending'
  <2> SUFFICES ASSUME NEW i \in toRemove
               PROVE  i \in DOMAIN connections /\ ~Pending(connections[i])'
    BY <1>2 DEF RemovedNotPending
  <2>1. i \in DOMAIN connections /\ ~Pending(connections[i])
    BY DEF MapInv, RemovedNotPending
  <2> QED  BY <1>1, <1>2, <2>1, NotPendingKept
<1> QED  BY <1>3, <1>4, <1>5, <1>6, <1>7, <1>8 DEF MapInv

LEMMA StopMapInv ==
  ASSUME Shape, MapInv, Keeps, connections' = <<>>, toRemove' = {}, listening' = FALSE,
         starts' = starts
  PROVE  MapInv'
<1>1. Conn' = Conn /\ ~listening' /\ DOMAIN connections' = {}
  BY DEF Keeps
<1>2. StartedOnce'
  BY <1>1 DEF MapInv, StartedOnce
<1>3. JoiningIsNew'
  BY <1>1 DEF JoiningIsNew
<1>4. MapHasPending'
  BY <1>1 DEF MapHasPending
<1>5. PendingIsInMap'
  BY <1>1 DEF PendingIsInMap
<1>6. OnePending'
  BY OnePendingKept DEF MapInv
<1>7. RemovedNotPending'
  BY DEF RemovedNotPending
<1> QED  BY <1>2, <1>3, <1>4, <1>5, <1>6, <1>7 DEF MapInv

\* The one time the server is started, there was no connection yet.
LEMMA StartMapInv ==
  ASSUME Shape, MapInv, Keeps, starts = 0, starts' = 1, connections' = connections,
         toRemove' = toRemove
  PROVE  MapInv'
<1>1. Conn' = {} /\ Conn = {}
  BY DEF Keeps, MapInv, StartedOnce
<1>2. toRemove = {}
  BY <1>1 DEF MapInv, RemovedNotPending, Shape
<1>3. StartedOnce'
  BY DEF StartedOnce
<1>4. JoiningIsNew'
  BY <1>1 DEF JoiningIsNew
<1>5. MapHasPending'
  BY <1>1 DEF MapHasPending
<1>6. PendingIsInMap'
  BY <1>1 DEF PendingIsInMap
<1>7. OnePending'
  BY <1>1 DEF OnePending
<1>8. RemovedNotPending'
  BY <1>2 DEF RemovedNotPending
<1> QED  BY <1>3, <1>4, <1>5, <1>6, <1>7, <1>8 DEF MapInv

LEMMA onDisconnectedMapInv ==
  ASSUME Shape, OneInside, MapInv, NEW g \in Procs, onDisconnected(g)
  PROVE  MapInv'
<1>1. PICK c \in Conn, fs \in Seq(Frames) :
        /\ Waking(g, c, fs)
        /\ toRemove' = IF conns[c].id \in DOMAIN connections /\ conns[c].id \notin toRemove
                       THEN toRemove \cup {conns[c].id} ELSE toRemove
  BY onDisconnectedWakes
<1>2. connections' = connections /\ listening' = listening /\ starts' = starts
  BY DEF onDisconnected
<1>3. Steady /\ Pending(c) /\ ~Pending(c)'
  BY <1>1, WakingSteady
<1>4. Keeps /\ Conn' = Conn
  BY <1>3 DEF Steady, Keeps
<1>5. StartedOnce'
  BY <1>2, <1>4 DEF MapInv, StartedOnce
<1>6. JoiningIsNew'
  BY <1>2, <1>4 DEF MapInv, JoiningIsNew, Keeps
<1>7. MapHasPending'
  BY <1>2, <1>4 DEF MapInv, MapHasPending, Keeps
<1>8. PendingIsInMap'
  <2> SUFFICES ASSUME NEW d \in Conn, listening, Pending(d)'
               PROVE  conns'[d].id \in DOMAIN connections \/ Joining(d)'
    BY <1>2, <1>4 DEF PendingIsInMap
  <2>1. conns[d].id \in DOMAIN connections \/ Joining(d)
    BY <1>4 DEF MapInv, PendingIsInMap, Keeps
  <2> QED  BY <1>3, <1>4, <2>1 DEF Steady, Keeps
<1>9. OnePending'
  BY <1>4, OnePendingKept DEF MapInv
<1>10. RemovedNotPending'
  <2> SUFFICES ASSUME NEW i \in toRemove'
               PROVE  i \in DOMAIN connections /\ ~Pending(connections[i])'
    BY <1>2 DEF RemovedNotPending
  <2>1. CASE i \in toRemove
    <3>1. i \in DOMAIN connections /\ ~Pending(connections[i])
      BY <2>1 DEF MapInv, RemovedNotPending
    <3> QED  BY <1>2, <1>4, <3>1, NotPendingKept
  <2>2. CASE i \notin toRemove
    <3>1. i = conns[c].id /\ i \in DOMAIN connections
      BY <1>1, <2>2
    <3>2. connections[i] = c /\ connections'[i] = c
      BY <1>2, <1>3, <3>1 DEF MapInv, MapHasPending
    <3> QED  BY <1>3, <3>1, <3>2 DEF Pending, Sleeping
  <2> QED  BY <2>1, <2>2
<1> QED  BY <1>5, <1>6, <1>7, <1>8, <1>9, <1>10 DEF MapInv

LEMMA onConnectedMapInv ==
  ASSUME Shape, TickerStack, MapInv, NEW g \in Procs, onConnected(g)
  PROVE  MapInv'
<1>1. PICK c \in Conn, fs \in Seq(Frames) :
        /\ Joins(g, c, fs)
        /\ connections' = [i \in DOMAIN connections \cup {conns[c].id} |->
                             IF i = conns[c].id THEN c ELSE connections[i]]
  BY onConnectedJoins
<1>2. toRemove' = toRemove /\ listening' = listening /\ starts' = starts
  BY DEF onConnected
<1>3. /\ Keeps /\ Joining(c) /\ \A d \in Conn : Joining(d) => d = c
      /\ \A d \in Conn : ~Joining(d)'
  BY <1>1, JoinsKeeps
<1>4. Conn' = Conn /\ conns[c].id \notin DOMAIN connections
  BY <1>3 DEF Keeps, MapInv, JoiningIsNew
<1>5. /\ DOMAIN connections' = DOMAIN connections \cup {conns[c].id}
      /\ connections'[conns[c].id] = c
      /\ \A i \in DOMAIN connections : connections'[i] = connections[i]
  BY <1>1, <1>4
<1>6. StartedOnce'
  BY <1>2, <1>4 DEF MapInv, StartedOnce
<1>7. JoiningIsNew'
  BY <1>3, <1>4 DEF JoiningIsNew
<1>8. MapHasPending'
  <2> SUFFICES ASSUME NEW d \in Conn, Pending(d)', conns'[d].id \in DOMAIN connections'
               PROVE  connections'[conns'[d].id] = d
    BY <1>4 DEF MapHasPending
  <2>1. Pending(d) /\ conns'[d].id = conns[d].id
    BY <1>3 DEF Keeps
  <2>2. CASE conns[d].id = conns[c].id
    <3>1. d = c
      BY <1>3, <2>1, <2>2 DEF MapInv, OnePending
    <3> QED  BY <1>5, <2>1, <3>1
  <2>3. CASE conns[d].id # conns[c].id
    <3>1. conns[d].id \in DOMAIN connections
      BY <1>5, <2>1, <2>3
    <3> QED  BY <1>5, <2>1, <3>1 DEF MapInv, MapHasPending
  <2> QED  BY <2>2, <2>3
<1>9. PendingIsInMap'
  <2> SUFFICES ASSUME NEW d \in Conn, listening, Pending(d)'
               PROVE  conns'[d].id \in DOMAIN connections'
    BY <1>2, <1>4 DEF PendingIsInMap
  <2>1. Pending(d) /\ conns'[d].id = conns[d].id
    BY <1>3 DEF Keeps
  <2>2. conns[d].id \in DOMAIN connections \/ Joining(d)
    BY <2>1 DEF MapInv, PendingIsInMap
  <2> QED  BY <1>3, <1>5, <2>1, <2>2
<1>10. OnePending'
  BY <1>3, OnePendingKept DEF MapInv
<1>11. RemovedNotPending'
  <2> SUFFICES ASSUME NEW i \in toRemove
               PROVE  i \in DOMAIN connections' /\ ~Pending(connections[i])'
    BY <1>2 DEF RemovedNotPending
  <2>1. i \in DOMAIN connections /\ ~Pending(connections[i])
    BY DEF MapInv, RemovedNotPending
  <2>2. connections'[i] = connections[i]
    BY <1>5, <2>1
  <2> QED  BY <1>3, <1>5, <2>1, <2>2, NotPendingKept
<1> QED  BY <1>6, <1>7, <1>8, <1>9, <1>10, <1>11 DEF MapInv

\* The tick deletes what is to be removed, which nobody pending is.
LEMMA TickAllMapInv ==
  ASSUME Shape, MapInv, TickAll
  PROVE  MapInv'
<1>1. Steady
  BY TickAllTicks, TickingSteady
<1>2. Keeps /\ Conn' = Conn
  BY <1>1 DEF Steady, Keeps
<1>3. listening' = listening /\ starts' = starts
  BY DEF TickAll
<1>4. CASE UNCHANGED <<connections, toRemove>>
  BY <1>1, <1>3, <1>4, SteadyMapInv
<1>5. CASE /\ connections' = Restrict(connections, DOMAIN connections \ toRemove)
           /\ toRemove' = {}
  <2>1. /\ DOMAIN connections' = DOMAIN connections \ toRemove
        /\ \A i \in DOMAIN connections' : connections'[i] = connections[i]
    BY <1>5 DEF Restrict
  <2>2. StartedOnce'
    BY <1>2, <1>3 DEF MapInv, StartedOnce
  <2>3. JoiningIsNew'
    BY <1>2, <2>1 DEF MapInv, JoiningIsNew, Keeps
  <2>4. MapHasPending'
    <3> SUFFICES ASSUME NEW c \in Conn, Pending(c)', conns'[c].id \in DOMAIN connections'
                 PROVE  connections'[conns'[c].id] = c
      BY <1>2 DEF MapHasPending
    <3>1. Pending(c) /\ conns'[c].id = conns[c].id
      BY <1>2 DEF Keeps
    <3>2. conns[c].id \in DOMAIN connections
      BY <2>1, <3>1
    <3>3. connections[conns[c].id] = c
      BY <3>1, <3>2 DEF MapInv, MapHasPending
    <3> QED  BY <2>1, <3>1, <3>3
  <2>5. PendingIsInMap'
    <3> SUFFICES ASSUME NEW c \in Conn, listening, Pending(c)'
                 PROVE  conns'[c].id \in DOMAIN connections' \/ Joining(c)'
      BY <1>2, <1>3 DEF PendingIsInMap
    <3>1. Pending(c) /\ conns'[c].id = conns[c].id
      BY <1>2 DEF Keeps
    <3>2. CASE Joining(c)
      BY <1>1, <3>2 DEF Steady
    <3>3. CASE conns[c].id \in DOMAIN connections
      <4>1. connections[conns[c].id] = c
        BY <3>1, <3>3 DEF MapInv, MapHasPending
      <4>2. conns[c].id \notin toRemove
        BY <3>1, <4>1 DEF MapInv, RemovedNotPending
      <4> QED  BY <2>1, <3>1, <3>3, <4>2
    <3> QED  BY <3>1, <3>2, <3>3 DEF MapInv, PendingIsInMap
  <2>6. OnePending'
    BY <1>2, OnePendingKept DEF MapInv
  <2>7. RemovedNotPending'
    BY <1>5 DEF RemovedNotPending
  <2> QED  BY <2>2, <2>3, <2>4, <2>5, <2>6, <2>7 DEF MapInv
<1> QED  BY <1>4, <1>5 DEF TickAll

\* The Hello of an id the map does not have: nobody with it is pending.
LEMMA MakingMapInv ==
  ASSUME Shape, TickerStack, MapInv, listening,
         UNCHANGED <<connections, toRemove, listening, starts>>,
         NEW i \in Id \ (toRemove \cup DOMAIN connections), NEW fs,
         Making(Len(conns) + 1, i, fs)
  PROVE  MapInv'
<1>1. PICK c : c = Len(conns) + 1 /\ Making(c, i, fs)
  OBVIOUS
<1>2. /\ connections' = connections /\ toRemove' = toRemove
      /\ listening' = listening /\ starts' = starts
  OBVIOUS
<1>3. /\ Conn' = Conn \cup {c} /\ c \notin Conn
      /\ \A d \in Conn : conns'[d] = conns[d]
      /\ conns'[c].id = i
  BY <1>1, MakingConns
<1>4. /\ \A d : ~Joining(d)
      /\ \A d : Joining(d)' => d = c
      /\ Joining(c)'
      /\ \A d \in Conn : Pending(d)' => Pending(d)
  BY <1>1, MakingAlone
<1>5. ASSUME NEW d \in Conn, Pending(d)
      PROVE  conns[d].id \in DOMAIN connections /\ conns[d].id # i
  <2>1. conns[d].id \in DOMAIN connections
    BY <1>4, <1>5 DEF MapInv, PendingIsInMap
  <2> QED  BY <2>1
<1>6. StartedOnce'
  <2>1. starts # 0
    BY DEF MapInv, StartedOnce
  <2> QED  BY <1>2, <2>1 DEF StartedOnce
<1>7. JoiningIsNew'
  BY <1>2, <1>3, <1>4 DEF JoiningIsNew
<1>8. MapHasPending'
  <2> SUFFICES ASSUME NEW d \in Conn', Pending(d)', conns'[d].id \in DOMAIN connections
               PROVE  connections[conns'[d].id] = d
    BY <1>2 DEF MapHasPending
  <2>1. d \in Conn
    BY <1>3
  <2> QED  BY <1>3, <1>4, <2>1 DEF MapInv, MapHasPending
<1>9. PendingIsInMap'
  <2> SUFFICES ASSUME NEW d \in Conn', Pending(d)'
               PROVE  conns'[d].id \in DOMAIN connections \/ Joining(d)'
    BY <1>2 DEF PendingIsInMap
  <2>1. CASE d = c
    BY <1>4, <2>1
  <2>2. CASE d \in Conn
    BY <1>3, <1>4, <1>5, <2>2
  <2> QED  BY <1>3, <2>1, <2>2
<1>10. OnePending'
  <2> SUFFICES ASSUME NEW a \in Conn', NEW b \in Conn', Pending(a)' \/ Joining(a)',
                      Pending(b)' \/ Joining(b)', conns'[a].id = conns'[b].id
               PROVE  a = b
    BY DEF OnePending
  <2>1. ASSUME NEW d \in Conn, Pending(d)' \/ Joining(d)'
        PROVE  Pending(d) /\ conns'[d].id = conns[d].id
    BY <1>3, <1>4, <2>1
  <2>2. CASE a \in Conn /\ b \in Conn
    <3>1. /\ Pending(a) /\ conns'[a].id = conns[a].id
          /\ Pending(b) /\ conns'[b].id = conns[b].id
      BY <2>1, <2>2
    <3> QED  BY <2>2, <3>1 DEF MapInv, OnePending
  <2>3. ASSUME NEW d \in Conn, Pending(d)' \/ Joining(d)'
        PROVE  conns'[d].id # conns'[c].id
    BY <1>3, <1>5, <2>1, <2>3
  <2>4. CASE a \notin Conn \/ b \notin Conn
    BY <1>3, <2>3, <2>4
  <2> QED  BY <2>2, <2>4
<1>11. RemovedNotPending'
  <2> SUFFICES ASSUME NEW j \in toRemove
               PROVE  j \in DOMAIN connections /\ ~Pending(connections[j])'
    BY <1>2 DEF RemovedNotPending
  <2>1. j \in DOMAIN connections /\ ~Pending(connections[j])
    BY DEF MapInv, RemovedNotPending
  <2>2. PICK d \in Conn : d = connections[j]
    BY <2>1 DEF Shape
  <2>3. ~Pending(d)' /\ d = connections'[j]
    BY <1>2, <1>4, <2>1, <2>2
  <2> QED  BY <2>1, <2>3 DEF Pending, Sleeping
<1> QED  BY <1>6, <1>7, <1>8, <1>9, <1>10, <1>11 DEF MapInv

LEMMA UserCallSteady ==
  ASSUME Shape, NEW g \in Users, UserCall(g)
  PROVE  Steady
<1>1. stack[g] = <<>> /\ g \in Procs /\ conns' = conns /\ Conn' = Conn
  BY UserCallStack DEF Conn
<1>2. PICK f \in Frames : f.at \in API /\ stack' = [stack EXCEPT ![g] = <<f>>]
  BY UserCallStack
<1>3. stack'[g] = <<f>> /\ \A h \in Procs \ {g} : stack'[h] = stack[h]
  BY <1>1, <1>2 DEF Shape
<1>4. stack'[Ticker] = stack[Ticker]
  BY <1>3, ServerThreadsAssumption DEF Procs
<1>5. \A n \in 1..Len(stack'[g]) : stack'[g][n].at # "sleep"
  BY <1>2, <1>3 DEF API
<1>6. ASSUME NEW c, Sleeping(c)'
      PROVE  Sleeping(c)
  <2>1. PICK h \in Procs : \E n \in 1..Len(stack'[h]) : stack'[h][n] = Frame("sleep", c)
    BY <1>6 DEF Sleeping
  <2>2. h # g
    BY <1>5, <2>1 DEF Frame
  <2> QED  BY <1>3, <2>1, <2>2 DEF Sleeping
<1>7. ASSUME NEW c \in Conn
      PROVE  (Pending(c)' => Pending(c)) /\ Joining(c)' = Joining(c)
  <2>1. Pending(c)' => Pending(c)
    BY <1>1, <1>6 DEF Pending
  <2>2. Joining(c)' = Joining(c)
    BY <1>4 DEF Joining
  <2> QED  BY <2>1, <2>2
<1> QED  BY <1>1, <1>7 DEF Steady, Keeps

LEMMA CallMapInv ==
  ASSUME Shape, TickerStack, OneInside, MapInv, MaxStarts <= 1, NEW g \in Procs, Call(g)
  PROVE  MapInv'
<1>1. CASE CallBack(g)
  BY <1>1, CallBackCalls, CallingSteady, SteadyMapInv DEF CallBack
<1>2. CASE Send(g)
  BY <1>2, SendCalls, CallingSteady, SteadyMapInv DEF Send, Lookup
<1>3. CASE Disconnect(g)
  BY <1>3, DisconnectCalls, CallingSteady, SteadyMapInv DEF Disconnect, Lookup
<1>4. CASE Stop(g)
  <2>1. Steady
    BY <1>4, ReturningCalls, CallingSteady DEF Stop
  <2> QED  BY <1>4, <2>1, StopMapInv DEF Stop, Steady
<1>5. CASE Start(g)
  <2>1. Steady /\ connections' = connections /\ toRemove' = toRemove
    BY <1>5, ReturningCalls, CallingSteady DEF Start
  <2>2. CASE UNCHANGED <<listening, starts>>
    BY <2>1, <2>2, SteadyMapInv
  <2>3. CASE starts < MaxStarts /\ starts' = starts + 1
    <3>1. starts = 0 /\ starts' = 1
      BY <2>3, ServerThreadsAssumption DEF Shape
    <3> QED  BY <2>1, <3>1, StartMapInv DEF Steady
  <2> QED  BY <1>5, <2>2, <2>3 DEF Start
<1>6. CASE SendEmpty(g)
  BY <1>6, SendEmptyCalls, CallingSteady, SteadyMapInv DEF SendEmpty
<1>7. CASE SendReliable(g)
  <2>1. Steady
    BY <1>7, SendReliableLocks, CallingSteady, LockingSteady
  <2> QED  BY <1>7, <2>1, SteadyMapInv DEF SendReliable
<1>8. CASE Unlock(g)
  <2>1. Steady
    BY <1>8, UnlockUnlocks, LockingSteady
  <2> QED  BY <1>8, <2>1, SteadyMapInv DEF Unlock
<1>9. CASE Locked(g)
  BY <1>9, LockedCalls, CallingSteady, SteadyMapInv DEF Locked
<1>10. CASE ReceiveNextReliable(g)
  <2>1. Steady
    BY <1>10, ReceiveNextReliableLocks, CallingSteady, LockingSteady
  <2> QED  BY <1>10, <2>1, SteadyMapInv DEF ReceiveNextReliable
<1>11. CASE PeerDisconnect(g)
  <2>1. Steady
    BY <1>11, PeerDisconnectEnters, CallingSteady, EnteringSteady
  <2> QED  BY <1>11, <2>1, SteadyMapInv DEF PeerDisconnect
<1>12. CASE onDisconnected(g)
  BY <1>12, onDisconnectedMapInv
<1>13. CASE OnceReturns(g)
  <2>1. Steady
    BY <1>13, OnceReturnsReturns, ReturningSteady
  <2> QED  BY <1>13, <2>1, SteadyMapInv DEF OnceReturns
<1>14. CASE onConnected(g)
  BY <1>14, onConnectedMapInv
<1>15. CASE OnRawInputUnreliable(g)
  BY <1>15, OnRawInputUnreliableCalls, CallingSteady, SteadyMapInv DEF OnRawInputUnreliable
<1> QED  BY <1>1, <1>2, <1>3, <1>4, <1>5, <1>6, <1>7, <1>8, <1>9, <1>10, <1>11, <1>12,
            <1>13, <1>14, <1>15 DEF Call

LEMMA NextMapInv ==
  ASSUME Shape, TickerStack, OneInside, MapInv, MaxStarts <= 1, Next
  PROVE  MapInv'
<1>1. Ticker \in Procs
  BY DEF Procs
<1>2. ASSUME NEW g \in Procs, UserCall(g)
      PROVE  MapInv'
  <2>1. Steady
    BY <1>2, UserCallSteady DEF UserCall
  <2> QED  BY <1>2, <2>1, SteadyMapInv DEF UserCall
<1>3. CASE TickIncoming
  BY <1>1, <1>3, TickIncomingCalls, CallingSteady, SteadyMapInv DEF TickIncoming
<1>4. CASE TickOutgoing
  BY <1>1, <1>4, TickOutgoingCalls, CallingSteady, SteadyMapInv DEF TickOutgoing
<1>5. CASE RangeAll
  BY <1>5, RangeAllTicks, TickingSteady, SteadyMapInv DEF RangeAll
<1>6. CASE EndReceive
  BY <1>6, EndReceiveTicks, TickingSteady, SteadyMapInv DEF EndReceive
<1>7. CASE processMessage
  <2>1. UNCHANGED <<connections, toRemove, listening, starts>>
    BY <1>7 DEF processMessage
  <2>2. CASE \E fs \in Seq(Frames) : Ticking(fs)
    BY <2>1, <2>2, TickingSteady, SteadyMapInv
  <2>3. CASE \E i \in Id \ (toRemove \cup DOMAIN connections), fs \in Seq(Frames) :
               listening /\ Making(Len(conns) + 1, i, fs)
    BY <2>1, <2>3, MakingMapInv
  <2> QED  BY <1>7, <2>2, <2>3, processMessageTicks
<1> QED  BY <1>2, <1>3, <1>4, <1>5, <1>6, <1>7, CallMapInv, TickAllMapInv
            DEF Next, Tick

\* What is not pending has begun to disconnect.
LEMMA MapInvRemoved == MapInv => RemovedAreDisconnected
  BY DEF MapInv, RemovedNotPending, RemovedAreDisconnected, Disconnected, Pending

LEMMA InitMapInv == Init => TickerStack /\ OneInside /\ MapInv
<1> SUFFICES ASSUME Init PROVE TickerStack /\ OneInside /\ MapInv
  OBVIOUS
<1>1. Conn = {} /\ toRemove = {} /\ ~listening /\ Ticker \in Procs
  BY DEF Init, Conn, Procs
<1>2. /\ stack[Ticker] = <<Frame("receive", {})>>
      /\ \A g \in Users : stack[g] = <<>>
  BY ServerThreadsAssumption DEF Init, Procs
<1>3. \A n \in 1..Len(stack[Ticker]) :
        stack[Ticker][n].at = "receive" /\ n = Len(stack[Ticker])
  BY <1>2 DEF Frame
<1>4. TickerStack
  BY <1>2, <1>3 DEF TickerStack
<1>5. OneInside
  BY <1>1 DEF OneInside
<1>6. MapInv
  BY <1>1 DEF MapInv, StartedOnce, JoiningIsNew, MapHasPending, PendingIsInMap,
              OnePending, RemovedNotPending
<1> QED  BY <1>4, <1>5, <1>6

(***************************************************************************)
(* onDisconnected marks the connection that disconnected, although it goes *)
(* by the id and looks after a sleep: if the server is started once, what  *)
(* the next tick deletes from the map is no connection that is alive,      *)
(* whatever the callbacks call.  Started a second time, a sleep that began *)
(* before Stop can end after the id connected again.                       *)
(***************************************************************************)
THEOREM OnlyTheDisconnectedAreRemoved ==
  MaxStarts <= 1 /\ Spec => []RemovedAreDisconnected
<1> SUFFICES ASSUME MaxStarts <= 1 PROVE Spec => []RemovedAreDisconnected
  OBVIOUS
<1> DEFINE Inv == TickerStack /\ OneInside /\ MapInv
<1>1. Init => Inv
  BY InitMapInv
<1>2. Shape /\ Inv /\ [Next]_vars => Inv'
  <2> SUFFICES ASSUME Shape, Inv, [Next]_vars PROVE Inv'
    OBVIOUS
  <2>1. CASE Next
    BY <2>1, StepKinds, NextInside, NextMapInv
  <2>2. CASE UNCHANGED vars
    <3>1. TickerStack'
      BY <2>2 DEF vars, TickerStack
    <3>2. OneInside'
      BY <2>2 DEF vars, OneInside, Alone, Conn
    <3>3. MapInv'
      BY <2>2 DEF vars, MapInv, StartedOnce, JoiningIsNew, MapHasPending, PendingIsInMap,
                  OnePending, RemovedNotPending, Pending, Sleeping, Joining, Conn
    <3> QED  BY <3>1, <3>2, <3>3
  <2> QED  BY <2>1, <2>2
<1>3. Inv => RemovedAreDisconnected
  BY MapInvRemoved
<1> QED  BY <1>1, <1>2, <1>3, ShapeInvariant, PTL DEF Spec
============================================================================
