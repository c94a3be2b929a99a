--------------------------- MODULE SessionProofs ---------------------------
(***************************************************************************)
(* Proofs about module Session, for any number of addresses, cookies and   *)
(* connections, and for every behaviour of the network: the callbacks of   *)
(* the server are paired, the state has its shape, the server's user is    *)
(* given the Data of a session once and in order, and the client's user    *)
(* those of one connection.                                                *)
(***************************************************************************)
EXTENDS Session, TLAPS, SequenceTheorems, FiniteSetTheorems, WellFoundedInduction

----------------------------------------------------------------------------
(* The callbacks of the server. *)

\* What PairedCallbacks needs: the counters are numbers.
CallbacksInv ==
  /\ opened \in [Id -> Nat] /\ closed \in [Id -> Nat]
  /\ PairedCallbacks

\* A step that leaves the counters and the map of connections alone.
LEMMA SameCallbacks ==
  ASSUME CallbacksInv, UNCHANGED <<toRemove, opened, closed>>,
         DOMAIN connections' = DOMAIN connections
  PROVE  CallbacksInv'
  BY DEF CallbacksInv, PairedCallbacks

\* The onDisconnected closure reports a connection when it takes it out of
\* those that are not scheduled, and it does both or neither.
LEMMA ScheduleRemovalPairs ==
  ASSUME CallbacksInv, NEW down, ScheduleRemoval(down), UNCHANGED opened,
         DOMAIN connections' = DOMAIN connections
  PROVE  CallbacksInv'
<1> DEFINE new == (down \cap DOMAIN connections) \ toRemove
<1>1. /\ toRemove' = toRemove \cup new
      /\ closed' = [id \in Id |-> IF id \in new THEN closed[id] + 1 ELSE closed[id]]
  BY DEF ScheduleRemoval
<1>2. closed' \in [Id -> Nat]
  BY <1>1 DEF CallbacksInv
<1>3. ASSUME NEW id \in Id
      PROVE  opened'[id] = closed'[id] +
               (IF id \in DOMAIN connections' \ toRemove' THEN 1 ELSE 0)
  <2>1. opened[id] = closed[id] + (IF id \in DOMAIN connections \ toRemove THEN 1 ELSE 0)
    BY DEF CallbacksInv, PairedCallbacks
  <2>2. closed[id] \in Nat
    BY DEF CallbacksInv
  <2>3. CASE id \in new
    BY <1>1, <2>1, <2>2, <2>3
  <2>4. CASE id \notin new
    BY <1>1, <2>1, <2>2, <2>4
  <2> QED
    BY <2>3, <2>4
<1> QED
  BY <1>2, <1>3 DEF CallbacksInv, PairedCallbacks

\* A datagram may end its connection, in the closure.
LEMMA ServerRawInputPairs ==
  ASSUME CallbacksInv, NEW d, ServerRawInput(d)
  PROVE  CallbacksInv'
<1>1. /\ DOMAIN connections' = DOMAIN connections
      /\ UNCHANGED opened
      /\ ScheduleRemoval(Down(connections, connections'))
  BY DEF ServerRawInput
<1> QED
  BY <1>1, ScheduleRemovalPairs, SMTT(30)

\* createConnection reports the connection that it puts into the map; the
\* closure finds none there to report the end of.
LEMMA ServerAcceptPairs ==
  ASSUME CallbacksInv, NEW d, ServerAccept(d)
  PROVE  CallbacksInv'
<1> DEFINE new == Hash[d.addr]
<1>1. new \notin DOMAIN connections \cup toRemove
  BY DEF ServerAccept
<1>2. PICK down \in {{}, {new}} : ScheduleRemoval(down)
  BY DEF ServerAccept
<1>3. toRemove' = toRemove /\ closed' = closed
  BY <1>1, <1>2 DEF ScheduleRemoval, CallbacksInv
<1>4. \/ UNCHANGED <<connections, opened>>
      \/ /\ DOMAIN connections' = DOMAIN connections \cup {new}
         /\ opened' = [opened EXCEPT ![new] = @ + 1]
  BY DEF ServerAccept, With
<1>5. CASE UNCHANGED <<connections, opened>>
  BY <1>3, <1>5, SameCallbacks
<1>6. CASE /\ DOMAIN connections' = DOMAIN connections \cup {new}
           /\ opened' = [opened EXCEPT ![new] = @ + 1]
  <2> HIDE DEF new
  <2>1. opened' \in [Id -> Nat]
    <3>1. opened \in [Id -> Nat]
      BY DEF CallbacksInv
    <3>2. CASE new \in Id
      <4>1. opened[new] + 1 \in Nat
        BY <3>1, <3>2
      <4> QED
        BY <1>6, <3>1, <4>1
    <3>3. CASE new \notin Id
      <4>1. opened' = opened
        BY <1>6, <3>1, <3>3
      <4> QED
        BY <3>1, <4>1
    <3> QED
      BY <3>2, <3>3
  <2>2. ASSUME NEW id \in Id
        PROVE  opened'[id] = closed'[id] +
                 (IF id \in DOMAIN connections' \ toRemove' THEN 1 ELSE 0)
    <3>1. opened[id] = closed[id] + (IF id \in DOMAIN connections \ toRemove THEN 1 ELSE 0)
      BY DEF CallbacksInv, PairedCallbacks
    <3>2. closed[id] \in Nat /\ opened[id] \in Nat
      BY DEF CallbacksInv
    <3>3. CASE id = new
      <4>1. opened'[id] = opened[id] + 1
        BY <1>6, <3>3 DEF CallbacksInv
      <4> QED
        BY <1>1, <1>3, <1>6, <3>1, <3>2, <3>3, <4>1
    <3>4. CASE id # new
      <4>1. opened'[id] = opened[id]
        BY <1>6, <3>4 DEF CallbacksInv
      <4> QED
        BY <1>3, <1>6, <3>1, <3>2, <3>4, <4>1
    <3> QED
      BY <3>3, <3>4
  <2> QED
    BY <1>3, <2>1, <2>2 DEF CallbacksInv, PairedCallbacks
<1> QED
  BY <1>4, <1>5, <1>6

\* The tick reports those that end in it, and deletes them with those that
\* were reported before.
LEMMA ServerTickIncomingPairs ==
  ASSUME CallbacksInv, ServerTickIncoming
  PROVE  CallbacksInv'
<1>1. PICK after, new :
        /\ DOMAIN after = DOMAIN connections
        /\ new \subseteq DOMAIN connections \ toRemove
        /\ RemoveScheduled(after, toRemove \cup new)
        /\ closed' = [id \in Id |-> IF id \in new THEN closed[id] + 1 ELSE closed[id]]
        /\ opened' = opened
  <2>1. PICK broken \in [DOMAIN connections -> BOOLEAN],
             ping \in [DOMAIN connections -> Maybe],
             pong \in [DOMAIN connections -> Maybe] :
          LET after == [id \in DOMAIN connections |->
                          [connections[id] EXCEPT !.peer =
                             TickIncoming(@, broken[id], ping[id], pong[id], TRUE)]]
              new   == Down(connections, after) \ toRemove
          IN  /\ RemoveScheduled(after, toRemove \cup new)
              /\ closed' = [id \in Id |-> IF id \in new THEN closed[id] + 1 ELSE closed[id]]
              /\ opened' = opened
    BY ZenonT(60) DEF ServerTickIncoming
  <2> DEFINE after == [id \in DOMAIN connections |->
                         [connections[id] EXCEPT !.peer =
                            TickIncoming(@, broken[id], ping[id], pong[id], TRUE)]]
             new   == Down(connections, after) \ toRemove
  <2>2. DOMAIN after = DOMAIN connections
    OBVIOUS
  <2>3. /\ RemoveScheduled(after, toRemove \cup new)
        /\ closed' = [id \in Id |-> IF id \in new THEN closed[id] + 1 ELSE closed[id]]
        /\ opened' = opened
    BY <2>1
  <2> HIDE DEF after
  <2>4. new \subseteq DOMAIN connections \ toRemove
    BY DEF Down
  <2> HIDE DEF new
  <2> QED
    BY <2>2, <2>3, <2>4
<1>2. /\ DOMAIN connections' = DOMAIN connections \ (toRemove \cup new)
      /\ toRemove' = {}
  BY <1>1 DEF RemoveScheduled
<1>3. closed' \in [Id -> Nat]
  BY <1>1 DEF CallbacksInv
<1>4. ASSUME NEW id \in Id
      PROVE  opened'[id] = closed'[id] +
               (IF id \in DOMAIN connections' \ toRemove' THEN 1 ELSE 0)
  <2>1. opened[id] = closed[id] + (IF id \in DOMAIN connections \ toRemove THEN 1 ELSE 0)
    BY DEF CallbacksInv, PairedCallbacks
  <2>2. closed[id] \in Nat
    BY DEF CallbacksInv
  <2>3. closed'[id] = IF id \in new THEN closed[id] + 1 ELSE closed[id]
    BY <1>1
  <2> QED
    BY <1>1, <1>2, <2>1, <2>2, <2>3
<1> QED
  BY <1>1, <1>3, <1>4 DEF CallbacksInv, PairedCallbacks

\* So may a dead link.
LEMMA ServerTickOutgoingPairs ==
  ASSUME CallbacksInv, ServerTickOutgoing
  PROVE  CallbacksInv'
<1>1. DOMAIN connections' = DOMAIN connections /\ UNCHANGED opened
  BY DEF ServerTickOutgoing
<1>2. \E down : ScheduleRemoval(down)
  BY Zenon DEF ServerTickOutgoing
<1> QED
  BY <1>1, <1>2, ScheduleRemovalPairs

\* Every step.
LEMMA NextPairs == CallbacksInv /\ [Next]_vars => CallbacksInv'
<1> SUFFICES ASSUME CallbacksInv, [Next]_vars PROVE CallbacksInv'
  OBVIOUS
<1>1. CASE UNCHANGED serverVars
  BY <1>1, SameCallbacks DEF serverVars
<1>2. ASSUME NEW id, ServerSend(id)
      PROVE  CallbacksInv'
  BY <1>2, SameCallbacks DEF ServerSend
<1>3. ASSUME NEW id, ServerDisconnect(id)
      PROVE  CallbacksInv'
  BY <1>3, SameCallbacks DEF ServerDisconnect
<1>4. ASSUME NEW id, ServerDisconnected(id)
      PROVE  CallbacksInv'
  <2>1. /\ DOMAIN connections' = DOMAIN connections
        /\ UNCHANGED opened /\ ScheduleRemoval({id})
    BY <1>4 DEF ServerDisconnected
  <2> QED
    BY <2>1, ScheduleRemovalPairs
<1>5. \/ UNCHANGED serverVars
      \/ \E d \in net : ServerRawInput(d)
      \/ \E d \in net : ServerAccept(d)
      \/ ServerTickIncoming
      \/ ServerTickOutgoing
      \/ \E id \in Id : ServerSend(id)
      \/ \E id \in Id : ServerDisconnect(id)
      \/ \E id \in Id : ServerDisconnected(id)
  BY Zenon DEF Next, vars, Connect, ClientSend, ClientDisconnect, ClientDisconnected,
     ClientRawInput, ClientTickIncoming, ClientTickOutgoing, serverVars
<1> QED
  BY <1>1, <1>2, <1>3, <1>4, <1>5, ServerRawInputPairs, ServerAcceptPairs,
     ServerTickIncomingPairs, ServerTickOutgoingPairs

\* The initial state.
LEMMA InitPairs == Init => CallbacksInv
  BY DEF Init, CallbacksInv, PairedCallbacks

(***************************************************************************)
(* However the user's Disconnect, a BYE and the tick meet, and however     *)
(* often an id is used again, also by two clients with the same            *)
(* ConnectionHash: the server's user is told of the end of exactly those   *)
(* connections it was told of, once each.                                  *)
(***************************************************************************)
THEOREM CallbacksArePaired == Spec => []PairedCallbacks
<1>1. CallbacksInv => PairedCallbacks
  BY DEF CallbacksInv
<1> QED
  BY InitPairs, NextPairs, <1>1, PTL DEF Spec

----------------------------------------------------------------------------
(* Naturals, places in a sequence, and the number of Data among the first  *)
(* messages of one.                                                        *)

\* A set of naturals that is not empty has a least element.
LEMMA LeastExists ==
  ASSUME NEW S, S \subseteq Nat, S # {}
  PROVE  \E n \in S : \A m \in S : n <= m
<1>1. PICK n \in S : \A m \in S : ~(<<m, n>> \in OpToRel(<, Nat))
  BY NatLessThanWellFounded, WFMin
<1>2. \A m \in S : ~(m < n)
  BY <1>1 DEF OpToRel
<1> QED
  BY <1>2

\* rcv_nxt is the first number that was not received.
LEMMA RcvNxtIs ==
  ASSUME NEW p, IsFiniteSet(DOMAIN p.rcvd), DOMAIN p.rcvd \subseteq Nat
  PROVE  /\ RcvNxt(p) \in Nat /\ RcvNxt(p) \notin DOMAIN p.rcvd
         /\ 0..(RcvNxt(p) - 1) \subseteq DOMAIN p.rcvd
<1> DEFINE D == DOMAIN p.rcvd
<1>1. Cardinality(D) \in Nat
  BY FS_CardinalityType
<1>2. ASSUME NEW n \in Nat, 0..(n - 1) \subseteq D
      PROVE  n <= Cardinality(D)
  <2>1. Cardinality(0..(n - 1)) = n
    BY FS_Interval
  <2>2. Cardinality(0..(n - 1)) <= Cardinality(D)
    BY <1>2, FS_Subset
  <2> QED
    BY <2>1, <2>2
<1>3. Nat \ D # {}
  <2>1. 0..((Cardinality(D) + 1) - 1) \subseteq D => Cardinality(D) + 1 <= Cardinality(D)
    BY <1>1, <1>2
  <2> QED
    BY <1>1, <2>1
<1>4. PICK n \in Nat \ D : \A m \in Nat \ D : n <= m
  BY <1>3, LeastExists
<1>5. 0..(n - 1) \subseteq D
  BY <1>4
<1>6. n \in 0..Cardinality(D)
  BY <1>1, <1>2, <1>5
<1>7. \E k \in 0..Cardinality(D) : k \notin D /\ 0..(k - 1) \subseteq D
  BY <1>4, <1>5, <1>6
<1> QED
  BY <1>1, <1>7 DEF RcvNxt

\* What is received only adds to it.
LEMMA RcvNxtGrows ==
  ASSUME NEW p, IsFiniteSet(DOMAIN p.rcvd), DOMAIN p.rcvd \subseteq Nat,
         NEW q, IsFiniteSet(DOMAIN q.rcvd), DOMAIN q.rcvd \subseteq Nat,
         DOMAIN p.rcvd \subseteq DOMAIN q.rcvd
  PROVE  RcvNxt(p) <= RcvNxt(q)
<1>1. /\ RcvNxt(p) \in Nat /\ 0..(RcvNxt(p) - 1) \subseteq DOMAIN p.rcvd
      /\ RcvNxt(q) \in Nat /\ RcvNxt(q) \notin DOMAIN q.rcvd
  BY RcvNxtIs
<1> QED
  BY <1>1

\* The places of a finite set are numbered from 1 on.
LEMMA Ranked ==
  ASSUME NEW m \in Nat, NEW I \in SUBSET (1..m)
  PROVE  /\ IsFiniteSet(I) /\ Cardinality(I) \in Nat
         /\ \A n \in 1..Cardinality(I) :
              \E i \in I : Rank(I, i) = n
<1> DEFINE Upto(i) == {j \in I : j <= i}
<1>0. \A j \in I : j \in 1..m
  OBVIOUS
<1>1. IsFiniteSet(I) /\ Cardinality(I) \in Nat
  <2>1. IsFiniteSet(1..m)
    BY FS_Interval
  <2> QED
    BY <2>1, FS_Subset, FS_CardinalityType
<1>2. ASSUME NEW i
      PROVE  IsFiniteSet(Upto(i)) /\ Cardinality(Upto(i)) \in Nat
  <2>1. Upto(i) \in SUBSET I
    OBVIOUS
  <2> QED
    BY <1>1, <2>1, FS_Subset, FS_CardinalityType
<1>3. ASSUME NEW n \in 1..Cardinality(I)
      PROVE  \E i \in I : Cardinality(Upto(i)) = n
  <2> DEFINE T == {i \in 0..m : Cardinality(Upto(i)) >= n}
  <2>1. m \in T
    <3>1. Upto(m) = I
      <4>1. \A j \in I : j <= m
        BY <1>0
      <4> QED
        BY <4>1
    <3> QED
      BY <1>1, <3>1
  <2>2. PICK i \in T : \A k \in T : i <= k
    <3>1. T \subseteq Nat /\ T # {}
      BY <2>1
    <3> HIDE DEF T
    <3> QED
      BY <3>1, LeastExists
  <2>3. i # 0
    <3>1. Upto(0) = {}
      <4>1. \A j \in I : ~(j <= 0)
        BY <1>0
      <4> QED
        BY <4>1
    <3>2. Cardinality(Upto(0)) = 0
      BY <3>1, FS_EmptySet
    <3> HIDE DEF Upto
    <3> QED
      BY <2>2, <3>2
  <2>4. Cardinality(Upto(i - 1)) < n
    <3>1. i \in 1..m
      BY <2>2, <2>3
    <3>2. i - 1 \in 0..m /\ ~(i <= i - 1)
      BY <3>1
    <3>3. i - 1 \notin T
      BY <2>2, <3>2
    <3>4. ~(Cardinality(Upto(i - 1)) >= n)
      BY <3>2, <3>3
    <3>5. Cardinality(Upto(i - 1)) \in Nat
      BY <1>2
    <3> QED
      BY <3>4, <3>5
  <2>5. CASE i \in I
    <3>1. Upto(i) = Upto(i - 1) \cup {i} /\ i \notin Upto(i - 1)
      <4>1. \A j \in I : j <= i <=> j <= i - 1 \/ j = i
        BY <1>0, <2>5
      <4>2. ~(i <= i - 1)
        BY <1>0, <2>5
      <4> QED
        BY <2>5, <4>1, <4>2
    <3> HIDE DEF Upto
    <3>2. Cardinality(Upto(i)) = Cardinality(Upto(i - 1)) + 1
      BY <1>2, <3>1, FS_AddElement
    <3>3. Cardinality(Upto(i)) >= n
      BY <2>2
    <3> QED
      BY <1>2, <2>4, <2>5, <3>2, <3>3
  <2>6. CASE i \notin I
    <3>1. \A j \in I : j <= i <=> j <= i - 1
      BY <1>0, <2>2, <2>6
    <3>2. Upto(i) = Upto(i - 1)
      BY <3>1
    <3> HIDE DEF Upto
    <3> QED
      BY <1>2, <2>2, <2>4, <3>2
  <2> QED
    BY <2>5, <2>6
<1> QED
  BY <1>1, <1>3 DEF Rank

\* AtPlaces lists the elements at the places by their rank.
LEMMA AtPlacesAre ==
  ASSUME NEW S, NEW s \in Seq(S), NEW I \in SUBSET (1..Len(s))
  PROVE  /\ Cardinality(I) \in Nat
         /\ AtPlaces(s, I) \in Seq(S) /\ Len(AtPlaces(s, I)) = Cardinality(I)
         /\ \A n \in 1..Cardinality(I) :
              \E i \in I : Rank(I, i) = n /\ AtPlaces(s, I)[n] = s[i]
<1> DEFINE At(n) == CHOOSE i \in I : Rank(I, i) = n
<1>1. Len(s) \in Nat /\ s \in [1..Len(s) -> S]
  BY LenProperties
<1>2. Cardinality(I) \in Nat
  BY <1>1, Ranked
<1>3. ASSUME NEW n \in 1..Cardinality(I)
      PROVE  At(n) \in I /\ Rank(I, At(n)) = n
  <2>1. \E i \in I : Rank(I, i) = n
    BY <1>1, Ranked
  <2> QED
    BY <2>1
<1>4. AtPlaces(s, I) = [n \in 1..Cardinality(I) |-> s[At(n)]]
  BY DEF AtPlaces
<1> HIDE DEF At
<1>5. \A n \in 1..Cardinality(I) : s[At(n)] \in S
  BY <1>1, <1>3
<1>6. AtPlaces(s, I) \in Seq(S) /\ Len(AtPlaces(s, I)) = Cardinality(I)
  BY <1>2, <1>4, <1>5
<1>7. \A n \in 1..Cardinality(I) : AtPlaces(s, I)[n] = s[At(n)]
  BY <1>4
<1> QED
  BY <1>2, <1>3, <1>6, <1>7

\* The Data among the first n messages of s.
Count(s, n) == Cardinality({i \in 1..n : s[i].hdr = "Data"})

\* The count is a number,
LEMMA CountType ==
  ASSUME NEW s, NEW n \in Nat
  PROVE  /\ IsFiniteSet({i \in 1..n : s[i].hdr = "Data"})
         /\ Count(s, n) \in Nat
<1>1. IsFiniteSet(1..n) /\ {i \in 1..n : s[i].hdr = "Data"} \in SUBSET (1..n)
  BY FS_Interval
<1> QED
  BY <1>1, FS_Subset, FS_CardinalityType DEF Count

\* grows by one at a Data and not otherwise,
LEMMA CountStep ==
  ASSUME NEW s
  PROVE  /\ Count(s, 0) = 0
         /\ \A n \in Nat : Count(s, n + 1) =
              IF s[n + 1].hdr = "Data" THEN Count(s, n) + 1 ELSE Count(s, n)
<1> DEFINE Data(n) == {i \in 1..n : s[i].hdr = "Data"}
<1>1. Data(0) = {}
  OBVIOUS
<1>2. ASSUME NEW n \in Nat
      PROVE  Cardinality(Data(n + 1)) =
               IF s[n + 1].hdr = "Data" THEN Cardinality(Data(n)) + 1
               ELSE Cardinality(Data(n))
  <2>1. IsFiniteSet(Data(n)) /\ n + 1 \notin Data(n)
    <3>1. IsFiniteSet({i \in 1..n : s[i].hdr = "Data"})
      BY CountType
    <3> QED
      BY <3>1
  <2>2. CASE s[n + 1].hdr = "Data"
    <3>1. Data(n + 1) = Data(n) \cup {n + 1}
      BY <2>2
    <3> HIDE DEF Data
    <3> QED
      BY <2>1, <2>2, <3>1, FS_AddElement
  <2>3. CASE s[n + 1].hdr # "Data"
    <3>1. Data(n + 1) = Data(n)
      BY <2>3
    <3> HIDE DEF Data
    <3> QED
      BY <2>3, <3>1
  <2> QED
    BY <2>2, <2>3
<1> QED
  BY <1>1, <1>2, FS_EmptySet DEF Count

\* depends on the first n messages only,
LEMMA CountSame ==
  ASSUME NEW s, NEW t, NEW n \in Nat, \A i \in 1..n : s[i] = t[i]
  PROVE  Count(s, n) = Count(t, n)
<1>1. {i \in 1..n : s[i].hdr = "Data"} = {i \in 1..n : t[i].hdr = "Data"}
  OBVIOUS
<1> QED
  BY <1>1 DEF Count

\* The Data among the n after the first m.
CountAfter(s, m, n) == Cardinality({j \in 1..n : s[m + j].hdr = "Data"})

\* and is the sum of the counts of two parts.
LEMMA CountShift ==
  ASSUME NEW s, NEW m \in Nat, NEW n \in Nat
  PROVE  Count(s, m + n) = Count(s, m) + CountAfter(s, m, n)
<1> DEFINE A == {i \in 1..m : s[i].hdr = "Data"}
           B == {i \in (m + 1)..(m + n) : s[i].hdr = "Data"}
           C == {j \in 1..n : s[m + j].hdr = "Data"}
           f == [j \in C |-> m + j]
<1>1. {i \in 1..(m + n) : s[i].hdr = "Data"} = A \cup B /\ A \cap B = {}
  OBVIOUS
<1>2. IsFiniteSet(A) /\ Cardinality(A) \in Nat
  BY CountType DEF Count
<1>3. IsFiniteSet(C)
  <2>1. IsFiniteSet(1..n) /\ C \in SUBSET (1..n)
    BY FS_Interval
  <2> QED
    BY <2>1, FS_Subset
<1>4. f \in Bijection(C, B)
  <2>1. \A j \in C : m + j \in B
    OBVIOUS
  <2>2. \A i \in B : i - m \in C /\ m + (i - m) = i
    OBVIOUS
  <2>3. \A j \in C, k \in C : m + j = m + k => j = k
    OBVIOUS
  <2> HIDE DEF B, C
  <2>4. f \in [C -> B]
    BY <2>1
  <2>5. f \in Injection(C, B)
    BY <2>3, <2>4 DEF Injection, IsInjective
  <2>6. f \in Surjection(C, B)
    BY <2>2, <2>4 DEF Surjection
  <2> QED
    BY <2>5, <2>6 DEF Bijection
<1>5. IsFiniteSet(B) /\ Cardinality(B) = Cardinality(C)
  BY <1>3, <1>4, FS_Bijection DEF ExistsBijection
<1>6. Cardinality(C) \in Nat
  BY <1>3, FS_CardinalityType
<1> HIDE DEF A, B, C
<1>7. Cardinality(A \cup B) = Cardinality(A) + Cardinality(B) - Cardinality(A \cap B)
  BY <1>2, <1>5, FS_Union
<1>8. Cardinality(A \cap B) = 0
  BY <1>1, FS_EmptySet
<1>9. Count(s, m + n) = Cardinality(A \cup B) /\ Count(s, m) = Cardinality(A)
  BY <1>1 DEF Count, A
<1> QED
  BY <1>2, <1>5, <1>6, <1>7, <1>8, <1>9 DEF C, CountAfter

----------------------------------------------------------------------------
(* Streams of messages. *)

\* t begins with s.
Extends(s, t) == Len(s) <= Len(t) /\ \A i \in 1..Len(s) : t[i] = s[i]

\* t is s with messages other than Data after it, or none.
Plainly(s, t) ==
  /\ t \in Seq(Messages)
  /\ Extends(s, t)
  /\ \A i \in (Len(s) + 1)..Len(t) : t[i].hdr # "Data"

\* The Data in s are those of src, numbered from 1 on.
Numbered(s, src) ==
  \A i \in 1..Len(s) : s[i].hdr = "Data" => s[i] = Message("Data", src, Count(s, i))

\* Extensions compose,
LEMMA ExtendsTrans ==
  ASSUME NEW s \in Seq(Messages), NEW t \in Seq(Messages), NEW u \in Seq(Messages),
         Extends(s, t), Extends(t, u)
  PROVE  Extends(s, u)
<1>1. Len(s) \in Nat /\ Len(t) \in Nat /\ Len(u) \in Nat
  BY LenProperties
<1> QED
  BY <1>1 DEF Extends

\* and so do those without Data:
LEMMA PlainlySelf ==
  ASSUME NEW s \in Seq(Messages)
  PROVE  Plainly(s, s)
<1>1. Len(s) \in Nat
  BY LenProperties
<1> QED
  BY <1>1 DEF Plainly, Extends

\* one after the other is one.
LEMMA PlainlyTrans ==
  ASSUME NEW s \in Seq(Messages), NEW t, NEW u, Plainly(s, t), Plainly(t, u)
  PROVE  Plainly(s, u)
<1>1. t \in Seq(Messages) /\ u \in Seq(Messages)
  BY DEF Plainly
<1>2. Len(s) \in Nat /\ Len(t) \in Nat /\ Len(u) \in Nat
  BY <1>1, LenProperties
<1>3. Extends(s, u)
  BY <1>1, ExtendsTrans DEF Plainly
<1>4. ASSUME NEW i \in (Len(s) + 1)..Len(u)
      PROVE  u[i].hdr # "Data"
  <2>1. CASE i <= Len(t)
    BY <1>2, <2>1 DEF Plainly, Extends
  <2>2. CASE i > Len(t)
    BY <1>2, <2>2 DEF Plainly
  <2> QED
    BY <1>2, <2>1, <2>2
<1> QED
  BY <1>1, <1>3, <1>4 DEF Plainly

\* A message other than Data is such an extension,
LEMMA PlainlyAppend ==
  ASSUME NEW s \in Seq(Messages), NEW m \in Messages, m.hdr # "Data"
  PROVE  Plainly(s, Append(s, m))
<1>1. /\ Len(s) \in Nat /\ Append(s, m) \in Seq(Messages)
      /\ Len(Append(s, m)) = Len(s) + 1
      /\ \A i \in 1..Len(s) : Append(s, m)[i] = s[i]
      /\ Append(s, m)[Len(s) + 1] = m
  BY LenProperties, AppendProperties
<1> QED
  BY <1>1 DEF Plainly, Extends

\* which leaves the Data numbered as they were.
LEMMA PlainlyNumbered ==
  ASSUME NEW s \in Seq(Messages), NEW t, Plainly(s, t), NEW src, Numbered(s, src)
  PROVE  Numbered(t, src)
<1>1. Len(s) \in Nat /\ Len(t) \in Nat
  BY LenProperties DEF Plainly
<1> SUFFICES ASSUME NEW i \in 1..Len(t), t[i].hdr = "Data"
             PROVE  t[i] = Message("Data", src, Count(t, i))
  BY DEF Numbered
<1>2. i \in 1..Len(s)
  BY <1>1 DEF Plainly
<1>3. \A j \in 1..i : t[j] = s[j]
  BY <1>1, <1>2 DEF Plainly, Extends
<1>4. Count(t, i) = Count(s, i)
  BY <1>2, <1>3, CountSame
<1>5. t[i] = s[i]
  BY <1>2, <1>3
<1> QED
  BY <1>2, <1>4, <1>5 DEF Numbered

\* SendData numbers the next Data.
LEMMA NextData ==
  ASSUME NEW s \in Seq(Messages), NEW src, Numbered(s, src),
         NEW m \in Messages,
         m = Message("Data", src, Cardinality(Bearing(s, {"Data"})) + 1)
  PROVE  /\ Append(s, m) \in Seq(Messages)
         /\ Extends(s, Append(s, m)) /\ Numbered(Append(s, m), src)
<1> DEFINE t == Append(s, m)
<1>1. /\ Len(s) \in Nat /\ t \in Seq(Messages) /\ Len(t) = Len(s) + 1
      /\ \A i \in 1..Len(s) : t[i] = s[i]
      /\ t[Len(s) + 1] = m
  BY LenProperties, AppendProperties
<1> HIDE DEF t
<1>2. Extends(s, t)
  BY <1>1 DEF Extends
<1>3. ASSUME NEW i \in 1..Len(s)
      PROVE  Count(t, i) = Count(s, i)
  <2>1. \A j \in 1..i : t[j] = s[j]
    BY <1>1
  <2> QED
    BY <2>1, CountSame
<1>4. Count(t, Len(s) + 1) = Count(s, Len(s)) + 1
  <2>1. m.hdr = "Data"
    BY DEF Message
  <2>2. Count(t, Len(s) + 1) = Count(t, Len(s)) + 1
    BY <1>1, <2>1, CountStep
  <2>3. Count(t, Len(s)) = Count(s, Len(s))
    BY <1>1, CountSame
  <2> QED
    BY <2>2, <2>3
<1>5. Cardinality(Bearing(s, {"Data"})) = Count(s, Len(s))
  <2>1. Bearing(s, {"Data"}) = {i \in 1..Len(s) : s[i].hdr = "Data"}
    BY DEF Bearing
  <2> QED
    BY <2>1 DEF Count
<1>6. ASSUME NEW i \in 1..Len(t), t[i].hdr = "Data"
      PROVE  t[i] = Message("Data", src, Count(t, i))
  <2>1. CASE i \in 1..Len(s)
    BY <1>1, <1>3, <1>6, <2>1 DEF Numbered
  <2>2. CASE i = Len(s) + 1
    BY <1>1, <1>4, <1>5, <2>2
  <2> QED
    BY <1>1, <2>1, <2>2
<1>7. Numbered(t, src)
  BY <1>6 DEF Numbered
<1> QED
  BY <1>1, <1>2, <1>7 DEF t

\* batch is what s has after its first m messages and up to the n-th.
Part(batch, s, m, n) ==
  /\ m \in Nat /\ n \in Nat /\ m <= n /\ n <= Len(s)
  /\ batch \in Seq(Messages) /\ Len(batch) = n - m
  /\ \A i \in 1..Len(batch) : batch[i] = s[m + i]

\* A tick reads such a part of a stream: if the Data up to m were handed over
\* in order, those up to n now are.
LEMMA Delivery ==
  ASSUME NEW s \in Seq(Messages), NEW src, Numbered(s, src),
         NEW batch, NEW m, NEW n, Part(batch, s, m, n),
         NEW data \in Seq(Messages), InOrder(data, src), Len(data) = Count(s, m),
         NEW new, new = AtPlaces(batch, Bearing(batch, {"Data"}))
  PROVE  InOrder(data \o new, src) /\ Len(data \o new) = Count(s, n)
<1> DEFINE I == Bearing(batch, {"Data"})
<1> USE DEF Part
<1>1. I \in SUBSET (1..Len(batch)) /\ Len(batch) \in Nat /\ Len(s) \in Nat
  BY LenProperties DEF Bearing
<1> HIDE DEF I
<1>2. /\ Cardinality(I) \in Nat
      /\ new \in Seq(Messages) /\ Len(new) = Cardinality(I)
      /\ \A k \in 1..Cardinality(I) :
           \E i \in I : Rank(I, i) = k /\ new[k] = batch[i]
  <2>1. batch \in Seq(Messages) /\ new = AtPlaces(batch, I)
    BY DEF I
  <2> HIDE DEF Part
  <2>2. /\ Cardinality(I) \in Nat
        /\ AtPlaces(batch, I) \in Seq(Messages)
        /\ Len(AtPlaces(batch, I)) = Cardinality(I)
        /\ \A k \in 1..Cardinality(I) :
             \E i \in I : Rank(I, i) = k /\ AtPlaces(batch, I)[k] = batch[i]
    BY <1>1, <2>1, AtPlacesAre, ZenonT(60)
  <2> QED
    BY <2>1, <2>2
<1>3. ASSUME NEW i \in 0..Len(batch)
      PROVE  Count(s, m + i) = Count(s, m) + Rank(I, i)
  <2>1. {j \in I : j <= i} = {j \in 1..i : s[m + j].hdr = "Data"}
    BY <1>1 DEF Bearing, I
  <2>2. i \in Nat
    BY <1>1
  <2>3. Count(s, m + i) = Count(s, m) + CountAfter(s, m, i)
    BY <2>2, CountShift
  <2> QED
    BY <2>1, <2>3 DEF Rank, CountAfter
<1>4. Count(s, n) = Count(s, m) + Cardinality(I)
  <2>1. {j \in I : j <= Len(batch)} = I
    BY <1>1 DEF Bearing, I
  <2>2. m + Len(batch) = n /\ Len(batch) \in 0..Len(batch)
    BY <1>1
  <2> QED
    BY <1>3, <2>1, <2>2 DEF Rank
<1>5. /\ Len(data) \in Nat /\ Len(data \o new) = Len(data) + Len(new)
      /\ \A k \in 1..(Len(data) + Len(new)) :
           (data \o new)[k] = IF k <= Len(data) THEN data[k] ELSE new[k - Len(data)]
  <2>1. new \in Seq(Messages)
    BY <1>2
  <2>2. Len(data) \in Nat
    BY LenProperties
  <2> QED
    BY <2>1, <2>2, ConcatProperties
<1>6. ASSUME NEW k \in 1..Len(new)
      PROVE  new[k] = Message("Data", src, Len(data) + k)
  <2>1. PICK i \in I : Rank(I, i) = k /\ new[k] = batch[i]
    BY <1>2
  <2>2. /\ i \in 1..Len(batch) /\ batch[i].hdr = "Data" /\ batch[i] = s[m + i]
        /\ m + i \in 1..Len(s)
    BY <1>1 DEF Bearing, I
  <2>3. s[m + i] = Message("Data", src, Count(s, m + i))
    BY <2>2 DEF Numbered
  <2>4. Count(s, m + i) = Len(data) + k
    BY <1>3, <2>1, <2>2
  <2> QED
    BY <2>1, <2>2, <2>3, <2>4
<1>7. ASSUME NEW k \in 1..Len(data \o new)
      PROVE  (data \o new)[k] = Message("Data", src, k)
  <2>1. CASE k <= Len(data)
    BY <1>2, <1>5, <2>1 DEF InOrder
  <2>2. CASE k > Len(data)
    <3>1. k - Len(data) \in 1..Len(new) /\ Len(data) + (k - Len(data)) = k
      BY <1>2, <1>5, <2>2
    <3>2. new[k - Len(data)] = Message("Data", src, k)
      BY <1>6, <3>1
    <3> QED
      BY <1>2, <1>5, <2>2, <3>2
  <2> QED
    BY <1>2, <1>5, <2>1, <2>2
<1>8. InOrder(data \o new, src)
  BY <1>7 DEF InOrder
<1> QED
  BY <1>2, <1>4, <1>5, <1>8

\* Without Data there is nothing to hand over.
LEMMA NoDelivery ==
  ASSUME NEW batch \in Seq(Messages), \A i \in 1..Len(batch) : batch[i].hdr # "Data"
  PROVE  AtPlaces(batch, Bearing(batch, {"Data"})) = <<>>
<1>1. Bearing(batch, {"Data"}) = {}
  BY DEF Bearing
<1>2. AtPlaces(batch, {}) \in Seq(Messages) /\ Len(AtPlaces(batch, {})) = Cardinality({})
  BY AtPlacesAre
<1>3. Cardinality({}) = 0
  BY FS_EmptySet
<1> QED
  BY <1>1, <1>2, <1>3, EmptySeq

----------------------------------------------------------------------------
(* What the operations of a peer do to each of its fields. *)

States == {"Connected", "Authenticated", "Disconnected"}
Calls == {"OnAuthenticated", "OnData", "OnDisconnected"}
Received == UNION {[D -> Messages] : D \in SUBSET Nat}

PeerRecord ==
  [state : States, cookie : Nat, once : BOOLEAN, out : Seq(Messages),
   acked : SUBSET Nat, rcvd : Received, nxt : Nat, events : Seq(Calls),
   data : Seq(Messages)]

\* A peer as the operations leave it.
Peer(p) ==
  /\ p \in PeerRecord
  /\ IsFiniteSet(DOMAIN p.rcvd)
  /\ Len(p.out) <= MaxOut
  /\ p.acked \subseteq 0..(Len(p.out) - 1)
  /\ p.nxt <= RcvNxt(p)

\* The types of the fields.
LEMMA PeerFields ==
  ASSUME NEW p, Peer(p)
  PROVE  /\ p.state \in States /\ p.cookie \in Nat /\ p.once \in BOOLEAN
         /\ p.out \in Seq(Messages) /\ Len(p.out) \in Nat /\ p.acked \in SUBSET Nat
         /\ p.rcvd \in Received /\ p.nxt \in Nat
         /\ p.events \in Seq(Calls) /\ p.data \in Seq(Messages)
<1>1. p \in PeerRecord
  BY DEF Peer
<1>2. /\ p.state \in States /\ p.cookie \in Nat /\ p.once \in BOOLEAN
      /\ p.out \in Seq(Messages) /\ p.acked \in SUBSET Nat
      /\ p.rcvd \in Received /\ p.nxt \in Nat
      /\ p.events \in Seq(Calls) /\ p.data \in Seq(Messages)
  BY <1>1 DEF PeerRecord
<1> QED
  BY <1>2, LenProperties

\* What is received are messages by sequence number,
LEMMA ReceivedHas ==
  ASSUME NEW f \in Received
  PROVE  /\ DOMAIN f \subseteq Nat
         /\ \A sn \in DOMAIN f : f[sn] \in Messages
  BY DEF Received

\* and that is all there is to it.
LEMMA ReceivedIf ==
  ASSUME NEW D \in SUBSET Nat, NEW f \in [D -> Messages]
  PROVE  f \in Received
  BY DEF Received

\* rcv_nxt is the first sequence number missing.
LEMMA PeerRcvNxt ==
  ASSUME NEW p, Peer(p)
  PROVE  /\ RcvNxt(p) \in Nat /\ RcvNxt(p) \notin DOMAIN p.rcvd
         /\ 0..(RcvNxt(p) - 1) \subseteq DOMAIN p.rcvd
         /\ p.nxt \in 0..RcvNxt(p)
<1>1. DOMAIN p.rcvd \subseteq Nat /\ p.nxt \in Nat
  BY PeerFields, ReceivedHas
<1>2. IsFiniteSet(DOMAIN p.rcvd) /\ p.nxt <= RcvNxt(p)
  BY DEF Peer
<1> QED
  BY <1>1, <1>2, RcvNxtIs

\* A peer so described has the types that TypeOK asks for.
LEMMA PeerTyped ==
  ASSUME NEW p, Peer(p)
  PROVE  IsPeer(p)
<1>1. /\ p.state \in States /\ p.cookie \in Nat /\ p.once \in BOOLEAN
      /\ p.out \in Seq(Messages) /\ p.rcvd \in Received
      /\ p.events \in Seq(Calls) /\ p.data \in Seq(Messages)
  BY PeerFields
<1>2. \A sn \in DOMAIN p.rcvd : sn \in Nat /\ p.rcvd[sn] \in Messages
  BY <1>1, ReceivedHas
<1>3. p.nxt \in 0..RcvNxt(p)
  BY PeerRcvNxt
<1> QED
  BY <1>1, <1>2, <1>3 DEF IsPeer, Peer, States, Calls

\* rcv_nxt and what waits depend on nothing else.
LEMMA SameRcvNxt ==
  ASSUME NEW p, NEW q, q.rcvd = p.rcvd
  PROVE  /\ RcvNxt(q) = RcvNxt(p)
         /\ q.nxt = p.nxt => Pending(q) = Pending(p)
  BY DEF RcvNxt, Pending

\* q is p, but for what a message sent, a callback or Disconnect may change.
Alike(p, q) ==
  /\ Peer(q)
  /\ q.cookie = p.cookie /\ q.rcvd = p.rcvd /\ q.nxt = p.nxt /\ q.data = p.data
  /\ p.once => q.once
  /\ Plainly(p.out, q.out)

\* A peer is alike itself,
LEMMA AlikeSelf ==
  ASSUME NEW p, Peer(p)
  PROVE  Alike(p, p)
  BY PeerFields, PlainlySelf DEF Alike

\* and what is alike in two steps is alike.
LEMMA AlikeTrans ==
  ASSUME NEW p, NEW q, NEW r, Peer(p), Alike(p, q), Alike(q, r)
  PROVE  Alike(p, r)
<1>1. Plainly(p.out, r.out)
  BY PeerFields, PlainlyTrans DEF Alike
<1> QED
  BY <1>1 DEF Alike

\* The messages of the model are messages.
LEMMA MessageTypes ==
  /\ \A hdr \in {"Hello", "Ping", "Pong", "Data", "none"} : Bare(hdr) \in Messages
  /\ \A hdr : Bare(hdr).hdr = hdr
  /\ \A src \in Addr \cup Nat \cup {NoAddr}, n \in Nat :
       Message("Data", src, n) \in Messages
  /\ \A hdr, src, n : Message(hdr, src, n).hdr = hdr
  BY DEF Bare, Message, Messages

\* Disconnect sets disconnectOnce and the state, and makes a callback.
LEMMA DisconnectDoes ==
  ASSUME NEW p, Peer(p)
  PROVE  /\ Alike(p, Disconnect(p)) /\ Disconnect(p).once
         /\ Disconnect(p).out = p.out
         /\ Disconnect(p).state \in {p.state, "Disconnected"}
<1> DEFINE q == [p EXCEPT !.once = TRUE, !.state = "Disconnected",
                          !.events = Append(@, "OnDisconnected")]
<1>1. CASE p.once
  BY <1>1, AlikeSelf DEF Disconnect
<1>2. CASE ~p.once
  <2>1. Disconnect(p) = q
    BY <1>2 DEF Disconnect
  <2>2. p \in PeerRecord /\ Append(p.events, "OnDisconnected") \in Seq(Calls)
    BY PeerFields, AppendProperties DEF Peer, Calls
  <2>3. /\ q \in PeerRecord /\ q.cookie = p.cookie /\ q.rcvd = p.rcvd
        /\ q.nxt = p.nxt /\ q.data = p.data /\ q.out = p.out /\ q.acked = p.acked
        /\ q.once = TRUE /\ q.state = "Disconnected"
    BY <2>2 DEF PeerRecord, States
  <2> HIDE DEF q
  <2>4. RcvNxt(q) = RcvNxt(p)
    BY <2>3, SameRcvNxt
  <2>5. Peer(q)
    BY <2>3, <2>4 DEF Peer
  <2>6. Plainly(p.out, q.out)
    BY <2>3, PeerFields, PlainlySelf
  <2> QED
    BY <2>1, <2>3, <2>5, <2>6 DEF Alike
<1> QED
  BY <1>1, <1>2

\* The send window holds at least one message.
LEMMA MaxOutType == MaxOut \in Nat /\ MaxOut > 0
  BY SessionAssumption

\* A message is taken if there is room.
LEMMA SendDoes ==
  ASSUME NEW p, Peer(p), NEW m \in Messages
  PROVE  LET q == SendReliable(p, m)
         IN  /\ Peer(q)
             /\ q.state = p.state /\ q.once = p.once
             /\ q.cookie = p.cookie /\ q.rcvd = p.rcvd /\ q.nxt = p.nxt
             /\ q.data = p.data
             /\ q.out = IF Len(p.out) < MaxOut THEN Append(p.out, m) ELSE p.out
<1> DEFINE q == [p EXCEPT !.out = Append(@, m)]
<1>1. CASE ~(Len(p.out) < MaxOut)
  BY <1>1 DEF SendReliable
<1>2. CASE Len(p.out) < MaxOut
  <2>1. SendReliable(p, m) = q
    BY <1>2 DEF SendReliable
  <2>2. p \in PeerRecord
    BY DEF Peer
  <2>3. /\ Append(p.out, m) \in Seq(Messages) /\ Len(p.out) \in Nat
        /\ Len(Append(p.out, m)) = Len(p.out) + 1
    BY PeerFields, AppendProperties
  <2>4. /\ q \in PeerRecord /\ q.state = p.state /\ q.once = p.once
        /\ q.cookie = p.cookie /\ q.rcvd = p.rcvd /\ q.nxt = p.nxt
        /\ q.data = p.data /\ q.acked = p.acked /\ q.out = Append(p.out, m)
    BY <2>2, <2>3 DEF PeerRecord
  <2> HIDE DEF q
  <2>5. RcvNxt(q) = RcvNxt(p)
    BY <2>4, SameRcvNxt
  <2>6. Len(q.out) <= MaxOut
    BY <1>2, <2>3, <2>4, MaxOutType
  <2>7. q.acked \subseteq 0..(Len(q.out) - 1)
    BY <2>3, <2>4 DEF Peer
  <2>8. Peer(q)
    BY <2>4, <2>5, <2>6, <2>7 DEF Peer
  <2> QED
    BY <1>2, <2>1, <2>4, <2>8
<1> QED
  BY <1>1, <1>2

\* Hello, Ping and Pong.
LEMMA SendPlainly ==
  ASSUME NEW p, Peer(p), NEW hdr \in {"Hello", "Ping", "Pong"}
  PROVE  /\ Alike(p, SendReliable(p, Bare(hdr)))
         /\ SendReliable(p, Bare(hdr)).state = p.state
<1> DEFINE q == SendReliable(p, Bare(hdr))
<1>1. Bare(hdr) \in Messages /\ Bare(hdr).hdr # "Data"
  BY MessageTypes
<1>2. /\ Peer(q)
      /\ q.state = p.state /\ q.once = p.once
      /\ q.cookie = p.cookie /\ q.rcvd = p.rcvd /\ q.nxt = p.nxt
      /\ q.data = p.data
      /\ q.out = IF Len(p.out) < MaxOut THEN Append(p.out, Bare(hdr)) ELSE p.out
  BY <1>1, SendDoes
<1>3. Plainly(p.out, q.out)
  BY <1>1, <1>2, PeerFields, PlainlySelf, PlainlyAppend
<1> HIDE DEF q
<1>4. Alike(p, q)
  BY <1>2, <1>3 DEF Alike
<1> QED
  BY <1>2, <1>4 DEF q

\* The checks at the head of a tick may disconnect and may send a ping.
LEMMA ChecksDo ==
  ASSUME NEW p, Peer(p), NEW broken, NEW ping
  PROVE  /\ Alike(p, Checks(p, broken, ping))
         /\ Checks(p, broken, ping).state \in {p.state, "Disconnected"}
<1> DEFINE q == IF broken THEN Disconnect(p) ELSE p
<1>1. Alike(p, q) /\ Peer(q) /\ q.state \in {p.state, "Disconnected"}
  BY DisconnectDoes, AlikeSelf DEF Alike
<1>2. Checks(p, broken, ping) \in {q, SendReliable(q, Bare("Ping"))}
  BY DEF Checks
<1> HIDE DEF q
<1>3. /\ Alike(q, SendReliable(q, Bare("Ping")))
      /\ SendReliable(q, Bare("Ping")).state = q.state
  BY <1>1, SendPlainly
<1>4. Alike(p, SendReliable(q, Bare("Ping")))
  BY <1>1, <1>3, AlikeTrans
<1> QED
  BY <1>1, <1>2, <1>3, <1>4

\* What waits: the messages from nxt up to rcv_nxt.
LEMMA PendingIs ==
  ASSUME NEW p, Peer(p)
  PROVE  /\ Pending(p) \in Seq(Messages)
         /\ Len(Pending(p)) = RcvNxt(p) - p.nxt
         /\ \A i \in 1..(RcvNxt(p) - p.nxt) :
              /\ p.nxt + i - 1 \in DOMAIN p.rcvd
              /\ Pending(p)[i] = p.rcvd[p.nxt + i - 1]
<1>1. /\ RcvNxt(p) \in Nat /\ 0..(RcvNxt(p) - 1) \subseteq DOMAIN p.rcvd
      /\ p.nxt \in 0..RcvNxt(p)
  BY PeerRcvNxt
<1>2. \A sn \in DOMAIN p.rcvd : p.rcvd[sn] \in Messages
  BY PeerFields, ReceivedHas
<1>3. \A i \in 1..(RcvNxt(p) - p.nxt) : p.nxt + i - 1 \in DOMAIN p.rcvd
  BY <1>1
<1>4. \A i \in 1..(RcvNxt(p) - p.nxt) : p.rcvd[p.nxt + i - 1] \in Messages
  BY <1>2, <1>3
<1>5. RcvNxt(p) - p.nxt \in Nat
  BY <1>1
<1> QED
  BY <1>3, <1>4, <1>5 DEF Pending

\* A function on 1..n is a sequence.
LEMMA IsSequence ==
  ASSUME NEW n \in Nat, NEW S, NEW f \in [1..n -> S]
  PROVE  f \in Seq(S) /\ Len(f) = n
<1>1. f = [i \in 1..n |-> f[i]] /\ \A i \in 1..n : f[i] \in S
  OBVIOUS
<1>2. [i \in 1..n |-> f[i]] \in Seq(S) /\ Len([i \in 1..n |-> f[i]]) = n
  BY <1>1
<1> QED
  BY <1>1, <1>2

\* The next message is taken from the queue.
LEMMA NextTaken ==
  ASSUME NEW p, Peer(p), Pending(p) # <<>>
  PROVE  LET q == [p EXCEPT !.nxt = @ + 1]
         IN  /\ Peer(q)
             /\ q.cookie = p.cookie /\ q.rcvd = p.rcvd /\ q.data = p.data
             /\ q.out = p.out /\ q.state = p.state /\ q.once = p.once
             /\ q.events = p.events
             /\ q.nxt = p.nxt + 1 /\ p.nxt \in DOMAIN p.rcvd
             /\ Head(Pending(p)) = p.rcvd[p.nxt]
<1> DEFINE q == [p EXCEPT !.nxt = @ + 1]
<1>1. p \in PeerRecord /\ p.nxt + 1 \in Nat
  BY PeerFields DEF Peer
<1>2. /\ q \in PeerRecord /\ q.cookie = p.cookie /\ q.rcvd = p.rcvd /\ q.data = p.data
      /\ q.out = p.out /\ q.state = p.state /\ q.once = p.once /\ q.events = p.events
      /\ q.acked = p.acked /\ q.nxt = p.nxt + 1
  BY <1>1 DEF PeerRecord
<1> HIDE DEF q
<1>3. RcvNxt(q) = RcvNxt(p)
  BY <1>2, SameRcvNxt
<1>4. RcvNxt(p) \in Nat /\ p.nxt \in 0..RcvNxt(p)
  BY PeerRcvNxt
<1>5. /\ Pending(p) \in Seq(Messages) /\ Len(Pending(p)) = RcvNxt(p) - p.nxt
      /\ \A i \in 1..(RcvNxt(p) - p.nxt) :
           /\ p.nxt + i - 1 \in DOMAIN p.rcvd
           /\ Pending(p)[i] = p.rcvd[p.nxt + i - 1]
  BY PendingIs
<1>6. Len(Pending(p)) # 0
  BY <1>5, EmptySeq
<1>7. 1 \in 1..(RcvNxt(p) - p.nxt) /\ p.nxt + 1 - 1 = p.nxt
  BY <1>4, <1>5, <1>6
<1>8. p.nxt \in DOMAIN p.rcvd /\ Pending(p)[1] = p.rcvd[p.nxt]
  BY <1>5, <1>7
<1>9. Head(Pending(p)) = Pending(p)[1]
  BY <1>5, <1>6
<1>10. Peer(q)
  BY <1>2, <1>3, <1>4, <1>7 DEF Peer
<1> QED
  BY <1>2, <1>8, <1>9, <1>10 DEF q

\* OnAuthenticated, also of a peer that is disconnected.
LEMMA OnAuthenticatedDoes ==
  ASSUME NEW p, Peer(p), NEW server \in BOOLEAN
  PROVE  /\ Alike(p, OnAuthenticated(p, server))
         /\ OnAuthenticated(p, server).state = "Authenticated"
         /\ p.out = <<>> /\ server =>
              OnAuthenticated(p, server).out = <<Bare("Hello")>>
<1> DEFINE q == [p EXCEPT !.state = "Authenticated",
                          !.events = Append(@, "OnAuthenticated")]
<1>1. p \in PeerRecord /\ Append(p.events, "OnAuthenticated") \in Seq(Calls)
  BY PeerFields, AppendProperties DEF Peer, Calls
<1>2. /\ q \in PeerRecord /\ q.cookie = p.cookie /\ q.rcvd = p.rcvd
      /\ q.nxt = p.nxt /\ q.data = p.data /\ q.out = p.out /\ q.acked = p.acked
      /\ q.once = p.once /\ q.state = "Authenticated"
  BY <1>1 DEF PeerRecord, States
<1>3. OnAuthenticated(p, server) = IF server THEN SendReliable(q, Bare("Hello")) ELSE q
  BY DEF OnAuthenticated
<1> HIDE DEF q
<1>4. RcvNxt(q) = RcvNxt(p)
  BY <1>2, SameRcvNxt
<1>5. Peer(q)
  BY <1>2, <1>4 DEF Peer
<1>6. Plainly(p.out, q.out)
  BY <1>2, PeerFields, PlainlySelf
<1>7. Alike(p, q)
  BY <1>2, <1>5, <1>6 DEF Alike
<1>8. /\ Alike(q, SendReliable(q, Bare("Hello")))
      /\ SendReliable(q, Bare("Hello")).state = q.state
  BY <1>5, SendPlainly
<1>9. Alike(p, SendReliable(q, Bare("Hello")))
  BY <1>7, <1>8, AlikeTrans
<1>10. ASSUME p.out = <<>>
       PROVE  SendReliable(q, Bare("Hello")).out = <<Bare("Hello")>>
  <2>1. Bare("Hello") \in Messages
    BY MessageTypes
  <2>2. SendReliable(q, Bare("Hello")).out =
          IF Len(q.out) < MaxOut THEN Append(q.out, Bare("Hello")) ELSE q.out
    BY <1>5, <2>1, SendDoes
  <2>3. q.out = <<>> /\ Len(q.out) = 0
    BY <1>2, <1>10, EmptySeq
  <2>4. MaxOut > 0
    BY MaxOutType
  <2>5. Append(<<>>, Bare("Hello")) = <<Bare("Hello")>>
    OBVIOUS
  <2> QED
    BY <2>2, <2>3, <2>4, <2>5
<1> QED
  BY <1>2, <1>3, <1>7, <1>8, <1>9, <1>10

(***************************************************************************)
(* A peer that waits for Hello takes at most one message, and hands over   *)
(* no Data.                                                                *)
(***************************************************************************)
LEMMA TickConnectedDoes ==
  ASSUME NEW p, Peer(p), NEW server \in BOOLEAN
  PROVE  LET q == TickIncoming_Connected(p, server)
         IN  /\ Peer(q)
             /\ q.cookie = p.cookie /\ q.rcvd = p.rcvd /\ q.data = p.data
             /\ Plainly(p.out, q.out)
             /\ p.once => q.once
             /\ \/ q = p
                \/ /\ q.nxt = p.nxt + 1 /\ p.nxt \in DOMAIN p.rcvd
                   /\ p.rcvd[p.nxt].hdr = "Hello" => q.state = "Authenticated"
                   /\ p.rcvd[p.nxt].hdr # "Hello" =>
                        q.state \in {p.state, "Disconnected"}
                   /\ p.rcvd[p.nxt].hdr = "Hello" /\ p.out = <<>> /\ server =>
                        q.out = <<Bare("Hello")>>
<1> DEFINE q == TickIncoming_Connected(p, server)
           r == [p EXCEPT !.nxt = @ + 1]
<1>1. CASE Pending(p) = <<>>
  <2>1. q = p
    BY <1>1 DEF TickIncoming_Connected
  <2>2. Plainly(p.out, p.out)
    BY PeerFields, PlainlySelf
  <2> QED
    BY <2>1, <2>2
<1>2. CASE Pending(p) # <<>>
  <2>1. /\ Peer(r)
        /\ r.cookie = p.cookie /\ r.rcvd = p.rcvd /\ r.data = p.data
        /\ r.out = p.out /\ r.state = p.state /\ r.once = p.once
        /\ r.nxt = p.nxt + 1 /\ p.nxt \in DOMAIN p.rcvd
        /\ Head(Pending(p)) = p.rcvd[p.nxt]
    BY <1>2, NextTaken
  <2>2. /\ p.rcvd[p.nxt].hdr = "Hello" => q = OnAuthenticated(r, server)
        /\ p.rcvd[p.nxt].hdr # "Hello" => q \in {Disconnect(r), r}
    BY <1>2, <2>1 DEF TickIncoming_Connected
  <2> HIDE DEF q, r
  <2>3. CASE p.rcvd[p.nxt].hdr = "Hello"
    <3>1. /\ Alike(r, q) /\ q.state = "Authenticated"
          /\ r.out = <<>> /\ server => q.out = <<Bare("Hello")>>
      BY <2>1, <2>2, <2>3, OnAuthenticatedDoes
    <3> QED
      BY <2>1, <2>3, <3>1 DEF Alike, q
  <2>4. CASE p.rcvd[p.nxt].hdr # "Hello"
    <3>1. Alike(r, q) /\ q.state \in {r.state, "Disconnected"}
      BY <2>1, <2>2, <2>4, DisconnectDoes, AlikeSelf
    <3> QED
      BY <2>1, <2>4, <3>1 DEF Alike, q
  <2> QED
    BY <2>3, <2>4
<1> QED
  BY <1>1, <1>2

\* The Data among the messages that wait.
DataOf(p) == AtPlaces(Pending(p), Bearing(Pending(p), {"Data"}))

(***************************************************************************)
(* An authenticated peer takes all messages, and hands over their Data.    *)
(***************************************************************************)
LEMMA TickAuthenticatedDoes ==
  ASSUME NEW p, Peer(p), NEW pong
  PROVE  LET q == TickIncoming_Authenticated(p, pong)
         IN  /\ Peer(q)
             /\ q.cookie = p.cookie /\ q.rcvd = p.rcvd
             /\ Plainly(p.out, q.out)
             /\ p.once => q.once
             /\ q.state \in {p.state, "Disconnected"}
             /\ q.nxt = RcvNxt(p)
             /\ DataOf(p) \in Seq(Messages) /\ q.data = p.data \o DataOf(p)
<1> DEFINE batch == Pending(p)
           firstHello(i) == batch[i].hdr = "Hello" /\ ~p.once
                            /\ \A j \in 1..(i - 1) : batch[j].hdr # "Hello"
           calls == [i \in 1..Len(batch) |->
                       CASE batch[i].hdr = "Data" -> "OnData"
                         [] firstHello(i)         -> "OnDisconnected"
                         [] OTHER                 -> "none"]
           made == {i \in 1..Len(batch) : calls[i] # "none"}
           down == IF Bearing(batch, {"Hello"}) # {} THEN Disconnect(p) ELSE p
           r == IF pong /\ Bearing(batch, {"Ping"}) # {}
                THEN SendReliable(down, Bare("Pong")) ELSE down
           events == p.events \o AtPlaces(calls, made)
           q == [r EXCEPT !.nxt = @ + Len(batch), !.data = @ \o DataOf(p),
                          !.events = events]
<1>1. TickIncoming_Authenticated(p, pong) = q
  BY Zenon DEF TickIncoming_Authenticated, DataOf
<1>2. batch \in Seq(Messages) /\ Len(batch) = RcvNxt(p) - p.nxt /\ Len(batch) \in Nat
  BY PendingIs, LenProperties
<1>3. events \in Seq(Calls)
  <2> DEFINE Made == Calls \cup {"none"}
  <2>1. calls \in Seq(Made) /\ Len(calls) = Len(batch)
        /\ \A i \in 1..Len(batch) : calls[i] \in Made
    <3>1. \A i \in 1..Len(batch) : calls[i] \in {"OnData", "OnDisconnected", "none"}
      OBVIOUS
    <3>2. \A i \in 1..Len(batch) : calls[i] \in Made
      BY <3>1 DEF Calls
    <3>3. calls = [i \in 1..Len(batch) |-> calls[i]]
      OBVIOUS
    <3> HIDE DEF calls, Made
    <3>4. calls \in [1..Len(batch) -> Made]
      BY <3>2, <3>3
    <3> QED
      BY <1>2, <3>2, <3>4, IsSequence
  <2> HIDE DEF calls, batch
  <2>2. made \in SUBSET (1..Len(calls))
    BY <2>1
  <2>3. /\ Cardinality(made) \in Nat
        /\ AtPlaces(calls, made) \in Seq(Made) /\ Len(AtPlaces(calls, made)) = Cardinality(made)
        /\ \A n \in 1..Cardinality(made) :
             \E i \in made : Rank(made, i) = n /\ AtPlaces(calls, made)[n] = calls[i]
    <3> HIDE DEF made, Made
    <3> QED
      BY <2>1, <2>2, AtPlacesAre
  <2>4. \A i \in made : calls[i] \in Calls
    BY <2>1 DEF Calls
  <2> HIDE DEF made, Made
  <2>5. \A n \in 1..Len(AtPlaces(calls, made)) : AtPlaces(calls, made)[n] \in Calls
    BY <2>3, <2>4
  <2>6. AtPlaces(calls, made) \in Seq(Calls)
    BY <2>3, <2>5
  <2> QED
    BY <2>6, PeerFields, ConcatProperties
<1> HIDE DEF events
<1>4. Alike(p, down) /\ Peer(down) /\ down.state \in {p.state, "Disconnected"}
  BY DisconnectDoes, AlikeSelf DEF Alike
<1> HIDE DEF down
<1>5. Alike(down, r) /\ r.state = down.state
  BY <1>4, SendPlainly, AlikeSelf
<1> HIDE DEF r
<1>6. Alike(p, r) /\ r.state \in {p.state, "Disconnected"}
  BY <1>4, <1>5, AlikeTrans
<1>7. DataOf(p) \in Seq(Messages)
  <2>1. Bearing(batch, {"Data"}) \in SUBSET (1..Len(batch))
    BY DEF Bearing
  <2> QED
    BY <1>2, <2>1, AtPlacesAre DEF DataOf
<1>8. /\ r \in PeerRecord /\ r.nxt = p.nxt /\ r.data = p.data /\ r.nxt \in Nat
      /\ r.data \in Seq(Messages) /\ r.cookie = p.cookie /\ r.rcvd = p.rcvd
  BY <1>6, PeerFields DEF Alike, Peer
<1>9. /\ r.nxt + Len(batch) \in Nat /\ r.nxt + Len(batch) = RcvNxt(p)
      /\ r.data \o DataOf(p) \in Seq(Messages)
  <2>1. RcvNxt(p) \in Nat
    BY PeerRcvNxt
  <2>2. r.nxt + Len(batch) = RcvNxt(p)
    BY <1>2, <1>8, <2>1
  <2>3. r.data \o DataOf(p) \in Seq(Messages)
    BY <1>7, <1>8, ConcatProperties
  <2> QED
    BY <2>1, <2>2, <2>3
<1> HIDE DEF batch
<1>10. /\ q \in PeerRecord /\ q.cookie = r.cookie /\ q.rcvd = r.rcvd
       /\ q.out = r.out /\ q.once = r.once /\ q.state = r.state /\ q.acked = r.acked
       /\ q.nxt = r.nxt + Len(batch) /\ q.data = r.data \o DataOf(p)
  BY <1>3, <1>8, <1>9 DEF PeerRecord
<1> HIDE DEF q
<1>11. RcvNxt(q) = RcvNxt(p)
  BY <1>8, <1>10, SameRcvNxt
<1>12. Peer(q)
  BY <1>6, <1>9, <1>10, <1>11, PeerRcvNxt DEF Alike, Peer
<1> QED
  BY <1>1, <1>6, <1>7, <1>8, <1>9, <1>10, <1>12 DEF Alike

\* What TickIncoming leaves of p.
Ticked(p, q) ==
  /\ Peer(q)
  /\ q.cookie = p.cookie /\ q.rcvd = p.rcvd
  /\ Plainly(p.out, q.out)
  /\ p.once => q.once
  /\ p.state = "Disconnected" => q = p
  /\ p.state = "Authenticated" =>
       /\ q.state \in {"Authenticated", "Disconnected"}
       /\ q.nxt = RcvNxt(p)
       /\ DataOf(p) \in Seq(Messages) /\ q.data = p.data \o DataOf(p)
  /\ p.state = "Connected" =>
       /\ q.data = p.data
       /\ \/ q.nxt = p.nxt /\ q.state \in {"Connected", "Disconnected"}
          \/ /\ q.nxt = p.nxt + 1 /\ p.nxt \in DOMAIN p.rcvd
             /\ q.state = "Authenticated" <=> p.rcvd[p.nxt].hdr = "Hello"

\* A tick, whatever the checks find.
LEMMA TickIncomingDoes ==
  ASSUME NEW p, Peer(p), NEW broken, NEW ping, NEW pong, NEW server \in BOOLEAN
  PROVE  Ticked(p, TickIncoming(p, broken, ping, pong, server))
<1> DEFINE c == Checks(p, broken, ping)
           q == TickIncoming(p, broken, ping, pong, server)
<1>1. p.state \in {"Connected", "Authenticated", "Disconnected"} /\ p.out \in Seq(Messages)
  BY PeerFields DEF States
<1>2. Alike(p, c) /\ c.state \in {p.state, "Disconnected"}
  BY ChecksDo
<1>3. /\ Peer(c) /\ c.cookie = p.cookie /\ c.rcvd = p.rcvd /\ c.nxt = p.nxt
      /\ c.data = p.data /\ Plainly(p.out, c.out)
      /\ p.once => c.once
  BY <1>2 DEF Alike
<1>4. RcvNxt(c) = RcvNxt(p) /\ DataOf(c) = DataOf(p)
  BY <1>3, SameRcvNxt DEF DataOf
<1>5. CASE p.state = "Disconnected"
  <2>1. q = p
    BY <1>5 DEF TickIncoming
  <2>2. Plainly(p.out, p.out)
    BY <1>1, PlainlySelf
  <2> HIDE DEF q
  <2>3. Ticked(p, q)
    BY <1>5, <2>1, <2>2 DEF Ticked
  <2> QED
    BY <2>3 DEF q
<1>6. CASE p.state = "Authenticated"
  <2>1. q = TickIncoming_Authenticated(c, pong)
    BY <1>6 DEF TickIncoming
  <2> HIDE DEF q, c
  <2>2. /\ Peer(q)
        /\ q.cookie = c.cookie /\ q.rcvd = c.rcvd
        /\ Plainly(c.out, q.out)
        /\ c.once => q.once
        /\ q.state \in {c.state, "Disconnected"}
        /\ q.nxt = RcvNxt(c)
        /\ DataOf(c) \in Seq(Messages) /\ q.data = c.data \o DataOf(c)
    BY <1>3, <2>1, TickAuthenticatedDoes
  <2>3. Plainly(p.out, q.out)
    BY <1>1, <1>3, <2>2, PlainlyTrans
  <2>4. Ticked(p, q)
    BY <1>2, <1>3, <1>4, <1>6, <2>2, <2>3 DEF Ticked
  <2> QED
    BY <2>4 DEF q
<1>7. CASE p.state = "Connected"
  <2>1. q = TickIncoming_Connected(c, server)
    BY <1>7 DEF TickIncoming
  <2> HIDE DEF q, c
  <2>2. /\ Peer(q)
        /\ q.cookie = c.cookie /\ q.rcvd = c.rcvd /\ q.data = c.data
        /\ Plainly(c.out, q.out)
        /\ c.once => q.once
        /\ \/ q = c
           \/ /\ q.nxt = c.nxt + 1 /\ c.nxt \in DOMAIN c.rcvd
              /\ c.rcvd[c.nxt].hdr = "Hello" => q.state = "Authenticated"
              /\ c.rcvd[c.nxt].hdr # "Hello" => q.state \in {c.state, "Disconnected"}
    BY <1>3, <2>1, TickConnectedDoes
  <2>3. Plainly(p.out, q.out)
    BY <1>1, <1>3, <2>2, PlainlyTrans
  <2>4. \/ q.nxt = p.nxt /\ q.state \in {"Connected", "Disconnected"}
        \/ /\ q.nxt = p.nxt + 1 /\ p.nxt \in DOMAIN p.rcvd
           /\ q.state = "Authenticated" <=> p.rcvd[p.nxt].hdr = "Hello"
    BY <1>2, <1>3, <1>7, <2>2
  <2>5. Ticked(p, q)
    BY <1>3, <1>7, <2>2, <2>3, <2>4 DEF Ticked
  <2> QED
    BY <2>5 DEF q
<1> QED
  BY <1>1, <1>5, <1>6, <1>7

\* Datagrams.
Datagrams ==
  [to : {"client", "server"}, addr : Addr, cookie : Nat, kind : {"PUSH", "ACK", "BYE"},
   sn : Nat, msg : Messages, una : Nat]

\* What Input leaves of p: it may have a segment more.
Fed(p, d, q) ==
  /\ Peer(q)
  /\ q.state = p.state /\ q.cookie = p.cookie /\ q.once = p.once
  /\ q.out = p.out /\ q.nxt = p.nxt /\ q.events = p.events /\ q.data = p.data
  /\ \A sn \in DOMAIN q.rcvd :
       \/ sn \in DOMAIN p.rcvd /\ q.rcvd[sn] = p.rcvd[sn]
       \/ d.kind = "PUSH" /\ sn = d.sn /\ q.rcvd[sn] = d.msg

\* Input stores a segment it does not have.
LEMMA InputDoes ==
  ASSUME NEW p, Peer(p), NEW d \in Datagrams
  PROVE  Fed(p, d, Input(p, d))
<1> DEFINE more == p.acked \cup {sn \in 0..(Len(p.out) - 1) :
                                   sn < d.una \/ (d.kind = "ACK" /\ sn = d.sn)}
           rcvd == IF d.kind = "PUSH" /\ d.sn \notin DOMAIN p.rcvd
                   THEN [sn \in DOMAIN p.rcvd \cup {d.sn} |->
                           IF sn = d.sn THEN d.msg ELSE p.rcvd[sn]]
                   ELSE p.rcvd
           q == [p EXCEPT !.acked = more, !.rcvd = rcvd]
<1>1. p \in PeerRecord /\ IsFiniteSet(DOMAIN p.rcvd)
  BY DEF Peer
<1>2. /\ p.rcvd \in Received /\ p.acked \in SUBSET Nat /\ Len(p.out) \in Nat
      /\ DOMAIN p.rcvd \subseteq Nat /\ \A sn \in DOMAIN p.rcvd : p.rcvd[sn] \in Messages
  BY PeerFields, ReceivedHas
<1>3. d.sn \in Nat /\ d.msg \in Messages
  BY DEF Datagrams
<1>4. Input(p, d) = q
  BY DEF Input
<1>5. more \in SUBSET Nat /\ more \subseteq 0..(Len(p.out) - 1)
  BY <1>2 DEF Peer
<1>6. /\ rcvd \in Received /\ IsFiniteSet(DOMAIN rcvd)
      /\ DOMAIN p.rcvd \subseteq DOMAIN rcvd
      /\ \A sn \in DOMAIN rcvd :
           \/ sn \in DOMAIN p.rcvd /\ rcvd[sn] = p.rcvd[sn]
           \/ d.kind = "PUSH" /\ sn = d.sn /\ rcvd[sn] = d.msg
  <2>1. CASE d.kind = "PUSH" /\ d.sn \notin DOMAIN p.rcvd
    <3> DEFINE D == DOMAIN p.rcvd \cup {d.sn}
               f == [sn \in D |-> IF sn = d.sn THEN d.msg ELSE p.rcvd[sn]]
    <3>1. rcvd = f
      BY <2>1
    <3>2. D \in SUBSET Nat /\ f \in [D -> Messages] /\ DOMAIN f = D
      BY <1>2, <1>3
    <3>3. IsFiniteSet(D)
      BY <1>1, FS_AddElement
    <3>4. \A sn \in D : f[sn] = IF sn = d.sn THEN d.msg ELSE p.rcvd[sn]
      OBVIOUS
    <3>5. DOMAIN p.rcvd \subseteq D /\ \A sn \in D : sn = d.sn \/ sn \in DOMAIN p.rcvd
      OBVIOUS
    <3> HIDE DEF rcvd, f, D
    <3>6. f \in Received
      BY <3>2, ReceivedIf
    <3> QED
      BY <2>1, <3>1, <3>2, <3>3, <3>4, <3>5, <3>6
  <2>2. CASE ~(d.kind = "PUSH" /\ d.sn \notin DOMAIN p.rcvd)
    BY <1>1, <1>2, <2>2
  <2> QED
    BY <2>1, <2>2
<1> HIDE DEF more, rcvd
<1>7. /\ q \in PeerRecord /\ q.state = p.state /\ q.cookie = p.cookie /\ q.once = p.once
      /\ q.out = p.out /\ q.nxt = p.nxt /\ q.events = p.events /\ q.data = p.data
      /\ q.acked = more /\ q.rcvd = rcvd
  BY <1>1, <1>5, <1>6 DEF PeerRecord
<1> HIDE DEF q
<1>8. DOMAIN q.rcvd \subseteq Nat
  BY <1>6, <1>7, ReceivedHas
<1>9. RcvNxt(p) <= RcvNxt(q) /\ RcvNxt(q) \in Nat
  BY <1>1, <1>2, <1>6, <1>7, <1>8, RcvNxtGrows, RcvNxtIs
<1>10. q.nxt <= RcvNxt(q)
  BY <1>7, <1>9, PeerRcvNxt
<1>11. Peer(q)
  BY <1>5, <1>6, <1>7, <1>10 DEF Peer
<1>12. Fed(p, d, q)
  BY <1>6, <1>7, <1>11 DEF Fed
<1> QED
  BY <1>4, <1>12

\* A new peer, and what Reset makes of an old one.
Fresh(p, cookie) ==
  /\ Peer(p) /\ p.state = "Connected" /\ p.cookie = cookie
  /\ p.out = <<>> /\ DOMAIN p.rcvd = {} /\ p.nxt = 0 /\ p.data = <<>>

\* Both have nothing to send and nothing received.
LEMMA NewPeers ==
  /\ \A cookie \in Nat : Fresh(NewKcpPeer(cookie), cookie)
  /\ \A p : Peer(p) => Fresh(Reset(p), 0)
<1>1. <<>> \in Received /\ DOMAIN <<>> = {}
  <2>1. <<>> \in [1..0 -> Messages] /\ DOMAIN <<>> = 1..0
    BY EmptySeq, LenProperties
  <2>2. 1..0 = {}
    OBVIOUS
  <2> QED
    BY <2>1, <2>2, ReceivedIf
<1>2. <<>> \in Seq(Messages) /\ <<>> \in Seq(Calls) /\ Len(<<>>) = 0
  BY EmptySeq
<1>3. ASSUME NEW p \in PeerRecord, p.out = <<>>, p.rcvd = <<>>, p.nxt = 0, p.acked = {}
      PROVE  Peer(p)
  <2>1. IsFiniteSet(DOMAIN p.rcvd) /\ DOMAIN p.rcvd \subseteq Nat
    BY <1>1, <1>3, FS_EmptySet
  <2>2. RcvNxt(p) \in Nat
    BY <2>1, RcvNxtIs
  <2> QED
    BY <1>2, <1>3, <2>1, <2>2, MaxOutType DEF Peer
<1>4. ASSUME NEW cookie \in Nat, NEW p, p = NewKcpPeer(cookie)
      PROVE  /\ p \in PeerRecord /\ p.state = "Connected" /\ p.cookie = cookie
             /\ p.out = <<>> /\ p.rcvd = <<>> /\ p.nxt = 0 /\ p.data = <<>> /\ p.acked = {}
  <2>1. p = [state |-> "Connected", cookie |-> cookie, once |-> FALSE,
             out |-> <<>>, acked |-> {}, rcvd |-> <<>>, nxt |-> 0,
             events |-> <<>>, data |-> <<>>]
    BY <1>4 DEF NewKcpPeer
  <2>2. p \in PeerRecord
    BY <1>1, <1>2, <2>1 DEF PeerRecord, States
  <2> QED
    BY <2>1, <2>2
<1>5. ASSUME NEW cookie \in Nat
      PROVE  Fresh(NewKcpPeer(cookie), cookie)
  <2> DEFINE p == NewKcpPeer(cookie)
  <2>1. /\ p \in PeerRecord /\ p.state = "Connected" /\ p.cookie = cookie
        /\ p.out = <<>> /\ p.rcvd = <<>> /\ p.nxt = 0 /\ p.data = <<>> /\ p.acked = {}
    BY <1>4
  <2> QED
    BY <1>1, <1>3, <2>1 DEF Fresh
<1>6. ASSUME NEW old, Peer(old)
      PROVE  Fresh(Reset(old), 0)
  <2> DEFINE n == NewKcpPeer(0)
             p == [n EXCEPT !.once = old.once]
  <2>1. /\ n \in PeerRecord /\ n.state = "Connected" /\ n.cookie = 0
        /\ n.out = <<>> /\ n.rcvd = <<>> /\ n.nxt = 0 /\ n.data = <<>> /\ n.acked = {}
    BY <1>4
  <2>2. old.once \in BOOLEAN
    BY <1>6, PeerFields
  <2>3. Reset(old) = p
    BY DEF Reset
  <2> HIDE DEF n
  <2>4. /\ p \in PeerRecord /\ p.state = n.state /\ p.cookie = n.cookie
        /\ p.out = n.out /\ p.rcvd = n.rcvd /\ p.nxt = n.nxt /\ p.data = n.data
        /\ p.acked = n.acked
    BY <2>1, <2>2 DEF PeerRecord
  <2> HIDE DEF p
  <2> QED
    BY <1>1, <1>3, <2>1, <2>3, <2>4 DEF Fresh
<1> QED
  BY <1>5, <1>6

(***************************************************************************)
(* The peer made for a datagram from an unknown address.  It becomes       *)
(* authenticated by a Hello, the first segment of its sender, and then has *)
(* received nothing else and sent nothing but its own Hello.               *)
(***************************************************************************)
LEMMA AcceptedPeer ==
  ASSUME NEW cookie \in Nat, NEW d \in Datagrams
  PROVE  LET p == Input(NewKcpPeer(cookie), d)
             q == TickIncoming(p, FALSE, FALSE, FALSE, TRUE)
         IN  /\ Peer(p) /\ Peer(q) /\ p.cookie = cookie /\ q.cookie = cookie
             /\ q.state = "Authenticated" =>
                  /\ d.kind = "PUSH" /\ d.sn = 0 /\ q.out = <<Bare("Hello")>>
                  /\ q.nxt = 1 /\ q.data = <<>>
                  /\ \A sn \in DOMAIN q.rcvd :
                       sn = 0 /\ q.rcvd[sn] = d.msg /\ d.msg.hdr = "Hello"
<1> DEFINE n == NewKcpPeer(cookie)
           p == Input(NewKcpPeer(cookie), d)
           q == TickIncoming(p, FALSE, FALSE, FALSE, TRUE)
<1>1. /\ Peer(n) /\ n.state = "Connected" /\ n.cookie = cookie
      /\ n.out = <<>> /\ DOMAIN n.rcvd = {} /\ n.nxt = 0 /\ n.data = <<>>
  BY NewPeers DEF Fresh
<1>2. Fed(n, d, p)
  BY <1>1, InputDoes
<1> HIDE DEF n
<1>3. q = TickIncoming_Connected(p, TRUE)
  <2>1. p.state = "Connected"
    BY <1>1, <1>2 DEF Fed
  <2>2. Checks(p, FALSE, FALSE) = p
    BY DEF Checks
  <2> QED
    BY <2>1, <2>2 DEF TickIncoming
<1> HIDE DEF p, q
<1>4. /\ Peer(p) /\ p.state = "Connected" /\ p.cookie = cookie /\ p.out = <<>>
      /\ p.nxt = 0 /\ p.data = <<>>
      /\ \A sn \in DOMAIN p.rcvd : d.kind = "PUSH" /\ sn = d.sn /\ p.rcvd[sn] = d.msg
  BY <1>1, <1>2 DEF Fed
<1>5. /\ Peer(q)
      /\ q.cookie = p.cookie /\ q.rcvd = p.rcvd /\ q.data = p.data
      /\ \/ q = p
         \/ /\ q.nxt = p.nxt + 1 /\ p.nxt \in DOMAIN p.rcvd
            /\ p.rcvd[p.nxt].hdr = "Hello" => q.state = "Authenticated"
            /\ p.rcvd[p.nxt].hdr # "Hello" => q.state \in {p.state, "Disconnected"}
            /\ p.rcvd[p.nxt].hdr = "Hello" /\ p.out = <<>> =>
                 q.out = <<Bare("Hello")>>
  BY <1>3, <1>4, TickConnectedDoes
<1>6. ASSUME q.state = "Authenticated"
      PROVE  /\ d.kind = "PUSH" /\ d.sn = 0 /\ q.out = <<Bare("Hello")>>
             /\ q.nxt = 1 /\ q.data = <<>>
             /\ \A sn \in DOMAIN q.rcvd :
                  sn = 0 /\ q.rcvd[sn] = d.msg /\ d.msg.hdr = "Hello"
  <2>1. /\ q.nxt = 1 /\ 0 \in DOMAIN p.rcvd /\ p.rcvd[0].hdr = "Hello"
        /\ q.out = <<Bare("Hello")>>
    BY <1>4, <1>5, <1>6
  <2>2. d.kind = "PUSH" /\ d.sn = 0 /\ p.rcvd[0] = d.msg
    BY <1>4, <2>1
  <2> QED
    BY <1>4, <1>5, <2>1, <2>2
<1> QED
  BY <1>4, <1>5, <1>6 DEF p, q

\* The callback after the sleep, Disconnect up to it, and a learned cookie.
LEMMA CallbackDoes ==
  ASSUME NEW p, Peer(p), NEW q, q = [p EXCEPT !.events = Append(@, "OnDisconnected")]
  PROVE  Alike(p, q) /\ q.state = p.state /\ q.out = p.out
<1>1. p \in PeerRecord /\ Append(p.events, "OnDisconnected") \in Seq(Calls)
  BY PeerFields, AppendProperties DEF Peer, Calls
<1>2. /\ q \in PeerRecord /\ q.cookie = p.cookie /\ q.rcvd = p.rcvd
      /\ q.nxt = p.nxt /\ q.data = p.data /\ q.out = p.out /\ q.acked = p.acked
      /\ q.once = p.once /\ q.state = p.state
  BY <1>1 DEF PeerRecord
<1>3. RcvNxt(q) = RcvNxt(p)
  BY <1>2, SameRcvNxt
<1>4. Peer(q)
  BY <1>2, <1>3 DEF Peer
<1>5. Plainly(p.out, q.out)
  BY <1>2, PeerFields, PlainlySelf
<1> QED
  BY <1>2, <1>4, <1>5 DEF Alike

\* Disconnect by a user, up to the sleep.
LEMMA ClosedDoes ==
  ASSUME NEW p, Peer(p), NEW q, q = [p EXCEPT !.once = TRUE, !.state = "Disconnected"]
  PROVE  Alike(p, q) /\ q.state = "Disconnected" /\ q.once /\ q.out = p.out
<1>1. p \in PeerRecord
  BY DEF Peer
<1>2. /\ q \in PeerRecord /\ q.cookie = p.cookie /\ q.rcvd = p.rcvd
      /\ q.nxt = p.nxt /\ q.data = p.data /\ q.out = p.out /\ q.acked = p.acked
      /\ q.once = TRUE /\ q.state = "Disconnected"
  BY <1>1 DEF PeerRecord, States
<1>3. RcvNxt(q) = RcvNxt(p)
  BY <1>2, SameRcvNxt
<1>4. Peer(q)
  BY <1>2, <1>3 DEF Peer
<1>5. Plainly(p.out, q.out)
  BY <1>2, PeerFields, PlainlySelf
<1> QED
  BY <1>2, <1>4, <1>5 DEF Alike

\* The client learns its cookie.
LEMMA CookieDoes ==
  ASSUME NEW p, Peer(p), NEW cookie \in Nat, NEW q, q = [p EXCEPT !.cookie = cookie]
  PROVE  /\ Peer(q) /\ q.cookie = cookie /\ q.rcvd = p.rcvd /\ q.nxt = p.nxt
         /\ q.data = p.data /\ q.out = p.out /\ q.once = p.once /\ q.state = p.state
<1>1. p \in PeerRecord
  BY DEF Peer
<1>2. /\ q \in PeerRecord /\ q.cookie = cookie /\ q.rcvd = p.rcvd
      /\ q.nxt = p.nxt /\ q.data = p.data /\ q.out = p.out /\ q.acked = p.acked
      /\ q.once = p.once /\ q.state = p.state
  BY <1>1 DEF PeerRecord
<1>3. RcvNxt(q) = RcvNxt(p)
  BY <1>2, SameRcvNxt
<1>4. Peer(q)
  BY <1>2, <1>3 DEF Peer
<1> QED
  BY <1>2, <1>4

----------------------------------------------------------------------------
(* Datagrams. *)

\* d is from a peer with this cookie and these messages.
From(d, to, addr, cookie, out) ==
  /\ d \in Datagrams
  /\ d.to = to /\ d.addr = addr /\ d.cookie = cookie
  /\ d.kind = "PUSH" => d.sn + 1 \in 1..Len(out) /\ d.msg = out[d.sn + 1]

\* flush sends what is in the send queue,
LEMMA FlushIs ==
  ASSUME NEW to \in {"client", "server"}, NEW addr \in Addr, NEW p, Peer(p),
         NEW d \in Flush(to, addr, p)
  PROVE  From(d, to, addr, p.cookie, p.out)
<1>1. /\ p.out \in Seq(Messages) /\ Len(p.out) \in Nat /\ p.cookie \in Nat
      /\ RcvNxt(p) \in Nat
  BY PeerFields, PeerRcvNxt
<1>2. PICK sn \in 0..(Len(p.out) - 1) :
        d = Datagram(to, addr, p.cookie, "PUSH", sn, p.out[sn + 1], RcvNxt(p))
  BY DEF Flush
<1>3. sn \in Nat /\ sn + 1 \in 1..Len(p.out)
  BY <1>1
<1>4. p.out[sn + 1] \in Messages
  BY <1>1, <1>3, ElementOfSeq
<1> QED
  BY <1>1, <1>2, <1>3, <1>4 DEF From, Datagram, Datagrams

\* Input acknowledges, and
LEMMA AckIs ==
  ASSUME NEW to \in {"client", "server"}, NEW addr \in Addr, NEW p, Peer(p),
         NEW e \in Datagrams, NEW d \in Ack(to, addr, p, e), NEW out
  PROVE  From(d, to, addr, p.cookie, out)
<1>1. p.cookie \in Nat /\ RcvNxt(p) \in Nat /\ e.sn \in Nat /\ Bare("none") \in Messages
  BY PeerFields, PeerRcvNxt, MessageTypes DEF Datagrams
<1>2. d = Datagram(to, addr, p.cookie, "ACK", e.sn, Bare("none"), RcvNxt(p))
  BY DEF Ack
<1> QED
  BY <1>1, <1>2 DEF From, Datagram, Datagrams

\* SendDisconnect says goodbye.
LEMMA ByeIs ==
  ASSUME NEW to \in {"client", "server"}, NEW addr \in Addr, NEW p, Peer(p), NEW q,
         NEW d \in Bye(to, addr, p, q), NEW out
  PROVE  From(d, to, addr, p.cookie, out)
<1>1. p.cookie \in Nat /\ Bare("none") \in Messages
  BY PeerFields, MessageTypes
<1>2. d = Datagram(to, addr, p.cookie, "BYE", 0, Bare("none"), 0)
  BY DEF Bye
<1> QED
  BY <1>1, <1>2 DEF From, Datagram, Datagrams

----------------------------------------------------------------------------
(* The state. *)

ConnRecord == [addr : Addr, peer : PeerRecord]

\* A connection is scheduled for removal or being disconnected by the server's
\* user after disconnectOnce has run, and not both.
Scheduled ==
  /\ toRemove \cup kicking \subseteq DOMAIN connections
  /\ toRemove \cap kicking = {}
  /\ \A id \in toRemove \cup kicking : connections[id].peer.once

\* The shape of the state.
Shape ==
  /\ Peer(client)
  /\ sock \in used \cup {NoAddr} /\ used \subseteq Addr
  /\ connected \in BOOLEAN /\ closing \in BOOLEAN
  /\ DOMAIN connections \subseteq Id
  /\ \A id \in DOMAIN connections : /\ connections[id] \in ConnRecord
                                    /\ Peer(connections[id].peer)
                                    /\ Hash[connections[id].addr] = id
  /\ Scheduled
  /\ issued \subseteq Cookies
  /\ got \in [Addr -> Seq(Messages)]
  /\ net \subseteq Datagrams

\* A connection of the map.
LEMMA ConnIs ==
  ASSUME Shape, NEW id \in DOMAIN connections
  PROVE  /\ connections[id] \in ConnRecord /\ connections[id].addr \in Addr
         /\ Peer(connections[id].peer) /\ Hash[connections[id].addr] = id
  BY DEF Shape, ConnRecord

(***************************************************************************)
(* What a step of the client may do, but for Connect.                      *)
(***************************************************************************)
Heard(p, q) ==
  /\ q.nxt = p.nxt /\ q.data = p.data /\ q.state \in {p.state, "Disconnected"}
  /\ \A sn \in DOMAIN q.rcvd :
       \/ sn \in DOMAIN p.rcvd /\ q.rcvd[sn] = p.rcvd[sn]
       \/ \E d \in net : /\ d.to = "client" /\ d.addr = sock /\ d.cookie = q.cookie
                         /\ d.kind = "PUSH" /\ sn = d.sn /\ q.rcvd[sn] = d.msg

Learned(p, q) ==
  \/ q.cookie = p.cookie
  \/ /\ p.cookie = 0
     /\ \E d \in net : d.to = "client" /\ d.addr = sock /\ d.cookie = q.cookie

ClientStep ==
  /\ UNCHANGED <<serverVars, used>>
  /\ sock' \in {sock, NoAddr}
  /\ connected' \in BOOLEAN /\ closing' \in BOOLEAN
  /\ Peer(client')
  /\ Learned(client, client')
  /\ Heard(client, client') \/ Ticked(client, client')
  /\ Extends(client.out, client'.out)
  /\ \/ Plainly(client.out, client'.out)
     \/ /\ client.cookie # 0
        /\ Numbered(client.out, sock) => Numbered(client'.out, sock)
  /\ \A d \in net' : d \in net \/ From(d, "server", sock, client'.cookie, client'.out)

(***************************************************************************)
(* What a step of the server may do to a connection, but for a tick.       *)
(***************************************************************************)
Evolves(id, p, q) ==
  /\ Peer(q) /\ q.cookie = p.cookie /\ q.nxt = p.nxt
  /\ p.once => q.once
  /\ q.state \in {p.state, "Disconnected"}
  /\ Extends(p.out, q.out)
  /\ Numbered(p.out, p.cookie) => Numbered(q.out, p.cookie)
  /\ \A sn \in DOMAIN q.rcvd :
       \/ sn \in DOMAIN p.rcvd /\ q.rcvd[sn] = p.rcvd[sn]
       \/ \E d \in net : /\ d.to = "server" /\ Hash[d.addr] = id
                         /\ ServerAccepts(p, d.cookie)
                         /\ d.kind = "PUSH" /\ sn = d.sn /\ q.rcvd[sn] = d.msg

FromServer ==
  \A d \in net' :
    \/ d \in net
    \/ \E id \in DOMAIN connections :
         From(d, "client", connections[id].addr, connections[id].peer.cookie,
              connections[id].peer.out)

ServerStep ==
  /\ UNCHANGED <<clientVars, issued, got>>
  /\ DOMAIN connections' = DOMAIN connections
  /\ \A id \in DOMAIN connections :
       /\ connections'[id] \in ConnRecord
       /\ connections'[id].addr = connections[id].addr
       /\ Evolves(id, connections[id].peer, connections'[id].peer)
  /\ Scheduled'
  /\ FromServer

\* A connection that is left alone,
LEMMA EvolvesSelf ==
  ASSUME NEW p, Peer(p), NEW id
  PROVE  Evolves(id, p, p)
<1>1. Extends(p.out, p.out)
  BY PeerFields, PlainlySelf DEF Plainly
<1> QED
  BY <1>1 DEF Evolves

\* and one whose peer is alike but for its state.
LEMMA EvolvesAlike ==
  ASSUME NEW p, Peer(p), NEW q, Alike(p, q), q.state \in {p.state, "Disconnected"}, NEW id
  PROVE  Evolves(id, p, q)
<1>1. Extends(p.out, q.out) /\ p.out \in Seq(Messages)
  BY PeerFields DEF Alike, Plainly
<1>2. Numbered(p.out, p.cookie) => Numbered(q.out, p.cookie)
  BY <1>1, PlainlyNumbered DEF Alike
<1> QED
  BY <1>1, <1>2 DEF Evolves, Alike

----------------------------------------------------------------------------
(* The steps of the client. *)

\* A step that leaves the client alike but for its state.
LEMMA AlikeClient ==
  ASSUME Shape, Alike(client, client'), client'.state \in {client.state, "Disconnected"},
         UNCHANGED <<serverVars, used>>, sock' \in {sock, NoAddr},
         connected' \in BOOLEAN, closing' \in BOOLEAN,
         \A d \in net' : d \in net \/ From(d, "server", sock, client'.cookie, client'.out)
  PROVE  ClientStep
<1>1. Heard(client, client') /\ Learned(client, client')
  BY DEF Alike, Heard, Learned
<1>2. Peer(client') /\ Plainly(client.out, client'.out) /\ Extends(client.out, client'.out)
  BY DEF Alike, Plainly
<1> QED
  BY <1>1, <1>2 DEF ClientStep

\* What the callbacks leave of the socket.
LEMMA CallbacksDo ==
  ASSUME NEW p, NEW q, Callbacks(p, q)
  PROVE  sock' \in {sock, NoAddr} /\ connected' \in BOOLEAN
<1>1. sock' \in {sock, NoAddr}
  BY DEF Callbacks
<1>2. connected' \in BOOLEAN
  BY Zenon DEF Callbacks
<1> QED
  BY <1>1, <1>2

\* The Data a peer with these messages sends next.
LEMMA SendDataDoes ==
  ASSUME NEW p, Peer(p), NEW src \in Addr \cup Nat \cup {NoAddr}, Len(p.out) < MaxOut
  PROVE  LET q == SendData(p, src)
         IN  /\ Peer(q)
             /\ q.state = p.state /\ q.once = p.once
             /\ q.cookie = p.cookie /\ q.rcvd = p.rcvd /\ q.nxt = p.nxt
             /\ q.data = p.data
             /\ Extends(p.out, q.out)
             /\ Numbered(p.out, src) => Numbered(q.out, src)
<1> DEFINE m == Message("Data", src, Cardinality(Bearing(p.out, {"Data"})) + 1)
           q == SendData(p, src)
<1>1. p.out \in Seq(Messages) /\ Len(p.out) \in Nat
  BY PeerFields
<1>2. Cardinality(Bearing(p.out, {"Data"})) \in Nat
  <2>1. Bearing(p.out, {"Data"}) = {i \in 1..Len(p.out) : p.out[i].hdr = "Data"}
    BY DEF Bearing
  <2>2. Count(p.out, Len(p.out)) \in Nat
    BY <1>1, CountType
  <2> QED
    BY <2>1, <2>2 DEF Count
<1>3. m \in Messages
  BY <1>2, MessageTypes
<1>4. q = SendReliable(p, m)
  BY DEF SendData
<1> HIDE DEF q
<1>5. /\ Peer(q)
      /\ q.state = p.state /\ q.once = p.once
      /\ q.cookie = p.cookie /\ q.rcvd = p.rcvd /\ q.nxt = p.nxt
      /\ q.data = p.data
      /\ q.out = Append(p.out, m)
  <2> HIDE DEF m
  <2> QED
    BY <1>3, <1>4, SendDoes
<1>6. Extends(p.out, Append(p.out, m))
  <2> HIDE DEF m
  <2>1. /\ Len(Append(p.out, m)) = Len(p.out) + 1
        /\ \A i \in 1..Len(p.out) : Append(p.out, m)[i] = p.out[i]
    BY <1>1, <1>3, AppendProperties
  <2> QED
    BY <1>1, <2>1 DEF Extends
<1>7. Numbered(p.out, src) => Numbered(Append(p.out, m), src)
  BY <1>1, <1>3, NextData
<1> QED
  BY <1>5, <1>6, <1>7 DEF q

\* Send is refused without a cookie.
LEMMA ClientSendStep ==
  ASSUME Shape, ClientSend
  PROVE  ClientStep
<1>1. /\ client.cookie # 0 /\ Len(client.out) < MaxOut /\ client' = SendData(client, sock)
      /\ UNCHANGED <<sock, connected, closing, asked, used, serverVars, net>>
  BY DEF ClientSend
<1>2. Peer(client) /\ sock \in Addr \cup Nat \cup {NoAddr} /\ connected \in BOOLEAN
      /\ closing \in BOOLEAN
  BY DEF Shape
<1>3. /\ Peer(client')
      /\ client'.state = client.state /\ client'.once = client.once
      /\ client'.cookie = client.cookie /\ client'.rcvd = client.rcvd
      /\ client'.nxt = client.nxt /\ client'.data = client.data
      /\ Extends(client.out, client'.out)
      /\ Numbered(client.out, sock) => Numbered(client'.out, sock)
  BY <1>1, <1>2, SendDataDoes
<1>4. Heard(client, client') /\ Learned(client, client')
  BY <1>3 DEF Heard, Learned
<1> QED
  BY <1>1, <1>2, <1>3, <1>4 DEF ClientStep

\* A goodbye, if there is a socket.
LEMMA ByeSent ==
  ASSUME Shape, NEW p, Peer(p), NEW q, NEW out,
         Transmit(IF sock = NoAddr THEN {} ELSE Bye("server", sock, p, q))
  PROVE  \A d \in net' : d \in net \/ From(d, "server", sock, p.cookie, out)
<1>1. sock \in Addr \cup {NoAddr}
  BY DEF Shape
<1>2. \A d \in net' : d \in net \/ (sock # NoAddr /\ d \in Bye("server", sock, p, q))
  BY DEF Transmit
<1> QED
  BY <1>1, <1>2, ByeIs

\* Disconnect, up to the sleep,
LEMMA ClientDisconnectStep ==
  ASSUME Shape, ClientDisconnect
  PROVE  ClientStep
<1>1. Peer(client) /\ connected \in BOOLEAN /\ closing \in BOOLEAN
  BY DEF Shape
<1>2. UNCHANGED <<sock, connected, used, serverVars>>
  BY DEF ClientDisconnect
<1>3. CASE client.once
  <2>1. UNCHANGED <<client, closing, net>>
    BY <1>3 DEF ClientDisconnect
  <2>2. Alike(client, client')
    BY <1>1, <2>1, AlikeSelf
  <2> QED
    BY <1>1, <1>2, <2>1, <2>2, AlikeClient
<1>4. CASE ~client.once
  <2>1. /\ client' = [client EXCEPT !.once = TRUE, !.state = "Disconnected"]
        /\ closing' = TRUE
        /\ Transmit(IF sock = NoAddr THEN {} ELSE Bye("server", sock, client, client'))
    BY <1>4 DEF ClientDisconnect
  <2>2. Alike(client, client') /\ client'.state = "Disconnected"
    BY <1>1, <2>1, ClosedDoes
  <2>3. \A d \in net' : d \in net \/ From(d, "server", sock, client.cookie, client'.out)
    BY <1>1, <2>1, ByeSent
  <2>4. client'.cookie = client.cookie
    BY <2>2 DEF Alike
  <2> QED
    BY <1>1, <1>2, <2>1, <2>2, <2>3, <2>4, AlikeClient
<1> QED
  BY <1>3, <1>4

\* and after it.
LEMMA ClientDisconnectedStep ==
  ASSUME Shape, ClientDisconnected
  PROVE  ClientStep
<1>1. Peer(client)
  BY DEF Shape
<1>2. /\ closing' = FALSE /\ sock' = NoAddr /\ connected' = FALSE
      /\ client' = [client EXCEPT !.events = Append(@, "OnDisconnected")]
      /\ UNCHANGED <<used, serverVars, net>>
  BY DEF ClientDisconnected
<1>3. Alike(client, client') /\ client'.state = client.state
  BY <1>1, <1>2, CallbackDoes
<1> QED
  BY <1>2, <1>3, AlikeClient

\* RawInput: the cookie of the datagram is the client's afterwards.
LEMMA ClientRawInputStep ==
  ASSUME Shape, NEW d \in net, ClientRawInput(d)
  PROVE  ClientStep
<1> DEFINE p == [client EXCEPT !.cookie = IF client.cookie = 0 THEN d.cookie ELSE client.cookie]
<1>1. /\ d.to = "client" /\ d.addr = sock
      /\ Accepts(client, d.cookie)
      /\ client' = IF d.kind = "BYE" THEN Disconnect(p) ELSE Input(p, d)
      /\ Transmit(Ack("server", sock, client', d) \cup Bye("server", sock, p, client'))
      /\ Callbacks(client, client')
      /\ UNCHANGED <<closing, used, serverVars>>
  BY DEF ClientRawInput
<1>2. /\ Peer(client) /\ client.cookie \in Nat /\ d \in Datagrams /\ d.cookie \in Nat
      /\ sock \in Addr /\ closing \in BOOLEAN
  BY <1>1, PeerFields DEF Shape, Datagrams
<1>3. /\ Peer(p) /\ p.cookie = (IF client.cookie = 0 THEN d.cookie ELSE client.cookie)
      /\ p.rcvd = client.rcvd /\ p.nxt = client.nxt /\ p.data = client.data
      /\ p.out = client.out /\ p.once = client.once /\ p.state = client.state
  BY <1>2, CookieDoes
<1> HIDE DEF p
<1>4. p.cookie = d.cookie
  BY <1>1, <1>3 DEF Accepts
<1>5. /\ Peer(client') /\ client'.cookie = d.cookie /\ client'.nxt = client.nxt
      /\ client'.data = client.data /\ client'.out = client.out
      /\ client'.state \in {client.state, "Disconnected"}
      /\ \A sn \in DOMAIN client'.rcvd :
           \/ sn \in DOMAIN client.rcvd /\ client'.rcvd[sn] = client.rcvd[sn]
           \/ d.kind = "PUSH" /\ sn = d.sn /\ client'.rcvd[sn] = d.msg
  <2>1. CASE d.kind = "BYE"
    <3>1. client' = Disconnect(p)
      BY <1>1, <2>1
    <3>2. /\ Alike(p, client') /\ client'.out = p.out
          /\ client'.state \in {p.state, "Disconnected"}
      BY <1>3, <3>1, DisconnectDoes
    <3> QED
      BY <1>3, <1>4, <3>2 DEF Alike
  <2>2. CASE d.kind # "BYE"
    <3>1. Fed(p, d, client')
      BY <1>1, <1>2, <1>3, <2>2, InputDoes
    <3> QED
      BY <1>3, <1>4, <3>1 DEF Fed
  <2> QED
    BY <2>1, <2>2
<1>6. Heard(client, client')
  BY <1>1, <1>5 DEF Heard
<1>7. Learned(client, client')
  BY <1>1, <1>3, <1>4, <1>5 DEF Learned
<1>8. Plainly(client.out, client'.out) /\ Extends(client.out, client'.out)
  BY <1>2, <1>5, PeerFields, PlainlySelf DEF Plainly
<1>9. ASSUME NEW e \in net'
      PROVE  e \in net \/ From(e, "server", sock, client'.cookie, client'.out)
  <2>1. \/ e \in net \/ e \in Ack("server", sock, client', d)
        \/ e \in Bye("server", sock, p, client')
    BY <1>1 DEF Transmit
  <2>2. CASE e \in Ack("server", sock, client', d)
    BY <1>2, <1>5, <2>2, AckIs
  <2>3. CASE e \in Bye("server", sock, p, client')
    BY <1>2, <1>3, <1>4, <1>5, <2>3, ByeIs
  <2> QED
    BY <2>1, <2>2, <2>3
<1>10. sock' \in {sock, NoAddr} /\ connected' \in BOOLEAN
  BY <1>1, CallbacksDo
<1> QED
  BY <1>1, <1>2, <1>5, <1>6, <1>7, <1>8, <1>9, <1>10 DEF ClientStep

\* A tick.
LEMMA ClientTickIncomingStep ==
  ASSUME Shape, ClientTickIncoming
  PROVE  ClientStep
<1>1. PICK broken \in BOOLEAN, ping \in Maybe, pong \in Maybe :
        client' = TickIncoming(client, broken, ping, pong, FALSE)
  BY DEF ClientTickIncoming
<1>2. /\ Transmit(IF sock = NoAddr THEN {} ELSE Bye("server", sock, client, client'))
      /\ Callbacks(client, client')
      /\ UNCHANGED <<closing, used, serverVars>>
  BY DEF ClientTickIncoming
<1>3. Peer(client) /\ closing \in BOOLEAN
  BY DEF Shape
<1>4. Ticked(client, client')
  BY <1>1, <1>3, TickIncomingDoes
<1>5. /\ Peer(client') /\ client'.cookie = client.cookie
      /\ Plainly(client.out, client'.out) /\ Extends(client.out, client'.out)
  BY <1>4 DEF Ticked, Plainly
<1>6. \A d \in net' : d \in net \/ From(d, "server", sock, client'.cookie, client'.out)
  BY <1>2, <1>3, <1>5, ByeSent
<1>7. sock' \in {sock, NoAddr} /\ connected' \in BOOLEAN
  BY <1>2, CallbacksDo
<1> QED
  BY <1>2, <1>3, <1>4, <1>5, <1>6, <1>7 DEF ClientStep, Learned

\* A flush, or the goodbye of a dead link.
LEMMA ClientTickOutgoingStep ==
  ASSUME Shape, ClientTickOutgoing
  PROVE  ClientStep
<1>1. /\ client' \in {Disconnect(client), client}
      /\ Transmit(IF sock = NoAddr THEN {}
                  ELSE IF client'.once /\ ~client.once
                  THEN Bye("server", sock, client, client')
                  ELSE Flush("server", sock, client))
      /\ Callbacks(client, client')
      /\ UNCHANGED <<closing, used, serverVars>>
  BY DEF ClientTickOutgoing
<1>2. Peer(client) /\ closing \in BOOLEAN /\ sock \in Addr \cup {NoAddr}
  BY DEF Shape
<1>3. /\ Alike(client, client') /\ client'.state \in {client.state, "Disconnected"}
      /\ client'.out = client.out
  BY <1>1, <1>2, DisconnectDoes, AlikeSelf
<1>4. client'.cookie = client.cookie
  BY <1>3 DEF Alike
<1>5. ASSUME NEW d \in net', d \notin net
      PROVE  From(d, "server", sock, client'.cookie, client'.out)
  <2>1. /\ sock \in Addr
        /\ d \in Bye("server", sock, client, client') \cup Flush("server", sock, client)
    BY <1>1, <1>2, <1>5 DEF Transmit
  <2>2. CASE d \in Bye("server", sock, client, client')
    BY <1>2, <1>4, <2>1, <2>2, ByeIs
  <2>3. CASE d \in Flush("server", sock, client)
    BY <1>2, <1>3, <1>4, <2>1, <2>3, FlushIs
  <2> QED
    BY <2>1, <2>2, <2>3
<1>6. sock' \in {sock, NoAddr} /\ connected' \in BOOLEAN
  BY <1>1, CallbacksDo
<1> QED
  BY <1>1, <1>2, <1>3, <1>5, <1>6, AlikeClient

\* Connect starts with a new peer, which has its Hello to send.
ConnectStep(a) ==
  /\ Peer(client') /\ client'.state = "Connected" /\ client'.cookie = 0
  /\ client'.out = <<Bare("Hello")>> /\ DOMAIN client'.rcvd = {}
  /\ client'.nxt = 0 /\ client'.data = <<>>
  /\ sock' = a /\ a \notin used /\ used' = used \cup {a}
  /\ UNCHANGED <<connected, closing, serverVars, net>>

\* Connect resets the peer.
LEMMA ConnectDoes ==
  ASSUME Shape, NEW a \in Addr, Connect(a)
  PROVE  ConnectStep(a)
<1> DEFINE r == Reset(client)
<1>1. /\ client' = SendReliable(r, Bare("Hello"))
      /\ sock' = a /\ a \notin used /\ used' = used \cup {a}
      /\ UNCHANGED <<connected, closing, serverVars, net>>
  BY DEF Connect
<1>2. /\ Peer(r) /\ r.state = "Connected" /\ r.cookie = 0
      /\ r.out = <<>> /\ DOMAIN r.rcvd = {} /\ r.nxt = 0 /\ r.data = <<>>
  BY NewPeers DEF Shape, Fresh
<1> HIDE DEF r
<1>3. Bare("Hello") \in Messages
  BY MessageTypes
<1>4. /\ Peer(client') /\ client'.state = r.state /\ client'.cookie = r.cookie
      /\ client'.rcvd = r.rcvd /\ client'.nxt = r.nxt /\ client'.data = r.data
      /\ client'.out = IF Len(r.out) < MaxOut THEN Append(r.out, Bare("Hello")) ELSE r.out
  BY <1>1, <1>2, <1>3, SendDoes
<1>5. client'.out = <<Bare("Hello")>>
  <2>1. Len(r.out) = 0
    BY <1>2, EmptySeq
  <2>2. Append(<<>>, Bare("Hello")) = <<Bare("Hello")>>
    OBVIOUS
  <2> QED
    BY <1>2, <1>4, <2>1, <2>2, MaxOutType
<1> QED
  BY <1>1, <1>2, <1>4, <1>5 DEF ConnectStep

----------------------------------------------------------------------------
(* The steps of the server. *)

\* The closure schedules those of the map.
LEMMA ScheduleDoes ==
  ASSUME NEW down, ScheduleRemoval(down)
  PROVE  toRemove' = toRemove \cup (down \cap DOMAIN connections)
  BY DEF ScheduleRemoval

\* A connection with another peer.
LEMMA PeerChanged ==
  ASSUME NEW c \in ConnRecord, NEW p \in PeerRecord, NEW e, e = [c EXCEPT !.peer = p]
  PROVE  e \in ConnRecord /\ e.addr = c.addr /\ e.peer = p
  BY DEF ConnRecord

\* A peer is a record.
LEMMA PeerIsRecord ==
  ASSUME NEW p, Peer(p)
  PROVE  p \in PeerRecord
  BY DEF Peer

\* A step that changes the peer of one connection.
LEMMA OneEvolves ==
  ASSUME Shape, NEW id \in DOMAIN connections, NEW p, Evolves(id, connections[id].peer, p),
         connections' = [connections EXCEPT ![id].peer = p],
         UNCHANGED <<clientVars, issued, got>>, FromServer,
         toRemove' \cup kicking' \subseteq DOMAIN connections,
         toRemove' \cap kicking' = {},
         \A i \in (toRemove' \cup kicking') \ (toRemove \cup kicking) : i = id /\ p.once
  PROVE  ServerStep /\ connections'[id].peer = p
<1> DEFINE c == [connections[id] EXCEPT !.peer = p]
<1>1. Peer(p) /\ p \in PeerRecord
  BY PeerIsRecord DEF Evolves
<1>2. connections[id] \in ConnRecord
  BY ConnIs
<1>3. c \in ConnRecord /\ c.addr = connections[id].addr /\ c.peer = p
  BY <1>1, <1>2, PeerChanged
<1>4. /\ DOMAIN connections' = DOMAIN connections
      /\ connections'[id] = c
      /\ \A i \in DOMAIN connections : i # id => connections'[i] = connections[i]
  OBVIOUS
<1> HIDE DEF c
<1>5. ASSUME NEW i \in DOMAIN connections
      PROVE  /\ connections'[i] \in ConnRecord
             /\ connections'[i].addr = connections[i].addr
             /\ Evolves(i, connections[i].peer, connections'[i].peer)
  <2>1. CASE i = id
    BY <1>3, <1>4, <2>1
  <2>2. CASE i # id
    BY <1>4, <2>2, ConnIs, EvolvesSelf
  <2> QED
    BY <2>1, <2>2
<1>6. Scheduled'
  <2>1. \A i \in DOMAIN connections : connections[i].peer.once => connections'[i].peer.once
    BY <1>5 DEF Evolves
  <2>2. \A i \in toRemove \cup kicking : i \in DOMAIN connections /\ connections[i].peer.once
    BY DEF Shape, Scheduled
  <2>3. \A i \in toRemove' \cup kicking' : connections'[i].peer.once
    BY <1>3, <1>4, <2>1, <2>2
  <2> QED
    BY <1>4, <2>3 DEF Scheduled
<1> QED
  BY <1>3, <1>4, <1>5, <1>6 DEF ServerStep

\* Nothing is sent but what the given sets hold.
LEMMA ServerSends ==
  ASSUME NEW out, Transmit(out),
         \A d \in out : \E id \in DOMAIN connections :
           From(d, "client", connections[id].addr, connections[id].peer.cookie,
                connections[id].peer.out)
  PROVE  FromServer
  BY DEF Transmit, FromServer

\* processMessage for a connection of the map.
LEMMA ServerRawInputStep ==
  ASSUME Shape, NEW d \in net, ServerRawInput(d)
  PROVE  ServerStep
<1> DEFINE id == Hash[d.addr]
           c == connections[id]
           p == IF d.kind = "BYE" THEN Disconnect(c.peer) ELSE Input(c.peer, d)
<1>1. /\ d.to = "server"
      /\ id \in DOMAIN connections \ toRemove
      /\ ServerAccepts(c.peer, d.cookie)
      /\ connections' = [connections EXCEPT ![id].peer = p]
      /\ ScheduleRemoval(Down(connections, connections'))
      /\ Transmit(Ack("client", c.addr, p, d) \cup Bye("client", c.addr, c.peer, p))
      /\ UNCHANGED <<clientVars, kicking, issued, opened, got>>
  BY DEF ServerRawInput
<1>2. /\ d \in Datagrams /\ id \in DOMAIN connections /\ Peer(c.peer) /\ c.addr \in Addr
      /\ c \in ConnRecord
  BY <1>1, ConnIs DEF Shape
<1>3. Evolves(id, c.peer, p) /\ p.out = c.peer.out /\ Peer(p)
  <2>1. CASE d.kind = "BYE"
    <3>1. p = Disconnect(c.peer)
      BY <2>1
    <3> HIDE DEF p, c, id
    <3>2. /\ Alike(c.peer, p) /\ p.out = c.peer.out
          /\ p.state \in {c.peer.state, "Disconnected"}
      BY <1>2, <3>1, DisconnectDoes
    <3> QED
      BY <1>2, <3>2, EvolvesAlike DEF Alike
  <2>2. CASE d.kind # "BYE"
    <3>1. p = Input(c.peer, d)
      BY <2>2
    <3> HIDE DEF p, c
    <3>2. Fed(c.peer, d, p)
      BY <1>2, <3>1, InputDoes
    <3>3. Extends(c.peer.out, c.peer.out)
      BY <1>2, PeerFields, PlainlySelf DEF Plainly
    <3>4. /\ Peer(p) /\ p.state = c.peer.state /\ p.cookie = c.peer.cookie
          /\ p.once = c.peer.once /\ p.out = c.peer.out /\ p.nxt = c.peer.nxt
          /\ \A sn \in DOMAIN p.rcvd :
               \/ sn \in DOMAIN c.peer.rcvd /\ p.rcvd[sn] = c.peer.rcvd[sn]
               \/ d.kind = "PUSH" /\ sn = d.sn /\ p.rcvd[sn] = d.msg
      BY <3>2 DEF Fed
    <3> QED
      BY <1>1, <3>3, <3>4 DEF Evolves
  <2> QED
    BY <2>1, <2>2
<1> HIDE DEF p
<1>4. p.cookie = c.peer.cookie
  BY <1>3 DEF Evolves
<1>5. ASSUME NEW e \in Ack("client", c.addr, p, d) \cup Bye("client", c.addr, c.peer, p)
      PROVE  From(e, "client", c.addr, c.peer.cookie, c.peer.out)
  <2>1. CASE e \in Ack("client", c.addr, p, d)
    BY <1>2, <1>3, <1>4, <2>1, AckIs
  <2>2. CASE e \in Bye("client", c.addr, c.peer, p)
    BY <1>2, <2>2, ByeIs
  <2> QED
    BY <2>1, <2>2
<1>6. FromServer
  BY <1>1, <1>2, <1>5, ServerSends
<1>7. /\ DOMAIN connections' = DOMAIN connections /\ connections'[id].peer = p
      /\ \A i \in DOMAIN connections : i # id => connections'[i] = connections[i]
  <2> HIDE DEF id
  <2>1. connections'[id] = [connections[id] EXCEPT !.peer = p]
    BY <1>1, <1>2
  <2>2. p \in PeerRecord
    BY <1>3, PeerIsRecord
  <2>3. connections'[id].peer = p
    BY <1>2, <2>1, <2>2, PeerChanged
  <2> QED
    BY <1>1, <2>3
<1>8. \A i \in Down(connections, connections') : i = id /\ p.once /\ ~c.peer.once
  BY <1>7 DEF Down
<1>9. toRemove' = toRemove \cup (Down(connections, connections') \cap DOMAIN connections)
  BY <1>1, ScheduleDoes
<1>10. /\ toRemove' \cup kicking' \subseteq DOMAIN connections
       /\ toRemove' \cap kicking' = {}
  BY <1>1, <1>8, <1>9 DEF Shape, Scheduled
<1>11. \A i \in (toRemove' \cup kicking') \ (toRemove \cup kicking) : i = id /\ p.once
  BY <1>1, <1>8, <1>9
<1> HIDE DEF id, c
<1> QED
  BY <1>1, <1>2, <1>3, <1>6, <1>10, <1>11, OneEvolves DEF c

\* Send by the server's user.
LEMMA ServerSendStep ==
  ASSUME Shape, NEW id \in Id, ServerSend(id)
  PROVE  ServerStep
<1> DEFINE c == connections[id]
           p == SendData(c.peer, c.peer.cookie)
<1>1. /\ id \in DOMAIN connections /\ Len(c.peer.out) < MaxOut
      /\ connections' = [connections EXCEPT ![id].peer = p]
      /\ UNCHANGED <<clientVars, toRemove, kicking, issued, got, net>>
  BY DEF ServerSend
<1>2. Peer(c.peer) /\ c.peer.cookie \in Nat
  BY <1>1, ConnIs, PeerFields
<1>3. /\ Peer(p) /\ p.state = c.peer.state /\ p.once = c.peer.once
      /\ p.cookie = c.peer.cookie /\ p.rcvd = c.peer.rcvd /\ p.nxt = c.peer.nxt
      /\ Extends(c.peer.out, p.out)
      /\ Numbered(c.peer.out, c.peer.cookie) => Numbered(p.out, c.peer.cookie)
  BY <1>1, <1>2, SendDataDoes
<1> HIDE DEF p
<1>4. Evolves(id, c.peer, p)
  <2> HIDE DEF c
  <2> QED
    BY <1>3 DEF Evolves
<1>5. FromServer
  BY <1>1 DEF FromServer
<1>6. toRemove \cup kicking \subseteq DOMAIN connections /\ toRemove \cap kicking = {}
  BY DEF Shape, Scheduled
<1> QED
  BY <1>1, <1>4, <1>5, <1>6, OneEvolves

\* Disconnect by the server's user, up to the sleep,
LEMMA ServerDisconnectStep ==
  ASSUME Shape, NEW id \in Id, ServerDisconnect(id)
  PROVE  ServerStep
<1> DEFINE c == connections[id]
           p == [c.peer EXCEPT !.once = TRUE, !.state = "Disconnected"]
<1>1. /\ id \in DOMAIN connections /\ ~c.peer.once
      /\ connections' = [connections EXCEPT
           ![id].peer.once = TRUE, ![id].peer.state = "Disconnected"]
      /\ kicking' = kicking \cup {id}
      /\ Transmit(Bye("client", c.addr, c.peer, connections'[id].peer))
      /\ UNCHANGED <<clientVars, toRemove, issued, got>>
  BY DEF ServerDisconnect
<1>2. Peer(c.peer) /\ c.addr \in Addr /\ c.peer \in PeerRecord /\ c \in ConnRecord
  BY <1>1, ConnIs, PeerIsRecord
<1>3. connections' = [connections EXCEPT ![id].peer = p]
  BY <1>1, <1>2 DEF ConnRecord, PeerRecord
<1>4. Alike(c.peer, p) /\ p.state = "Disconnected" /\ p.once
  BY <1>2, ClosedDoes
<1> HIDE DEF p
<1>5. Evolves(id, c.peer, p)
  <2> HIDE DEF c
  <2> QED
    BY <1>2, <1>4, EvolvesAlike
<1>6. FromServer
  <2>1. \A d \in Bye("client", c.addr, c.peer, connections'[id].peer) :
          From(d, "client", c.addr, c.peer.cookie, c.peer.out)
    BY <1>2, ByeIs
  <2> QED
    BY <1>1, <2>1, ServerSends
<1>7. /\ toRemove' \cup kicking' \subseteq DOMAIN connections
      /\ toRemove' \cap kicking' = {}
      /\ \A i \in (toRemove' \cup kicking') \ (toRemove \cup kicking) : i = id
  BY <1>1 DEF Shape, Scheduled
<1> QED
  BY <1>1, <1>3, <1>4, <1>5, <1>6, <1>7, OneEvolves

\* and after it.
LEMMA ServerDisconnectedStep ==
  ASSUME Shape, NEW id \in Id, ServerDisconnected(id)
  PROVE  ServerStep
<1> DEFINE c == connections[id]
           p == [c.peer EXCEPT !.events = Append(@, "OnDisconnected")]
<1>1. /\ id \in kicking /\ kicking' = kicking \ {id}
      /\ connections' = [connections EXCEPT ![id].peer.events = Append(@, "OnDisconnected")]
      /\ ScheduleRemoval({id})
      /\ UNCHANGED <<clientVars, issued, got, net>>
  BY DEF ServerDisconnected
<1>2. id \in DOMAIN connections
  BY <1>1 DEF Shape, Scheduled
<1>3. Peer(c.peer) /\ c.peer \in PeerRecord /\ c \in ConnRecord
  BY <1>2, ConnIs, PeerIsRecord
<1>4. connections' = [connections EXCEPT ![id].peer = p]
  BY <1>1, <1>3 DEF ConnRecord, PeerRecord
<1>5. Alike(c.peer, p) /\ p.state = c.peer.state
  BY <1>3, CallbackDoes
<1> HIDE DEF p
<1>6. Evolves(id, c.peer, p)
  <2> HIDE DEF c
  <2> QED
    BY <1>3, <1>5, EvolvesAlike
<1>7. FromServer
  BY <1>1 DEF FromServer
<1>8. toRemove' = toRemove \cup {id}
  BY <1>1, <1>2, ScheduleDoes
<1>9. /\ toRemove' \cup kicking' \subseteq DOMAIN connections
      /\ toRemove' \cap kicking' = {}
      /\ toRemove' \cup kicking' \subseteq toRemove \cup kicking
  BY <1>1, <1>8 DEF Shape, Scheduled
<1> QED
  BY <1>1, <1>2, <1>4, <1>6, <1>7, <1>9, OneEvolves

\* TickOutgoing flushes those whose link is dead as well.
LEMMA ServerTickOutgoingStep ==
  ASSUME Shape, ServerTickOutgoing
  PROVE  ServerStep
<1> DEFINE live == {id \in DOMAIN connections : connections[id].peer.state # "Disconnected"}
           Said(after, id) ==
             Bye("client", after[id].addr, connections[id].peer, after[id].peer)
               \cup Flush("client", after[id].addr, after[id].peer)
<1>1. PICK dead \in SUBSET DOMAIN connections :
        LET after == [id \in DOMAIN connections |->
                        IF id \in dead \cap live
                        THEN [connections[id] EXCEPT !.peer = Disconnect(@)]
                        ELSE connections[id]]
        IN  /\ connections' = after
            /\ ScheduleRemoval(Down(connections, after))
            /\ Transmit(UNION {Said(after, id) : id \in live})
            /\ UNCHANGED <<clientVars, kicking, issued, opened, got>>
  BY DEF ServerTickOutgoing
<1>2. /\ connections' = [id \in DOMAIN connections |->
                           IF id \in dead \cap live
                           THEN [connections[id] EXCEPT !.peer = Disconnect(connections[id].peer)]
                           ELSE connections[id]]
      /\ ScheduleRemoval(Down(connections, connections'))
      /\ Transmit(UNION {Said(connections', id) : id \in live})
      /\ UNCHANGED <<clientVars, kicking, issued, got>>
  BY <1>1
<1> HIDE DEF Said
<1>3. ASSUME NEW id \in DOMAIN connections
      PROVE  /\ connections'[id] \in ConnRecord
             /\ connections'[id].addr = connections[id].addr
             /\ Evolves(id, connections[id].peer, connections'[id].peer)
             /\ connections'[id].peer.out = connections[id].peer.out
  <2> DEFINE c == connections[id]
             e == [c EXCEPT !.peer = Disconnect(c.peer)]
  <2>1. c \in ConnRecord /\ Peer(c.peer)
    BY ConnIs
  <2>2. connections'[id] = c \/ connections'[id] = e
    BY <1>2
  <2>3. CASE connections'[id] = c
    BY <2>1, <2>3, EvolvesSelf
  <2>4. CASE connections'[id] = e
    <3>1. /\ Alike(c.peer, Disconnect(c.peer)) /\ Disconnect(c.peer).out = c.peer.out
          /\ Disconnect(c.peer).state \in {c.peer.state, "Disconnected"}
      BY <2>1, DisconnectDoes
    <3>2. Disconnect(c.peer) \in PeerRecord
      BY <3>1, PeerIsRecord DEF Alike
    <3>3. e \in ConnRecord /\ e.addr = c.addr /\ e.peer = Disconnect(c.peer)
      BY <2>1, <3>2, PeerChanged
    <3>4. Evolves(id, c.peer, Disconnect(c.peer))
      <4> HIDE DEF c
      <4> QED
        BY <2>1, <3>1, EvolvesAlike
    <3> HIDE DEF e
    <3> QED
      BY <2>4, <3>1, <3>3, <3>4
  <2> QED
    BY <2>2, <2>3, <2>4
<1>4. FromServer
  <2>1. ASSUME NEW d \in UNION {Said(connections', id) : id \in live}
        PROVE  \E id \in DOMAIN connections :
                 From(d, "client", connections[id].addr, connections[id].peer.cookie,
                      connections[id].peer.out)
    <3>1. PICK id \in live : d \in Said(connections', id)
      OBVIOUS
    <3> DEFINE c == connections[id]
               e == connections'[id]
    <3>2. Peer(c.peer) /\ c.addr \in Addr /\ id \in DOMAIN connections
      BY <3>1, ConnIs
    <3>3. /\ e.addr = c.addr /\ Peer(e.peer) /\ e.peer.out = c.peer.out
          /\ e.peer.cookie = c.peer.cookie
      BY <1>3, <3>2 DEF Evolves
    <3>4. d \in Bye("client", e.addr, c.peer, e.peer) \cup Flush("client", e.addr, e.peer)
      BY <3>1 DEF Said
    <3> HIDE DEF c, e
    <3>5. From(d, "client", c.addr, c.peer.cookie, c.peer.out)
      <4>1. CASE d \in Bye("client", e.addr, c.peer, e.peer)
        BY <3>2, <3>3, <4>1, ByeIs
      <4>2. CASE d \in Flush("client", e.addr, e.peer)
        BY <3>2, <3>3, <4>2, FlushIs
      <4> QED
        BY <3>4, <4>1, <4>2
    <3> QED
      BY <3>2, <3>5 DEF c
  <2> QED
    BY <1>2, <2>1, ServerSends
<1>5. toRemove' = toRemove \cup (Down(connections, connections') \cap DOMAIN connections)
  BY <1>2, ScheduleDoes
<1>6. DOMAIN connections' = DOMAIN connections
  BY <1>2
<1>7. Scheduled'
  <2>1. \A i \in DOMAIN connections : connections[i].peer.once => connections'[i].peer.once
    BY <1>3 DEF Evolves
  <2>2. /\ \A i \in toRemove \cup kicking : i \in DOMAIN connections /\ connections[i].peer.once
        /\ toRemove \cap kicking = {}
    BY DEF Shape, Scheduled
  <2>3. \A i \in Down(connections, connections') :
          connections'[i].peer.once /\ ~connections[i].peer.once
    BY DEF Down
  <2>4. kicking' = kicking
    BY <1>2
  <2> QED
    BY <1>5, <1>6, <2>1, <2>2, <2>3, <2>4 DEF Scheduled
<1> QED
  BY <1>2, <1>3, <1>4, <1>6, <1>7 DEF ServerStep

(***************************************************************************)
(* A tick of the server: it hands the pending Data of an authenticated     *)
(* connection to the user and may delete connections.                      *)
(***************************************************************************)
ServerTick ==
  /\ UNCHANGED <<clientVars, issued>>
  /\ DOMAIN connections' \subseteq DOMAIN connections
  /\ \A id \in DOMAIN connections' :
       /\ connections'[id] \in ConnRecord
       /\ connections'[id].addr = connections[id].addr
       /\ Ticked(connections[id].peer, connections'[id].peer)
  /\ Scheduled'
  /\ got' \in [Addr -> Seq(Messages)]
  /\ \A a \in Addr :
       \/ /\ got'[a] = got[a]
          /\ \A id \in DOMAIN connections :
               connections[id].addr = a => connections[id].peer.state # "Authenticated"
       \/ \E id \in DOMAIN connections :
            /\ connections[id].addr = a
            /\ connections[id].peer.state = "Authenticated"
            /\ got'[a] = got[a] \o DataOf(connections[id].peer)
  /\ FromServer

\* What a tick adds to the Data of a peer.
LEMMA NewData ==
  ASSUME NEW p, Peer(p), NEW q, Ticked(p, q)
  PROVE  SubSeq(q.data, Len(p.data) + 1, Len(q.data)) =
           IF p.state = "Authenticated" THEN DataOf(p) ELSE <<>>
<1>1. p.data \in Seq(Messages) /\ Len(p.data) \in Nat /\ p.state \in States
  BY PeerFields, LenProperties
<1>2. CASE p.state = "Authenticated"
  <2> DEFINE new == DataOf(p)
  <2>1. new \in Seq(Messages) /\ q.data = p.data \o new
    BY <1>2 DEF Ticked
  <2> HIDE DEF new
  <2>2. /\ Len(q.data) = Len(p.data) + Len(new) /\ Len(new) \in Nat
        /\ \A i \in 1..Len(q.data) :
             q.data[i] = IF i <= Len(p.data) THEN p.data[i] ELSE new[i - Len(p.data)]
    BY <1>1, <2>1, ConcatProperties, LenProperties
  <2> DEFINE t == SubSeq(q.data, Len(p.data) + 1, Len(q.data))
  <2>3. q.data \in Seq(Messages)
    BY <1>1, <2>1, ConcatProperties
  <2>4. /\ t \in Seq(Messages) /\ Len(t) = Len(new)
        /\ \A i \in 1..Len(new) : t[i] = q.data[Len(p.data) + i]
    <3> DEFINE m == Len(p.data) + 1
               n == Len(q.data)
    <3>1. /\ m \in Int /\ n \in Int /\ \A i \in m..n : i \in 1..n
          /\ n - m + 1 = Len(new) /\ (~(m <= n) => n - m + 1 = 0)
          /\ \A i \in 1..Len(new) : m + i - 1 = Len(p.data) + i
      BY <1>1, <2>2
    <3>2. \A i \in m..n : q.data[i] \in Messages
      BY <2>3, <3>1, ElementOfSeq
    <3> HIDE DEF m, n
    <3>3. t = SubSeq(q.data, m, n)
      BY DEF m, n
    <3>4. /\ t \in Seq(Messages) /\ Len(t) = n - m + 1
          /\ \A i \in 1..(n - m + 1) : t[i] = q.data[m + i - 1]
      <4> HIDE DEF t
      <4>1. Len(t) = IF m <= n THEN n - m + 1 ELSE 0
        BY <3>1, <3>2, <3>3, SubSeqProperties
      <4>2. /\ t \in Seq(Messages)
            /\ \A i \in 1..(n - m + 1) : t[i] = q.data[m + i - 1]
        BY <3>1, <3>2, <3>3, SubSeqProperties
      <4> QED
        BY <3>1, <4>1, <4>2
    <3> QED
      BY <3>1, <3>4
  <2>5. ASSUME NEW i \in 1..Len(new)
        PROVE  q.data[Len(p.data) + i] = new[i]
    <3>1. /\ Len(p.data) + i \in 1..Len(q.data) /\ ~(Len(p.data) + i <= Len(p.data))
          /\ (Len(p.data) + i) - Len(p.data) = i
      BY <1>1, <2>2
    <3> QED
      BY <2>2, <3>1
  <2> HIDE DEF t
  <2>6. t = new
    BY <2>1, <2>4, <2>5, SeqEqual
  <2> QED
    BY <1>2, <2>6 DEF t, new
<1>3. CASE p.state # "Authenticated"
  <2>1. q.data = p.data
    BY <1>1, <1>3 DEF Ticked, States
  <2>2. SubSeq(p.data, Len(p.data) + 1, Len(p.data)) = <<>>
    BY <1>1, SubSeqEmpty
  <2> QED
    BY <1>3, <2>1, <2>2
<1> QED
  BY <1>2, <1>3

\* One connection per address.
LEMMA OnePerAddress ==
  ASSUME Shape, NEW i \in DOMAIN connections, NEW j \in DOMAIN connections,
         connections[i].addr = connections[j].addr
  PROVE  i = j
  BY ConnIs

\* TickIncoming, with the removals at its end.
LEMMA ServerTickIncomingStep ==
  ASSUME Shape, ServerTickIncoming
  PROVE  ServerTick
<1> DEFINE Tick(broken, ping, pong, id) ==
             TickIncoming(connections[id].peer, broken[id], ping[id], pong[id], TRUE)
<1>1. PICK broken \in [DOMAIN connections -> BOOLEAN],
           ping \in [DOMAIN connections -> Maybe],
           pong \in [DOMAIN connections -> Maybe] :
        LET after == [id \in DOMAIN connections |->
                        [connections[id] EXCEPT !.peer = Tick(broken, ping, pong, id)]]
            new   == Down(connections, after) \ toRemove
            gone  == toRemove \cup new
        IN  /\ RemoveScheduled(after, gone)
            /\ got' = GotMore(connections, after)
            /\ Transmit(UNION {Bye("client", after[id].addr, connections[id].peer,
                                   after[id].peer) : id \in DOMAIN after})
            /\ UNCHANGED <<clientVars, kicking, issued, opened>>
  BY DEF ServerTickIncoming
<1> DEFINE after == [id \in DOMAIN connections |->
                       [connections[id] EXCEPT !.peer = Tick(broken, ping, pong, id)]]
           gone  == toRemove \cup (Down(connections, after) \ toRemove)
<1>2. /\ connections' = [id \in DOMAIN after \ gone |-> after[id]]
      /\ toRemove' = {}
      /\ got' = GotMore(connections, after)
      /\ Transmit(UNION {Bye("client", after[id].addr, connections[id].peer,
                             after[id].peer) : id \in DOMAIN after})
      /\ UNCHANGED <<clientVars, kicking, issued>>
  BY <1>1 DEF RemoveScheduled
<1>3. DOMAIN after = DOMAIN connections
  OBVIOUS
<1>4. ASSUME NEW id \in DOMAIN connections
      PROVE  /\ after[id] \in ConnRecord
             /\ after[id].addr = connections[id].addr
             /\ Ticked(connections[id].peer, after[id].peer)
  <2> DEFINE p == Tick(broken, ping, pong, id)
  <2>1. after[id] = [connections[id] EXCEPT !.peer = p]
    OBVIOUS
  <2>2. connections[id] \in ConnRecord /\ Peer(connections[id].peer)
    BY ConnIs
  <2>3. Ticked(connections[id].peer, p)
    BY <2>2, TickIncomingDoes
  <2>4. p \in PeerRecord
    BY <2>3, PeerIsRecord DEF Ticked
  <2> HIDE DEF p, after
  <2>5. /\ after[id] \in ConnRecord /\ after[id].addr = connections[id].addr
        /\ after[id].peer = p
    BY <2>1, <2>2, <2>4, PeerChanged
  <2> QED
    BY <2>3, <2>5
<1> HIDE DEF after
<1>5. /\ DOMAIN connections' = DOMAIN connections \ gone
      /\ \A id \in DOMAIN connections' : connections'[id] = after[id]
  BY <1>2, <1>3
<1>6. Scheduled'
  <2>1. /\ kicking' = kicking /\ toRemove' = {}
        /\ kicking \subseteq DOMAIN connections
        /\ \A i \in kicking : connections[i].peer.once /\ i \notin toRemove
    BY <1>2 DEF Shape, Scheduled
  <2>2. \A i \in Down(connections, after) : ~connections[i].peer.once
    BY DEF Down
  <2>3. \A i \in DOMAIN connections : connections[i].peer.once => after[i].peer.once
    BY <1>4 DEF Ticked
  <2> QED
    BY <1>5, <2>1, <2>2, <2>3 DEF Scheduled
<1>7. got \in [Addr -> Seq(Messages)]
  BY DEF Shape
<1>8. ASSUME NEW a \in Addr
      PROVE  /\ got'[a] \in Seq(Messages)
             /\ \/ /\ got'[a] = got[a]
                   /\ \A id \in DOMAIN connections :
                        connections[id].addr = a =>
                          connections[id].peer.state # "Authenticated"
                \/ \E id \in DOMAIN connections :
                     /\ connections[id].addr = a
                     /\ connections[id].peer.state = "Authenticated"
                     /\ got'[a] = got[a] \o DataOf(connections[id].peer)
  <2>0. got[a] \in Seq(Messages) /\ got[a] \o <<>> = got[a]
    BY <1>7, ConcatEmptySeq
  <2> DEFINE has == \E id \in DOMAIN connections : connections[id].addr = a
             the == CHOOSE id \in DOMAIN connections : connections[id].addr = a
             more == SubSeq(after[the].peer.data, Len(connections[the].peer.data) + 1,
                            Len(after[the].peer.data))
  <2>1. got'[a] = got[a] \o (IF has THEN more ELSE <<>>)
    BY <1>2, Zenon DEF GotMore
  <2>2. CASE ~has
    BY <2>0, <2>1, <2>2
  <2>3. CASE has
    <3>1. the \in DOMAIN connections /\ connections[the].addr = a
      BY <2>3
    <3> DEFINE c == connections[the]
    <3>2. Peer(c.peer) /\ Ticked(c.peer, after[the].peer)
      BY <1>4, <3>1, ConnIs
    <3>3. more = IF c.peer.state = "Authenticated" THEN DataOf(c.peer) ELSE <<>>
      BY <3>2, NewData
    <3>4. \A id \in DOMAIN connections : connections[id].addr = a => id = the
      BY <3>1, OnePerAddress
    <3> HIDE DEF more, the
    <3>5. CASE c.peer.state = "Authenticated"
      <4>1. DataOf(c.peer) \in Seq(Messages)
        BY <3>2, <3>5 DEF Ticked
      <4>2. got'[a] = got[a] \o DataOf(c.peer)
        BY <2>1, <2>3, <3>3, <3>5
      <4>3. got'[a] \in Seq(Messages)
        BY <2>0, <4>1, <4>2, ConcatProperties
      <4> QED
        BY <3>1, <3>5, <4>2, <4>3
    <3>6. CASE c.peer.state # "Authenticated"
      BY <2>0, <2>1, <2>3, <3>3, <3>4, <3>6
    <3> QED
      BY <3>5, <3>6
  <2> QED
    BY <2>2, <2>3, ZenonT(30)
<1>9. got' \in [Addr -> Seq(Messages)]
  <2>1. got' = [a \in Addr |-> got'[a]]
    BY <1>2, Zenon DEF GotMore
  <2> QED
    BY <1>8, <2>1, ZenonT(30)
<1>10. FromServer
  <2>1. ASSUME NEW id \in DOMAIN connections,
               NEW d \in Bye("client", after[id].addr, connections[id].peer, after[id].peer)
        PROVE  From(d, "client", connections[id].addr, connections[id].peer.cookie,
                    connections[id].peer.out)
    BY <1>4, ConnIs, ByeIs
  <2>2. \A d \in UNION {Bye("client", after[id].addr, connections[id].peer,
                            after[id].peer) : id \in DOMAIN after} :
          \E id \in DOMAIN connections :
            From(d, "client", connections[id].addr, connections[id].peer.cookie,
                 connections[id].peer.out)
    BY <1>3, <2>1
  <2> QED
    BY <1>2, <2>2, ServerSends
<1>11. \A id \in DOMAIN connections' :
         /\ connections'[id] \in ConnRecord
         /\ connections'[id].addr = connections[id].addr
         /\ Ticked(connections[id].peer, connections'[id].peer)
  BY <1>4, <1>5
<1> HIDE DEF gone
<1> QED
  BY <1>2, <1>5, <1>6, <1>8, <1>9, <1>10, <1>11 DEF ServerTick

(***************************************************************************)
(* A datagram from an unknown address: a cookie is drawn, and a connection *)
(* made if the datagram carries a Hello.                                   *)
(***************************************************************************)
Joins(d, cookie) ==
  LET id == Hash[d.addr]
      c  == connections'[id]
  IN  /\ id \notin DOMAIN connections
      /\ DOMAIN connections' = DOMAIN connections \cup {id}
      /\ \A i \in DOMAIN connections : connections'[i] = connections[i]
      /\ c \in ConnRecord /\ c.addr = d.addr /\ Peer(c.peer)
      /\ c.peer.cookie = cookie /\ c.peer.state = "Authenticated"
      /\ c.peer.out = <<Bare("Hello")>> /\ c.peer.nxt = 1
      /\ d.kind = "PUSH" /\ d.sn = 0
      /\ \A sn \in DOMAIN c.peer.rcvd :
           sn = 0 /\ c.peer.rcvd[sn] = d.msg /\ d.msg.hdr = "Hello"

ServerAdmits(d) ==
  /\ UNCHANGED <<clientVars, toRemove, kicking, got>>
  /\ d.to = "server"
  /\ \E cookie \in Cookies \ issued :
       /\ issued' = issued \cup {cookie}
       /\ \A e \in net' : e \in net \/ From(e, "client", d.addr, cookie, <<>>)
       /\ connections' = connections \/ Joins(d, cookie)

\* processMessage for an unknown address.
LEMMA ServerAcceptStep ==
  ASSUME Shape, NEW d \in net, ServerAccept(d)
  PROVE  ServerAdmits(d)
<1> DEFINE id == Hash[d.addr]
           P(cookie) == Input(NewKcpPeer(cookie), d)
           Q(cookie) == TickIncoming(P(cookie), FALSE, FALSE, FALSE, TRUE)
<1>1. /\ d.to = "server"
      /\ id \notin DOMAIN connections \cup toRemove
      /\ UNCHANGED <<clientVars, kicking, got>>
  BY DEF ServerAccept
<1>2. PICK cookie \in Cookies \ issued :
           /\ issued' = issued \cup {cookie}
           /\ Transmit(Ack("client", d.addr, P(cookie), d)
                         \cup Bye("client", d.addr, P(cookie), Q(cookie)))
           /\ ScheduleRemoval(IF Q(cookie).once THEN {id} ELSE {})
           /\ IF Q(cookie).state = "Authenticated"
              THEN connections' = With(connections, id, Conn(d.addr, Q(cookie)))
              ELSE UNCHANGED connections
  BY DEF ServerAccept
<1>3. d \in Datagrams /\ d.addr \in Addr /\ cookie \in Nat
  BY SessionAssumption DEF Shape, Datagrams
<1> DEFINE p == P(cookie)
           q == Q(cookie)
<1>4. /\ Peer(p) /\ Peer(q) /\ p.cookie = cookie /\ q.cookie = cookie
      /\ q.state = "Authenticated" =>
           /\ d.kind = "PUSH" /\ d.sn = 0 /\ q.out = <<Bare("Hello")>>
           /\ q.nxt = 1
           /\ \A sn \in DOMAIN q.rcvd :
                sn = 0 /\ q.rcvd[sn] = d.msg /\ d.msg.hdr = "Hello"
  BY <1>3, AcceptedPeer, ZenonT(60)
<1> HIDE DEF P, Q
<1>5. toRemove' = toRemove
  BY <1>1, <1>2, ScheduleDoes
<1>6. ASSUME NEW e \in net'
      PROVE  e \in net \/ From(e, "client", d.addr, cookie, <<>>)
  <2>1. e \in net \/ e \in Ack("client", d.addr, p, d) \/ e \in Bye("client", d.addr, p, q)
    BY <1>2 DEF Transmit
  <2> HIDE DEF p, q
  <2>2. CASE e \in Ack("client", d.addr, p, d)
    BY <1>3, <1>4, <2>2, AckIs
  <2>3. CASE e \in Bye("client", d.addr, p, q)
    BY <1>3, <1>4, <2>3, ByeIs
  <2> QED
    BY <2>1, <2>2, <2>3
<1>7. CASE q.state = "Authenticated"
  <2> DEFINE c == Conn(d.addr, q)
  <2>1. connections' = With(connections, id, c)
    BY <1>2, <1>7
  <2>2. /\ DOMAIN connections' = DOMAIN connections \cup {id}
        /\ connections'[id] = c
        /\ \A i \in DOMAIN connections : connections'[i] = connections[i]
    <3> HIDE DEF c, id
    <3> QED
      BY <1>1, <2>1 DEF With
  <2>3. q \in PeerRecord
    BY <1>4, PeerIsRecord
  <2> HIDE DEF q
  <2>4. c \in ConnRecord /\ c.addr = d.addr /\ c.peer = q
    BY <1>3, <2>3 DEF Conn, ConnRecord
  <2>5. Joins(d, cookie)
    <3> HIDE DEF c
    <3> QED
      BY <1>1, <1>4, <1>7, <2>2, <2>4 DEF Joins
  <2> QED
    BY <1>1, <1>2, <1>5, <1>6, <2>5 DEF ServerAdmits
<1>8. CASE q.state # "Authenticated"
  <2>1. connections' = connections
    BY <1>2, <1>8
  <2> QED
    BY <1>1, <1>2, <1>5, <1>6, <2>1 DEF ServerAdmits
<1> QED
  BY <1>7, <1>8

\* Every step is one of five.
LEMMA StepIs ==
  ASSUME Shape, [Next]_vars
  PROVE  \/ UNCHANGED vars
         \/ \E a \in Addr : ConnectStep(a)
         \/ ClientStep
         \/ ServerStep
         \/ ServerTick
         \/ \E d \in net : ServerAdmits(d)
<1>1. \/ UNCHANGED vars
      \/ \E a \in Addr : Connect(a)
      \/ ClientSend \/ ClientDisconnect \/ ClientDisconnected
      \/ \E d \in net : ClientRawInput(d)
      \/ ClientTickIncoming \/ ClientTickOutgoing
      \/ \E d \in net : ServerRawInput(d)
      \/ \E d \in net : ServerAccept(d)
      \/ ServerTickIncoming \/ ServerTickOutgoing
      \/ \E id \in Id : ServerSend(id)
      \/ \E id \in Id : ServerDisconnect(id)
      \/ \E id \in Id : ServerDisconnected(id)
  BY Zenon DEF Next
<1>2. (\E a \in Addr : Connect(a)) => \E a \in Addr : ConnectStep(a)
  BY ConnectDoes
<1>3. \/ ClientSend \/ ClientDisconnect \/ ClientDisconnected
      \/ \E d \in net : ClientRawInput(d)
      \/ ClientTickIncoming \/ ClientTickOutgoing
      => ClientStep
  BY ClientSendStep, ClientDisconnectStep, ClientDisconnectedStep, ClientRawInputStep,
     ClientTickIncomingStep, ClientTickOutgoingStep
<1>4. \/ \E d \in net : ServerRawInput(d)
      \/ ServerTickOutgoing
      \/ \E id \in Id : ServerSend(id)
      \/ \E id \in Id : ServerDisconnect(id)
      \/ \E id \in Id : ServerDisconnected(id)
      => ServerStep
  BY ServerRawInputStep, ServerTickOutgoingStep, ServerSendStep, ServerDisconnectStep,
     ServerDisconnectedStep
<1>5. (\E d \in net : ServerAccept(d)) => \E d \in net : ServerAdmits(d)
  BY ServerAcceptStep
<1>6. ServerTickIncoming => ServerTick
  BY ServerTickIncomingStep
<1> QED
  BY <1>1, <1>2, <1>3, <1>4, <1>5, <1>6

\* Each of them keeps the shape of the state.
LEMMA ConnectShape ==
  ASSUME Shape, NEW a \in Addr, ConnectStep(a)
  PROVE  Shape'
  BY DEF ConnectStep, Shape, Scheduled, serverVars

\* A step of the client.
LEMMA ClientShape ==
  ASSUME Shape, ClientStep
  PROVE  Shape'
<1>1. \A d \in net' : d \in Datagrams
  BY DEF ClientStep, Shape, From
<1> QED
  BY <1>1 DEF ClientStep, Shape, Scheduled, serverVars

\* What the server sends are datagrams.
LEMMA FromServerDatagrams ==
  ASSUME Shape, FromServer
  PROVE  net' \subseteq Datagrams
  BY DEF Shape, FromServer, From

\* A step of the server.
LEMMA ServerShape ==
  ASSUME Shape, ServerStep
  PROVE  Shape'
<1>1. net' \subseteq Datagrams
  BY FromServerDatagrams DEF ServerStep
<1>2. /\ DOMAIN connections' = DOMAIN connections
      /\ \A id \in DOMAIN connections :
           /\ connections'[id] \in ConnRecord
           /\ connections'[id].addr = connections[id].addr
           /\ Peer(connections'[id].peer)
  BY DEF ServerStep, Evolves
<1>3. \A id \in DOMAIN connections : Hash[connections[id].addr] = id
  BY ConnIs
<1>4. UNCHANGED <<client, sock, connected, closing, used, issued, got>> /\ Scheduled'
  BY DEF ServerStep, clientVars
<1> QED
  BY <1>1, <1>2, <1>3, <1>4 DEF Shape

\* A tick of the server.
LEMMA TickShape ==
  ASSUME Shape, ServerTick
  PROVE  Shape'
<1>1. net' \subseteq Datagrams
  BY FromServerDatagrams DEF ServerTick
<1>2. /\ DOMAIN connections' \subseteq DOMAIN connections
      /\ \A id \in DOMAIN connections' :
           /\ connections'[id] \in ConnRecord
           /\ connections'[id].addr = connections[id].addr
           /\ Peer(connections'[id].peer)
  BY DEF ServerTick, Ticked
<1>3. \A id \in DOMAIN connections : Hash[connections[id].addr] = id
  BY ConnIs
<1>4. /\ UNCHANGED <<client, sock, connected, closing, used, issued>> /\ Scheduled'
      /\ got' \in [Addr -> Seq(Messages)]
  BY DEF ServerTick, clientVars
<1> QED
  BY <1>1, <1>2, <1>3, <1>4 DEF Shape

\* A new connection, or none.
LEMMA AdmitShape ==
  ASSUME Shape, NEW d \in net, ServerAdmits(d)
  PROVE  Shape'
<1>1. PICK cookie \in Cookies \ issued :
        /\ issued' = issued \cup {cookie}
        /\ \A e \in net' : e \in net \/ From(e, "client", d.addr, cookie, <<>>)
        /\ connections' = connections \/ Joins(d, cookie)
  BY DEF ServerAdmits
<1>2. UNCHANGED <<client, sock, connected, closing, used, toRemove, kicking, got>>
  BY DEF ServerAdmits, clientVars
<1>3. net' \subseteq Datagrams /\ issued' \subseteq Cookies
  BY <1>1 DEF Shape, From
<1>4. d.addr \in Addr /\ Hash[d.addr] \in Id
  BY DEF Shape, Datagrams, Id
<1>5. \A id \in DOMAIN connections : /\ connections[id] \in ConnRecord
                                     /\ Peer(connections[id].peer)
                                     /\ Hash[connections[id].addr] = id
  BY ConnIs
<1>6. /\ DOMAIN connections' \subseteq Id
      /\ \A id \in DOMAIN connections' : /\ connections'[id] \in ConnRecord
                                         /\ Peer(connections'[id].peer)
                                         /\ Hash[connections'[id].addr] = id
      /\ \A id \in DOMAIN connections :
           id \in DOMAIN connections' /\ connections'[id] = connections[id]
  <2>1. DOMAIN connections \subseteq Id
    BY DEF Shape
  <2>2. CASE connections' = connections
    BY <1>5, <2>1, <2>2
  <2>3. CASE Joins(d, cookie)
    <3> DEFINE id == Hash[d.addr]
    <3>1. /\ DOMAIN connections' = DOMAIN connections \cup {id}
          /\ \A i \in DOMAIN connections : connections'[i] = connections[i]
          /\ connections'[id] \in ConnRecord /\ connections'[id].addr = d.addr
          /\ Peer(connections'[id].peer)
      BY <2>3 DEF Joins
    <3> QED
      BY <1>4, <1>5, <2>1, <3>1
  <2> QED
    BY <1>1, <2>2, <2>3
<1>7. Scheduled'
  BY <1>2, <1>6 DEF Shape, Scheduled
<1> QED
  BY <1>2, <1>3, <1>6, <1>7 DEF Shape

\* The initial state.
LEMMA InitShape == Init => Shape
<1> SUFFICES ASSUME Init PROVE Shape
  OBVIOUS
<1>1. DOMAIN connections = {}
  <2>1. connections = <<>>
    BY DEF Init
  <2>2. DOMAIN <<>> = {}
    OBVIOUS
  <2> QED
    BY <2>1, <2>2
<1>2. Peer(client)
  BY NewPeers DEF Init, Fresh
<1>3. got \in [Addr -> Seq(Messages)]
  <2>1. <<>> \in Seq(Messages)
    BY EmptySeq
  <2> QED
    BY <2>1 DEF Init
<1> QED
  BY <1>1, <1>2, <1>3 DEF Init, Shape, Scheduled

\* Every step.
LEMMA NextShape == Shape /\ [Next]_vars => Shape'
<1> SUFFICES ASSUME Shape, [Next]_vars PROVE Shape'
  OBVIOUS
<1>1. CASE UNCHANGED vars
  BY <1>1 DEF vars, clientVars, serverVars, Shape, Scheduled
<1> QED
  BY StepIs, <1>1, ConnectShape, ClientShape, ServerShape, TickShape, AdmitShape

\* Shape and the counters are what TypeOK asks for.
LEMMA ShapeTypes ==
  ASSUME Shape, CallbacksInv
  PROVE  TypeOK
<1>1. IsPeer(client) /\ \A id \in DOMAIN connections : IsPeer(connections[id].peer)
  BY PeerTyped DEF Shape
<1>2. \A id \in DOMAIN connections : connections[id].addr \in Addr
  BY ConnIs
<1> QED
  BY <1>1, <1>2 DEF Shape, Scheduled, CallbacksInv, TypeOK

(***************************************************************************)
(* Whatever the users, the ticks and the network do, the state keeps its   *)
(* shape: no peer accepts more than its window, acknowledges what it never *)
(* sent or reads beyond rcv_nxt, and a connection waits for its removal or *)
(* for the end of a Disconnect only while it is in the map.                *)
(***************************************************************************)
THEOREM StateTyped == Spec => []TypeOK
  BY InitShape, NextShape, InitPairs, NextPairs, ShapeTypes, PTL DEF Spec

----------------------------------------------------------------------------
(* What a peer hands over of a stream it received in part. *)

\* The segments p received are those of the stream s.
Copies(p, s) == \A sn \in DOMAIN p.rcvd : sn + 1 \in 1..Len(s) /\ p.rcvd[sn] = s[sn + 1]

NoData(p) == \A sn \in DOMAIN p.rcvd : p.rcvd[sn].hdr # "Data"

\* A peer has not received more than was sent.
LEMMA Reaches ==
  ASSUME NEW p, Peer(p), NEW s \in Seq(Messages), Copies(p, s)
  PROVE  /\ p.nxt \in Nat /\ RcvNxt(p) \in Nat /\ Len(s) \in Nat
         /\ p.nxt <= RcvNxt(p) /\ RcvNxt(p) <= Len(s)
<1>1. /\ RcvNxt(p) \in Nat /\ 0..(RcvNxt(p) - 1) \subseteq DOMAIN p.rcvd
      /\ p.nxt \in 0..RcvNxt(p)
  BY PeerRcvNxt
<1>2. Len(s) \in Nat
  BY LenProperties
<1>3. CASE RcvNxt(p) = 0
  BY <1>1, <1>2, <1>3
<1>4. CASE RcvNxt(p) # 0
  <2>1. RcvNxt(p) - 1 \in 0..(RcvNxt(p) - 1)
    BY <1>1, <1>4
  <2>2. (RcvNxt(p) - 1) + 1 \in 1..Len(s)
    BY <1>1, <2>1 DEF Copies
  <2> QED
    BY <1>1, <1>2, <2>2
<1> QED
  BY <1>3, <1>4

\* The Data of a tick go on where those handed over before ended.
LEMMA Handed ==
  ASSUME NEW p, Peer(p), NEW s \in Seq(Messages), Copies(p, s), NEW src, Numbered(s, src),
         NEW data \in Seq(Messages), InOrder(data, src), Len(data) = Count(s, p.nxt)
  PROVE  /\ InOrder(data \o DataOf(p), src)
         /\ Len(data \o DataOf(p)) = Count(s, RcvNxt(p))
<1> DEFINE batch == Pending(p)
<1>1. /\ p.nxt \in Nat /\ RcvNxt(p) \in Nat /\ Len(s) \in Nat
      /\ p.nxt <= RcvNxt(p) /\ RcvNxt(p) <= Len(s)
  BY Reaches
<1>2. /\ batch \in Seq(Messages) /\ Len(batch) = RcvNxt(p) - p.nxt
      /\ \A i \in 1..(RcvNxt(p) - p.nxt) :
           /\ p.nxt + i - 1 \in DOMAIN p.rcvd
           /\ batch[i] = p.rcvd[p.nxt + i - 1]
  BY PendingIs
<1> HIDE DEF batch
<1>3. ASSUME NEW i \in 1..Len(batch)
      PROVE  batch[i] = s[p.nxt + i]
  <2>1. p.nxt + i - 1 \in DOMAIN p.rcvd /\ batch[i] = p.rcvd[p.nxt + i - 1]
    BY <1>2
  <2>2. (p.nxt + i - 1) + 1 = p.nxt + i
    BY <1>1, <1>2
  <2> QED
    BY <2>1, <2>2 DEF Copies
<1>4. /\ InOrder(data \o AtPlaces(batch, Bearing(batch, {"Data"})), src)
      /\ Len(data \o AtPlaces(batch, Bearing(batch, {"Data"}))) = Count(s, RcvNxt(p))
  <2>1. Part(batch, s, p.nxt, RcvNxt(p))
    BY <1>1, <1>2, <1>3 DEF Part
  <2> QED
    BY <2>1, Delivery
<1> QED
  BY <1>4 DEF DataOf, batch

\* Without Data among the segments, a tick hands over nothing.
LEMMA NoneHanded ==
  ASSUME NEW p, Peer(p), NoData(p)
  PROVE  DataOf(p) = <<>>
<1>1. /\ Pending(p) \in Seq(Messages) /\ Len(Pending(p)) = RcvNxt(p) - p.nxt
      /\ \A i \in 1..(RcvNxt(p) - p.nxt) :
           /\ p.nxt + i - 1 \in DOMAIN p.rcvd
           /\ Pending(p)[i] = p.rcvd[p.nxt + i - 1]
  BY PendingIs
<1>2. \A i \in 1..Len(Pending(p)) : Pending(p)[i].hdr # "Data"
  BY <1>1 DEF NoData
<1> QED
  BY <1>1, <1>2, NoDelivery DEF DataOf

\* What is sent later does not change what was received.
LEMMA CopiesExtends ==
  ASSUME NEW p, Peer(p), NEW s \in Seq(Messages), Copies(p, s),
         NEW t \in Seq(Messages), Extends(s, t)
  PROVE  Copies(p, t) /\ Count(t, p.nxt) = Count(s, p.nxt)
<1>1. /\ p.nxt \in Nat /\ RcvNxt(p) \in Nat /\ Len(s) \in Nat /\ Len(t) \in Nat
      /\ p.nxt <= Len(s)
  BY Reaches, LenProperties
<1>2. Len(s) <= Len(t) /\ \A i \in 1..Len(s) : t[i] = s[i]
  BY DEF Extends
<1>3. Count(t, p.nxt) = Count(s, p.nxt)
  <2>1. \A i \in 1..p.nxt : t[i] = s[i]
    BY <1>1, <1>2
  <2> QED
    BY <1>1, <2>1, CountSame
<1>4. ASSUME NEW sn \in DOMAIN p.rcvd
      PROVE  sn + 1 \in 1..Len(t) /\ p.rcvd[sn] = t[sn + 1]
  <2>1. sn + 1 \in 1..Len(s) /\ p.rcvd[sn] = s[sn + 1]
    BY DEF Copies
  <2> QED
    BY <1>1, <1>2, <2>1
<1> QED
  BY <1>3, <1>4 DEF Copies

----------------------------------------------------------------------------
(***************************************************************************)
(* NoReplay.  The invariant speaks of three things no variable holds: what *)
(* the session that was dialled from an address has sent so far, the       *)
(* cookie that session keeps to (0: none yet), and the address that a      *)
(* cookie was drawn for.                                                   *)
(***************************************************************************)

\* Without a cookie a client sends no Data, and the server's user is given
\* none of it.
Dialled(S, K, O) ==
  /\ \A a \in Addr :
       /\ Numbered(S[a], a)
       /\ K[a] = 0 => got[a] = <<>> /\ \A i \in 1..Len(S[a]) : S[a][i].hdr # "Data"
       /\ K[a] # 0 => K[a] \in issued /\ O[K[a]] = a
       /\ a \notin used => S[a] = <<>> /\ K[a] = 0
  /\ sock # NoAddr => S[sock] = client.out /\ K[sock] = client.cookie

Sent(S, K, O, d) ==
  /\ d.to = "server" =>
       /\ d.cookie \in {0, K[d.addr]}
       /\ d.kind = "PUSH" => /\ d.sn + 1 \in 1..Len(S[d.addr])
                             /\ d.msg = S[d.addr][d.sn + 1]
                             /\ d.cookie = 0 => d.msg.hdr # "Data"
  /\ d.to = "client" => d.cookie \in issued /\ O[d.cookie] = d.addr

InFlight(S, K, O) == \A d \in net : Sent(S, K, O, d)

\* A connection is good for Data only if the session at its address keeps to
\* its cookie: then it goes on where the user's Data of that address end.
Taken(S, K, a, p) ==
  /\ p.state \in {"Authenticated", "Disconnected"}
  /\ p.state = "Authenticated" =>
       /\ p.cookie # 0 => Copies(p, S[a])
       /\ IF p.cookie # 0 /\ p.cookie = K[a]
          THEN Len(got[a]) = Count(S[a], p.nxt)
          ELSE NoData(p)

Connections(S, K, O) ==
  \A id \in DOMAIN connections :
    /\ connections[id].peer.cookie \in issued
    /\ O[connections[id].peer.cookie] = connections[id].addr
    /\ Taken(S, K, connections[id].addr, connections[id].peer)

Replay(S, K, O) ==
  /\ S \in [Addr -> Seq(Messages)]
  /\ K \in [Addr -> Nat]
  /\ O \in [Cookies -> Addr \cup {NoAddr}]
  /\ Dialled(S, K, O)
  /\ InFlight(S, K, O)
  /\ Connections(S, K, O)
  /\ NoReplay

ReplayInv == Shape /\ \E S, K, O : Replay(S, K, O)

\* The initial state.
LEMMA InitReplay == Init => ReplayInv
<1> SUFFICES ASSUME Init PROVE ReplayInv
  OBVIOUS
<1> DEFINE S == [a \in Addr |-> <<>>]
           K == [a \in Addr |-> 0]
           O == [k \in Cookies |-> NoAddr]
<1>1. <<>> \in Seq(Messages) /\ Len(<<>>) = 0
  BY EmptySeq
<1>2. /\ S \in [Addr -> Seq(Messages)] /\ K \in [Addr -> Nat]
      /\ O \in [Cookies -> Addr \cup {NoAddr}]
      /\ \A a \in Addr : S[a] = <<>> /\ K[a] = 0
  BY <1>1
<1> HIDE DEF S, K, O
<1>3. /\ net = {} /\ sock = NoAddr /\ got = [a \in Addr |-> <<>>]
      /\ connections = <<>>
  BY DEF Init
<1>4. DOMAIN connections = {}
  <2>1. DOMAIN <<>> = {}
    OBVIOUS
  <2> QED
    BY <1>3, <2>1
<1>5. \A a \in Addr : got[a] = <<>> /\ Len(got[a]) = 0
  BY <1>1, <1>3
<1>6. Dialled(S, K, O)
  BY <1>1, <1>2, <1>3, <1>5 DEF Dialled, Numbered
<1>7. InFlight(S, K, O) /\ Connections(S, K, O)
  BY <1>3, <1>4 DEF InFlight, Connections
<1>8. NoReplay
  BY <1>5 DEF NoReplay, InOrder
<1>9. Replay(S, K, O)
  BY <1>2, <1>6, <1>7, <1>8 DEF Replay
<1> QED
  BY <1>9, InitShape DEF ReplayInv

(***************************************************************************)
(* A step of the client may add to what was sent and set a cookie that was *)
(* not set.  Neither disturbs what the server has taken.                   *)
(***************************************************************************)
Grows(S, K, S1, K1) ==
  /\ S1 \in [Addr -> Seq(Messages)] /\ K1 \in [Addr -> Nat]
  /\ \A a \in Addr : K1[a] # K[a] => K[a] = 0
  /\ \A a \in Addr : Extends(S[a], S1[a])

\* A cookie that is learned now finds no Data sent and none handed over.
LEMMA GrowsTaken ==
  ASSUME Shape, NEW S, NEW K, NEW O, Replay(S, K, O), NEW S1, NEW K1, Grows(S, K, S1, K1),
         NEW id \in DOMAIN connections
  PROVE  Taken(S1, K1, connections[id].addr, connections[id].peer)
<1> DEFINE a == connections[id].addr
           p == connections[id].peer
<1>1. a \in Addr /\ Peer(p) /\ p.cookie \in Nat /\ p.nxt \in Nat
  BY ConnIs, PeerFields
<1>2. /\ S[a] \in Seq(Messages) /\ S1[a] \in Seq(Messages) /\ K[a] \in Nat /\ K1[a] \in Nat
      /\ Extends(S[a], S1[a]) /\ (K1[a] # K[a] => K[a] = 0)
  BY <1>1 DEF Replay, Grows
<1>3. /\ Taken(S, K, a, p)
      /\ K[a] = 0 => got[a] = <<>> /\ \A i \in 1..Len(S[a]) : S[a][i].hdr # "Data"
  BY <1>1 DEF Replay, Dialled, Connections
<1>4. SUFFICES ASSUME p.state = "Authenticated"
      PROVE  /\ p.cookie # 0 => Copies(p, S1[a])
             /\ IF p.cookie # 0 /\ p.cookie = K1[a]
                THEN Len(got[a]) = Count(S1[a], p.nxt)
                ELSE NoData(p)
  BY <1>3 DEF Taken
<1> HIDE DEF a, p
<1>5. CASE p.cookie = 0
  BY <1>3, <1>4, <1>5 DEF Taken
<1>6. CASE p.cookie # 0
  <2>1. Copies(p, S[a])
    BY <1>3, <1>4, <1>6 DEF Taken
  <2>2. Copies(p, S1[a]) /\ Count(S1[a], p.nxt) = Count(S[a], p.nxt)
    BY <1>1, <1>2, <2>1, CopiesExtends
  <2>3. CASE p.cookie = K[a]
    BY <1>2, <1>3, <1>4, <1>6, <2>2, <2>3 DEF Taken
  <2>4. CASE p.cookie # K[a] /\ p.cookie # K1[a]
    BY <1>3, <1>4, <1>6, <2>2, <2>4 DEF Taken
  <2>5. CASE p.cookie # K[a] /\ p.cookie = K1[a]
    <3>1. got[a] = <<>> /\ \A i \in 1..Len(S[a]) : S[a][i].hdr # "Data"
      BY <1>2, <1>3, <2>5
    <3>2. p.nxt <= Len(S[a]) /\ Len(S[a]) \in Nat
      BY <1>1, <1>2, <2>1, Reaches
    <3>3. {i \in 1..p.nxt : S[a][i].hdr = "Data"} = {}
      BY <1>1, <3>1, <3>2
    <3>4. Count(S[a], p.nxt) = 0
      BY <3>3, FS_EmptySet DEF Count
    <3>5. Len(got[a]) = 0
      BY <3>1, EmptySeq
    <3> QED
      BY <1>6, <2>2, <2>5, <3>4, <3>5
  <2> QED
    BY <2>3, <2>4, <2>5
<1> QED
  BY <1>5, <1>6

\* The datagrams in flight stay those of their session.
LEMMA GrowsInFlight ==
  ASSUME Shape, NEW S, NEW K, NEW O, Replay(S, K, O), NEW S1, NEW K1, Grows(S, K, S1, K1),
         NEW d \in net
  PROVE  Sent(S1, K1, O, d)
<1> DEFINE a == d.addr
<1>1. a \in Addr /\ d.sn \in Nat
  BY DEF Shape, Datagrams
<1>2. /\ S[a] \in Seq(Messages) /\ S1[a] \in Seq(Messages)
      /\ Extends(S[a], S1[a]) /\ (K1[a] # K[a] => K[a] = 0)
  BY <1>1 DEF Replay, Grows
<1>3. Len(S[a]) \in Nat /\ Len(S1[a]) \in Nat
  BY <1>2, LenProperties
<1>4. /\ d.to = "server" =>
           /\ d.cookie \in {0, K[a]}
           /\ d.kind = "PUSH" => /\ d.sn + 1 \in 1..Len(S[a])
                                 /\ d.msg = S[a][d.sn + 1]
                                 /\ d.cookie = 0 => d.msg.hdr # "Data"
      /\ d.to = "client" => d.cookie \in issued /\ O[d.cookie] = a
  BY DEF Replay, InFlight, Sent
<1> HIDE DEF a
<1>5. d.sn + 1 \in 1..Len(S[a]) =>
        d.sn + 1 \in 1..Len(S1[a]) /\ S1[a][d.sn + 1] = S[a][d.sn + 1]
  BY <1>1, <1>2, <1>3 DEF Extends
<1> QED
  BY <1>2, <1>4, <1>5 DEF a, Sent

\* The conjuncts of Replay, address by address.
LEMMA ReplayHas ==
  ASSUME NEW S, NEW K, NEW O, Replay(S, K, O), NEW a \in Addr
  PROVE  /\ S[a] \in Seq(Messages) /\ Len(S[a]) \in Nat /\ K[a] \in Nat
         /\ Numbered(S[a], a)
         /\ K[a] = 0 => got[a] = <<>> /\ \A i \in 1..Len(S[a]) : S[a][i].hdr # "Data"
         /\ K[a] # 0 => K[a] \in issued /\ O[K[a]] = a
         /\ a \notin used => S[a] = <<>> /\ K[a] = 0
<1>1. S[a] \in Seq(Messages) /\ K[a] \in Nat
  BY DEF Replay
<1>2. Len(S[a]) \in Nat
  BY <1>1, LenProperties
<1> QED
  BY <1>1, <1>2 DEF Replay, Dialled

\* Connect begins a session at an address that had none.
LEMMA ConnectReplay ==
  ASSUME Shape, NEW S, NEW K, NEW O, Replay(S, K, O), NEW new \in Addr, ConnectStep(new),
         NEW S1, S1 = [S EXCEPT ![new] = <<Bare("Hello")>>]
  PROVE  Replay(S1, K, O)'
<1>1. /\ client'.cookie = 0 /\ client'.out = <<Bare("Hello")>>
      /\ sock' = new /\ new \notin used /\ used' = used \cup {new}
      /\ UNCHANGED <<connections, issued, got, net>>
  BY DEF ConnectStep, serverVars
<1>2. S \in [Addr -> Seq(Messages)] /\ K \in [Addr -> Nat]
  BY DEF Replay
<1>3. S[new] = <<>> /\ K[new] = 0 /\ got[new] = <<>>
  BY <1>1, ReplayHas
<1>4. /\ <<Bare("Hello")>> \in Seq(Messages) /\ Len(<<Bare("Hello")>>) = 1
      /\ <<Bare("Hello")>>[1].hdr # "Data" /\ Len(<<>>) = 0
  BY MessageTypes DEF Bare, Message
<1>5. /\ S1 \in [Addr -> Seq(Messages)] /\ S1[new] = <<Bare("Hello")>>
      /\ \A a \in Addr : a # new => S1[a] = S[a]
  BY <1>2, <1>4
<1>6. Grows(S, K, S1, K)
  <2>1. ASSUME NEW a \in Addr
        PROVE  Extends(S[a], S1[a])
    <3>1. CASE a = new
      BY <1>3, <1>4, <1>5, <3>1 DEF Extends
    <3>2. CASE a # new
      <4>1. Extends(S[a], S[a])
        BY ReplayHas, PlainlySelf DEF Plainly
      <4> QED
        BY <1>5, <3>2, <4>1
    <3> QED
      BY <3>1, <3>2
  <2> QED
    BY <1>2, <1>5, <2>1 DEF Grows
<1>7. Dialled(S1, K, O)'
  <2>1. ASSUME NEW a \in Addr
        PROVE  /\ Numbered(S1[a], a)
               /\ K[a] = 0 => got'[a] = <<>> /\ \A i \in 1..Len(S1[a]) : S1[a][i].hdr # "Data"
               /\ K[a] # 0 => K[a] \in issued' /\ O[K[a]] = a
               /\ a \notin used' => S1[a] = <<>> /\ K[a] = 0
    <3>1. CASE a = new
      <4>1. \A i \in 1..Len(S1[a]) : S1[a][i].hdr # "Data"
        BY <1>4, <1>5, <3>1
      <4> QED
        BY <1>1, <1>3, <3>1, <4>1 DEF Numbered
    <3>2. CASE a # new
      <4>1. S1[a] = S[a] /\ (a \notin used' => a \notin used)
        BY <1>1, <1>5, <3>2
      <4> QED
        BY <1>1, <4>1, ReplayHas
    <3> QED
      BY <3>1, <3>2
  <2> QED
    BY <1>1, <1>3, <1>5, <2>1 DEF Dialled
<1>8. InFlight(S1, K, O)'
  <2>1. \A d \in net : Sent(S1, K, O, d)
    BY <1>6, GrowsInFlight
  <2> QED
    BY <1>1, <2>1 DEF InFlight, Sent
<1>9. Connections(S1, K, O)'
  <2>1. \A id \in DOMAIN connections :
          Taken(S1, K, connections[id].addr, connections[id].peer)
    BY <1>6, GrowsTaken
  <2>2. \A a, p : Taken(S1, K, a, p)' <=> Taken(S1, K, a, p)
    BY <1>1 DEF Taken
  <2> QED
    BY <1>1, <2>1, <2>2 DEF Connections, Replay, Taken
<1>10. NoReplay'
  BY <1>1 DEF Replay, NoReplay
<1> QED
  BY <1>2, <1>5, <1>7, <1>8, <1>9, <1>10 DEF Replay

\* A client without a socket sends nothing that leaves it.
LEMMA ClientReplay ==
  ASSUME Shape, NEW S, NEW K, NEW O, Replay(S, K, O), ClientStep,
         NEW S1, S1 = IF sock = NoAddr THEN S ELSE [S EXCEPT ![sock] = client'.out],
         NEW K1, K1 = IF sock = NoAddr THEN K ELSE [K EXCEPT ![sock] = client'.cookie]
  PROVE  Replay(S1, K1, O)'
<1>1. /\ UNCHANGED <<connections, issued, got, used>>
      /\ sock' \in {sock, NoAddr}
      /\ Peer(client') /\ Peer(client)
      /\ Learned(client, client')
      /\ Extends(client.out, client'.out)
      /\ \/ Plainly(client.out, client'.out)
         \/ /\ client.cookie # 0
            /\ Numbered(client.out, sock) => Numbered(client'.out, sock)
      /\ \A d \in net' : d \in net \/ From(d, "server", sock, client'.cookie, client'.out)
  BY DEF ClientStep, serverVars, Shape
<1>2. S \in [Addr -> Seq(Messages)] /\ K \in [Addr -> Nat]
  BY DEF Replay
<1>3. sock \in Addr \cup {NoAddr} /\ (sock # NoAddr => sock \in used /\ sock \in Addr)
  BY DEF Shape
<1>4. /\ client'.out \in Seq(Messages) /\ client'.cookie \in Nat /\ Len(client'.out) \in Nat
      /\ client.out \in Seq(Messages) /\ client.cookie \in Nat /\ Len(client.out) \in Nat
  BY <1>1, PeerFields
<1>5. sock # NoAddr => S[sock] = client.out /\ K[sock] = client.cookie
  BY DEF Replay, Dialled
<1>6. /\ S1 \in [Addr -> Seq(Messages)] /\ K1 \in [Addr -> Nat]
      /\ sock # NoAddr => S1[sock] = client'.out /\ K1[sock] = client'.cookie
      /\ \A a \in Addr : a # sock => S1[a] = S[a] /\ K1[a] = K[a]
  <2>1. CASE sock = NoAddr
    BY <1>2, <2>1
  <2>2. CASE sock # NoAddr
    BY <1>2, <1>3, <1>4, <2>2
  <2> QED
    BY <2>1, <2>2
<1>7. client'.cookie # client.cookie =>
        /\ client.cookie = 0
        /\ \E d \in net : d.to = "client" /\ d.addr = sock /\ d.cookie = client'.cookie
  BY <1>1 DEF Learned
<1>8. Grows(S, K, S1, K1)
  <2>1. ASSUME NEW a \in Addr
        PROVE  Extends(S[a], S1[a]) /\ (K1[a] # K[a] => K[a] = 0)
    <3>1. CASE a = sock
      BY <1>1, <1>3, <1>5, <1>6, <1>7, <3>1, SessionAssumption
    <3>2. CASE a # sock
      <4>1. Extends(S[a], S[a])
        BY ReplayHas, PlainlySelf DEF Plainly
      <4> QED
        BY <1>6, <3>2, <4>1
    <3> QED
      BY <3>1, <3>2
  <2> QED
    BY <1>6, <2>1 DEF Grows
<1>9. Dialled(S1, K1, O)'
  <2>1. ASSUME NEW a \in Addr
        PROVE  /\ Numbered(S1[a], a)
               /\ K1[a] = 0 => got[a] = <<>> /\ \A i \in 1..Len(S1[a]) : S1[a][i].hdr # "Data"
               /\ K1[a] # 0 => K1[a] \in issued /\ O[K1[a]] = a
               /\ a \notin used => S1[a] = <<>> /\ K1[a] = 0
    <3>1. CASE a # sock
      <4>1. S1[a] = S[a] /\ K1[a] = K[a]
        BY <1>6, <3>1
      <4> QED
        BY <4>1, ReplayHas
    <3>2. CASE a = sock
      <4>1. sock # NoAddr /\ a \in used
        BY <1>3, <3>2, SessionAssumption
      <4>2. /\ S[a] = client.out /\ K[a] = client.cookie
            /\ S1[a] = client'.out /\ K1[a] = client'.cookie
        BY <1>5, <1>6, <3>2, <4>1
      <4>3. Numbered(client'.out, a)
        <5>1. Numbered(client.out, a)
          BY <4>2, ReplayHas
        <5> QED
          BY <1>1, <1>4, <3>2, <5>1, PlainlyNumbered
      <4>4. ASSUME client'.cookie = 0
            PROVE  got[a] = <<>> /\ \A i \in 1..Len(client'.out) : client'.out[i].hdr # "Data"
        <5>1. client.cookie = 0
          BY <1>7, <4>4
        <5>2. got[a] = <<>> /\ \A i \in 1..Len(client.out) : client.out[i].hdr # "Data"
          BY <4>2, <5>1, ReplayHas
        <5>3. Plainly(client.out, client'.out)
          BY <1>1, <5>1
        <5>4. \A i \in 1..Len(client'.out) :
                \/ i \in 1..Len(client.out) /\ client'.out[i] = client.out[i]
                \/ client'.out[i].hdr # "Data"
          BY <1>4, <5>3 DEF Plainly, Extends
        <5> QED
          BY <5>2, <5>4
      <4>5. ASSUME client'.cookie # 0
            PROVE  client'.cookie \in issued /\ O[client'.cookie] = a
        <5>1. CASE client'.cookie = client.cookie
          BY <4>2, <4>5, <5>1, ReplayHas
        <5>2. CASE client'.cookie # client.cookie
          BY <1>7, <3>2, <5>2 DEF Replay, InFlight, Sent
        <5> QED
          BY <5>1, <5>2
      <4> QED
        BY <4>1, <4>2, <4>3, <4>4, <4>5
    <3> QED
      BY <3>1, <3>2
  <2>2. sock' # NoAddr => S1[sock'] = client'.out /\ K1[sock'] = client'.cookie
    BY <1>1, <1>6
  <2> QED
    BY <1>1, <2>1, <2>2 DEF Dialled
<1>10. InFlight(S1, K1, O)'
  <2> SUFFICES ASSUME NEW d \in net'
               PROVE  Sent(S1, K1, O, d)
    BY <1>1 DEF InFlight, Sent
  <2>1. CASE d \in net
    BY <1>8, <2>1, GrowsInFlight
  <2>2. CASE d \notin net
    <3>1. /\ d \in Datagrams /\ d.to = "server" /\ d.addr = sock
          /\ d.cookie = client'.cookie
          /\ d.kind = "PUSH" => /\ d.sn + 1 \in 1..Len(client'.out)
                                /\ d.msg = client'.out[d.sn + 1]
      BY <1>1, <2>2 DEF From
    <3>2. sock \in Addr /\ sock # NoAddr
      BY <3>1, SessionAssumption DEF Datagrams
    <3>3. S1[sock] = client'.out /\ K1[sock] = client'.cookie
      BY <1>6, <3>2
    <3>4. K1[sock] = 0 => \A i \in 1..Len(S1[sock]) : S1[sock][i].hdr # "Data"
      BY <1>9, <3>2 DEF Dialled
    <3> QED
      BY <3>1, <3>3, <3>4 DEF Sent
  <2> QED
    BY <2>1, <2>2
<1>11. Connections(S1, K1, O)'
  <2>1. \A id \in DOMAIN connections :
          Taken(S1, K1, connections[id].addr, connections[id].peer)
    BY <1>8, GrowsTaken
  <2>2. \A a, p : Taken(S1, K1, a, p)' <=> Taken(S1, K1, a, p)
    BY <1>1 DEF Taken
  <2> QED
    BY <1>1, <2>1, <2>2 DEF Connections, Replay, Taken
<1>12. NoReplay'
  BY <1>1 DEF Replay, NoReplay
<1>13. O \in [Cookies -> Addr \cup {NoAddr}]
  BY DEF Replay
<1> QED
  BY <1>6, <1>9, <1>10, <1>11, <1>12, <1>13 DEF Replay

\* What is sent to a client bears the cookie of the connection at its address.
LEMMA FromServerReplay ==
  ASSUME Shape, NEW S, NEW K, NEW O, Replay(S, K, O), FromServer, UNCHANGED issued
  PROVE  InFlight(S, K, O)'
<1> SUFFICES ASSUME NEW d \in net', d \notin net
             PROVE  /\ d.to = "client"
                    /\ d.cookie \in issued /\ O[d.cookie] = d.addr
  BY DEF Replay, InFlight, Sent
<1>1. PICK id \in DOMAIN connections :
        From(d, "client", connections[id].addr, connections[id].peer.cookie,
             connections[id].peer.out)
  BY DEF FromServer
<1>2. /\ connections[id].peer.cookie \in issued
      /\ O[connections[id].peer.cookie] = connections[id].addr
  BY DEF Replay, Connections
<1> QED
  BY <1>1, <1>2 DEF From

(***************************************************************************)
(* A datagram that a connection takes is of the session at its own         *)
(* address, also if another address has the same ConnectionHash: only that *)
(* one can know the cookie.  Under the cookie 0 it is no Data.             *)
(***************************************************************************)
LEMMA ServerReplay ==
  ASSUME Shape, NEW S, NEW K, NEW O, Replay(S, K, O), ServerStep
  PROVE  Replay(S, K, O)'
<1>1. /\ UNCHANGED <<client, sock, used, issued, got>>
      /\ DOMAIN connections' = DOMAIN connections
      /\ \A id \in DOMAIN connections :
           /\ connections'[id].addr = connections[id].addr
           /\ Evolves(id, connections[id].peer, connections'[id].peer)
      /\ FromServer
  BY DEF ServerStep, clientVars
<1>2. Dialled(S, K, O)'
  BY <1>1 DEF Replay, Dialled
<1>3. InFlight(S, K, O)'
  BY <1>1, FromServerReplay
<1>4. NoReplay'
  BY <1>1 DEF Replay, NoReplay
<1>5. ASSUME NEW id \in DOMAIN connections
      PROVE  /\ connections'[id].peer.cookie \in issued
             /\ O[connections'[id].peer.cookie] = connections[id].addr
             /\ Taken(S, K, connections[id].addr, connections'[id].peer)
  <2> DEFINE a == connections[id].addr
             p == connections[id].peer
             q == connections'[id].peer
  <2>1. /\ Peer(q) /\ q.cookie = p.cookie /\ q.nxt = p.nxt
        /\ q.state \in {p.state, "Disconnected"}
        /\ \A sn \in DOMAIN q.rcvd :
             \/ sn \in DOMAIN p.rcvd /\ q.rcvd[sn] = p.rcvd[sn]
             \/ \E d \in net : /\ d.to = "server" /\ Hash[d.addr] = id
                               /\ ServerAccepts(p, d.cookie)
                               /\ d.kind = "PUSH" /\ sn = d.sn /\ q.rcvd[sn] = d.msg
    BY <1>1 DEF Evolves
  <2>2. a \in Addr /\ Peer(p) /\ p.cookie \in Nat
    BY ConnIs, PeerFields
  <2>3. p.cookie \in issued /\ O[p.cookie] = a /\ Taken(S, K, a, p)
    BY DEF Replay, Connections
  <2>4. /\ \A d \in net : d.to = "server" =>
             /\ d.cookie \in {0, K[d.addr]}
             /\ d.kind = "PUSH" => /\ d.sn + 1 \in 1..Len(S[d.addr])
                                   /\ d.msg = S[d.addr][d.sn + 1]
                                   /\ d.cookie = 0 => d.msg.hdr # "Data"
        /\ \A d \in net : d.addr \in Addr
    BY DEF Replay, InFlight, Sent, Shape, Datagrams
  <2>5. \A b \in Addr : K[b] # 0 => O[K[b]] = b
    BY ReplayHas
  <2> HIDE DEF a, p, q
  <2>6. ASSUME q.state = "Authenticated"
        PROVE  /\ q.cookie # 0 => Copies(q, S[a])
               /\ IF q.cookie # 0 /\ q.cookie = K[a]
                  THEN Len(got[a]) = Count(S[a], q.nxt)
                  ELSE NoData(q)
    <3>1. p.state = "Authenticated"
      BY <2>1, <2>6
    <3>2. /\ p.cookie # 0 => Copies(p, S[a])
          /\ IF p.cookie # 0 /\ p.cookie = K[a]
             THEN Len(got[a]) = Count(S[a], p.nxt)
             ELSE NoData(p)
      BY <2>3, <3>1 DEF Taken
    <3>3. ASSUME NEW sn \in DOMAIN q.rcvd, ~(sn \in DOMAIN p.rcvd /\ q.rcvd[sn] = p.rcvd[sn])
          PROVE  /\ p.cookie # 0 => /\ sn + 1 \in 1..Len(S[a]) /\ q.rcvd[sn] = S[a][sn + 1]
                                    /\ p.cookie = K[a]
                 /\ p.cookie = 0 => q.rcvd[sn].hdr # "Data"
      <4>1. PICK d \in net : /\ d.to = "server" /\ ServerAccepts(p, d.cookie)
                             /\ d.kind = "PUSH" /\ sn = d.sn /\ q.rcvd[sn] = d.msg
        BY <2>1, <3>3
      <4>2. d.cookie = p.cookie
        BY <3>1, <4>1 DEF ServerAccepts
      <4>3. p.cookie # 0 => d.addr = a /\ p.cookie = K[a]
        BY <2>3, <2>4, <2>5, <4>1, <4>2
      <4> QED
        BY <2>4, <4>1, <4>2, <4>3
    <3>4. q.cookie # 0 => Copies(q, S[a])
      BY <2>1, <3>2, <3>3 DEF Copies
    <3>5. ~(q.cookie # 0 /\ q.cookie = K[a]) => NoData(q)
      BY <2>1, <3>2, <3>3 DEF NoData
    <3> QED
      BY <2>1, <3>2, <3>4, <3>5
  <2>7. q.state \in {"Authenticated", "Disconnected"}
    BY <2>1, <2>3 DEF Taken
  <2>8. Taken(S, K, a, q)
    BY <2>6, <2>7 DEF Taken
  <2> QED
    BY <2>1, <2>3, <2>8 DEF a, p, q
<1>6. Connections(S, K, O)'
  <2>1. \A a, p : Taken(S, K, a, p)' <=> Taken(S, K, a, p)
    BY <1>1 DEF Taken
  <2> QED
    BY <1>1, <1>5, <2>1 DEF Connections, Taken
<1> QED
  BY <1>2, <1>3, <1>4, <1>6 DEF Replay

\* What a tick hands to the user continues the Data of the address.
LEMMA TickReplay ==
  ASSUME Shape, NEW S, NEW K, NEW O, Replay(S, K, O), ServerTick
  PROVE  Replay(S, K, O)'
<1>1. /\ UNCHANGED <<client, sock, used, issued>>
      /\ DOMAIN connections' \subseteq DOMAIN connections
      /\ \A id \in DOMAIN connections' :
           /\ connections'[id].addr = connections[id].addr
           /\ Ticked(connections[id].peer, connections'[id].peer)
      /\ FromServer
  BY DEF ServerTick, clientVars
<1>2. got \in [Addr -> Seq(Messages)] /\ got' \in [Addr -> Seq(Messages)]
  BY DEF Shape, ServerTick
<1>3. ASSUME NEW a \in Addr
      PROVE  /\ InOrder(got'[a], a)
             /\ K[a] = 0 => got'[a] = got[a]
             /\ \A id \in DOMAIN connections :
                  LET p == connections[id].peer
                  IN  connections[id].addr = a /\ p.state = "Authenticated"
                        /\ p.cookie # 0 /\ p.cookie = K[a]
                        => Len(got'[a]) = Count(S[a], RcvNxt(p))
  <2>1. S[a] \in Seq(Messages) /\ Numbered(S[a], a) /\ got[a] \in Seq(Messages)
    BY <1>2, ReplayHas
  <2>2. InOrder(got[a], a)
    BY DEF Replay, NoReplay
  <2>3. CASE /\ got'[a] = got[a]
             /\ \A id \in DOMAIN connections :
                  connections[id].addr = a => connections[id].peer.state # "Authenticated"
    BY <2>2, <2>3
  <2>4. ASSUME NEW id \in DOMAIN connections,
               connections[id].addr = a,
               connections[id].peer.state = "Authenticated",
               got'[a] = got[a] \o DataOf(connections[id].peer)
        PROVE  /\ InOrder(got'[a], a)
               /\ K[a] = 0 => got'[a] = got[a]
               /\ connections[id].peer.cookie # 0 /\ connections[id].peer.cookie = K[a]
                    => Len(got'[a]) = Count(S[a], RcvNxt(connections[id].peer))
    <3> DEFINE p == connections[id].peer
    <3>1. Peer(p) /\ Taken(S, K, a, p)
      BY <2>4, ConnIs DEF Replay, Connections
    <3> HIDE DEF p
    <3>2. /\ p.cookie # 0 => Copies(p, S[a])
          /\ IF p.cookie # 0 /\ p.cookie = K[a]
             THEN Len(got[a]) = Count(S[a], p.nxt)
             ELSE NoData(p)
      BY <2>4, <3>1 DEF Taken, p
    <3>3. CASE p.cookie # 0 /\ p.cookie = K[a]
      <4>1. /\ InOrder(got[a] \o DataOf(p), a)
            /\ Len(got[a] \o DataOf(p)) = Count(S[a], RcvNxt(p))
        BY <2>1, <2>2, <3>1, <3>2, <3>3, Handed
      <4> QED
        BY <2>4, <3>3, <4>1 DEF p
    <3>4. CASE ~(p.cookie # 0 /\ p.cookie = K[a])
      <4>1. DataOf(p) = <<>>
        BY <3>1, <3>2, <3>4, NoneHanded
      <4>2. got'[a] = got[a]
        BY <2>1, <2>4, <4>1, ConcatEmptySeq DEF p
      <4> QED
        BY <2>2, <3>4, <4>2 DEF p
    <3> QED
      BY <3>3, <3>4
  <2>5. CASE \E id \in DOMAIN connections :
               /\ connections[id].addr = a
               /\ connections[id].peer.state = "Authenticated"
               /\ got'[a] = got[a] \o DataOf(connections[id].peer)
    <3>1. PICK id \in DOMAIN connections :
               /\ connections[id].addr = a
               /\ connections[id].peer.state = "Authenticated"
               /\ got'[a] = got[a] \o DataOf(connections[id].peer)
      BY <2>5
    <3>2. \A i \in DOMAIN connections : connections[i].addr = a => i = id
      BY <3>1, OnePerAddress
    <3> QED
      BY <2>4, <3>1, <3>2
  <2> QED
    BY <2>3, <2>5 DEF ServerTick
<1>4. NoReplay'
  BY <1>3 DEF NoReplay
<1>5. Dialled(S, K, O)'
  <2>1. \A a \in Addr : K[a] = 0 => got'[a] = <<>>
    BY <1>3, ReplayHas
  <2> QED
    BY <1>1, <2>1 DEF Replay, Dialled
<1>6. InFlight(S, K, O)'
  BY <1>1, FromServerReplay
<1>7. ASSUME NEW id \in DOMAIN connections'
      PROVE  /\ connections'[id].peer.cookie \in issued
             /\ O[connections'[id].peer.cookie] = connections'[id].addr
             /\ Taken(S, K, connections[id].addr, connections[id].peer)'
  <2> DEFINE a == connections[id].addr
             p == connections[id].peer
             q == connections'[id].peer
  <2>1. id \in DOMAIN connections /\ connections'[id].addr = a /\ Ticked(p, q)
    BY <1>1
  <2>2. a \in Addr /\ p.cookie \in issued /\ O[p.cookie] = a /\ Taken(S, K, a, p)
    BY <2>1, ConnIs DEF Replay, Connections
  <2>3. p.state = "Authenticated" /\ p.cookie # 0 /\ p.cookie = K[a]
          => Len(got'[a]) = Count(S[a], RcvNxt(p))
    BY <1>3, <2>1, <2>2
  <2> HIDE DEF a, p, q
  <2>4. /\ q.cookie = p.cookie /\ q.rcvd = p.rcvd
        /\ q.state \in {"Authenticated", "Disconnected"}
        /\ q.state = "Authenticated" => p.state = "Authenticated" /\ q.nxt = RcvNxt(p)
    BY <2>1, <2>2 DEF Ticked, Taken
  <2>5. q.state = "Authenticated" =>
          /\ q.cookie # 0 => Copies(q, S[a])
          /\ IF q.cookie # 0 /\ q.cookie = K[a]
             THEN Len(got'[a]) = Count(S[a], q.nxt)
             ELSE NoData(q)
    BY <2>2, <2>3, <2>4 DEF Taken, Copies, NoData
  <2> QED
    BY <2>1, <2>2, <2>4, <2>5 DEF Taken, q
<1>8. Connections(S, K, O)'
  BY <1>1, <1>7 DEF Connections
<1> QED
  BY <1>4, <1>5, <1>6, <1>8 DEF Replay

(***************************************************************************)
(* A new connection has a cookie that no session can know yet, and has     *)
(* taken nothing but the Hello of the session at its address.              *)
(***************************************************************************)
LEMMA AdmitReplay ==
  ASSUME Shape, NEW S, NEW K, NEW O, Replay(S, K, O), NEW d \in net, ServerAdmits(d),
         NEW cookie \in Cookies \ issued, issued' = issued \cup {cookie},
         \A e \in net' : e \in net \/ From(e, "client", d.addr, cookie, <<>>),
         connections' = connections \/ Joins(d, cookie),
         NEW O1, O1 = [O EXCEPT ![cookie] = d.addr]
  PROVE  Replay(S, K, O1)'
<1>1. UNCHANGED <<client, sock, used, got>> /\ d.to = "server"
  BY DEF ServerAdmits, clientVars
<1>2. d.addr \in Addr /\ issued \subseteq Cookies
  BY DEF Shape, Datagrams
<1>3. /\ O1 \in [Cookies -> Addr \cup {NoAddr}] /\ O1[cookie] = d.addr
      /\ \A k \in issued : O1[k] = O[k]
  BY <1>2 DEF Replay
<1>4. NoReplay'
  BY <1>1 DEF Replay, NoReplay
<1>5. Dialled(S, K, O1)'
  <2>1. \A a \in Addr : K[a] # 0 => K[a] \in issued' /\ O1[K[a]] = a
    BY <1>3, ReplayHas
  <2> QED
    BY <1>1, <2>1 DEF Replay, Dialled
<1>6. InFlight(S, K, O1)'
  <2> SUFFICES ASSUME NEW e \in net' PROVE Sent(S, K, O1, e)'
    BY DEF InFlight
  <2>1. CASE e \in net
    <3>1. Sent(S, K, O, e)
      BY <2>1 DEF Replay, InFlight
    <3> QED
      BY <1>3, <3>1 DEF Sent
  <2>2. CASE From(e, "client", d.addr, cookie, <<>>)
    BY <1>3, <2>2 DEF From, Sent
  <2> QED
    BY <2>1, <2>2
<1>7. ASSUME NEW id \in DOMAIN connections
      PROVE  /\ connections[id].peer.cookie \in issued'
             /\ O1[connections[id].peer.cookie] = connections[id].addr
             /\ Taken(S, K, connections[id].addr, connections[id].peer)
  BY <1>3 DEF Replay, Connections
<1>8. CASE connections' = connections
  <2>1. Connections(S, K, O1)'
    BY <1>1, <1>7, <1>8, SMTT(30) DEF Connections, Taken
  <2> QED
    BY <1>3, <1>4, <1>5, <1>6, <2>1 DEF Replay
<1>9. CASE Joins(d, cookie)
  <2> DEFINE id == Hash[d.addr]
             c == connections'[id]
             p == c.peer
             a == d.addr
  <2>1. /\ DOMAIN connections' = DOMAIN connections \cup {id}
        /\ \A i \in DOMAIN connections : connections'[i] = connections[i]
        /\ id \notin DOMAIN connections
        /\ c.addr = a /\ p.cookie = cookie /\ p.state = "Authenticated"
        /\ d.kind = "PUSH" /\ d.sn = 0
        /\ \A sn \in DOMAIN p.rcvd :
             sn = 0 /\ p.rcvd[sn] = d.msg /\ d.msg.hdr = "Hello"
    BY <1>9 DEF Joins
  <2>2. d.sn + 1 \in 1..Len(S[a]) /\ d.msg = S[a][d.sn + 1]
    BY <1>1, <2>1 DEF Replay, InFlight, Sent
  <2>3. K[a] # 0 => K[a] # cookie
    BY <1>2, ReplayHas
  <2> HIDE DEF id, c, p, a
  <2>4. Copies(p, S[a]) /\ NoData(p)
    BY <2>1, <2>2 DEF Copies, NoData
  <2>5. Taken(S, K, a, p)
    BY <2>1, <2>3, <2>4 DEF Taken
  <2>6. ASSUME NEW i \in DOMAIN connections'
        PROVE  /\ connections'[i].peer.cookie \in issued'
               /\ O1[connections'[i].peer.cookie] = connections'[i].addr
               /\ Taken(S, K, connections'[i].addr, connections'[i].peer)
    <3>1. CASE i = id
      BY <1>3, <2>1, <2>5, <3>1 DEF a, p, c
    <3>2. CASE i # id
      BY <1>7, <2>1, <3>2
    <3> QED
      BY <3>1, <3>2
  <2>7. Connections(S, K, O1)'
    BY <1>1, <2>6 DEF Connections, Taken
  <2> QED
    BY <1>3, <1>4, <1>5, <1>6, <2>7 DEF Replay
<1> QED
  BY <1>8, <1>9

\* Every step.
LEMMA NextReplay == ReplayInv /\ [Next]_vars => ReplayInv'
<1> SUFFICES ASSUME ReplayInv, [Next]_vars PROVE ReplayInv'
  OBVIOUS
<1>1. Shape /\ Shape'
  BY NextShape DEF ReplayInv
<1>2. PICK S, K, O : Replay(S, K, O)
  BY DEF ReplayInv
<1> SUFFICES \E S1, K1, O1 : Replay(S1, K1, O1)'
  BY <1>1 DEF ReplayInv
<1>3. CASE UNCHANGED vars
  <2>1. Replay(S, K, O)'
    BY <1>2, <1>3 DEF vars, clientVars, serverVars, Replay, Dialled, InFlight, Sent,
       Connections, Taken, NoReplay
  <2> QED
    BY <2>1
<1>4. ASSUME NEW a \in Addr, ConnectStep(a)
      PROVE  \E S1, K1, O1 : Replay(S1, K1, O1)'
  <2>1. PICK S1 : S1 = [S EXCEPT ![a] = <<Bare("Hello")>>]
    OBVIOUS
  <2>2. Replay(S1, K, O)'
    BY <1>1, <1>2, <1>4, <2>1, ConnectReplay
  <2> QED
    BY <2>2
<1>5. CASE ClientStep
  <2>1. PICK S1 : S1 = IF sock = NoAddr THEN S ELSE [S EXCEPT ![sock] = client'.out]
    OBVIOUS
  <2>2. PICK K1 : K1 = IF sock = NoAddr THEN K ELSE [K EXCEPT ![sock] = client'.cookie]
    OBVIOUS
  <2>3. Replay(S1, K1, O)'
    BY <1>1, <1>2, <1>5, <2>1, <2>2, ClientReplay
  <2> QED
    BY <2>3
<1>6. CASE ServerStep
  BY <1>1, <1>2, <1>6, ServerReplay
<1>7. CASE ServerTick
  BY <1>1, <1>2, <1>7, TickReplay
<1>8. ASSUME NEW d \in net, ServerAdmits(d)
      PROVE  \E S1, K1, O1 : Replay(S1, K1, O1)'
  <2>1. PICK cookie \in Cookies \ issued :
          /\ issued' = issued \cup {cookie}
          /\ \A e \in net' : e \in net \/ From(e, "client", d.addr, cookie, <<>>)
          /\ connections' = connections \/ Joins(d, cookie)
    BY <1>8 DEF ServerAdmits
  <2>2. PICK O1 : O1 = [O EXCEPT ![cookie] = d.addr]
    OBVIOUS
  <2>3. Replay(S, K, O1)'
    BY <1>1, <1>2, <1>8, <2>1, <2>2, AdmitReplay
  <2> QED
    BY <2>3
<1> QED
  BY <1>1, <1>3, <1>4, <1>5, <1>6, <1>7, <1>8, StepIs

(***************************************************************************)
(* However often the server drops a client and takes a late or repeated    *)
(* Hello of it for a new one, and whatever the network loses, repeats or   *)
(* reorders: the server's user is handed the Data of a session once and in *)
(* order.  This holds also if two addresses have the same ConnectionHash,  *)
(* and if GenerateCookie draws the 0 that a client takes for no cookie.    *)
(***************************************************************************)
THEOREM DataAreNotReplayed == Spec => []NoReplay
<1>1. ReplayInv => NoReplay
  BY DEF ReplayInv, Replay
<1> QED
  BY InitReplay, NextReplay, <1>1, PTL DEF Spec

----------------------------------------------------------------------------
(***************************************************************************)
(* OneServer.  The invariant speaks of what was sent so far under each     *)
(* cookie.  It is the stream of one connection, which begins with a Hello. *)
(***************************************************************************)
Streams(T) ==
  \A k \in Cookies : /\ Numbered(T[k], k)
                     /\ T[k] # <<>> => T[k][1].hdr = "Hello"
                     /\ k \notin issued => T[k] = <<>>

Sources(T) ==
  /\ \A id \in DOMAIN connections : LET p == connections[id].peer
                                    IN  /\ p.cookie \in issued
                                        /\ p.out = T[p.cookie] /\ p.out # <<>>
  /\ \A i, j \in DOMAIN connections :
       connections[i].peer.cookie = connections[j].peer.cookie => i = j

Arriving(T) ==
  \A d \in net : d.to = "client" =>
    /\ d.cookie \in issued
    /\ d.kind = "PUSH" => d.sn + 1 \in 1..Len(T[d.cookie]) /\ d.msg = T[d.cookie][d.sn + 1]

\* Before it has a cookie the client has received nothing; the first message
\* it takes is the Hello.
Follows(T, p) ==
  /\ p.state = "Connected" => p.nxt = 0
  /\ p.cookie = 0 => DOMAIN p.rcvd = {} /\ p.nxt = 0 /\ p.data = <<>>
  /\ p.cookie # 0 => /\ p.cookie \in issued
                     /\ Copies(p, T[p.cookie])
                     /\ Len(p.data) = Count(T[p.cookie], p.nxt)
  /\ InOrder(p.data, p.cookie)

One(T) ==
  /\ T \in [Cookies -> Seq(Messages)]
  /\ Streams(T)
  /\ Sources(T)
  /\ Arriving(T)
  /\ Follows(T, client)

OneInv == Shape /\ \E T : One(T)

\* The initial state.
LEMMA InitOne == Init => OneInv
<1> SUFFICES ASSUME Init PROVE OneInv
  OBVIOUS
<1> DEFINE T == [k \in Cookies |-> <<>>]
<1>1. <<>> \in Seq(Messages) /\ Len(<<>>) = 0
  BY EmptySeq
<1>2. T \in [Cookies -> Seq(Messages)] /\ \A k \in Cookies : T[k] = <<>>
  BY <1>1
<1> HIDE DEF T
<1>3. DOMAIN connections = {} /\ net = {}
  <2>1. DOMAIN <<>> = {}
    OBVIOUS
  <2> QED
    BY <2>1 DEF Init
<1>4. Fresh(client, 0)
  BY NewPeers DEF Init
<1>5. Follows(T, client)
  BY <1>1, <1>4 DEF Fresh, Follows, InOrder
<1>6. Streams(T) /\ Sources(T) /\ Arriving(T)
  BY <1>1, <1>2, <1>3 DEF Streams, Sources, Arriving, Numbered
<1>7. One(T)
  BY <1>2, <1>5, <1>6 DEF One
<1> QED
  BY <1>7, InitShape DEF OneInv

\* The steps of the client.
LEMMA ConnectOne ==
  ASSUME NEW T, One(T), NEW a, ConnectStep(a)
  PROVE  One(T)'
<1>1. /\ client'.cookie = 0 /\ DOMAIN client'.rcvd = {}
      /\ client'.nxt = 0 /\ client'.data = <<>>
      /\ UNCHANGED <<connections, issued, net>>
  BY DEF ConnectStep, serverVars
<1>2. Len(<<>>) = 0
  BY EmptySeq
<1>3. Follows(T, client)'
  BY <1>1, <1>2 DEF Follows, InOrder
<1> QED
  BY <1>1, <1>3 DEF One, Streams, Sources, Arriving

\* A client follows the cookie it learned, and takes its Hello first.
LEMMA ClientOne ==
  ASSUME 0 \notin Cookies, Shape, NEW T, One(T), ClientStep
  PROVE  One(T)'
<1>1. /\ UNCHANGED <<connections, issued>>
      /\ Peer(client') /\ Learned(client, client')
      /\ Heard(client, client') \/ Ticked(client, client')
      /\ \A d \in net' : d \in net \/ From(d, "server", sock, client'.cookie, client'.out)
  BY DEF ClientStep, serverVars
<1>2. Arriving(T)'
  <2>1. \A d \in net' : d.to = "client" => d \in net
    BY <1>1 DEF From
  <2> QED
    BY <1>1, <2>1 DEF One, Arriving
<1>3. Streams(T)' /\ Sources(T)'
  BY <1>1 DEF One, Streams, Sources
<1> DEFINE p == client
           q == client'
<1>4. /\ Peer(p) /\ Follows(T, p) /\ p.nxt \in Nat /\ p.data \in Seq(Messages)
      /\ p.state \in States
  BY PeerFields DEF One, Shape
<1>5. 0 \notin issued /\ issued \subseteq Cookies
  BY DEF Shape
<1>6. \A d \in net : d.to = "client" =>
        /\ d.cookie \in issued
        /\ d.kind = "PUSH" => d.sn + 1 \in 1..Len(T[d.cookie]) /\ d.msg = T[d.cookie][d.sn + 1]
  BY DEF One, Arriving
<1>7. ASSUME Heard(p, q) PROVE Follows(T, q)
  <2>1. /\ q.nxt = p.nxt /\ q.data = p.data /\ q.state \in {p.state, "Disconnected"}
        /\ \A sn \in DOMAIN q.rcvd :
             \/ sn \in DOMAIN p.rcvd /\ q.rcvd[sn] = p.rcvd[sn]
             \/ \E d \in net : /\ d.to = "client" /\ d.cookie = q.cookie
                               /\ d.kind = "PUSH" /\ sn = d.sn /\ q.rcvd[sn] = d.msg
    BY <1>7 DEF Heard
  <2>2. q.cookie = p.cookie \/ (p.cookie = 0 /\ q.cookie \in issued)
    BY <1>1, <1>6 DEF Learned
  <2> HIDE DEF p, q
  <2>3. CASE q.cookie = 0
    <3>1. p.cookie = 0
      BY <1>5, <2>2, <2>3
    <3>2. DOMAIN p.rcvd = {} /\ p.nxt = 0 /\ p.data = <<>> /\ InOrder(p.data, p.cookie)
      BY <1>4, <3>1 DEF Follows
    <3>3. DOMAIN q.rcvd = {}
      BY <1>5, <1>6, <2>1, <2>3, <3>2
    <3> QED
      BY <2>1, <2>3, <3>1, <3>2, <3>3 DEF Follows
  <2>4. CASE q.cookie # 0
    <3> DEFINE k == q.cookie
    <3>1. /\ k \in issued /\ Len(q.data) = Count(T[k], q.nxt) /\ InOrder(q.data, k)
          /\ \A sn \in DOMAIN p.rcvd : sn + 1 \in 1..Len(T[k]) /\ p.rcvd[sn] = T[k][sn + 1]
      <4>1. CASE p.cookie = 0
        <5>1. DOMAIN p.rcvd = {} /\ p.nxt = 0 /\ p.data = <<>>
          BY <1>4, <4>1 DEF Follows
        <5>2. Len(<<>>) = 0 /\ Count(T[k], 0) = 0
          BY EmptySeq, CountStep
        <5> QED
          BY <2>1, <2>2, <2>4, <4>1, <5>1, <5>2 DEF InOrder
      <4>2. CASE p.cookie # 0
        BY <1>4, <2>1, <2>2, <4>2 DEF Follows, Copies
      <4> QED
        BY <4>1, <4>2
    <3>2. Copies(q, T[k])
      BY <1>6, <2>1, <3>1 DEF Copies
    <3>3. q.state = "Connected" => q.nxt = 0
      BY <1>4, <2>1 DEF Follows
    <3> QED
      BY <2>4, <3>1, <3>2, <3>3 DEF Follows
  <2> QED
    BY <2>3, <2>4
<1>8. ASSUME Ticked(p, q) PROVE Follows(T, q)
  <2> HIDE DEF p, q
  <2>1. q.cookie = p.cookie /\ q.rcvd = p.rcvd
    BY <1>8 DEF Ticked
  <2>2. CASE p.cookie = 0
    <3>1. DOMAIN p.rcvd = {} /\ p.nxt = 0 /\ p.data = <<>> /\ InOrder(p.data, p.cookie)
      BY <1>4, <2>2 DEF Follows
    <3>2. RcvNxt(p) = 0
      <4>1. RcvNxt(p) \in Nat /\ 0..(RcvNxt(p) - 1) \subseteq DOMAIN p.rcvd
        BY <1>4, PeerRcvNxt
      <4>2. RcvNxt(p) # 0 => 0 \in 0..(RcvNxt(p) - 1)
        BY <4>1
      <4> QED
        BY <3>1, <4>1, <4>2
    <3>3. DataOf(p) = <<>> /\ p.data \o <<>> = p.data
      BY <1>4, <3>1, NoneHanded, ConcatEmptySeq DEF NoData
    <3>4. q.nxt = 0 /\ q.data = p.data
      BY <1>4, <1>8, <3>1, <3>2, <3>3 DEF Ticked, States
    <3> QED
      BY <2>1, <2>2, <3>1, <3>4 DEF Follows
  <2>3. CASE p.cookie # 0
    <3> DEFINE k == p.cookie
    <3>1. /\ k \in issued /\ k \in Cookies /\ Copies(p, T[k])
          /\ Len(p.data) = Count(T[k], p.nxt) /\ InOrder(p.data, k)
      BY <1>4, <1>5, <2>3 DEF Follows
    <3>2. T[k] \in Seq(Messages) /\ Numbered(T[k], k) /\ (T[k] # <<>> => T[k][1].hdr = "Hello")
      BY <3>1 DEF One, Streams
    <3>3. Copies(q, T[k])
      BY <2>1, <3>1 DEF Copies
    <3>4. CASE p.state = "Disconnected"
      <4>1. q = p
        BY <1>8, <3>4 DEF Ticked
      <4> QED
        BY <1>4, <4>1
    <3>5. CASE p.state = "Authenticated"
      <4>1. /\ q.state # "Connected" /\ q.nxt = RcvNxt(p) /\ q.data = p.data \o DataOf(p)
        BY <1>8, <3>5 DEF Ticked
      <4>2. InOrder(p.data \o DataOf(p), k) /\ Len(p.data \o DataOf(p)) = Count(T[k], RcvNxt(p))
        BY <1>4, <3>1, <3>2, Handed
      <4> QED
        BY <2>1, <2>3, <3>1, <3>3, <4>1, <4>2 DEF Follows
    <3>6. CASE p.state = "Connected"
      <4>1. p.nxt = 0
        BY <1>4, <3>6 DEF Follows
      <4>2. /\ q.data = p.data
            /\ \/ q.nxt = p.nxt /\ q.state \in {"Connected", "Disconnected"}
               \/ /\ q.nxt = p.nxt + 1 /\ p.nxt \in DOMAIN p.rcvd
                  /\ q.state = "Authenticated" <=> p.rcvd[p.nxt].hdr = "Hello"
        BY <1>8, <3>6 DEF Ticked
      <4>3. CASE q.nxt = p.nxt
        BY <2>1, <2>3, <3>1, <3>3, <4>1, <4>2, <4>3 DEF Follows
      <4>4. CASE q.nxt # p.nxt
        <5>1. q.nxt = 1 /\ 0 \in DOMAIN p.rcvd
          BY <4>1, <4>2, <4>4
        <5>2. 0 + 1 \in 1..Len(T[k]) /\ p.rcvd[0] = T[k][0 + 1]
          BY <3>1, <5>1 DEF Copies
        <5>3. T[k] # <<>> /\ p.rcvd[0] = T[k][1]
          <6>1. Len(<<>>) = 0
            BY EmptySeq
          <6> QED
            BY <5>2, <6>1
        <5>4. q.state = "Authenticated" /\ T[k][1].hdr = "Hello"
          BY <3>2, <4>1, <4>2, <4>4, <5>3
        <5>5. Count(T[k], 1) = Count(T[k], 0)
          <6>1. Count(T[k], 0 + 1) = IF T[k][0 + 1].hdr = "Data" THEN Count(T[k], 0) + 1
                                     ELSE Count(T[k], 0)
            BY CountStep
          <6> QED
            BY <5>4, <6>1
        <5> QED
          BY <2>1, <2>3, <3>1, <3>3, <4>1, <4>2, <5>1, <5>4, <5>5 DEF Follows
      <4> QED
        BY <4>3, <4>4
    <3> QED
      BY <1>4, <3>4, <3>5, <3>6 DEF States
  <2> QED
    BY <2>2, <2>3
<1>9. Follows(T, client)'
  <2>1. Follows(T, q)
    BY <1>1, <1>7, <1>8
  <2> QED
    BY <1>1, <2>1 DEF Follows
<1> QED
  BY <1>2, <1>3, <1>9 DEF One

(***************************************************************************)
(* The steps of the server: a connection adds to the stream of its cookie, *)
(* and a new one begins the stream of a new cookie.                        *)
(***************************************************************************)
Continues(p, q) ==
  /\ q.cookie = p.cookie /\ Extends(p.out, q.out)
  /\ Numbered(p.out, p.cookie) => Numbered(q.out, p.cookie)

Sending(T) ==
  [k \in Cookies |->
     IF \E id \in DOMAIN connections : connections[id].peer.cookie = k
     THEN connections[CHOOSE id \in DOMAIN connections :
                        connections[id].peer.cookie = k].peer.out
     ELSE T[k]]

\* Whoever sends, the client has received a part of one stream.
LEMMA ServerOne ==
  ASSUME Shape, Shape', NEW T, One(T), UNCHANGED client, issued \subseteq issued',
         \A id \in DOMAIN connections' :
           \/ id \in DOMAIN connections /\ Continues(connections[id].peer, connections'[id].peer)
           \/ /\ connections'[id].peer.cookie \in issued' \ issued
              /\ connections'[id].peer.out = <<Bare("Hello")>>
              /\ \A i \in DOMAIN connections' : i # id => i \in DOMAIN connections
                   /\ connections'[i].peer.cookie = connections[i].peer.cookie,
         \A d \in net' : d.to = "client" =>
           /\ d.cookie \in issued'
           /\ d.kind = "PUSH" => /\ d.sn + 1 \in 1..Len(T[d.cookie])
                                 /\ d.msg = T[d.cookie][d.sn + 1],
         NEW T1, T1 = Sending(T)'
  PROVE  One(T1)'
<1> DEFINE P(id) == connections[id].peer
           Q(id) == connections'[id].peer
<1>1. /\ T \in [Cookies -> Seq(Messages)] /\ issued' \subseteq Cookies
      /\ \A k \in Cookies : /\ T[k] \in Seq(Messages) /\ Len(T[k]) \in Nat
                            /\ Numbered(T[k], k)
                            /\ T[k] # <<>> => T[k][1].hdr = "Hello"
                            /\ k \notin issued => T[k] = <<>>
  <2>1. T \in [Cookies -> Seq(Messages)]
    BY DEF One
  <2> QED
    BY <2>1, LenProperties DEF One, Streams, Shape
<1>2. /\ \A id \in DOMAIN connections : /\ P(id).cookie \in issued /\ P(id).cookie \in Cookies
                                        /\ P(id).out = T[P(id).cookie] /\ P(id).out # <<>>
      /\ \A i, j \in DOMAIN connections : P(i).cookie = P(j).cookie => i = j
  BY DEF One, Sources, Shape
<1>3. \A id \in DOMAIN connections' : Q(id).out \in Seq(Messages) /\ Len(Q(id).out) \in Nat
  <2>1. \A id \in DOMAIN connections' : Peer(Q(id))
    BY DEF Shape
  <2> QED
    BY <2>1, PeerFields
<1>4. \A id \in DOMAIN connections' :
        \/ id \in DOMAIN connections /\ Continues(P(id), Q(id))
        \/ /\ Q(id).cookie \in issued' \ issued
           /\ Q(id).out = <<Bare("Hello")>>
           /\ \A i \in DOMAIN connections' : i # id => i \in DOMAIN connections
                   /\ Q(i).cookie = P(i).cookie
  OBVIOUS
<1>5. /\ <<Bare("Hello")>> \in Seq(Messages) /\ Len(<<Bare("Hello")>>) = 1
      /\ <<Bare("Hello")>>[1].hdr = "Hello"
      /\ <<>> \in Seq(Messages) /\ Len(<<>>) = 0
  BY MessageTypes, EmptySeq DEF Bare, Message
<1>6. \A i, j \in DOMAIN connections' : Q(i).cookie = Q(j).cookie => i = j
  <2> SUFFICES ASSUME NEW i \in DOMAIN connections', NEW j \in DOMAIN connections',
                      Q(i).cookie = Q(j).cookie, i # j
               PROVE  FALSE
    OBVIOUS
  <2> HIDE DEF P, Q
  <2>1. CASE i \in DOMAIN connections /\ j \in DOMAIN connections
             /\ Q(i).cookie = P(i).cookie /\ Q(j).cookie = P(j).cookie
    BY <1>2, <2>1
  <2>2. CASE Q(i).cookie \notin issued
    BY <1>2, <1>4, <2>2 DEF Continues
  <2>3. CASE Q(j).cookie \notin issued
    BY <1>2, <1>4, <2>3 DEF Continues
  <2> QED
    BY <1>4, <2>1, <2>2, <2>3 DEF Continues
<1> HIDE DEF P, Q
<1>7. ASSUME NEW id \in DOMAIN connections'
      PROVE  LET k == Q(id).cookie
             IN  /\ k \in issued' /\ k \in Cookies
                 /\ Extends(T[k], Q(id).out) /\ Numbered(Q(id).out, k)
                 /\ Q(id).out # <<>> /\ Q(id).out[1].hdr = "Hello"
  <2> DEFINE k == Q(id).cookie
  <2>1. CASE id \in DOMAIN connections /\ Continues(P(id), Q(id))
    <3>1. /\ k = P(id).cookie /\ k \in issued /\ k \in Cookies /\ T[k] = P(id).out
          /\ Extends(T[k], Q(id).out) /\ T[k] # <<>>
      BY <1>2, <2>1 DEF Continues
    <3>2. Numbered(Q(id).out, k)
      BY <1>1, <2>1, <3>1 DEF Continues
    <3>3. Len(T[k]) # 0
      BY <1>1, <3>1, EmptySeq
    <3>4. Q(id).out # <<>> /\ Q(id).out[1] = T[k][1]
      BY <1>1, <1>3, <1>5, <3>1, <3>3 DEF Extends
    <3> QED
      BY <1>1, <3>1, <3>2, <3>4
  <2>2. CASE Q(id).cookie \in issued' \ issued /\ Q(id).out = <<Bare("Hello")>>
    <3>1. k \in Cookies /\ T[k] = <<>>
      BY <1>1, <2>2
    <3>2. Extends(<<>>, Q(id).out)
      BY <1>5, <2>2 DEF Extends
    <3>3. Numbered(Q(id).out, k)
      BY <1>5, <2>2 DEF Numbered
    <3>4. Q(id).out # <<>>
      BY <1>5, <2>2
    <3> QED
      BY <1>5, <2>2, <3>1, <3>2, <3>3, <3>4
  <2> QED
    BY <1>4, <2>1, <2>2
<1>8. /\ DOMAIN T1 = Cookies
      /\ \A id \in DOMAIN connections' : T1[Q(id).cookie] = Q(id).out
      /\ \A k \in Cookies : \/ T1[k] = T[k] /\ \A id \in DOMAIN connections' : Q(id).cookie # k
                            \/ \E id \in DOMAIN connections' : Q(id).cookie = k
  <2> DEFINE Has(k) == \E id \in DOMAIN connections' : Q(id).cookie = k
             The(k) == CHOOSE id \in DOMAIN connections' : Q(id).cookie = k
  <2>1. T1 = [k \in Cookies |-> IF Has(k) THEN Q(The(k)).out ELSE T[k]]
    BY DEF Sending, Q
  <2>2. ASSUME NEW id \in DOMAIN connections'
        PROVE  T1[Q(id).cookie] = Q(id).out
    <3>1. Q(id).cookie \in Cookies /\ Has(Q(id).cookie)
      BY <1>7
    <3>2. The(Q(id).cookie) \in DOMAIN connections'
            /\ Q(The(Q(id).cookie)).cookie = Q(id).cookie
      BY <3>1
    <3> HIDE DEF The, Has
    <3>3. The(Q(id).cookie) = id
      BY <1>6, <3>2
    <3> QED
      BY <2>1, <3>1, <3>3
  <2> HIDE DEF The
  <2> QED
    BY <2>1, <2>2
<1>9. ASSUME NEW k \in Cookies
      PROVE  /\ T1[k] \in Seq(Messages) /\ Len(T1[k]) \in Nat /\ Extends(T[k], T1[k])
             /\ Numbered(T1[k], k)
             /\ T1[k] # <<>> => T1[k][1].hdr = "Hello"
             /\ k \notin issued' => T1[k] = <<>>
  <2>1. CASE T1[k] = T[k]
    <3>1. Extends(T[k], T[k])
      BY <1>1, PlainlySelf DEF Plainly
    <3> QED
      BY <1>1, <2>1, <3>1
  <2>2. CASE \E id \in DOMAIN connections' : Q(id).cookie = k
    <3>1. PICK id \in DOMAIN connections' : Q(id).cookie = k
      BY <2>2
    <3> QED
      BY <1>3, <1>7, <1>8, <3>1
  <2> QED
    BY <1>8, <2>1, <2>2
<1>10. T1 \in [Cookies -> Seq(Messages)]
  <2>1. T1 = [k \in Cookies |-> T1[k]]
    BY DEF Sending
  <2> QED
    BY <1>9, <2>1
<1>11. Streams(T1)'
  BY <1>9 DEF Streams
<1>12. Sources(T1)'
  BY <1>6, <1>7, <1>8 DEF Sources, Q
<1>13. Arriving(T1)'
  <2> SUFFICES ASSUME NEW d \in net', d.to = "client"
               PROVE  /\ d.cookie \in issued'
                      /\ d.kind = "PUSH" => /\ d.sn + 1 \in 1..Len(T1[d.cookie])
                                            /\ d.msg = T1[d.cookie][d.sn + 1]
    BY DEF Arriving
  <2>1. /\ d.cookie \in issued' /\ d.cookie \in Cookies
        /\ d.kind = "PUSH" => /\ d.sn + 1 \in 1..Len(T[d.cookie])
                              /\ d.msg = T[d.cookie][d.sn + 1]
    BY <1>1
  <2>2. /\ Len(T[d.cookie]) \in Nat /\ Len(T1[d.cookie]) \in Nat
        /\ Extends(T[d.cookie], T1[d.cookie])
    BY <1>1, <1>9, <2>1
  <2> QED
    BY <2>1, <2>2 DEF Extends
<1>14. Follows(T1, client)'
  <2>1. Follows(T, client) /\ Peer(client)
    BY DEF One, Shape
  <2>2. ASSUME client.cookie # 0
        PROVE  /\ client.cookie \in issued'
               /\ Copies(client, T1[client.cookie])
               /\ Len(client.data) = Count(T1[client.cookie], client.nxt)
    <3> DEFINE k == client.cookie
    <3>1. /\ k \in issued' /\ k \in Cookies /\ Copies(client, T[k])
          /\ Len(client.data) = Count(T[k], client.nxt)
      BY <1>1, <2>1, <2>2 DEF Follows
    <3>2. Copies(client, T1[k]) /\ Count(T1[k], client.nxt) = Count(T[k], client.nxt)
      BY <1>1, <1>9, <2>1, <3>1, CopiesExtends
    <3> QED
      BY <3>1, <3>2
  <2>3. /\ client.state = "Connected" => client.nxt = 0
        /\ client.cookie = 0 => DOMAIN client.rcvd = {} /\ client.nxt = 0 /\ client.data = <<>>
        /\ InOrder(client.data, client.cookie)
    BY <2>1 DEF Follows
  <2> QED
    BY <2>2, <2>3 DEF Follows
<1> QED
  BY <1>10, <1>11, <1>12, <1>13, <1>14 DEF One

\* What a connection sends is of the stream of its cookie.
LEMMA FromServerOne ==
  ASSUME Shape, NEW T, One(T), FromServer, UNCHANGED issued
  PROVE  \A d \in net' : d.to = "client" =>
           /\ d.cookie \in issued'
           /\ d.kind = "PUSH" => /\ d.sn + 1 \in 1..Len(T[d.cookie])
                                 /\ d.msg = T[d.cookie][d.sn + 1]
<1> SUFFICES ASSUME NEW d \in net', d.to = "client"
             PROVE  /\ d.cookie \in issued
                    /\ d.kind = "PUSH" => /\ d.sn + 1 \in 1..Len(T[d.cookie])
                                          /\ d.msg = T[d.cookie][d.sn + 1]
  OBVIOUS
<1>1. CASE d \in net
  BY <1>1 DEF One, Arriving
<1>2. CASE d \notin net
  <2>1. PICK id \in DOMAIN connections :
          From(d, "client", connections[id].addr, connections[id].peer.cookie,
               connections[id].peer.out)
    BY <1>2 DEF FromServer
  <2> QED
    BY <2>1 DEF From, One, Sources
<1> QED
  BY <1>1, <1>2

\* Every step, if GenerateCookie does not draw 0.
LEMMA NextOne == ASSUME 0 \notin Cookies PROVE OneInv /\ [Next]_vars => OneInv'
<1> SUFFICES ASSUME OneInv, [Next]_vars PROVE OneInv'
  OBVIOUS
<1>1. Shape /\ Shape'
  BY NextShape DEF OneInv
<1>2. PICK T : One(T)
  BY DEF OneInv
<1> SUFFICES \E T1 : One(T1)'
  BY <1>1 DEF OneInv
<1>3. PICK T1 : T1 = Sending(T)'
  OBVIOUS
<1>4. CASE UNCHANGED vars
  <2>1. One(T)'
    BY <1>2, <1>4 DEF vars, clientVars, serverVars, One, Streams, Sources, Arriving, Follows
  <2> QED
    BY <2>1
<1>5. ASSUME NEW a \in Addr, ConnectStep(a)
      PROVE  \E T2 : One(T2)'
  BY <1>2, <1>5, ConnectOne
<1>6. CASE ClientStep
  BY <1>1, <1>2, <1>6, ClientOne
<1>7. CASE ServerStep
  <2>1. /\ UNCHANGED <<client, issued>> /\ DOMAIN connections' = DOMAIN connections
        /\ \A id \in DOMAIN connections : Continues(connections[id].peer, connections'[id].peer)
        /\ FromServer
    BY <1>7 DEF ServerStep, clientVars, Evolves, Continues
  <2>2. \A d \in net' : d.to = "client" =>
          /\ d.cookie \in issued'
          /\ d.kind = "PUSH" => /\ d.sn + 1 \in 1..Len(T[d.cookie])
                                /\ d.msg = T[d.cookie][d.sn + 1]
    BY <1>1, <1>2, <2>1, FromServerOne
  <2>3. One(T1)'
    BY <1>1, <1>2, <1>3, <2>1, <2>2, ServerOne
  <2> QED
    BY <2>3
<1>8. CASE ServerTick
  <2>1. /\ UNCHANGED <<client, issued>> /\ DOMAIN connections' \subseteq DOMAIN connections
        /\ \A id \in DOMAIN connections' : Ticked(connections[id].peer, connections'[id].peer)
        /\ FromServer
    BY <1>8 DEF ServerTick, clientVars
  <2>2. ASSUME NEW id \in DOMAIN connections'
        PROVE  Continues(connections[id].peer, connections'[id].peer)
    <3> DEFINE p == connections[id].peer
               q == connections'[id].peer
    <3>1. p.out \in Seq(Messages)
      BY <1>1, <2>1, ConnIs, PeerFields
    <3>2. q.cookie = p.cookie /\ Plainly(p.out, q.out) /\ Extends(p.out, q.out)
      BY <2>1 DEF Ticked, Plainly
    <3> HIDE DEF p, q
    <3>3. Continues(p, q)
      BY <3>1, <3>2, PlainlyNumbered DEF Continues
    <3> QED
      BY <3>3 DEF p, q
  <2>3. \A d \in net' : d.to = "client" =>
          /\ d.cookie \in issued'
          /\ d.kind = "PUSH" => /\ d.sn + 1 \in 1..Len(T[d.cookie])
                                /\ d.msg = T[d.cookie][d.sn + 1]
    BY <1>1, <1>2, <2>1, FromServerOne
  <2>4. One(T1)'
    BY <1>1, <1>2, <1>3, <2>1, <2>2, <2>3, ServerOne
  <2> QED
    BY <2>4
<1>9. ASSUME NEW d \in net, ServerAdmits(d)
      PROVE  \E T2 : One(T2)'
  <2>1. PICK cookie \in Cookies \ issued :
          /\ issued' = issued \cup {cookie}
          /\ \A e \in net' : e \in net \/ From(e, "client", d.addr, cookie, <<>>)
          /\ connections' = connections \/ Joins(d, cookie)
    BY <1>9 DEF ServerAdmits
  <2>2. UNCHANGED client /\ issued \subseteq issued'
    BY <1>9, <2>1 DEF ServerAdmits, clientVars
  <2>3. ASSUME NEW id \in DOMAIN connections
        PROVE  Continues(connections[id].peer, connections[id].peer)
    <3>1. Extends(connections[id].peer.out, connections[id].peer.out)
      BY <1>1, ConnIs, PeerFields, PlainlySelf DEF Plainly
    <3> QED
      BY <3>1 DEF Continues
  <2>4. \A id \in DOMAIN connections' :
           \/ id \in DOMAIN connections /\ Continues(connections[id].peer, connections'[id].peer)
           \/ /\ connections'[id].peer.cookie \in issued' \ issued
              /\ connections'[id].peer.out = <<Bare("Hello")>>
              /\ \A i \in DOMAIN connections' : i # id => i \in DOMAIN connections
                   /\ connections'[i].peer.cookie = connections[i].peer.cookie
    <3>1. CASE connections' = connections
      BY <2>3, <3>1
    <3>2. CASE Joins(d, cookie)
      <4> DEFINE new == Hash[d.addr]
      <4>1. /\ DOMAIN connections' = DOMAIN connections \cup {new}
            /\ \A i \in DOMAIN connections : connections'[i] = connections[i]
            /\ connections'[new].peer.cookie = cookie
            /\ connections'[new].peer.out = <<Bare("Hello")>>
        BY <3>2 DEF Joins
      <4> HIDE DEF new
      <4> QED
        BY <2>1, <2>3, <4>1
    <3> QED
      BY <2>1, <3>1, <3>2
  <2>5. \A e \in net' : e.to = "client" =>
          /\ e.cookie \in issued'
          /\ e.kind = "PUSH" => /\ e.sn + 1 \in 1..Len(T[e.cookie])
                                /\ e.msg = T[e.cookie][e.sn + 1]
    <3>1. Len(<<>>) = 0
      BY EmptySeq
    <3>2. ASSUME NEW e, From(e, "client", d.addr, cookie, <<>>)
          PROVE  e.cookie = cookie /\ e.kind # "PUSH"
      BY <3>1, <3>2 DEF From
    <3> QED
      BY <1>2, <2>1, <3>2 DEF One, Arriving
  <2>6. One(T1)'
    BY <1>1, <1>2, <1>3, <2>2, <2>4, <2>5, ServerOne
  <2> QED
    BY <2>6
<1> QED
  BY <1>1, <1>4, <1>5, <1>6, <1>7, <1>8, <1>9, StepIs

(***************************************************************************)
(* The client's user is handed the Data of one connection only, once and   *)
(* in order, however many connections the server makes for its address.    *)
(* Here the cookie 0 must not be drawn: a client that learns it has        *)
(* learned nothing, and goes on to listen to the next connection as well.  *)
(***************************************************************************)
THEOREM OneServerIsHeard == ASSUME 0 \notin Cookies PROVE Spec => []OneServer
<1>1. OneInv => OneServer
  BY DEF OneInv, One, Follows, OneServer
<1>2. OneInv /\ [Next]_vars => OneInv'
  BY NextOne
<1> QED
  BY InitOne, <1>1, <1>2, PTL DEF Spec
============================================================================
