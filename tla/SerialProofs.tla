---------------------------- MODULE SerialProofs ----------------------------
(***************************************************************************)
(* Serial's invariants for every modulus, window and lifetime that satisfy *)
(* SerialAssumption, the uint32 of kcp.go among them.                      *)
(*                                                                         *)
(* The proof gives every number its true one.  Inv says where the sender's *)
(* window, the receiver's and each datagram on the way lie among the true  *)
(* numbers; from that the distance of any two numbers the code compares is *)
(* less than half a round, and Diff says that _itimediff is then right.    *)
(* The receiver's heap is ordered by rank: Less agrees with the order of   *)
(* the true numbers, so the n-th pop exists and is unique, and the loop    *)
(* stops only where the next number is missing or the queue is full.       *)
(***************************************************************************)
EXTENDS Serial, TLAPS, SequenceTheorems, FiniteSetTheorems, WellFoundedInduction

----------------------------------------------------------------------------
(* Numbers modulo SnMod *)

\* Division with remainder.
LEMMA ModParts ==
  ASSUME NEW m \in Nat \ {0}, NEW a \in Int
  PROVE  a % m \in 0..m-1 /\ \E q \in Int : a = m * q + (a % m)
<1>1. a % m \in 0..m-1 
  BY SMT
<1>2. a = m * (a \div m) + (a % m) /\ a \div m \in Int
  BY SMT
<1> QED BY <1>1, <1>2

\* Quotient and remainder are unique.
LEMMA ModUnique ==
  ASSUME NEW m \in Nat \ {0}, NEW q \in Int, NEW p \in Int, NEW r \in 0..m-1, NEW s \in 0..m-1,
         m * q + r = m * p + s
  PROVE  q = p /\ r = s
<1>1. m * (q - p) = s - r
  BY SMT
<1>2. CASE q - p >= 1
  <2>1. m * (q - p) >= m
    BY <1>2, SMT
  <2> QED BY <1>1, <2>1
<1>3. CASE q - p <= -1
  <2>1. m * (q - p) <= -m
    BY <1>3, SMT
  <2> QED BY <1>1, <2>1
<1>4. CASE q - p = 0
  BY <1>4, SMT
<1> QED BY <1>2, <1>3, <1>4

\* A sequence number is below SnMod.
LEMMA SnType ==
  ASSUME NEW a \in Int
  PROVE  Sn(a) \in Numbers /\ Sn(a) \in Int /\ SnMod \in Nat \ {0}
<1>1. SnMod \in Nat \ {0}
  BY SerialAssumption
<1>2. a % SnMod \in 0..SnMod-1
  BY <1>1, ModParts
<1> QED BY <1>1, <1>2 DEF Sn, Numbers

\* The sequence number of a number given by quotient and remainder.
LEMMA SnIs ==
  ASSUME NEW a \in Int, NEW q \in Int, NEW r \in Numbers, a = SnMod * q + r
  PROVE  Sn(a) = r
<1>1. SnMod \in Nat \ {0}
  BY SerialAssumption
<1>2. PICK p \in Int : a = SnMod * p + (a % SnMod)
  BY <1>1, ModParts
<1>3. a % SnMod \in 0..SnMod-1
  BY <1>1, ModParts
<1>4. a % SnMod = r
  BY <1>1, <1>2, <1>3, ModUnique, ZenonT(60) DEF Numbers
<1> QED BY <1>4 DEF Sn

\* A number is a multiple of SnMod away from its sequence number.
LEMMA SnParts ==
  ASSUME NEW a \in Int
  PROVE  \E q \in Int : a = SnMod * q + Sn(a)
<1>1. SnMod \in Nat \ {0}
  BY SerialAssumption
<1> QED BY <1>1, ModParts DEF Sn

\* Whole rounds do not change the sequence number.
LEMMA SnShift ==
  ASSUME NEW a \in Int, NEW q \in Int
  PROVE  Sn(a + SnMod * q) = Sn(a)
<1>1. PICK p \in Int : a = SnMod * p + Sn(a)
  BY SnParts
<1>2. SnMod \in Nat \ {0} /\ Sn(a) \in Numbers /\ Sn(a) \in Int
  BY SnType
<1>3. a + SnMod * q = SnMod * (p + q) + Sn(a)
  BY <1>1, <1>2, SMT
<1>4. p + q \in Int /\ a + SnMod * q \in Int
  BY <1>2
<1> QED BY <1>2, <1>3, <1>4, SnIs

\* uint32 addition: only the result has to be cut to the width.
LEMMA SnAdd ==
  ASSUME NEW a \in Int, NEW b \in Int
  PROVE  Sn(Sn(a) + b) = Sn(a + b)
<1>1. PICK p \in Int : a = SnMod * p + Sn(a)
  BY SnParts
<1>2. SnMod \in Nat \ {0} /\ Sn(a) \in Int
  BY SnType
<1>3. a + b = (Sn(a) + b) + SnMod * p
  BY <1>1, <1>2, SMT
<1>4. Sn(a) + b \in Int
  BY <1>2
<1> QED BY <1>3, <1>4, SnShift

\* uint32 subtraction, likewise.
LEMMA SnSub ==
  ASSUME NEW a \in Int, NEW b \in Int
  PROVE  Sn(Sn(a) - Sn(b)) = Sn(a - b)
<1>1. PICK p \in Int : a = SnMod * p + Sn(a)
  BY SnParts
<1>2. PICK q \in Int : b = SnMod * q + Sn(b)
  BY SnParts
<1>3. SnMod \in Nat \ {0} /\ Sn(a) \in Int /\ Sn(b) \in Int
  BY SnType
<1>4. a - b = (Sn(a) - Sn(b)) + SnMod * (p - q)
  BY <1>1, <1>2, <1>3, SMT
<1>5. Sn(a) - Sn(b) \in Int /\ p - q \in Int
  BY <1>3
<1> QED BY <1>4, <1>5, SnShift

\* Numbers less than a round apart.
LEMMA SnSame ==
  ASSUME NEW a \in Int, NEW b \in Int, Sn(a) = Sn(b), a - b < SnMod, b - a < SnMod
  PROVE  a = b
<1>1. PICK p \in Int : a = SnMod * p + Sn(a)
  BY SnParts
<1>2. PICK q \in Int : b = SnMod * q + Sn(b)
  BY SnParts
<1>3. SnMod \in Nat \ {0} /\ Sn(a) \in Int /\ Sn(b) \in Int
  BY SnType
<1>4. a - b = SnMod * (p - q)
  BY <1>1, <1>2, <1>3, SMT
<1>5. CASE p - q >= 1
  <2>1. SnMod * (p - q) >= SnMod
    BY <1>3, <1>5, SMT
  <2> QED BY <1>3, <1>4, <2>1
<1>6. CASE p - q <= -1
  <2>1. SnMod * (p - q) <= -SnMod
    BY <1>3, <1>6, SMT
  <2> QED BY <1>3, <1>4, <2>1
<1>7. CASE p - q = 0
  BY <1>3, <1>4, <1>7, SMT
<1> QED BY <1>5, <1>6, <1>7

\* Numbers less than half a round apart are told apart.
LEMMA Diff ==
  ASSUME NEW a \in Int, NEW b \in Int, 2 * (a - b) < SnMod, -SnMod <= 2 * (a - b)
  PROVE  _itimediff(Sn(a), Sn(b)) = a - b
<1>1. SnMod \in Nat \ {0} /\ a - b \in Int
  BY SnType
<1>2. _itimediff(Sn(a), Sn(b)) =
        IF 2 * Sn(a - b) >= SnMod THEN Sn(a - b) - SnMod ELSE Sn(a - b)
  BY SnSub DEF _itimediff
<1>3. CASE a - b >= 0
  <2>1. a - b \in Numbers /\ a - b = SnMod * 0 + (a - b)
    BY <1>1, <1>3 DEF Numbers
  <2>2. PICK d \in Numbers : d = a - b
    BY <2>1
  <2>3. PICK q \in Int : q = 0
    OBVIOUS
  <2>4. d \in Int /\ d = SnMod * q + d
    BY <1>1, <2>1, <2>2, <2>3
  <2>5. Sn(d) = d
    BY <2>4, SnIs
  <2> QED BY <1>1, <1>2, <2>2, <2>5
<1>4. CASE a - b < 0
  <2>1. a - b + SnMod \in Numbers /\ a - b = SnMod * (-1) + (a - b + SnMod)
    BY <1>1, <1>4 DEF Numbers
  <2>2. PICK d \in Int, r \in Numbers : d = a - b /\ r = a - b + SnMod
    BY <1>1, <2>1
  <2>3. PICK q \in Int : q = -1
    OBVIOUS
  <2>4. d = SnMod * q + r
    BY <1>1, <2>1, <2>2, <2>3
  <2>5. Sn(d) = r
    BY <2>4, SnIs
  <2> QED BY <1>1, <1>2, <1>4, <2>2, <2>5
<1> QED BY <1>1, <1>3, <1>4

----------------------------------------------------------------------------
(* The greatest element *)

\* A bounded set of naturals has a greatest element.
LEMMA GreatestExists ==
  ASSUME NEW b \in Nat, NEW S, S \subseteq 0..b, S # {}
  PROVE  \E k \in S : \A j \in S : j <= k
<1> DEFINE T == {b - s : s \in S}
<1>1. T \subseteq Nat /\ T # {}
  <2>1. \A s \in S : b - s \in Nat
    OBVIOUS
  <2> QED  BY <2>1
<1>2. \E x \in T : \A y \in T : ~(<<y, x>> \in OpToRel(<, Nat))
  BY <1>1, NatLessThanWellFounded, WFMin
<1>3. PICK x \in T : \A y \in T : ~(<<y, x>> \in OpToRel(<, Nat))
  BY <1>2
<1>4. \A y \in T : ~(y < x)
  BY <1>1, <1>3 DEF OpToRel
<1>5. PICK k \in S : x = b - k
  OBVIOUS
<1>6. \A j \in S : j <= k
  <2> TAKE j \in S
  <2>1. b - j \in T
    OBVIOUS
  <2>2. ~(b - j < b - k)
    BY <1>4, <1>5, <2>1
  <2> QED  BY <2>2
<1> QED  BY <1>6

\* The CHOOSE of parse_una and Move.
Greatest(S) == CHOOSE k \in S : \A j \in S : j <= k

\* What parse_una and the loop of Recv choose.
LEMMA GreatestIs ==
  ASSUME NEW b \in Nat, NEW S, S \subseteq 0..b, S # {}
  PROVE  Greatest(S) \in S /\ \A j \in S : j <= Greatest(S)
BY GreatestExists DEF Greatest

----------------------------------------------------------------------------
(* segmentHeap *)

\* The segments of a heap carry the numbers of one window.
IsHeap(buf, nxt, end) ==
  /\ IsFiniteSet(buf) /\ buf \subseteq [sn : Numbers, no : Nat]
  /\ \A s \in buf : s.sn = Sn(s.no) /\ nxt <= s.no /\ s.no < end

\* SerialAssumption, by parts.
LEMMA Constants ==
  /\ SnMod \in Nat \ {0} /\ Wnd \in Nat \ {0} /\ Lifetime \in Nat \ {0}
  /\ 2 * Wnd < SnMod /\ 2 * Lifetime <= SnMod
BY SerialAssumption

\* segmentHeap.Less compares the true numbers, across the wrap too.
LEMMA LessIs ==
  ASSUME NEW nxt \in Nat, NEW end \in Nat, end <= nxt + Wnd,
         NEW buf, IsHeap(buf, nxt, end), NEW s \in buf, NEW t \in buf
  PROVE  Less(s, t) <=> s.no < t.no
<1>1. s.no \in Nat /\ t.no \in Nat /\ s.sn = Sn(s.no) /\ t.sn = Sn(t.no)
  BY DEF IsHeap
<1>2. nxt <= s.no /\ s.no < end /\ nxt <= t.no /\ t.no < end
  BY DEF IsHeap
<1>3. 2 * (t.no - s.no) < SnMod /\ -SnMod <= 2 * (t.no - s.no)
  BY <1>1, <1>2, Constants
<1>4. _itimediff(Sn(t.no), Sn(s.no)) = t.no - s.no
  BY <1>1, <1>3, Diff
<1> QED  BY <1>1, <1>4 DEF Less

\* A heap holds one segment for each true number.
LEMMA SegmentIs ==
  ASSUME NEW nxt \in Nat, NEW end \in Nat,
         NEW buf, IsHeap(buf, nxt, end), NEW s \in buf, NEW t \in buf, s.no = t.no
  PROVE  s = t
<1>1. s \in [sn : Numbers, no : Nat] /\ t \in [sn : Numbers, no : Nat] /\ s.sn = t.sn
  BY DEF IsHeap
<1> QED  BY <1>1

\* A number of the window belongs to one segment.
LEMMA NumberIs ==
  ASSUME NEW nxt \in Nat, NEW end \in Nat, end <= nxt + Wnd,
         NEW buf, IsHeap(buf, nxt, end), NEW s \in buf,
         NEW n \in Nat, nxt <= n, n <= nxt + Wnd, s.sn = Sn(n)
  PROVE  s.no = n
<1>1. s.no \in Nat /\ s.sn = Sn(s.no) /\ nxt <= s.no /\ s.no < end
  BY DEF IsHeap
<1>2. s.no - n < SnMod /\ n - s.no < SnMod
  BY <1>1, Constants
<1>3. s.no \in Int /\ n \in Int /\ Sn(s.no) = Sn(n)
  BY <1>1
<1> QED  BY <1>2, <1>3, SnSame

\* The segments less than s.
Before(buf, s) == {t \in buf : Less(t, s)}

\* How many there are.
Rank(buf, s) == Cardinality(Before(buf, s))

\* The segments popped before s.
LEMMA BeforeIs ==
  ASSUME NEW nxt \in Nat, NEW end \in Nat, end <= nxt + Wnd,
         NEW buf, IsHeap(buf, nxt, end), NEW s \in buf
  PROVE  Before(buf, s) = {t \in buf : t.no < s.no}
<1>1. \A t \in buf : Less(t, s) <=> t.no < s.no
  BY LessIs
<1> QED  BY <1>1 DEF Before

\* A rank is less than the size of the heap.
LEMMA RankType ==
  ASSUME NEW nxt \in Nat, NEW end \in Nat, end <= nxt + Wnd,
         NEW buf, IsHeap(buf, nxt, end), NEW s \in buf
  PROVE  /\ IsFiniteSet(Before(buf, s))
         /\ Rank(buf, s) \in 0..(Cardinality(buf) - 1) /\ Cardinality(buf) \in Nat
<1>1. IsFiniteSet(buf) /\ s.no \in Nat
  BY DEF IsHeap
<1>2. Cardinality(buf) \in Nat
  BY <1>1, FS_CardinalityType
<1>3. Before(buf, s) = {t \in buf : t.no < s.no}
  BY BeforeIs
<1>4. Before(buf, s) \in SUBSET buf /\ s \notin Before(buf, s)
  BY <1>1, <1>3
<1>5. /\ IsFiniteSet(Before(buf, s))
      /\ Cardinality(Before(buf, s)) <= Cardinality(buf)
      /\ Cardinality(buf) = Cardinality(Before(buf, s)) => buf = Before(buf, s)
  BY <1>1, <1>4, FS_Subset
<1>6. Cardinality(Before(buf, s)) \in Nat
  BY <1>5, FS_CardinalityType
<1>7. Cardinality(Before(buf, s)) # Cardinality(buf)
  BY <1>4, <1>5
<1> QED  BY <1>2, <1>5, <1>6, <1>7 DEF Rank

\* A segment with a larger number has a larger rank.
LEMMA RankGrows ==
  ASSUME NEW nxt \in Nat, NEW end \in Nat, end <= nxt + Wnd,
         NEW buf, IsHeap(buf, nxt, end), NEW s \in buf, NEW t \in buf, s.no < t.no
  PROVE  Rank(buf, s) < Rank(buf, t)
<1>1. s.no \in Nat /\ t.no \in Nat /\ \A u \in buf : u.no \in Nat
  BY DEF IsHeap
<1>2. Before(buf, s) = {u \in buf : u.no < s.no} /\ Before(buf, t) = {u \in buf : u.no < t.no}
  BY BeforeIs
<1>3. Before(buf, s) \in SUBSET Before(buf, t)
  BY <1>1, <1>2
<1>4. s \in Before(buf, t) /\ s \notin Before(buf, s)
  BY <1>1, <1>2
<1>5. IsFiniteSet(Before(buf, t)) /\ Rank(buf, s) \in Nat /\ Rank(buf, t) \in Nat
  <2>1. Rank(buf, s) \in 0..(Cardinality(buf) - 1) /\ Cardinality(buf) \in Nat
    BY RankType
  <2>2. Rank(buf, t) \in 0..(Cardinality(buf) - 1) /\ IsFiniteSet(Before(buf, t))
    BY RankType
  <2> QED  BY <2>1, <2>2
<1>6. /\ Cardinality(Before(buf, s)) <= Cardinality(Before(buf, t))
      /\ Cardinality(Before(buf, t)) = Cardinality(Before(buf, s))
            => Before(buf, t) = Before(buf, s)
  BY <1>3, <1>5, FS_Subset
<1>7. Cardinality(Before(buf, t)) # Cardinality(Before(buf, s))
  BY <1>4, <1>6
<1> QED  BY <1>5, <1>6, <1>7 DEF Rank

\* No two segments have the same rank.
LEMMA RankIs ==
  ASSUME NEW nxt \in Nat, NEW end \in Nat, end <= nxt + Wnd,
         NEW buf, IsHeap(buf, nxt, end), NEW s \in buf, NEW t \in buf,
         Rank(buf, s) = Rank(buf, t)
  PROVE  s = t
<1>1. s.no \in Nat /\ t.no \in Nat
  BY DEF IsHeap
<1>2. Rank(buf, s) \in Int
  <2>1. Rank(buf, s) \in 0..(Cardinality(buf) - 1)
    BY RankType
  <2> QED  BY <2>1
<1>3. ~(s.no < t.no)
  <2> SUFFICES ASSUME s.no < t.no PROVE FALSE
    OBVIOUS
  <2>1. Rank(buf, s) < Rank(buf, t)
    BY RankGrows
  <2> QED  BY <1>2, <2>1
<1>4. ~(t.no < s.no)
  <2> SUFFICES ASSUME t.no < s.no PROVE FALSE
    OBVIOUS
  <2>1. Rank(buf, t) < Rank(buf, s)
    BY RankGrows
  <2> QED  BY <1>2, <2>1
<1>5. s.no = t.no
  BY <1>1, <1>3, <1>4
<1> QED  BY <1>5, SegmentIs

\* heap.Pop finds a segment each time the heap is not empty.
LEMMA NthType ==
  ASSUME NEW nxt \in Nat, NEW end \in Nat, end <= nxt + Wnd,
         NEW buf, IsHeap(buf, nxt, end), NEW n \in 1..Cardinality(buf)
  PROVE  Nth(buf, n) \in buf /\ Rank(buf, Nth(buf, n)) = n - 1
<1> DEFINE c == Cardinality(buf)
<1> DEFINE R == 0..(c - 1)
<1> DEFINE f == [s \in buf |-> Rank(buf, s)]
<1>1. IsFiniteSet(buf)
  BY DEF IsHeap
<1>2. c \in Nat
  BY <1>1, FS_CardinalityType
<1>3. \A s \in buf : Rank(buf, s) \in R
  BY RankType
<1>4. \A s, t \in buf : Rank(buf, s) = Rank(buf, t) => s = t
  BY RankIs
<1>5. f \in Injection(buf, R)
  BY <1>3, <1>4 DEF Injection, IsInjective
<1>6. IsFiniteSet(R) /\ Cardinality(R) = c
  <2>1. 0 \in Int /\ c - 1 \in Int
    BY <1>2
  <2>2. IsFiniteSet(R) /\ Cardinality(R) = IF 0 > c - 1 THEN 0 ELSE (c - 1) - 0 + 1
    BY <2>1, FS_Interval
  <2> QED  BY <1>2, <2>2
<1>7. f \in Surjection(buf, R)
  BY <1>5, <1>6, FS_Injection
<1>8. n - 1 \in R
  BY <1>2
<1>9. \E s \in buf : Rank(buf, s) = n - 1
  BY <1>7, <1>8 DEF Surjection
<1> QED  BY <1>9 DEF Nth, Rank, Before

\* The n-th pop returns the segment of rank n - 1.
LEMMA NthIs ==
  ASSUME NEW nxt \in Nat, NEW end \in Nat, end <= nxt + Wnd,
         NEW buf, IsHeap(buf, nxt, end), NEW s \in buf, NEW n \in Nat,
         Rank(buf, s) = n - 1
  PROVE  Nth(buf, n) = s /\ n <= Cardinality(buf)
<1>1. Rank(buf, s) \in 0..(Cardinality(buf) - 1) /\ Cardinality(buf) \in Nat
  BY RankType
<1>2. n \in 1..Cardinality(buf)
  BY <1>1
<1>3. Nth(buf, n) \in buf /\ Rank(buf, Nth(buf, n)) = n - 1
  BY <1>2, NthType
<1>4. Rank(buf, Nth(buf, n)) = Rank(buf, s)
  BY <1>3
<1>5. \A t \in buf : Rank(buf, t) = Rank(buf, s) => t = s
  BY RankIs
<1> QED  BY <1>1, <1>2, <1>3, <1>4, <1>5

----------------------------------------------------------------------------
(* Move *)

\* What the loop moves: the next segments, all that are there in a row.
LEMMA MovableIs ==
  ASSUME NEW nxt \in Nat, NEW end \in Nat, nxt <= end, end <= nxt + Wnd,
         NEW buf, IsHeap(buf, nxt, end), NEW room \in 0..Wnd,
         NEW k, k = Greatest(Movable(buf, Sn(nxt), room))
  PROVE  /\ k \in 0..room /\ nxt + k <= end
         /\ \A n \in 1..k : Nth(buf, n) \in buf /\ Nth(buf, n).no = nxt + n - 1
         /\ \A s \in buf : s.no = nxt + k => k = room
<1> DEFINE ks == Movable(buf, Sn(nxt), room)
<1> DEFINE c == Cardinality(buf)
<1>1. Wnd \in Nat /\ room \in Nat /\ room <= Wnd
  BY Constants
<1>2. IsFiniteSet(buf) /\ c \in Nat
  <2>1. IsFiniteSet(buf)
    BY DEF IsHeap
  <2> QED  BY <2>1, FS_CardinalityType
<1>3. ks \subseteq 0..room /\ 0 \in ks
  BY <1>1, <1>2 DEF Movable
<1>4. k \in ks /\ \A j \in ks : j <= k
  <2>1. ks # {}
    BY <1>3
  <2>2. Greatest(ks) \in ks /\ \A j \in ks : j <= Greatest(ks)
    BY <1>1, <1>3, <2>1, GreatestIs
  <2> QED  BY <2>2
<1>5. k \in 0..room /\ k <= c /\ k \in Nat /\ \A n \in 1..k : Nth(buf, n).sn = Sn(Sn(nxt) + n - 1)
  BY <1>1, <1>4 DEF Movable
<1>6. ASSUME NEW n \in 1..k
      PROVE  Nth(buf, n) \in buf /\ Nth(buf, n).no = nxt + n - 1 /\ Rank(buf, Nth(buf, n)) = n - 1
  <2>1. n \in 1..c /\ n \in Nat /\ n >= 1 /\ n <= room
    BY <1>1, <1>2, <1>5
  <2>2. Nth(buf, n) \in buf /\ Rank(buf, Nth(buf, n)) = n - 1
    BY <2>1, NthType
  <2>3. Nth(buf, n).sn = Sn(nxt + n - 1)
    <3>1. nxt \in Int /\ n - 1 \in Int /\ Sn(nxt) \in Int
      BY <2>1, SnType
    <3>2. Sn(Sn(nxt) + (n - 1)) = Sn(nxt + (n - 1))
      BY <3>1, SnAdd
    <3>3. Sn(nxt) + (n - 1) = Sn(nxt) + n - 1 /\ nxt + (n - 1) = nxt + n - 1
      BY <2>1, <3>1
    <3> QED  BY <1>5, <3>2, <3>3
  <2>4. PICK no \in Nat : no = nxt + n - 1
    BY <2>1
  <2>5. nxt <= no /\ no <= nxt + Wnd
    BY <1>1, <2>1, <2>4
  <2>6. PICK s \in buf : s = Nth(buf, n)
    BY <2>2
  <2>7. s.sn = Sn(no)
    BY <2>3, <2>4, <2>6
  <2>8. s.no = no
    BY <2>5, <2>7, NumberIs
  <2> QED  BY <2>2, <2>4, <2>6, <2>8
<1>7. nxt + k <= end
  <2>1. CASE k = 0
    BY <2>1
  <2>2. CASE k # 0
    <3>1. k \in 1..k
      BY <1>5, <2>2
    <3>2. Nth(buf, k) \in buf /\ Nth(buf, k).no = nxt + k - 1
      BY <1>6, <3>1
    <3>3. Nth(buf, k).no < end
      BY <3>2 DEF IsHeap
    <3> QED  BY <1>5, <3>2, <3>3
  <2> QED  BY <2>1, <2>2
<1>8. ASSUME NEW s \in buf, s.no = nxt + k
      PROVE  k = room
  <2> DEFINE g == [n \in 1..k |-> Nth(buf, n)]
  <2>1. Before(buf, s) = {t \in buf : t.no < s.no}
    BY BeforeIs
  <2>2. \A t \in buf : t.no \in Nat /\ nxt <= t.no
    BY DEF IsHeap
  <2>3. g \in [1..k -> Before(buf, s)]
    BY <1>5, <1>6, <1>8, <2>1
  <2>4. \A i, j \in 1..k : g[i] = g[j] => i = j
    BY <1>5, <1>6
  <2>5. \A t \in Before(buf, s) : \E n \in 1..k : g[n] = t
    <3> TAKE t \in Before(buf, s)
    <3>1. t \in buf /\ t.no \in Nat /\ nxt <= t.no /\ t.no < nxt + k
      BY <1>8, <2>1, <2>2
    <3>2. PICK n \in 1..k : n = t.no - nxt + 1
      BY <1>5, <3>1
    <3>3. Nth(buf, n) \in buf /\ Nth(buf, n).no = t.no
      BY <1>5, <1>6, <3>1, <3>2
    <3>4. Nth(buf, n) = t
      BY <3>1, <3>3, SegmentIs
    <3> QED  BY <3>4
  <2>6. g \in Bijection(1..k, Before(buf, s))
    <3>1. g \in Injection(1..k, Before(buf, s))
      BY <2>3, <2>4 DEF Injection, IsInjective
    <3>2. g \in Surjection(1..k, Before(buf, s))
      BY <2>3, <2>5 DEF Surjection
    <3> QED  BY <3>1, <3>2 DEF Bijection
  <2>7. ExistsBijection(1..k, Before(buf, s))
    BY <2>6 DEF ExistsBijection
  <2>8. IsFiniteSet(1..k) /\ Cardinality(1..k) = k
    <3>1. 1 \in Int /\ k \in Int
      BY <1>5
    <3>2. IsFiniteSet(1..k) /\ Cardinality(1..k) = IF 1 > k THEN 0 ELSE k - 1 + 1
      BY <3>1, FS_Interval
    <3> QED  BY <1>5, <3>2
  <2>9. Rank(buf, s) = k
    BY <2>7, <2>8, FS_Bijection DEF Rank
  <2>10. PICK m \in Nat : m = k + 1
    BY <1>5
  <2>11. Rank(buf, s) = m - 1
    BY <1>5, <2>9, <2>10
  <2>12. Nth(buf, m) = s /\ m <= c
    BY <2>11, NthIs
  <2>13. s.sn = Sn(Sn(nxt) + m - 1)
    <3>1. nxt \in Int /\ k \in Int /\ Sn(nxt) \in Int
      BY <1>5, SnType
    <3>2. Sn(Sn(nxt) + k) = Sn(nxt + k)
      BY <3>1, SnAdd
    <3>3. Sn(nxt) + m - 1 = Sn(nxt) + k
      BY <2>10, <3>1
    <3>4. s.sn = Sn(s.no)
      BY DEF IsHeap
    <3> QED  BY <1>8, <3>2, <3>3, <3>4
  <2>14. ASSUME k # room
         PROVE  m \in ks
    <3>1. m \in 0..room
      BY <1>1, <1>5, <2>10, <2>14
    <3>2. \A n \in 1..m : Nth(buf, n).sn = Sn(Sn(nxt) + n - 1)
      <4> TAKE n \in 1..m
      <4>1. CASE n = m
        BY <2>12, <2>13, <4>1
      <4>2. CASE n # m
        <5>1. n \in 1..k
          BY <1>5, <2>10, <4>2
        <5> QED  BY <1>5, <5>1
      <4> QED  BY <4>1, <4>2
    <3> QED  BY <2>12, <3>1, <3>2 DEF Movable
  <2>15. ASSUME k # room
         PROVE  FALSE
    <3>1. m <= k
      BY <1>4, <2>14, <2>15
    <3> QED  BY <1>5, <2>10, <3>1
  <2> QED  BY <2>15
<1> HIDE DEF ks, c
<1>9. \A n \in 1..k : Nth(buf, n) \in buf /\ Nth(buf, n).no = nxt + n - 1
  BY <1>6
<1>10. \A s \in buf : s.no = nxt + k => k = room
  BY <1>8
<1> QED  BY <1>5, <1>7, <1>9, <1>10

----------------------------------------------------------------------------
(* The inductive invariant *)

\* The true number of snd_una.
Una == sent - Len(snd_buf)

\* The true number of rcv_nxt.
Nxt == Len(moved)

\* The sender's buffer is the window that ends at the last segment sent.
SenderInv ==
  /\ sent \in Nat /\ Len(snd_buf) <= sent
  /\ snd_una = Sn(Una) /\ snd_nxt = Sn(sent)
  /\ \A i \in 1..Len(snd_buf) :
       snd_buf[i].no = Una + i - 1 /\ snd_buf[i].sn = Sn(snd_buf[i].no)

\* The receiver waits for a segment that the sender keeps, or will send.
ReceiverInv ==
  /\ Una <= Nxt /\ Nxt <= sent /\ rcv_nxt = Sn(Nxt)
  /\ IsHeap(rcv_buf, Nxt, sent)

\* The receiver has segment n.
Held(n) == n < Nxt \/ \E s \in rcv_buf : s.no = n

\* A PUSH on the way is younger than Lifetime.
PushInv(m) ==
  m.sn = Sn(m.no) /\ m.age = m.no /\ m.no < sent /\ sent - m.no <= Lifetime

\* An ACK on the way says what was true when it was sent: the receiver has the
\* segment, and had moved all before una.
AckInv(m) ==
  /\ m.sn = Sn(m.no) /\ m.una = Sn(m.age) /\ m.age <= Nxt /\ Held(m.no)
  /\ m.age - m.no <= Lifetime
  /\ sent - m.age <= Lifetime \/ sent - m.age <= Wnd

DatagramInv(m) ==
  /\ m.no \in Nat /\ m.age \in Nat
  /\ m.cmd \in {"PUSH", "ACK"}
  /\ m.cmd = "PUSH" => PushInv(m)
  /\ m.cmd = "ACK" => AckInv(m)

NetInv == \A m \in net : DatagramInv(m)

\* The inductive invariant.
Inv == /\ TypeOK /\ SenderInv /\ ReceiverInv /\ NetInv
       /\ MovedInOrder /\ FreedWereReceived /\ NextIsNotHeldBack

\* What rcv_buf and rcv_queue hold.
Segment == [sn : Numbers, no : Nat]

----------------------------------------------------------------------------
(* Numbers of the state *)

\* Where the two windows lie.
LEMMA StateTypes ==
  ASSUME TypeOK, SenderInv, ReceiverInv
  PROVE  /\ Una \in Nat /\ Nxt \in Nat /\ sent \in Nat /\ Len(snd_buf) \in Nat
         /\ Una <= Nxt /\ Nxt <= sent /\ sent <= Una + Wnd /\ sent <= Nxt + Wnd
         /\ sent = Una + Len(snd_buf)
<1>1. Len(snd_buf) \in Nat /\ Len(snd_buf) <= Wnd
  BY DEF TypeOK
<1>2. Nxt \in Nat
  BY DEF TypeOK, Nxt
<1>3. sent \in Nat /\ Len(snd_buf) <= sent /\ Una <= Nxt /\ Nxt <= sent
  BY DEF SenderInv, ReceiverInv
<1> QED  BY <1>1, <1>2, <1>3, Constants DEF Una

\* The loop moves the next segments of the stream, and stops only where the
\* next one is missing or the queue is full.
LEMMA MoveEffect ==
  ASSUME TypeOK, SenderInv, ReceiverInv, MovedInOrder,
         NEW buf, IsHeap(buf, Nxt, sent),
         NEW queue \in Seq(Segment), Len(queue) <= Wnd, Move(buf, queue)
  PROVE  /\ moved' \in Seq(Nat) /\ MovedInOrder'
         /\ Nxt' \in Nat /\ Nxt <= Nxt' /\ Nxt' <= sent /\ rcv_nxt' = Sn(Nxt')
         /\ IsHeap(rcv_buf', Nxt', sent)
         /\ rcv_queue' \in Seq(Segment) /\ Len(rcv_queue') <= Wnd
         /\ NextIsNotHeldBack'
         /\ \A n \in Nat : (n < Nxt \/ \E s \in buf : s.no = n) => Held(n)'
<1> DEFINE room == Wnd - Len(queue)
<1> DEFINE ks == Movable(buf, rcv_nxt, room)
<1>1. PICK nxt \in Nat, end \in Nat : nxt = Nxt /\ end = sent /\ nxt <= end /\ end <= nxt + Wnd
  BY StateTypes
<1>2. PICK k : k = Greatest(ks)
  OBVIOUS
<1> DEFINE nth == [n \in 1..k |-> Nth(buf, n)]
<1>3. Wnd \in Nat /\ Len(queue) \in Nat /\ room \in 0..Wnd
  BY Constants
<1>4. rcv_nxt = Sn(nxt)
  BY <1>1 DEF ReceiverInv
<1>5. IsHeap(buf, nxt, end)
  BY <1>1
<1>6. /\ k \in 0..room /\ nxt + k <= end
      /\ \A n \in 1..k : Nth(buf, n) \in buf /\ Nth(buf, n).no = nxt + n - 1
      /\ \A s \in buf : s.no = nxt + k => k = room
  <2>1. k = Greatest(Movable(buf, Sn(nxt), room))
    BY <1>2, <1>4
  <2>2. PICK r \in 0..Wnd : r = room
    BY <1>3
  <2>3. k = Greatest(Movable(buf, Sn(nxt), r))
    BY <2>1, <2>2
  <2>4. /\ k \in 0..r /\ nxt + k <= end
        /\ \A n \in 1..k : Nth(buf, n) \in buf /\ Nth(buf, n).no = nxt + n - 1
        /\ \A s \in buf : s.no = nxt + k => k = r
    BY <1>1, <1>5, <2>3, MovableIs
  <2> QED  BY <2>2, <2>4
<1>7. /\ rcv_queue' = queue \o nth
      /\ rcv_buf' = buf \ {nth[n] : n \in 1..k}
      /\ rcv_nxt' = Sn(rcv_nxt + k)
      /\ moved' = moved \o [n \in 1..k |-> nth[n].no]
  BY <1>2 DEF Move, Greatest
<1>8. k \in Nat /\ k <= room
  BY <1>3, <1>6
<1>9. nth \in Seq(Segment) /\ Len(nth) = k
  <2>1. \A n \in 1..k : Nth(buf, n) \in Segment
    BY <1>5, <1>6 DEF IsHeap, Segment
  <2>2. nth \in [1..k -> Segment]
    BY <2>1
  <2> QED  BY <1>8, <2>2
<1>10. PICK nos \in Seq(Nat) :
         /\ Len(nos) = k /\ moved' = moved \o nos
         /\ \A n \in 1..k : nos[n] = nxt + n - 1
  <2> DEFINE f == [n \in 1..k |-> nth[n].no]
  <2>1. \A n \in 1..k : nth[n].no = nxt + n - 1 /\ nxt + n - 1 \in Nat
    BY <1>6, <1>8
  <2>2. f \in [1..k -> Nat]
    BY <2>1
  <2>3. f \in Seq(Nat) /\ Len(f) = k
    BY <1>8, <2>2
  <2>4. \A n \in 1..k : f[n] = nxt + n - 1
    BY <2>1
  <2> QED  BY <1>7, <2>3, <2>4
<1>11. moved \in Seq(Nat) /\ Len(moved) = nxt
  BY <1>1 DEF TypeOK, Nxt
<1>12. moved' \in Seq(Nat) /\ Len(moved') = nxt + k
  BY <1>10, <1>11, ConcatProperties
<1>13. Nxt' = nxt + k
  BY <1>12 DEF Nxt
<1>14. MovedInOrder'
  <2> SUFFICES ASSUME NEW i \in 1..(nxt + k)
               PROVE  moved'[i] = i - 1
    BY <1>12 DEF MovedInOrder
  <2>1. CASE i <= nxt
    <3>1. i \in 1..Len(moved)
      BY <1>8, <1>11, <2>1
    <3>2. moved'[i] = moved[i]
      BY <1>10, <1>11, <3>1, ConcatProperties
    <3> QED  BY <3>1, <3>2 DEF MovedInOrder
  <2>2. CASE i > nxt
    <3>1. moved'[i] = nos[i - nxt] /\ i - nxt \in 1..k
      BY <1>8, <1>10, <1>11, <2>2, SMTT(30)
    <3>2. nos[i - nxt] = nxt + (i - nxt) - 1
      BY <1>10, <3>1
    <3> QED  BY <3>1, <3>2
  <2> QED  BY <2>1, <2>2
<1>15. rcv_nxt' = Sn(Nxt')
  BY <1>4, <1>7, <1>8, <1>13, SnAdd
<1>16. \A s \in rcv_buf' : s \in buf /\ nxt + k <= s.no
  <2> SUFFICES ASSUME NEW s \in rcv_buf'
               PROVE  s \in buf /\ nxt + k <= s.no
    OBVIOUS
  <2>1. s \in buf /\ s \notin {nth[n] : n \in 1..k}
    BY <1>7
  <2>2. s.no \in Nat /\ nxt <= s.no
    BY <1>5, <2>1 DEF IsHeap
  <2>3. ASSUME s.no < nxt + k
        PROVE  FALSE
    <3>1. PICK n \in 1..k : n = s.no - nxt + 1
      BY <1>8, <2>2, <2>3, SMTT(30)
    <3>2. Nth(buf, n) \in buf /\ Nth(buf, n).no = s.no
      BY <1>6, <1>8, <2>2, <3>1
    <3>3. Nth(buf, n) = s
      BY <1>5, <2>1, <3>2, SegmentIs
    <3> QED  BY <2>1, <3>3
  <2> QED  BY <1>8, <2>1, <2>2, <2>3
<1>17. IsHeap(rcv_buf', nxt + k, end)
  <2>1. IsFiniteSet(buf) /\ rcv_buf' \in SUBSET buf
    BY <1>5, <1>7 DEF IsHeap
  <2>2. IsFiniteSet(rcv_buf')
    BY <2>1, FS_Subset
  <2> QED  BY <1>5, <1>16, <2>1, <2>2 DEF IsHeap
<1>18. Len(rcv_queue') = Len(queue) + k /\ rcv_queue' \in Seq(Segment)
  <2>1. PICK q \in Seq(Segment) : q = nth
    BY <1>9
  <2>2. rcv_queue' = queue \o q /\ Len(q) = k
    BY <1>7, <1>9, <2>1
  <2> QED  BY <2>2, ConcatProperties
<1>19. Len(rcv_queue') <= Wnd
  BY <1>3, <1>8, <1>18
<1>20. NextIsNotHeldBack'
  <2> SUFFICES ASSUME NEW s \in rcv_buf', s.sn = rcv_nxt'
               PROVE  Len(rcv_queue') = Wnd
    BY DEF NextIsNotHeldBack, Has
  <2>1. s \in buf
    BY <1>16
  <2>2. PICK no \in Nat : no = nxt + k
    BY <1>8
  <2>3. s.sn = Sn(no) /\ nxt <= no /\ no <= nxt + Wnd
    BY <1>3, <1>8, <1>13, <1>15, <2>2
  <2>4. s.no = no
    BY <1>1, <1>5, <2>1, <2>3, NumberIs
  <2>5. k = room
    BY <1>6, <2>1, <2>2, <2>4
  <2> QED  BY <1>3, <1>18, <2>5
<1>21. ASSUME NEW n \in Nat, n < Nxt \/ \E s \in buf : s.no = n
       PROVE  Held(n)'
  <2>1. CASE n < Nxt
    BY <1>1, <1>8, <1>13, <2>1 DEF Held
  <2>2. CASE \E s \in buf : s.no = n
    <3>1. PICK s \in buf : s.no = n
      BY <2>2
    <3>2. CASE s \in rcv_buf'
      BY <3>1, <3>2 DEF Held
    <3>3. CASE s \notin rcv_buf'
      <4>1. PICK i \in 1..k : s = nth[i]
        BY <1>7, <3>3
      <4>2. s.no = nxt + i - 1
        BY <1>6, <4>1
      <4>3. n < Nxt'
        BY <1>8, <1>13, <3>1, <4>2
      <4> QED  BY <4>3 DEF Held
    <3> QED  BY <3>2, <3>3
  <2> QED  BY <1>21, <2>1, <2>2
<1>22. Nxt' \in Nat /\ Nxt <= Nxt' /\ Nxt' <= sent
  BY <1>1, <1>6, <1>8, <1>13
<1>23. IsHeap(rcv_buf', Nxt', sent)
  BY <1>1, <1>13, <1>17
<1> HIDE DEF room, ks, nth
<1> QED  BY <1>12, <1>14, <1>15, <1>18, <1>19, <1>20, <1>21, <1>22, <1>23

----------------------------------------------------------------------------
(* The receiver's steps *)

\* What Move keeps, when it takes a heap that holds all of rcv_buf.
LEMMA MoveInv ==
  ASSUME Inv, NEW buf, IsHeap(buf, Nxt, sent), rcv_buf \subseteq buf,
         NEW queue \in Seq(Segment), Len(queue) <= Wnd, Move(buf, queue),
         UNCHANGED <<snd_una, snd_nxt, snd_buf, sent>>
  PROVE  /\ TypeOK' /\ SenderInv' /\ ReceiverInv'
         /\ MovedInOrder' /\ FreedWereReceived' /\ NextIsNotHeldBack'
         /\ \A m \in net : DatagramInv(m)'
         /\ \A s \in buf : Held(s.no)'
<1>1. /\ moved' \in Seq(Nat) /\ MovedInOrder'
      /\ Nxt' \in Nat /\ Nxt <= Nxt' /\ Nxt' <= sent /\ rcv_nxt' = Sn(Nxt')
      /\ IsHeap(rcv_buf', Nxt', sent)
      /\ rcv_queue' \in Seq(Segment) /\ Len(rcv_queue') <= Wnd
      /\ NextIsNotHeldBack'
      /\ \A n \in Nat : (n < Nxt \/ \E s \in buf : s.no = n) => Held(n)'
  BY MoveEffect DEF Inv
<1>2. /\ Una \in Nat /\ Nxt \in Nat /\ sent \in Nat /\ Len(snd_buf) \in Nat
      /\ Una <= Nxt
  BY StateTypes DEF Inv
<1>3. \A n \in Nat : Held(n) => Held(n)'
  BY <1>1 DEF Held
<1>4. TypeOK'
  <2>1. rcv_nxt' \in Numbers
    BY <1>1, SnType
  <2>2. rcv_buf' \subseteq Segment
    BY <1>1 DEF IsHeap, Segment
  <2> QED  BY <1>1, <2>1, <2>2 DEF TypeOK, Inv, Segment
<1>5. Una' = Una
  BY DEF Una
<1>6. SenderInv'
  BY <1>5 DEF SenderInv, Inv
<1>7. ReceiverInv'
  BY <1>1, <1>2, <1>5 DEF ReceiverInv
<1>8. FreedWereReceived'
  <2>1. sent' - Len(snd_buf') <= Len(moved')
    BY <1>1, <1>2 DEF Una, Nxt
  <2>2. ASSUME NEW i \in DOMAIN snd_buf, snd_buf[i].acked
        PROVE  Held(snd_buf[i].no)'
    <3>1. snd_buf[i].no \in Nat
      <4>1. snd_buf \in Seq([sn : Numbers, acked : BOOLEAN, no : Nat])
        BY DEF Inv, TypeOK
      <4>2. snd_buf[i] \in [sn : Numbers, acked : BOOLEAN, no : Nat]
        <5>1. i \in 1..Len(snd_buf)
          BY <2>2, <4>1
        <5> QED  BY <4>1, <5>1, ElementOfSeq
      <4> QED  BY <4>2
    <3>2. PICK n \in Nat : n = snd_buf[i].no
      BY <3>1
    <3>3. Held(n)
      BY <2>2, <3>2 DEF Inv, FreedWereReceived, Held, Nxt
    <3>4. Held(n)'
      BY <1>3, <3>3
    <3> QED  BY <3>2, <3>4 DEF Held
  <2> QED  BY <2>1, <2>2 DEF FreedWereReceived, Held, Nxt
<1>9. ASSUME NEW m \in net
      PROVE  DatagramInv(m)'
  <2>1. DatagramInv(m)
    BY DEF Inv, NetInv
  <2>2. m.no \in Nat /\ m.age \in Nat /\ m.cmd \in {"PUSH", "ACK"}
    BY <2>1 DEF DatagramInv
  <2>3. m.cmd = "PUSH" => PushInv(m)'
    BY <2>1 DEF DatagramInv, PushInv
  <2>4. m.cmd = "ACK" => AckInv(m)'
    <3> SUFFICES ASSUME m.cmd = "ACK" PROVE AckInv(m)'
      OBVIOUS
    <3>1. AckInv(m)
      BY <2>1 DEF DatagramInv
    <3>2. Held(m.no)'
      BY <1>3, <2>2, <3>1 DEF AckInv
    <3>3. m.age <= Nxt'
      BY <1>1, <1>2, <2>2, <3>1 DEF AckInv
    <3> QED  BY <3>1, <3>2, <3>3 DEF AckInv
  <2> QED  BY <2>2, <2>3, <2>4 DEF DatagramInv
<1>10. ASSUME NEW s \in buf
       PROVE  Held(s.no)'
  <2>1. s.no \in Nat
    BY DEF IsHeap
  <2> QED  BY <1>1, <2>1
<1> QED  BY <1>1, <1>4, <1>6, <1>7, <1>8, <1>9, <1>10

\* Recv keeps the invariant.
LEMMA RecvInv == Inv /\ Recv => Inv'
<1> SUFFICES ASSUME Inv, Recv PROVE Inv'
  OBVIOUS
<1>1. rcv_queue \in Seq(Segment) /\ Len(rcv_queue) <= Wnd /\ rcv_queue # <<>>
  BY DEF Inv, TypeOK, Segment, Recv
<1>2. PICK q \in Seq(Segment) : q = Tail(rcv_queue) /\ Len(q) <= Wnd
  <2>1. Tail(rcv_queue) \in Seq(Segment) /\ Len(Tail(rcv_queue)) = Len(rcv_queue) - 1
    BY <1>1, HeadTailProperties
  <2>2. Len(Tail(rcv_queue)) <= Wnd
    BY <1>1, <2>1, Constants
  <2> QED  BY <2>1, <2>2
<1>3. PICK b : b = rcv_buf
  OBVIOUS
<1>4. IsHeap(b, Nxt, sent) /\ rcv_buf \subseteq b
  BY <1>3 DEF Inv, ReceiverInv
<1>5. Move(b, q) /\ UNCHANGED <<snd_una, snd_nxt, snd_buf, sent>> /\ UNCHANGED net
  BY <1>2, <1>3 DEF Recv
<1>6. /\ TypeOK' /\ SenderInv' /\ ReceiverInv'
      /\ MovedInOrder' /\ FreedWereReceived' /\ NextIsNotHeldBack'
      /\ \A m \in net : DatagramInv(m)'
  BY <1>2, <1>4, <1>5, MoveInv
<1> QED  BY <1>5, <1>6 DEF Inv, NetInv

\* A segment that NotBefore lets through is one the receiver waits for.
LEMMA PushIs ==
  ASSUME Inv, NEW m \in net, m.cmd = "PUSH"
  PROVE  /\ m.no \in Nat /\ m.sn = Sn(m.no) /\ m.no < sent /\ sent - m.no <= Lifetime
         /\ NotBefore(m.sn) <=> Nxt <= m.no
<1>1. m.no \in Nat /\ m.sn = Sn(m.no) /\ m.no < sent /\ sent - m.no <= Lifetime
  BY DEF Inv, NetInv, DatagramInv, PushInv
<1>2. PICK nxt \in Nat, end \in Nat : nxt = Nxt /\ end = sent /\ nxt <= end /\ end <= nxt + Wnd
  BY StateTypes DEF Inv
<1>3. rcv_nxt = Sn(nxt)
  BY <1>2 DEF Inv, ReceiverInv
<1>4. 2 * (m.no - nxt) < SnMod /\ -SnMod <= 2 * (m.no - nxt)
  BY <1>1, <1>2, Constants
<1>5. _itimediff(Sn(m.no), Sn(nxt)) = m.no - nxt
  BY <1>1, <1>4, Diff
<1> QED  BY <1>1, <1>2, <1>3, <1>5 DEF NotBefore

\* The heap that InputPush hands to Move.
LEMMA StoredHeap ==
  ASSUME Inv, NEW m \in net, m.cmd = "PUSH", NotBefore(m.sn),
         NEW buf, buf = IF Has(rcv_buf, m.sn) THEN rcv_buf ELSE rcv_buf \cup {Stored(m)}
  PROVE  /\ IsHeap(buf, Nxt, sent) /\ rcv_buf \subseteq buf
         /\ \E s \in buf : s.no = m.no
<1>1. /\ m.no \in Nat /\ m.sn = Sn(m.no) /\ m.no < sent
      /\ Nxt <= m.no
  BY PushIs
<1>2. PICK nxt \in Nat, end \in Nat : nxt = Nxt /\ end = sent /\ nxt <= end /\ end <= nxt + Wnd
  BY StateTypes DEF Inv
<1>3. IsHeap(rcv_buf, nxt, end)
  BY <1>2 DEF Inv, ReceiverInv
<1>4. CASE Has(rcv_buf, m.sn)
  <2>1. buf = rcv_buf
    BY <1>4
  <2>2. PICK s \in rcv_buf : s.sn = m.sn
    BY <1>4 DEF Has
  <2>3. s.no = m.no
    <3>1. PICK no \in Nat : no = m.no /\ nxt <= no /\ no <= nxt + Wnd /\ s.sn = Sn(no)
      BY <1>1, <1>2, <2>2, Constants
    <3>2. s.no = no
      BY <1>2, <1>3, <3>1, NumberIs
    <3> QED  BY <3>1, <3>2
  <2> QED  BY <1>2, <1>3, <2>1, <2>2, <2>3
<1>5. CASE ~Has(rcv_buf, m.sn)
  <2>1. buf = rcv_buf \cup {Stored(m)}
    BY <1>5
  <2>2. Stored(m) \in [sn : Numbers, no : Nat] /\ Stored(m).sn = m.sn /\ Stored(m).no = m.no
    BY <1>1, SnType DEF Stored
  <2>3. IsFiniteSet(buf)
    BY <1>3, <2>1, FS_AddElement DEF IsHeap
  <2>4. IsHeap(buf, nxt, end)
    BY <1>1, <1>2, <1>3, <2>1, <2>2, <2>3 DEF IsHeap
  <2> QED  BY <1>2, <2>1, <2>2, <2>4
<1> QED  BY <1>4, <1>5

\* The acknowledgement that InputPush sends.
Answer(m) == [cmd |-> "ACK", sn |-> m.sn, no |-> m.no, una |-> rcv_nxt', age |-> Len(moved')]

\* The acknowledgement that goes out is true of the state it is sent in.
LEMMA AnswerInv ==
  ASSUME Inv, NEW m \in net, m.cmd = "PUSH", UNCHANGED <<snd_buf, sent>>,
         TypeOK', SenderInv', ReceiverInv', Held(m.no)',
         NEW ack, ack = Answer(m)
  PROVE  DatagramInv(ack)'
<1>1. /\ ack.cmd = "ACK" /\ ack.sn = m.sn /\ ack.no = m.no
      /\ ack.una = rcv_nxt' /\ ack.age = Nxt'
  BY DEF Answer, Nxt
<1>2. m.no \in Nat /\ m.sn = Sn(m.no) /\ m.no < sent /\ sent - m.no <= Lifetime
  BY PushIs
<1>3. PICK nxt \in Nat, end \in Nat : nxt = Nxt' /\ end = sent' /\ nxt <= end /\ end <= nxt + Wnd
  <2>1. Nxt' \in Nat /\ Len(snd_buf') \in Nat /\ Len(snd_buf') <= Wnd
    BY DEF TypeOK, Nxt
  <2>2. sent' \in Nat /\ Una' <= Nxt' /\ Nxt' <= sent' /\ Una' = sent' - Len(snd_buf')
    BY DEF SenderInv, ReceiverInv, Una
  <2> QED  BY <2>1, <2>2, Constants
<1>4. rcv_nxt' = Sn(nxt)
  BY <1>3 DEF ReceiverInv
<1>5. end = sent
  BY <1>3
<1>6. ack.age - ack.no <= Lifetime /\ end - ack.age <= Wnd
  <2>1. m.no \in Nat /\ end - m.no <= Lifetime /\ end <= nxt + Wnd /\ nxt <= end
    BY <1>2, <1>3, <1>5
  <2>2. Lifetime \in Int /\ Wnd \in Int
    BY Constants
  <2>3. nxt - m.no <= Lifetime /\ end - nxt <= Wnd
    BY <2>1, <2>2
  <2>4. ack.age = nxt /\ ack.no = m.no
    BY <1>1, <1>3
  <2> QED  BY <2>3, <2>4
<1>7. AckInv(ack)'
  BY <1>1, <1>2, <1>3, <1>4, <1>6 DEF AckInv
<1> QED  BY <1>1, <1>2, <1>3, <1>7 DEF DatagramInv

\* Input of a PUSH keeps the invariant, whether it is stored, repeated or old.
LEMMA InputPushInv ==
  ASSUME Inv, NEW m \in net, InputPush(m)
  PROVE  Inv'
<1>1. m.cmd = "PUSH" /\ UNCHANGED <<snd_una, snd_nxt, snd_buf, sent>>
  BY DEF InputPush
<1>2. /\ m.no \in Nat /\ m.sn = Sn(m.no) /\ m.no < sent /\ sent - m.no <= Lifetime
      /\ NotBefore(m.sn) <=> Nxt <= m.no
  BY <1>1, PushIs
<1>3. /\ TypeOK' /\ SenderInv' /\ ReceiverInv'
      /\ MovedInOrder' /\ FreedWereReceived' /\ NextIsNotHeldBack'
      /\ \A d \in net : DatagramInv(d)'
      /\ InWindow(m.sn) => Held(m.no)'
  <2>1. CASE InWindow(m.sn) /\ NotBefore(m.sn)
    <3>1. PICK b : b = IF Has(rcv_buf, m.sn) THEN rcv_buf ELSE rcv_buf \cup {Stored(m)}
      OBVIOUS
    <3>2. PICK q : q = rcv_queue
      OBVIOUS
    <3>3. Move(b, q)
      BY <2>1, <3>1, <3>2 DEF InputPush
    <3>4. q \in Seq(Segment) /\ Len(q) <= Wnd
      BY <3>2 DEF Inv, TypeOK, Segment
    <3>5. IsHeap(b, Nxt, sent) /\ rcv_buf \subseteq b /\ \E s \in b : s.no = m.no
      BY <1>1, <2>1, <3>1, StoredHeap
    <3>6. /\ TypeOK' /\ SenderInv' /\ ReceiverInv'
          /\ MovedInOrder' /\ FreedWereReceived' /\ NextIsNotHeldBack'
          /\ \A d \in net : DatagramInv(d)'
          /\ \A s \in b : Held(s.no)'
      BY <1>1, <3>3, <3>4, <3>5, MoveInv
    <3> QED  BY <3>5, <3>6
  <2>2. CASE ~(InWindow(m.sn) /\ NotBefore(m.sn))
    <3>1. UNCHANGED <<rcv_nxt, rcv_buf, rcv_queue, moved>>
      BY <2>2 DEF InputPush
    <3>2. TypeOK'
      BY <1>1, <3>1 DEF Inv, TypeOK
    <3>3. Una' = Una /\ Nxt' = Nxt
      BY <1>1, <3>1 DEF Una, Nxt
    <3>4. SenderInv'
      BY <1>1, <3>3 DEF Inv, SenderInv
    <3>5. ReceiverInv'
      BY <1>1, <3>1, <3>3 DEF Inv, ReceiverInv
    <3>6. MovedInOrder' /\ FreedWereReceived' /\ NextIsNotHeldBack'
      BY <1>1, <3>1 DEF Inv, MovedInOrder, FreedWereReceived, NextIsNotHeldBack
    <3>7. \A d \in net : DatagramInv(d)'
      BY <1>1, <3>1, <3>3 DEF Inv, NetInv, DatagramInv, PushInv, AckInv, Held
    <3>8. InWindow(m.sn) => Held(m.no)'
      <4> SUFFICES ASSUME InWindow(m.sn) PROVE Held(m.no)'
        OBVIOUS
      <4>1. ~NotBefore(m.sn)
        BY <2>2
      <4>2. Nxt \in Nat
        BY StateTypes DEF Inv
      <4>3. m.no < Nxt
        BY <1>2, <4>1, <4>2
      <4> QED  BY <3>3, <4>3 DEF Held
    <3> QED  BY <3>2, <3>4, <3>5, <3>6, <3>7, <3>8
  <2> QED  BY <2>1, <2>2
<1>4. PICK ack : ack = Answer(m)
  OBVIOUS
<1>5. PICK kept \in {net, net \ {m}} :
        net' = IF InWindow(m.sn) /\ Cardinality(kept) < NetSize
               THEN kept \cup {ack} ELSE kept
  BY <1>4 DEF InputPush, Answer
<1>6. InWindow(m.sn) => DatagramInv(ack)'
  BY <1>1, <1>3, <1>4, AnswerInv
<1>7. NetInv'
  BY <1>3, <1>5, <1>6 DEF NetInv
<1> QED  BY <1>3, <1>7 DEF Inv

----------------------------------------------------------------------------
(* The sender's steps *)

\* What snd_buf holds.
Kept == [sn : Numbers, acked : BOOLEAN, no : Nat]

\* The i-th segment of snd_buf is the i-th of the window.
LEMMA KeptIs ==
  ASSUME Inv, NEW i \in 1..Len(snd_buf)
  PROVE  /\ snd_buf[i] \in Kept /\ snd_buf[i].no = Una + i - 1
         /\ snd_buf[i].sn = Sn(snd_buf[i].no)
         /\ snd_buf[i].no < sent
<1>1. snd_buf \in Seq(Kept)
  BY DEF Inv, TypeOK, Kept
<1>2. snd_buf[i].no = Una + i - 1 /\ snd_buf[i].sn = Sn(snd_buf[i].no)
  BY DEF Inv, SenderInv
<1>3. sent = Una + Len(snd_buf) /\ Una \in Nat /\ Len(snd_buf) \in Nat
  BY StateTypes DEF Inv
<1>4. Una + i - 1 < sent
  BY <1>3
<1>5. snd_buf[i] \in Kept
  BY <1>1, ElementOfSeq
<1> QED  BY <1>2, <1>4, <1>5

\* Datagrams survive a step that leaves the receiver alone.
LEMMA NetKept ==
  ASSUME Inv, NEW m \in net, UNCHANGED <<rcv_nxt, rcv_buf, rcv_queue, moved>>,
         sent' \in Nat, sent <= sent',
         sent' = sent \/ sent' - m.age <= Lifetime
  PROVE  DatagramInv(m)'
<1>1. DatagramInv(m)
  BY DEF Inv, NetInv
<1>2. m.no \in Nat /\ m.age \in Nat /\ m.cmd \in {"PUSH", "ACK"}
  BY <1>1 DEF DatagramInv
<1>3. sent \in Nat
  BY DEF Inv, SenderInv
<1>4. m.cmd = "PUSH" => PushInv(m)'
  BY <1>1, <1>2, <1>3 DEF DatagramInv, PushInv
<1>5. Nxt' = Nxt /\ (Held(m.no) => Held(m.no)')
  BY DEF Nxt, Held
<1>6. m.cmd = "ACK" => AckInv(m)'
  BY <1>1, <1>2, <1>3, <1>5 DEF DatagramInv, AckInv
<1> QED  BY <1>2, <1>4, <1>6 DEF DatagramInv

\* The datagram that Slide and Retransmit send.
LEMMA PushedInv ==
  ASSUME NEW s, s.no \in Nat, s.sn = Sn(s.no), s.no < sent',
         NEW m, m = Push(s), sent' - m.age <= Lifetime
  PROVE  DatagramInv(m)'
<1>1. m.cmd = "PUSH" /\ m.sn = s.sn /\ m.no = s.no /\ m.age = s.no
  BY DEF Push
<1>2. PushInv(m)'
  BY <1>1 DEF PushInv
<1> QED  BY <1>1, <1>2 DEF DatagramInv

\* Sending a segment keeps NetInv: what is too old by then is gone.
LEMMA TransmitNet ==
  ASSUME Inv, UNCHANGED <<rcv_nxt, rcv_buf, rcv_queue, moved>>,
         sent' \in Nat, sent <= sent',
         NEW s, s.no \in Nat, s.sn = Sn(s.no), s.no < sent',
         NEW n, n = sent', Transmit(Push(s), n)
  PROVE  NetInv'
<1> SUFFICES ASSUME NEW d \in net' PROVE DatagramInv(d)'
  BY DEF NetInv
<1>1. (d \in net \/ d = Push(s)) /\ sent' - d.age <= Lifetime
  BY DEF Transmit
<1>2. CASE d \in net
  BY <1>1, <1>2, NetKept
<1>3. CASE d = Push(s)
  BY <1>1, <1>3, PushedInv
<1> QED  BY <1>1, <1>2, <1>3

\* flush's guard keeps the window: Slide keeps the invariant.
LEMMA SlideInv == Inv /\ Slide => Inv'
<1> SUFFICES ASSUME Inv, Slide PROVE Inv'
  OBVIOUS
<1>1. PICK s : s = [sn |-> snd_nxt, acked |-> FALSE, no |-> sent]
  OBVIOUS
<1>2. /\ _itimediff(snd_nxt, Sn(snd_una + Wnd)) < 0
      /\ snd_buf' = Append(snd_buf, s)
      /\ snd_nxt' = Sn(snd_nxt + 1)
      /\ sent' = sent + 1
      /\ Transmit(Push(s), sent')
      /\ UNCHANGED <<snd_una, rcv_nxt, rcv_buf, rcv_queue, moved>>
  BY <1>1 DEF Slide
<1>3. PICK una \in Nat, end \in Nat, len \in Nat :
        una = Una /\ end = sent /\ len = Len(snd_buf) /\ end = una + len /\ len <= Wnd
  <2>1. Una \in Nat /\ sent \in Nat /\ Len(snd_buf) \in Nat /\ sent = Una + Len(snd_buf)
    BY StateTypes DEF Inv
  <2>2. Len(snd_buf) <= Wnd
    BY DEF Inv, TypeOK
  <2> QED  BY <2>1, <2>2
<1>4. snd_una = Sn(una) /\ snd_nxt = Sn(end)
  BY <1>3 DEF Inv, SenderInv
<1>5. len < Wnd
  <2>1. una \in Int /\ end \in Int /\ Wnd \in Int /\ una + Wnd \in Int
    BY Constants
  <2>2. Sn(snd_una + Wnd) = Sn(una + Wnd)
    BY <1>4, <2>1, SnAdd
  <2>3. 2 * (end - (una + Wnd)) < SnMod /\ -SnMod <= 2 * (end - (una + Wnd))
    BY <1>3, Constants
  <2>4. _itimediff(Sn(end), Sn(una + Wnd)) = end - (una + Wnd)
    BY <2>1, <2>3, Diff
  <2> QED  BY <1>2, <1>3, <1>4, <2>2, <2>4, Constants
<1>6. s \in Kept /\ s.sn = Sn(end) /\ s.no = end /\ s.acked = FALSE
  <2>1. Sn(end) \in Numbers
    BY SnType
  <2> QED  BY <1>1, <1>3, <1>4, <2>1 DEF Kept
<1>7. snd_buf \in Seq(Kept)
  BY DEF Inv, TypeOK, Kept
<1>8. /\ snd_buf' \in Seq(Kept) /\ Len(snd_buf') = len + 1
      /\ \A i \in 1..len : snd_buf'[i] = snd_buf[i]
      /\ snd_buf'[len + 1] = s
  BY <1>2, <1>3, <1>6, <1>7, AppendProperties
<1>9. sent' = end + 1 /\ Una' = una
  BY <1>2, <1>3, <1>8 DEF Una
<1>10. snd_nxt' = Sn(end + 1)
  BY <1>2, <1>4, SnAdd
<1>11. \A i \in 1..len : /\ snd_buf[i].no = una + i - 1 /\ snd_buf[i].sn = Sn(snd_buf[i].no)
  BY <1>3, KeptIs
<1>12. SenderInv'
  <2>1. \A i \in 1..(len + 1) : /\ snd_buf'[i].no = una + i - 1
                                /\ snd_buf'[i].sn = Sn(snd_buf'[i].no)
    <3> TAKE i \in 1..(len + 1)
    <3>1. CASE i = len + 1
      BY <1>3, <1>6, <1>8, <3>1
    <3>2. CASE i # len + 1
      <4>1. i \in 1..len
        BY <3>2
      <4> QED  BY <1>8, <1>11, <4>1
    <3> QED  BY <3>1, <3>2
  <2>2. sent' \in Nat /\ Len(snd_buf') <= sent'
    BY <1>3, <1>8, <1>9
  <2>3. snd_una' = Sn(Una')
    BY <1>2, <1>4, <1>9
  <2> QED  BY <1>8, <1>9, <1>10, <2>1, <2>2, <2>3 DEF SenderInv
<1>13. TypeOK'
  <2>1. Sn(end + 1) \in Numbers
    BY SnType
  <2>2. Len(snd_buf') <= Wnd
    BY <1>5, <1>8, Constants
  <2> QED  BY <1>2, <1>8, <1>10, <2>1, <2>2 DEF Inv, TypeOK, Kept
<1>14. Nxt' = Nxt /\ Nxt \in Nat
  <2>1. Nxt' = Nxt
    BY <1>2 DEF Nxt
  <2> QED  BY <2>1, StateTypes DEF Inv
<1>15. ReceiverInv'
  <2>1. IsHeap(rcv_buf, Nxt, end) /\ una <= Nxt /\ Nxt <= end /\ rcv_nxt = Sn(Nxt)
    BY <1>3 DEF Inv, ReceiverInv
  <2>2. IsHeap(rcv_buf, Nxt, end + 1)
    BY <2>1 DEF IsHeap
  <2> QED  BY <1>2, <1>9, <1>14, <2>1, <2>2 DEF ReceiverInv
<1>16. MovedInOrder' /\ NextIsNotHeldBack'
  BY <1>2 DEF Inv, MovedInOrder, NextIsNotHeldBack
<1>17. FreedWereReceived'
  <2>1. sent' - Len(snd_buf') <= Len(moved')
    BY <1>3, <1>8, <1>9, <1>14, <1>15 DEF ReceiverInv, Una, Nxt
  <2>2. DOMAIN snd_buf' = 1..(len + 1) /\ DOMAIN snd_buf = 1..len
    BY <1>3, <1>7, <1>8
  <2>3. ASSUME NEW i \in 1..(len + 1), snd_buf'[i].acked
        PROVE  \/ snd_buf'[i].no < Len(moved')
               \/ \E t \in rcv_buf' : t.no = snd_buf'[i].no
    <3>1. i # len + 1
      BY <1>6, <1>8, <2>3
    <3>2. i \in 1..len /\ snd_buf'[i] = snd_buf[i]
      BY <1>8, <3>1
    <3> QED  BY <1>2, <2>2, <2>3, <3>2 DEF Inv, FreedWereReceived
  <2> QED  BY <2>1, <2>2, <2>3 DEF FreedWereReceived
<1>18. NetInv'
  <2>1. PICK n : n = sent'
    OBVIOUS
  <2>2. Transmit(Push(s), n)
    BY <1>2, <2>1
  <2>3. s.no \in Nat /\ s.sn = Sn(s.no) /\ s.no < sent' /\ sent' \in Nat /\ sent <= sent'
    BY <1>3, <1>6, <1>9
  <2> QED  BY <1>2, <2>1, <2>2, <2>3, TransmitNet
<1> QED  BY <1>12, <1>13, <1>15, <1>16, <1>17, <1>18 DEF Inv

\* A step that only changes the network.
LEMMA NetStep ==
  ASSUME Inv, NetInv',
         UNCHANGED <<snd_una, snd_nxt, snd_buf, rcv_nxt, rcv_buf, rcv_queue, sent, moved>>
  PROVE  Inv'
<1>1. TypeOK' /\ MovedInOrder' /\ FreedWereReceived' /\ NextIsNotHeldBack'
  BY DEF Inv, TypeOK, MovedInOrder, FreedWereReceived, NextIsNotHeldBack
<1>2. Una' = Una /\ Nxt' = Nxt
  BY DEF Una, Nxt
<1>3. SenderInv' /\ ReceiverInv'
  BY <1>2 DEF Inv, SenderInv, ReceiverInv
<1> QED  BY <1>1, <1>3 DEF Inv

\* Retransmit keeps the invariant.
LEMMA RetransmitInv == Inv /\ Retransmit => Inv'
<1> SUFFICES ASSUME Inv, Retransmit PROVE Inv'
  OBVIOUS
<1>1. UNCHANGED <<snd_una, snd_nxt, snd_buf, rcv_nxt, rcv_buf, rcv_queue, sent, moved>>
  BY DEF Retransmit
<1>2. PICK i \in DOMAIN snd_buf : Transmit(Push(snd_buf[i]), sent)
  BY DEF Retransmit
<1>3. i \in 1..Len(snd_buf)
  BY <1>2 DEF Inv, TypeOK
<1>4. PICK s : s = snd_buf[i]
  OBVIOUS
<1>5. s.no \in Nat /\ s.sn = Sn(s.no) /\ s.no < sent
  BY <1>3, <1>4, KeptIs DEF Kept
<1>6. PICK n : n = sent'
  OBVIOUS
<1>7. Transmit(Push(s), n)
  BY <1>1, <1>2, <1>4, <1>6
<1>8. sent' \in Nat /\ sent <= sent' /\ s.no < sent'
  BY <1>1, <1>5 DEF Inv, SenderInv
<1>9. NetInv'
  BY <1>1, <1>5, <1>6, <1>7, <1>8, TransmitNet
<1> QED  BY <1>1, <1>9, NetStep

\* Losing a datagram keeps the invariant.
LEMMA LoseInv == Inv /\ Lose => Inv'
<1> SUFFICES ASSUME Inv, Lose PROVE Inv'
  OBVIOUS
<1>1. UNCHANGED <<snd_una, snd_nxt, snd_buf, rcv_nxt, rcv_buf, rcv_queue, sent, moved>>
  BY DEF Lose
<1>2. net' \subseteq net
  BY DEF Lose
<1>3. sent' \in Nat /\ sent <= sent' /\ sent' = sent
  BY <1>1 DEF Inv, SenderInv
<1>4. \A m \in net : DatagramInv(m)'
  BY <1>1, <1>3, NetKept
<1>5. NetInv'
  BY <1>2, <1>4 DEF NetInv
<1> QED  BY <1>1, <1>5, NetStep

\* An acknowledgement is understood: its una by the segments the sender keeps,
\* and its number by at most one of them.
LEMMA AckIs ==
  ASSUME Inv, NEW m \in net, m.cmd = "ACK"
  PROVE  /\ m.no \in Nat /\ m.age \in Nat /\ m.age <= Nxt /\ Held(m.no)
         /\ m.una = Sn(m.age) /\ m.sn = Sn(m.no)
         /\ \A i \in 1..Len(snd_buf) :
              /\ _itimediff(m.una, snd_buf[i].sn) = m.age - (Una + i - 1)
              /\ snd_buf[i].sn = m.sn => snd_buf[i].no = m.no
<1>1. /\ m.no \in Nat /\ m.age \in Nat /\ m.age <= Nxt /\ Held(m.no)
      /\ m.una = Sn(m.age) /\ m.sn = Sn(m.no) /\ m.age - m.no <= Lifetime
      /\ sent - m.age <= Lifetime \/ sent - m.age <= Wnd
  BY DEF Inv, NetInv, DatagramInv, AckInv
<1>2. PICK una \in Nat, nxt \in Nat, end \in Nat :
        /\ una = Una /\ nxt = Nxt /\ end = sent
        /\ una <= nxt /\ nxt <= end /\ end <= una + Wnd
  BY StateTypes DEF Inv
<1>3. m.no < end
  <2>1. CASE m.no < Nxt
    BY <1>1, <1>2, <2>1
  <2>2. CASE \E s \in rcv_buf : s.no = m.no
    BY <1>2, <2>2 DEF Inv, ReceiverInv, IsHeap
  <2> QED  BY <1>1, <2>1, <2>2 DEF Held
<1>4. ASSUME NEW i \in 1..Len(snd_buf)
      PROVE  /\ _itimediff(m.una, snd_buf[i].sn) = m.age - (Una + i - 1)
             /\ snd_buf[i].sn = m.sn => snd_buf[i].no = m.no
  <2>1. PICK no \in Nat : no = snd_buf[i].no
    BY KeptIs DEF Kept
  <2>2. Len(snd_buf) \in Nat
    BY StateTypes DEF Inv
  <2>3. no = una + i - 1 /\ snd_buf[i].sn = Sn(no) /\ no < end /\ una <= no
    <3>1. /\ snd_buf[i].no = Una + i - 1
          /\ snd_buf[i].sn = Sn(snd_buf[i].no)
          /\ snd_buf[i].no < sent
      BY KeptIs
    <3> QED  BY <1>2, <2>1, <2>2, <3>1
  <2>4. PICK age \in Nat : age = m.age
    BY <1>1
  <2>5. age <= nxt /\ (end - age <= Lifetime \/ end - age <= Wnd) /\ age - m.no <= Lifetime
    BY <1>1, <1>2, <2>4
  <2>6. 2 * (age - no) < SnMod /\ -SnMod <= 2 * (age - no)
    BY <1>2, <2>3, <2>5, Constants
  <2>7. _itimediff(Sn(age), Sn(no)) = age - no
    BY <2>6, Diff
  <2>8. _itimediff(m.una, snd_buf[i].sn) = m.age - (Una + i - 1)
    BY <1>1, <1>2, <2>3, <2>4, <2>7
  <2>9. ASSUME snd_buf[i].sn = m.sn
        PROVE  no = m.no
    <3>1. PICK mno \in Nat : mno = m.no /\ mno < end /\ age - mno <= Lifetime
      BY <1>1, <1>3, <2>5
    <3>2. no - mno < SnMod /\ mno - no < SnMod
      <4>1. no - mno < SnMod
        BY <1>2, <2>3, <2>5, <3>1, Constants, SMTT(30)
      <4>2. mno - no < SnMod
        BY <1>2, <2>3, <2>5, <3>1, Constants, SMTT(30)
      <4> QED  BY <4>1, <4>2
    <3>3. no \in Int /\ mno \in Int /\ Sn(no) = Sn(mno)
      BY <1>1, <2>3, <2>9, <3>1
    <3> QED  BY <3>1, <3>2, <3>3, SnSame
  <2> QED  BY <2>1, <2>8, <2>9
<1> QED  BY <1>1, <1>4

\* parse_una frees the first k segments, and the receiver is past them.
LEMMA FreedIs ==
  ASSUME Inv, NEW m \in net, m.cmd = "ACK"
  PROVE  \E k \in 0..Len(snd_buf) :
           /\ parse_una(m.una, snd_buf) = SubSeq(snd_buf, k + 1, Len(snd_buf))
           /\ Una + k <= Nxt
<1> DEFINE ks == PassedBy(m.una, snd_buf)
<1>1. Len(snd_buf) \in Nat /\ Una \in Nat /\ Nxt \in Nat /\ Una <= Nxt
  BY StateTypes DEF Inv
<1>2. ks \subseteq 0..Len(snd_buf) /\ 0 \in ks
  BY <1>1 DEF PassedBy
<1>3. PICK k : k = Greatest(ks)
  OBVIOUS
<1>4. k \in ks
  <2>1. PICK b \in Nat : b = Len(snd_buf)
    BY <1>1
  <2>2. ks \subseteq 0..b /\ ks # {}
    BY <1>2, <2>1
  <2> QED  BY <1>3, <2>2, GreatestIs
<1>5. parse_una(m.una, snd_buf) = SubSeq(snd_buf, k + 1, Len(snd_buf))
  BY <1>3 DEF parse_una, Greatest
<1>6. k \in 0..Len(snd_buf) /\ k \in Nat /\ \A i \in 1..k : _itimediff(m.una, snd_buf[i].sn) > 0
  BY <1>1, <1>4 DEF PassedBy
<1>7. Una + k <= Nxt
  <2>1. CASE k = 0
    BY <1>1, <2>1
  <2>2. CASE k # 0
    <3>1. k \in 1..k /\ k \in 1..Len(snd_buf)
      BY <1>1, <1>6, <2>2
    <3>2. _itimediff(m.una, snd_buf[k].sn) = m.age - (Una + k - 1) /\ m.age \in Nat /\ m.age <= Nxt
      BY <3>1, AckIs
    <3>3. m.age - (Una + k - 1) > 0
      BY <1>6, <3>1, <3>2
    <3> QED  BY <1>1, <1>6, <3>2, <3>3
  <2> QED  BY <2>1, <2>2
<1> QED  BY <1>5, <1>6, <1>7

\* parse_ack marks at most the segment the acknowledgement is for.
LEMMA MarkedIs ==
  ASSUME NEW buf \in Seq(Kept), NEW sn, NEW una
  PROVE  /\ parse_ack(sn, una, buf) \in Seq(Kept) /\ Len(parse_ack(sn, una, buf)) = Len(buf)
         /\ \A i \in 1..Len(buf) :
              /\ parse_ack(sn, una, buf)[i].no = buf[i].no
              /\ parse_ack(sn, una, buf)[i].sn = buf[i].sn
              /\ parse_ack(sn, una, buf)[i].acked => buf[i].acked \/ buf[i].sn = sn
<1> DEFINE f == [i \in DOMAIN buf |-> IF buf[i].sn = sn THEN [buf[i] EXCEPT !.acked = TRUE]
                                      ELSE buf[i]]
<1>1. DOMAIN buf = 1..Len(buf) /\ Len(buf) \in Nat /\ \A i \in 1..Len(buf) : buf[i] \in Kept
  BY ElementOfSeq
<1>2. \A i \in 1..Len(buf) :
        /\ f[i] \in Kept /\ f[i].no = buf[i].no /\ f[i].sn = buf[i].sn
        /\ f[i].acked => buf[i].acked \/ buf[i].sn = sn
  <2> TAKE i \in 1..Len(buf)
  <2>1. CASE buf[i].sn = sn
    <3>1. f[i] = [buf[i] EXCEPT !.acked = TRUE]
      BY <1>1, <2>1
    <3>2. buf[i] \in Kept
      BY <1>1
    <3> QED  BY <2>1, <3>1, <3>2 DEF Kept
  <2>2. CASE buf[i].sn # sn
    <3>1. f[i] = buf[i]
      BY <1>1, <2>2
    <3> QED  BY <1>1, <3>1
  <2> QED  BY <2>1, <2>2
<1>3. f \in Seq(Kept) /\ Len(f) = Len(buf)
  <2>1. f \in [1..Len(buf) -> Kept]
    BY <1>1, <1>2
  <2> QED  BY <1>1, <2>1
<1>4. parse_ack(sn, una, buf) = buf \/ parse_ack(sn, una, buf) = f
  BY DEF parse_ack
<1> HIDE DEF f
<1>5. CASE parse_ack(sn, una, buf) = f
  BY <1>2, <1>3, <1>5
<1>6. CASE parse_ack(sn, una, buf) = buf
  BY <1>6
<1> QED  BY <1>4, <1>5, <1>6

\* Input of an ACK, however old, keeps the invariant.
LEMMA InputAckInv ==
  ASSUME Inv, NEW m \in net, InputAck(m)
  PROVE  Inv'
<1>1. PICK b : b = parse_una(m.una, snd_buf)
  OBVIOUS
<1>2. /\ m.cmd = "ACK" /\ snd_una' = shrink_buf(b) /\ snd_buf' = parse_ack(m.sn, snd_una', b)
      /\ net' \subseteq net
      /\ UNCHANGED <<snd_nxt, rcv_nxt, rcv_buf, rcv_queue, sent, moved>>
  BY <1>1 DEF InputAck
<1>3. PICK una \in Nat, nxt \in Nat, end \in Nat, len \in Nat :
        /\ una = Una /\ nxt = Nxt /\ end = sent /\ len = Len(snd_buf)
        /\ una <= nxt /\ nxt <= end /\ end = una + len /\ len <= Wnd
  <2>1. /\ Una \in Nat /\ Nxt \in Nat /\ sent \in Nat /\ Len(snd_buf) \in Nat
        /\ Una <= Nxt /\ Nxt <= sent /\ sent = Una + Len(snd_buf)
    BY StateTypes DEF Inv
  <2>2. Len(snd_buf) <= Wnd
    BY DEF Inv, TypeOK
  <2> QED  BY <2>1, <2>2
<1>4. PICK k \in 0..len : b = SubSeq(snd_buf, k + 1, len) /\ una + k <= nxt
  BY <1>1, <1>2, <1>3, FreedIs
<1>5. snd_buf \in Seq(Kept)
  BY DEF Inv, TypeOK, Kept
<1>6. b \in Seq(Kept) /\ Len(b) = len - k /\ \A i \in 1..(len - k) : b[i] = snd_buf[k + i]
  <2>1. k + 1 \in 1..(len + 1) /\ len \in k..len
    OBVIOUS
  <2>2. b \in Seq(Kept)
    BY <1>3, <1>4, <1>5, <2>1
  <2>3. Len(b) = len - k
    BY <1>3, <1>4, <1>5, <2>1
  <2>4. \A i \in 1..(len - k) : b[i] = snd_buf[k + i]
    BY <1>3, <1>4, <1>5, <2>1
  <2> QED  BY <2>2, <2>3, <2>4
<1>7. \A i \in 1..(len - k) : /\ b[i].no = (una + k) + i - 1 /\ b[i].sn = Sn(b[i].no)
                              /\ b[i].no \in Nat
                              /\ b[i].acked => Held(b[i].no)
                              /\ b[i].sn = m.sn => b[i].no = m.no
  <2> TAKE i \in 1..(len - k)
  <2>1. PICK j \in 1..Len(snd_buf) : j = k + i
    BY <1>3
  <2>2. b[i] = snd_buf[j]
    BY <1>6, <2>1
  <2>3. /\ snd_buf[j].no = Una + j - 1 /\ snd_buf[j].sn = Sn(snd_buf[j].no)
        /\ snd_buf[j] \in Kept
    BY KeptIs
  <2>4. snd_buf[j].acked => Held(snd_buf[j].no)
    <3>1. j \in DOMAIN snd_buf
      BY <1>5
    <3> QED  BY <3>1 DEF Inv, FreedWereReceived, Held, Nxt
  <2>5. snd_buf[j].sn = m.sn => snd_buf[j].no = m.no
    BY <1>2, AckIs
  <2>6. Una + j - 1 = (una + k) + i - 1
    BY <1>3, <2>1
  <2> QED  BY <2>2, <2>3, <2>4, <2>5, <2>6 DEF Kept
<1>8. /\ snd_buf' \in Seq(Kept) /\ Len(snd_buf') = len - k
      /\ \A i \in 1..(len - k) :
              /\ snd_buf'[i].no = b[i].no
              /\ snd_buf'[i].sn = b[i].sn
              /\ snd_buf'[i].acked => b[i].acked \/ b[i].sn = m.sn
  <2>1. PICK u : u = snd_una'
    OBVIOUS
  <2>2. snd_buf' = parse_ack(m.sn, u, b)
    BY <1>2, <2>1
  <2>3. /\ parse_ack(m.sn, u, b) \in Seq(Kept) /\ Len(parse_ack(m.sn, u, b)) = Len(b)
        /\ \A i \in 1..Len(b) :
              /\ parse_ack(m.sn, u, b)[i].no = b[i].no
              /\ parse_ack(m.sn, u, b)[i].sn = b[i].sn
              /\ parse_ack(m.sn, u, b)[i].acked => b[i].acked \/ b[i].sn = m.sn
    BY <1>6, MarkedIs
  <2> QED  BY <1>6, <2>2, <2>3
<1>9. sent' = end /\ Una' = una + k /\ Nxt' = nxt
  BY <1>2, <1>3, <1>8 DEF Una, Nxt
<1>10. snd_una' = Sn(una + k)
  <2>1. CASE b = <<>>
    <3>1. Len(b) = 0
      BY <2>1
    <3>2. una + k = end
      <4>1. end = una + len /\ len - k = 0 /\ k \in Int
        BY <1>3, <1>6, <3>1
      <4> QED  BY <4>1
    <3>3. snd_nxt = Sn(end)
      BY <1>3 DEF Inv, SenderInv
    <3> QED  BY <1>2, <2>1, <3>2, <3>3 DEF shrink_buf
  <2>2. CASE b # <<>>
    <3>1. 1 \in 1..(len - k)
      BY <1>6, <2>2
    <3>2. b[1].sn = Sn(una + k)
      <4>1. b[1].no = (una + k) + 1 - 1 /\ b[1].sn = Sn(b[1].no)
        BY <1>7, <3>1
      <4>2. (una + k) + 1 - 1 = una + k
        OBVIOUS
      <4> QED  BY <4>1, <4>2
    <3> QED  BY <1>2, <2>2, <3>2 DEF shrink_buf
  <2> QED  BY <2>1, <2>2
<1>11. SenderInv'
  <2>1. \A i \in 1..(len - k) : /\ snd_buf'[i].no = (una + k) + i - 1
                                /\ snd_buf'[i].sn = Sn(snd_buf'[i].no)
    BY <1>7, <1>8
  <2>2. snd_nxt' = Sn(sent')
    BY <1>2 DEF Inv, SenderInv
  <2>3. sent' \in Nat /\ Len(snd_buf') <= sent'
    BY <1>3, <1>8, <1>9
  <2> QED  BY <1>8, <1>9, <1>10, <2>1, <2>2, <2>3 DEF SenderInv
<1>12. TypeOK'
  <2>1. Sn(una + k) \in Numbers
    BY SnType
  <2>2. Len(snd_buf') <= Wnd
    BY <1>3, <1>8, Constants
  <2> QED  BY <1>2, <1>8, <1>10, <2>1, <2>2 DEF Inv, TypeOK, Kept
<1>13. ReceiverInv'
  <2>1. IsHeap(rcv_buf, nxt, end) /\ rcv_nxt = Sn(nxt)
    BY <1>3 DEF Inv, ReceiverInv
  <2> QED  BY <1>2, <1>3, <1>4, <1>9, <2>1 DEF ReceiverInv
<1>14. MovedInOrder' /\ NextIsNotHeldBack'
  BY <1>2 DEF Inv, MovedInOrder, NextIsNotHeldBack
<1>15. FreedWereReceived'
  <2>1. sent' - Len(snd_buf') <= Len(moved')
    BY <1>13 DEF ReceiverInv, Una, Nxt
  <2>2. DOMAIN snd_buf' = 1..(len - k)
    BY <1>8
  <2>3. ASSUME NEW i \in 1..(len - k), snd_buf'[i].acked
        PROVE  Held(b[i].no)
    <3>1. b[i].acked \/ b[i].sn = m.sn
      BY <1>8, <2>3
    <3>2. CASE b[i].acked
      BY <1>7, <3>2
    <3>3. CASE b[i].sn = m.sn
      <4>1. b[i].no = m.no
        BY <1>7, <3>3
      <4>2. Held(m.no)
        BY <1>2, AckIs
      <4> QED  BY <4>1, <4>2
    <3> QED  BY <3>1, <3>2, <3>3
  <2>4. ASSUME NEW i \in 1..(len - k), snd_buf'[i].acked
        PROVE  \/ snd_buf'[i].no < Len(moved')
               \/ \E t \in rcv_buf' : t.no = snd_buf'[i].no
    BY <1>2, <1>8, <2>3, <2>4 DEF Held, Nxt
  <2> QED  BY <2>1, <2>2, <2>4 DEF FreedWereReceived
<1>16. NetInv'
  <2>1. sent' \in Nat /\ sent <= sent' /\ sent' = sent
    BY <1>2 DEF Inv, SenderInv
  <2>2. \A d \in net : DatagramInv(d)'
    BY <1>2, <2>1, NetKept
  <2> QED  BY <1>2, <2>2 DEF NetInv
<1> QED  BY <1>11, <1>12, <1>13, <1>14, <1>15, <1>16 DEF Inv

----------------------------------------------------------------------------
(* Theorems *)

\* The initial state satisfies the invariant.
LEMMA InitInv == Init => Inv
<1> SUFFICES ASSUME Init PROVE Inv
  OBVIOUS
<1>1. /\ snd_una = 0 /\ snd_nxt = 0 /\ snd_buf = <<>>
      /\ rcv_nxt = 0 /\ rcv_buf = {} /\ rcv_queue = <<>>
      /\ net = {} /\ sent = 0 /\ moved = <<>>
  BY DEF Init
<1>2. 0 \in Numbers /\ Sn(0) = 0
  <2>1. 0 \in Numbers /\ SnMod \in Nat \ {0}
    BY Constants DEF Numbers
  <2>2. 0 = SnMod * 0 + 0
    BY <2>1
  <2> QED  BY <2>1, <2>2, SnIs
<1>3. Len(snd_buf) = 0 /\ Len(moved) = 0 /\ Len(rcv_queue) = 0
  BY <1>1
<1>4. Una = 0 /\ Nxt = 0
  <2>1. Una = 0 - 0 /\ Nxt = 0
    BY <1>1, <1>3 DEF Una, Nxt
  <2> QED  BY <2>1
<1>5. TypeOK
  BY <1>1, <1>2, Constants DEF TypeOK
<1>6. SenderInv
  BY <1>1, <1>2, <1>3, <1>4 DEF SenderInv
<1>7. ReceiverInv
  <2>1. IsHeap(rcv_buf, Nxt, sent)
    BY <1>1, FS_EmptySet DEF IsHeap
  <2> QED  BY <1>1, <1>2, <1>4, <2>1 DEF ReceiverInv
<1>8. NetInv /\ NextIsNotHeldBack
  BY <1>1 DEF NetInv, NextIsNotHeldBack, Has
<1>9. MovedInOrder
  BY <1>3 DEF MovedInOrder
<1>10. FreedWereReceived
  BY <1>1, <1>3 DEF FreedWereReceived
<1> QED  BY <1>5, <1>6, <1>7, <1>8, <1>9, <1>10 DEF Inv

\* Every step keeps the invariant.
LEMMA NextInv == Inv /\ [Next]_vars => Inv'
<1> SUFFICES ASSUME Inv, [Next]_vars PROVE Inv'
  OBVIOUS
<1>1. CASE UNCHANGED vars
  <2>1. UNCHANGED <<snd_una, snd_nxt, snd_buf, rcv_nxt, rcv_buf, rcv_queue, sent, moved>>
    BY <1>1 DEF vars
  <2>2. sent' \in Nat /\ sent <= sent' /\ sent' = sent
    BY <2>1 DEF Inv, SenderInv
  <2>3. \A m \in net : DatagramInv(m)'
    BY <2>1, <2>2, NetKept
  <2>4. NetInv'
    BY <1>1, <2>3 DEF NetInv, vars
  <2> QED  BY <2>1, <2>4, NetStep
<1>2. CASE Slide
  BY <1>2, SlideInv
<1>3. CASE Retransmit
  BY <1>3, RetransmitInv
<1>4. CASE Recv
  BY <1>4, RecvInv
<1>5. CASE Lose
  BY <1>5, LoseInv
<1>6. ASSUME NEW m \in net, InputAck(m)
      PROVE  Inv'
  BY <1>6, InputAckInv
<1>7. ASSUME NEW m \in net, InputPush(m)
      PROVE  Inv'
  BY <1>7, InputPushInv
<1> QED  BY <1>1, <1>2, <1>3, <1>4, <1>5, <1>6, <1>7 DEF Next

\* The invariant holds throughout.
LEMMA InvHolds == Spec => []Inv
BY InitInv, NextInv, PTL DEF Spec

\* Type correctness: every number stays a uint32, and neither snd_buf nor
\* rcv_queue outgrows the window.
THEOREM NumbersTypeCorrect == Spec => []TypeOK
<1>1. Inv => TypeOK
  BY DEF Inv
<1> QED  BY <1>1, InvHolds, PTL

\* Though the numbers wrap, parse_data and Recv move the segments to rcv_queue
\* in the order flush numbered them, none twice and none skipped.
THEOREM StreamNeverWraps == Spec => []MovedInOrder
<1>1. Inv => MovedInOrder
  BY DEF Inv
<1> QED  BY <1>1, InvHolds, PTL

\* No una and no ACK, however late it comes, makes parse_una or parse_ack free
\* or mark a segment that the receiver does not have.
THEOREM OldAcksFreeNothing == Spec => []FreedWereReceived
<1>1. Inv => FreedWereReceived
  BY DEF Inv
<1> QED  BY <1>1, InvHolds, PTL

\* The segment parse_data waits for never stays in rcv_buf while rcv_queue has
\* room: the heap pops it first, also when its number is the smaller one of
\* the next round.
THEOREM HeapOrdersTheWrap == Spec => []NextIsNotHeldBack
<1>1. Inv => NextIsNotHeldBack
  BY DEF Inv
<1> QED  BY <1>1, InvHolds, PTL

\* The invariant places the oldest segment in the receiver's window, or before
\* it.
LEMMA Understood == Inv => OldestIsUnderstood
<1> SUFFICES ASSUME Inv, snd_buf # <<>>
             PROVE  IF snd_buf[1].no < Len(moved) THEN _itimediff(rcv_nxt, snd_buf[1].sn) > 0
                    ELSE InWindow(snd_buf[1].sn) /\ NotBefore(snd_buf[1].sn)
  BY DEF OldestIsUnderstood
<1>1. PICK una \in Nat, nxt \in Nat, end \in Nat :
        /\ una = Una /\ nxt = Nxt /\ end = sent
        /\ una <= nxt /\ nxt <= end /\ end <= una + Wnd
  BY StateTypes DEF Inv
<1>2. 1 \in 1..Len(snd_buf)
  BY DEF Inv, TypeOK
<1>3. snd_buf[1].no = una /\ snd_buf[1].sn = Sn(una)
  <2>1. snd_buf[1].no = Una + 1 - 1 /\ snd_buf[1].sn = Sn(snd_buf[1].no)
    BY <1>2, KeptIs
  <2> QED  BY <1>1, <2>1
<1>4. rcv_nxt = Sn(nxt) /\ Len(moved) = nxt
  BY <1>1 DEF Inv, ReceiverInv, Nxt
<1>5. CASE una < nxt
  <2>1. 2 * (nxt - una) < SnMod /\ -SnMod <= 2 * (nxt - una)
    BY <1>1, Constants
  <2>2. _itimediff(Sn(nxt), Sn(una)) = nxt - una
    BY <2>1, Diff
  <2> QED  BY <1>3, <1>4, <1>5, <2>2
<1>6. CASE una = nxt
  <2>1. Wnd \in Nat \ {0} /\ 2 * Wnd < SnMod /\ SnMod \in Nat
    BY Constants
  <2>2. _itimediff(Sn(una), Sn(nxt)) = 0
    <3>1. 2 * (una - nxt) < SnMod /\ -SnMod <= 2 * (una - nxt)
      BY <1>6, <2>1
    <3>2. _itimediff(Sn(una), Sn(nxt)) = una - nxt
      BY <3>1, Diff
    <3> QED  BY <1>6, <3>2
  <2>3. _itimediff(Sn(una), Sn(rcv_nxt + Wnd)) = -Wnd
    <3>1. PICK w \in Int : w = nxt + Wnd
      BY <2>1
    <3>2. Sn(rcv_nxt + Wnd) = Sn(w)
      BY <1>4, <2>1, <3>1, SnAdd
    <3>3. 2 * (una - w) < SnMod /\ -SnMod <= 2 * (una - w)
      BY <1>6, <2>1, <3>1
    <3>4. _itimediff(Sn(una), Sn(w)) = una - w
      BY <3>3, Diff
    <3> QED  BY <1>6, <2>1, <3>1, <3>2, <3>4
  <2>4. InWindow(Sn(una)) /\ NotBefore(Sn(una))
    BY <1>4, <2>1, <2>2, <2>3 DEF InWindow, NotBefore
  <2> QED  BY <1>3, <1>4, <1>6, <2>4
<1> QED  BY <1>1, <1>5, <1>6

\* The oldest segment in snd_buf is always one the receiver's two tests accept
\* or its una is past: the wrap never makes both ends wait for each other.
THEOREM OldestStaysUnderstood == Spec => []OldestIsUnderstood
BY Understood, InvHolds, PTL
=============================================================================
