---------------------------- MODULE PoolProofs ----------------------------
(***************************************************************************)
(* Pool[T] implements ItemPool, for any goroutines, items and pointers.    *)
(***************************************************************************)
EXTENDS Pool, TLAPS

----------------------------------------------------------------------------
(* The invariant. *)

\* What a goroutine's variables mean at each step of Get and Put.
AtStep(g) ==
  /\ pc[g] = "idle" => ptr[g] = Nil /\ item[g] = Zero
  /\ pc[g] # "idle" => ptr[g] \in Pointer
  /\ pc[g] = "read" => mem[ptr[g]] \in Item /\ item[g] = Zero
  /\ pc[g] \in {"clear", "release", "store", "return"} => item[g] \in Item
  /\ pc[g] \in {"clear", "return"} => mem[ptr[g]] = item[g]
  /\ pc[g] \in {"release", "store"} => mem[ptr[g]] = Zero

Own(g) == held[g] \cup InHand(g)

\* An item is in one place at a time: behind one pointer of items, or with one
\* goroutine, and there either its caller's or in the hands of Get or Put.
OneOwner ==
  /\ \A p \in items : mem[p] \in Item
  /\ \A p, q \in items : mem[p] = mem[q] => p = q
  /\ \A p \in items, g \in Procs : mem[p] \notin Own(g)
  /\ \A g, h \in Procs : g # h => Own(g) \cap Own(h) = {}

HandIsApart == \A g \in Procs : held[g] \cap InHand(g) = {}

PoolInv ==
  /\ TypeOK
  /\ PointersAreSpare
  /\ \A g \in Procs : AtStep(g)
  /\ OneOwner
  /\ HandIsApart

\* What is in hand at each step.
LEMMA InHandIs ==
  ASSUME NEW g \in Procs
  PROVE  /\ pc[g] = "idle" => InHand(g) = {}
         /\ pc[g] = "read" => InHand(g) = {mem[ptr[g]]}
         /\ pc[g] \in {"clear", "release", "store", "return"} => InHand(g) = {item[g]}
  BY DEF InHand

\* The same after a step.
LEMMA InHandIsPrime ==
  ASSUME NEW g \in Procs
  PROVE  /\ pc'[g] = "idle" => InHand(g)' = {}
         /\ pc'[g] = "read" => InHand(g)' = {mem'[ptr'[g]]}
         /\ pc'[g] \in {"clear", "release", "store", "return"} => InHand(g)' = {item'[g]}
  BY DEF InHand

\* A step of one goroutine leaves the others' hands alone, if it writes only
\* to its own pointer.
LEMMA OthersHands ==
  ASSUME PoolInv, NEW g \in Procs, NEW q,
         \A h \in Procs \ {g} :
           pc'[h] = pc[h] /\ ptr'[h] = ptr[h] /\ item'[h] = item[h] /\ held'[h] = held[h],
         \A h \in Busy \ {g} : ptr[h] # q,
         \A p \in Pointer \ {q} : mem'[p] = mem[p]
  PROVE  /\ \A h \in Procs \ {g} : InHand(h)' = InHand(h)
         /\ \A h \in Procs \ {g} : Own(h)' = Own(h)
         /\ \A h \in Procs \ {g} : AtStep(h)'
<1> SUFFICES ASSUME NEW h \in Procs, h # g
             PROVE  InHand(h)' = InHand(h) /\ Own(h)' = Own(h) /\ AtStep(h)'
  OBVIOUS
<1>1. pc'[h] = pc[h] /\ ptr'[h] = ptr[h] /\ item'[h] = item[h] /\ held'[h] = held[h]
  OBVIOUS
<1>2. pc[h] \in {"idle", "read", "clear", "release", "store", "return"}
  BY DEF PoolInv, TypeOK
<1>3. AtStep(h)
  BY DEF PoolInv
<1>4. pc[h] # "idle" => mem'[ptr[h]] = mem[ptr[h]]
  BY <1>3 DEF AtStep, Busy
<1>5. AtStep(h)'
  BY <1>1, <1>3, <1>4 DEF AtStep
<1>6. InHand(h)' = InHand(h)
  BY <1>1, <1>2, <1>4, InHandIs, InHandIsPrime
<1> QED  BY <1>1, <1>5, <1>6 DEF Own

\* A step that moves no item between pool and goroutines is no step of the
\* promise.
LEMMA StutterStep ==
  ASSUME PoolInv, items' = items, \A p \in items : mem'[p] = mem[p],
         \A g \in Procs : Own(g)' = Own(g)
  PROVE  OneOwner' /\ UNCHANGED <<{mem[p] : p \in items},
                                  [g \in Procs |-> held[g] \cup InHand(g)]>>
<1>1. OneOwner'
  BY DEF PoolInv, OneOwner
<1>2. {mem'[p] : p \in items'} = {mem[p] : p \in items}
  OBVIOUS
<1>3. [g \in Procs |-> held'[g] \cup InHand(g)'] = [g \in Procs |-> held[g] \cup InHand(g)]
  BY DEF Own
<1> QED  BY <1>1, <1>2, <1>3

----------------------------------------------------------------------------
(* One lemma per action. *)

PromiseStep == [Promise!Next]_<<{mem[p] : p \in items},
                                [g \in Procs |-> held[g] \cup InHand(g)]>>

\* A step of ItemPool is what the promise allows.
LEMMA PutIsPromised ==
  ASSUME NEW g \in Procs, NEW y \in Item, Promise!Put(g, y)
  PROVE  PromiseStep
<1>1. Promise!Next
  BY DEF Promise!Next
<1> QED  BY <1>1 DEF PromiseStep

LEMMA DropIsPromised ==
  ASSUME NEW y \in Item, Promise!Drop(y)
  PROVE  PromiseStep
<1>1. Promise!Next
  BY DEF Promise!Next
<1> QED  BY <1>1 DEF PromiseStep

LEMMA ReadStep ==
  ASSUME PoolInv, NEW g \in Procs, Read(g)
  PROVE  PoolInv' /\ PromiseStep
<1>1. /\ pc[g] = "read" /\ pc' = [pc EXCEPT ![g] = "clear"]
      /\ item' = [item EXCEPT ![g] = mem[ptr[g]]]
      /\ UNCHANGED <<items, pointers, mem, ptr, held>>
  BY DEF Read
<1>2. TypeOK /\ AtStep(g) /\ PointersAreSpare /\ HandIsApart
  BY DEF PoolInv
<1>3. pc'[g] = "clear" /\ item'[g] = mem[ptr[g]] /\ mem[ptr[g]] \in Item
      /\ \A h \in Procs \ {g} : pc'[h] = pc[h] /\ item'[h] = item[h]
  BY <1>1, <1>2 DEF TypeOK, AtStep
<1>4. TypeOK'
  BY <1>1, <1>2, <1>3 DEF TypeOK
<1>5. Busy' = Busy
  BY <1>1, <1>3 DEF Busy
<1>6. PointersAreSpare'
  BY <1>1, <1>2, <1>5 DEF PointersAreSpare
<1>7. /\ \A h \in Procs \ {g} : InHand(h)' = InHand(h)
      /\ \A h \in Procs \ {g} : Own(h)' = Own(h)
      /\ \A h \in Procs \ {g} : AtStep(h)'
  <2>1. \A h \in Procs \ {g} :
          pc'[h] = pc[h] /\ ptr'[h] = ptr[h] /\ item'[h] = item[h] /\ held'[h] = held[h]
    BY <1>1, <1>3
  <2>2. \A p \in Pointer \ {ptr[g]} : mem'[p] = mem[p]
    BY <1>1
  <2>3. \A h \in Busy \ {g} : ptr[h] # ptr[g]
    BY <1>1, <1>2 DEF PointersAreSpare, Busy
  <2> QED  BY <2>1, <2>2, <2>3, OthersHands
<1>8. AtStep(g)'
  BY <1>1, <1>2, <1>3 DEF AtStep
<1>9. InHand(g)' = InHand(g)
  BY <1>1, <1>3, InHandIs, InHandIsPrime
<1>10. \A h \in Procs : Own(h)' = Own(h)
  BY <1>1, <1>7, <1>9 DEF Own
<1>11. HandIsApart'
  BY <1>1, <1>2, <1>7, <1>9 DEF HandIsApart
<1> QED
  BY <1>1, <1>4, <1>6, <1>7, <1>8, <1>10, <1>11, StutterStep DEF PoolInv, PromiseStep

LEMMA ClearStep ==
  ASSUME PoolInv, NEW g \in Procs, Clear(g)
  PROVE  PoolInv' /\ PromiseStep
<1>1. /\ pc[g] = "clear" /\ pc' = [pc EXCEPT ![g] = "release"]
      /\ mem' = [mem EXCEPT ![ptr[g]] = Zero]
      /\ UNCHANGED <<items, pointers, ptr, item, held>>
  BY DEF Clear
<1>2. TypeOK /\ AtStep(g) /\ PointersAreSpare /\ HandIsApart
  BY DEF PoolInv
<1>3. /\ pc'[g] = "release" /\ ptr[g] \in Pointer /\ mem'[ptr[g]] = Zero
      /\ \A h \in Procs \ {g} : pc'[h] = pc[h]
      /\ \A p \in Pointer \ {ptr[g]} : mem'[p] = mem[p]
  BY <1>1, <1>2 DEF TypeOK, AtStep
<1>4. TypeOK'
  BY <1>1, <1>2, <1>3 DEF TypeOK
<1>5. Busy' = Busy /\ g \in Busy
  BY <1>1, <1>3 DEF Busy
<1>6. ptr[g] \notin items \cup pointers /\ \A h \in Busy \ {g} : ptr[h] # ptr[g]
  BY <1>2, <1>5 DEF PointersAreSpare
<1>7. \A p \in items \cup pointers : mem'[p] = mem[p]
  BY <1>2, <1>3, <1>6 DEF TypeOK
<1>8. PointersAreSpare'
  BY <1>1, <1>2, <1>5, <1>7 DEF PointersAreSpare
<1>9. /\ \A h \in Procs \ {g} : InHand(h)' = InHand(h)
      /\ \A h \in Procs \ {g} : Own(h)' = Own(h)
      /\ \A h \in Procs \ {g} : AtStep(h)'
  <2>1. \A h \in Procs \ {g} :
          pc'[h] = pc[h] /\ ptr'[h] = ptr[h] /\ item'[h] = item[h] /\ held'[h] = held[h]
    BY <1>1, <1>3
  <2> QED  BY <1>3, <1>6, <2>1, OthersHands
<1>10. AtStep(g)'
  BY <1>1, <1>2, <1>3 DEF AtStep
<1>11. InHand(g)' = InHand(g)
  BY <1>1, <1>3, InHandIs, InHandIsPrime
<1>12. \A h \in Procs : Own(h)' = Own(h)
  BY <1>1, <1>9, <1>11 DEF Own
<1>13. HandIsApart'
  BY <1>1, <1>2, <1>9, <1>11 DEF HandIsApart
<1> QED
  BY <1>1, <1>4, <1>7, <1>8, <1>9, <1>10, <1>12, <1>13, StutterStep
  DEF PoolInv, PromiseStep

LEMMA ReleaseStep ==
  ASSUME PoolInv, NEW g \in Procs, Release(g)
  PROVE  PoolInv' /\ PromiseStep
<1>1. /\ pc[g] = "release" /\ pc' = [pc EXCEPT ![g] = "idle"]
      /\ pointers' = pointers \cup {ptr[g]}
      /\ held' = [held EXCEPT ![g] = @ \cup {item[g]}]
      /\ ptr' = [ptr EXCEPT ![g] = Nil] /\ item' = [item EXCEPT ![g] = Zero]
      /\ UNCHANGED <<items, mem>>
  BY DEF Release, Leave
<1>2. TypeOK /\ AtStep(g) /\ PointersAreSpare /\ HandIsApart
  BY DEF PoolInv
<1>3. /\ pc'[g] = "idle" /\ ptr'[g] = Nil /\ item'[g] = Zero
      /\ held'[g] = held[g] \cup {item[g]}
      /\ ptr[g] \in Pointer /\ mem[ptr[g]] = Zero /\ item[g] \in Item
      /\ \A h \in Procs \ {g} :
           pc'[h] = pc[h] /\ ptr'[h] = ptr[h] /\ item'[h] = item[h] /\ held'[h] = held[h]
  BY <1>1, <1>2 DEF TypeOK, AtStep
<1>4. TypeOK'
  BY <1>1, <1>2, <1>3 DEF TypeOK
<1>5. Busy' = Busy \ {g} /\ g \in Busy
  BY <1>1, <1>3 DEF Busy
<1>6. ptr[g] \notin items \cup pointers /\ \A h \in Busy \ {g} : ptr[h] # ptr[g]
  BY <1>2, <1>5 DEF PointersAreSpare
<1>7. PointersAreSpare'
  <2>1. \A h \in Busy' : h \in Busy /\ h # g /\ ptr'[h] = ptr[h]
    BY <1>3, <1>5 DEF Busy
  <2>2. \A p \in pointers' : mem'[p] = Zero
    BY <1>1, <1>2, <1>3 DEF PointersAreSpare
  <2>3. items' \cap pointers' = {}
    BY <1>1, <1>2, <1>6 DEF PointersAreSpare
  <2>4. \A h \in Busy' : /\ ptr'[h] \notin items' \cup pointers'
                        /\ \A k \in Busy' \ {h} : ptr'[k] # ptr'[h]
    BY <1>1, <1>2, <1>6, <2>1 DEF PointersAreSpare
  <2> QED  BY <2>2, <2>3, <2>4 DEF PointersAreSpare
<1>8. /\ \A h \in Procs \ {g} : InHand(h)' = InHand(h)
      /\ \A h \in Procs \ {g} : Own(h)' = Own(h)
      /\ \A h \in Procs \ {g} : AtStep(h)'
  <2>1. \A p \in Pointer \ {ptr[g]} : mem'[p] = mem[p]
    BY <1>1
  <2> QED  BY <1>3, <1>6, <2>1, OthersHands
<1>9. AtStep(g)'
  BY <1>3 DEF AtStep
<1>10. InHand(g) = {item[g]} /\ InHand(g)' = {}
  BY <1>1, <1>3, InHandIs, InHandIsPrime
<1>11. \A h \in Procs : Own(h)' = Own(h)
  BY <1>3, <1>8, <1>10 DEF Own
<1>12. HandIsApart'
  BY <1>2, <1>3, <1>8, <1>10 DEF HandIsApart
<1> QED
  BY <1>1, <1>4, <1>7, <1>8, <1>9, <1>11, <1>12, StutterStep DEF PoolInv, PromiseStep

LEMMA StoreStep ==
  ASSUME PoolInv, NEW g \in Procs, Store(g)
  PROVE  PoolInv' /\ PromiseStep
<1>1. /\ pc[g] = "store" /\ pc' = [pc EXCEPT ![g] = "return"]
      /\ mem' = [mem EXCEPT ![ptr[g]] = item[g]]
      /\ UNCHANGED <<items, pointers, ptr, item, held>>
  BY DEF Store
<1>2. TypeOK /\ AtStep(g) /\ PointersAreSpare /\ HandIsApart
  BY DEF PoolInv
<1>3. /\ pc'[g] = "return" /\ ptr[g] \in Pointer /\ mem'[ptr[g]] = item[g]
      /\ item[g] \in Item
      /\ \A h \in Procs \ {g} : pc'[h] = pc[h]
      /\ \A p \in Pointer \ {ptr[g]} : mem'[p] = mem[p]
  BY <1>1, <1>2 DEF TypeOK, AtStep
<1>4. TypeOK'
  BY <1>1, <1>2, <1>3 DEF TypeOK
<1>5. Busy' = Busy /\ g \in Busy
  BY <1>1, <1>3 DEF Busy
<1>6. ptr[g] \notin items \cup pointers /\ \A h \in Busy \ {g} : ptr[h] # ptr[g]
  BY <1>2, <1>5 DEF PointersAreSpare
<1>7. \A p \in items \cup pointers : mem'[p] = mem[p]
  BY <1>2, <1>3, <1>6 DEF TypeOK
<1>8. PointersAreSpare'
  BY <1>1, <1>2, <1>5, <1>7 DEF PointersAreSpare
<1>9. /\ \A h \in Procs \ {g} : InHand(h)' = InHand(h)
      /\ \A h \in Procs \ {g} : Own(h)' = Own(h)
      /\ \A h \in Procs \ {g} : AtStep(h)'
  <2>1. \A h \in Procs \ {g} :
          pc'[h] = pc[h] /\ ptr'[h] = ptr[h] /\ item'[h] = item[h] /\ held'[h] = held[h]
    BY <1>1, <1>3
  <2> QED  BY <1>3, <1>6, <2>1, OthersHands
<1>10. AtStep(g)'
  BY <1>1, <1>2, <1>3 DEF AtStep
<1>11. InHand(g)' = InHand(g)
  BY <1>1, <1>3, InHandIs, InHandIsPrime
<1>12. \A h \in Procs : Own(h)' = Own(h)
  BY <1>1, <1>9, <1>11 DEF Own
<1>13. HandIsApart'
  BY <1>1, <1>2, <1>9, <1>11 DEF HandIsApart
<1> QED
  BY <1>1, <1>4, <1>7, <1>8, <1>9, <1>10, <1>12, <1>13, StutterStep
  DEF PoolInv, PromiseStep

\* pointers.Get, or a new pointer that nothing refers to.
LEMMA PutStep ==
  ASSUME PoolInv, NEW g \in Procs, NEW x \in Item, Put(g, x)
  PROVE  PoolInv' /\ PromiseStep
<1>1. /\ pc[g] = "idle" /\ x \in held[g]
      /\ pc' = [pc EXCEPT ![g] = "store"]
      /\ item' = [item EXCEPT ![g] = x]
      /\ held' = [held EXCEPT ![g] = @ \ {x}]
      /\ items' = items
  BY DEF Put
<1>2. TypeOK /\ AtStep(g) /\ PointersAreSpare /\ HandIsApart
  BY DEF PoolInv
<1>3. PICK p \in Pointer :
        /\ ptr' = [ptr EXCEPT ![g] = p]
        /\ p \notin items /\ \A h \in Busy : ptr[h] # p
        /\ pointers' = pointers \ {p}
        /\ mem'[p] = Zero /\ mem' \in [Pointer -> Item \cup {Zero}]
        /\ \A q \in Pointer \ {p} : mem'[q] = mem[q]
  <2>1. CASE \E p \in pointers : /\ ptr' = [ptr EXCEPT ![g] = p]
                                /\ pointers' = pointers \ {p}
                                /\ UNCHANGED mem
    <3>1. PICK p \in pointers : /\ ptr' = [ptr EXCEPT ![g] = p]
                                /\ pointers' = pointers \ {p}
                                /\ UNCHANGED mem
      BY <2>1
    <3>2. p \in Pointer /\ p \notin items /\ mem[p] = Zero /\ \A h \in Busy : ptr[h] # p
      BY <1>2 DEF PointersAreSpare, TypeOK
    <3> QED  BY <1>2, <3>1, <3>2 DEF TypeOK
  <2>2. CASE \E p \in Pointer \ LivePointers : /\ ptr' = [ptr EXCEPT ![g] = p]
                                              /\ mem' = [mem EXCEPT ![p] = Zero]
                                              /\ UNCHANGED pointers
    <3>1. PICK p \in Pointer \ LivePointers : /\ ptr' = [ptr EXCEPT ![g] = p]
                                              /\ mem' = [mem EXCEPT ![p] = Zero]
                                              /\ UNCHANGED pointers
      BY <2>2
    <3>2. p \notin items /\ p \notin pointers /\ \A h \in Busy : ptr[h] # p
      BY DEF LivePointers
    <3>3. pointers' = pointers \ {p}
      BY <3>1, <3>2
    <3> QED  BY <1>2, <3>1, <3>2, <3>3 DEF TypeOK
  <2> QED  BY <2>1, <2>2 DEF Put
<1>4. /\ pc'[g] = "store" /\ ptr'[g] = p /\ item'[g] = x /\ held'[g] = held[g] \ {x}
      /\ \A h \in Procs \ {g} :
           pc'[h] = pc[h] /\ ptr'[h] = ptr[h] /\ item'[h] = item[h] /\ held'[h] = held[h]
  BY <1>1, <1>2, <1>3 DEF TypeOK
<1>5. TypeOK'
  BY <1>1, <1>2, <1>3, <1>4 DEF TypeOK
<1>6. Busy' = Busy \cup {g} /\ g \notin Busy
  BY <1>1, <1>4 DEF Busy
<1>7. \A q \in items \cup pointers' : mem'[q] = mem[q]
  BY <1>2, <1>3 DEF TypeOK
<1>8. PointersAreSpare'
  <2>1. \A h \in Busy : h # g /\ ptr'[h] = ptr[h] /\ ptr[h] # p
    BY <1>3, <1>4, <1>6 DEF Busy
  <2>2. \A q \in pointers' : mem'[q] = Zero
    BY <1>2, <1>3, <1>7 DEF PointersAreSpare
  <2>3. items' \cap pointers' = {}
    BY <1>1, <1>2, <1>3 DEF PointersAreSpare
  <2>4. \A h \in Busy' : ptr'[h] \notin items' \cup pointers'
    BY <1>1, <1>2, <1>3, <1>4, <1>6, <2>1 DEF PointersAreSpare
  <2>5. \A h \in Busy' : \A k \in Busy' \ {h} : ptr'[k] # ptr'[h]
    BY <1>2, <1>4, <1>6, <2>1 DEF PointersAreSpare
  <2> QED  BY <2>2, <2>3, <2>4, <2>5 DEF PointersAreSpare
<1>9. /\ \A h \in Procs \ {g} : InHand(h)' = InHand(h)
      /\ \A h \in Procs \ {g} : Own(h)' = Own(h)
      /\ \A h \in Procs \ {g} : AtStep(h)'
  BY <1>3, <1>4, OthersHands
<1>10. AtStep(g)'
  BY <1>3, <1>4 DEF AtStep
<1>11. InHand(g) = {} /\ InHand(g)' = {x}
  BY <1>1, <1>4, InHandIs, InHandIsPrime
<1>12. \A h \in Procs : Own(h)' = Own(h)
  BY <1>1, <1>4, <1>9, <1>11 DEF Own
<1>13. HandIsApart'
  BY <1>2, <1>4, <1>9, <1>11 DEF HandIsApart
<1> QED
  BY <1>1, <1>5, <1>7, <1>8, <1>9, <1>10, <1>12, <1>13, StutterStep
  DEF PoolInv, PromiseStep

\* items.Get: a pooled item, or one that New made, that nobody owns.
LEMMA GetStep ==
  ASSUME PoolInv, NEW g \in Procs, Get(g)
  PROVE  PoolInv' /\ PromiseStep
<1>1. /\ pc[g] = "idle" /\ pc' = [pc EXCEPT ![g] = "read"]
      /\ UNCHANGED <<pointers, item, held>>
  BY DEF Get
<1>2. TypeOK /\ AtStep(g) /\ PointersAreSpare /\ HandIsApart /\ OneOwner
  BY DEF PoolInv
<1>3. PICK p \in Pointer, x \in Item :
        /\ ptr' = [ptr EXCEPT ![g] = p]
        /\ items' = items \ {p}
        /\ p \notin pointers /\ \A h \in Busy : ptr[h] # p
        /\ mem'[p] = x /\ mem' \in [Pointer -> Item \cup {Zero}]
        /\ \A q \in Pointer \ {p} : mem'[q] = mem[q]
        /\ \A q \in items \ {p} : mem[q] # x
        /\ \A h \in Procs : x \notin Own(h)
        /\ p \in items => mem[p] = x
  <2>1. CASE \E p \in items : /\ ptr' = [ptr EXCEPT ![g] = p]
                             /\ items' = items \ {p}
                             /\ UNCHANGED mem
    <3>1. PICK p \in items : /\ ptr' = [ptr EXCEPT ![g] = p]
                             /\ items' = items \ {p}
                             /\ UNCHANGED mem
      BY <2>1
    <3>2. p \in Pointer /\ p \notin pointers /\ \A h \in Busy : ptr[h] # p
      BY <1>2 DEF PointersAreSpare, TypeOK
    <3>3. /\ mem[p] \in Item /\ \A q \in items \ {p} : mem[q] # mem[p]
          /\ \A h \in Procs : mem[p] \notin Own(h)
      BY <1>2 DEF OneOwner
    <3> QED  BY <1>2, <3>1, <3>2, <3>3 DEF TypeOK
  <2>2. CASE \E p \in Pointer \ LivePointers, x \in Item \ LiveItems :
               /\ ptr' = [ptr EXCEPT ![g] = p]
               /\ mem' = [mem EXCEPT ![p] = x]
               /\ UNCHANGED items
    <3>1. PICK p \in Pointer \ LivePointers, x \in Item \ LiveItems :
               /\ ptr' = [ptr EXCEPT ![g] = p]
               /\ mem' = [mem EXCEPT ![p] = x]
               /\ UNCHANGED items
      BY <2>2
    <3>2. p \notin items /\ p \notin pointers /\ \A h \in Busy : ptr[h] # p
      BY DEF LivePointers
    <3>3. \A q \in items : mem[q] # x
      BY DEF LiveItems, LivePointers
    <3>4. ASSUME NEW h \in Procs PROVE x \notin Own(h)
      <4>1. x \notin held[h]
        BY DEF LiveItems
      <4>2. pc[h] # "idle" => x # item[h] /\ x # mem[ptr[h]]
        BY DEF LiveItems, LivePointers, Busy
      <4>3. pc[h] \in {"idle", "read", "clear", "release", "store", "return"}
        BY <1>2 DEF TypeOK
      <4>4. x \notin InHand(h)
        BY <4>2, <4>3, InHandIs
      <4> QED  BY <4>1, <4>4 DEF Own
    <3>5. items' = items \ {p}
      BY <3>1, <3>2
    <3> QED  BY <1>2, <3>1, <3>2, <3>3, <3>4, <3>5 DEF TypeOK
  <2> QED  BY <2>1, <2>2 DEF Get
<1>4. /\ pc'[g] = "read" /\ ptr'[g] = p /\ item'[g] = item[g] /\ held'[g] = held[g]
      /\ item[g] = Zero
      /\ \A h \in Procs \ {g} :
           pc'[h] = pc[h] /\ ptr'[h] = ptr[h] /\ item'[h] = item[h] /\ held'[h] = held[h]
  BY <1>1, <1>2, <1>3 DEF TypeOK, AtStep
<1>5. TypeOK'
  BY <1>1, <1>2, <1>3, <1>4 DEF TypeOK
<1>6. Busy' = Busy \cup {g} /\ g \notin Busy
  BY <1>1, <1>4 DEF Busy
<1>7. \A q \in items' \cup pointers : mem'[q] = mem[q]
  BY <1>2, <1>3 DEF TypeOK
<1>8. PointersAreSpare'
  <2>1. \A h \in Busy : h # g /\ ptr'[h] = ptr[h] /\ ptr[h] # p
    BY <1>3, <1>4, <1>6 DEF Busy
  <2>2. \A q \in pointers' : mem'[q] = Zero
    BY <1>1, <1>2, <1>7 DEF PointersAreSpare
  <2>3. items' \cap pointers' = {}
    BY <1>1, <1>2, <1>3 DEF PointersAreSpare
  <2>4. \A h \in Busy' : ptr'[h] \notin items' \cup pointers'
    BY <1>1, <1>2, <1>3, <1>4, <1>6, <2>1 DEF PointersAreSpare
  <2>5. \A h \in Busy' : \A k \in Busy' \ {h} : ptr'[k] # ptr'[h]
    BY <1>2, <1>4, <1>6, <2>1 DEF PointersAreSpare
  <2> QED  BY <2>2, <2>3, <2>4, <2>5 DEF PointersAreSpare
<1>9. /\ \A h \in Procs \ {g} : InHand(h)' = InHand(h)
      /\ \A h \in Procs \ {g} : Own(h)' = Own(h)
      /\ \A h \in Procs \ {g} : AtStep(h)'
  BY <1>3, <1>4, OthersHands
<1>10. AtStep(g)'
  BY <1>3, <1>4 DEF AtStep
<1>11. InHand(g) = {} /\ InHand(g)' = {x}
  BY <1>1, <1>3, <1>4, InHandIs, InHandIsPrime
<1>12. Own(g)' = Own(g) \cup {x} /\ Own(g) = held[g]
  BY <1>4, <1>11 DEF Own
<1>13. OneOwner'
  <2>1. \A q \in items' : mem'[q] \in Item /\ mem'[q] = mem[q] /\ q \in items /\ mem[q] # x
    BY <1>2, <1>3, <1>7 DEF OneOwner
  <2>2. \A q, r \in items' : mem'[q] = mem'[r] => q = r
    BY <1>2, <2>1 DEF OneOwner
  <2>3. \A q \in items', h \in Procs : mem'[q] \notin Own(h)'
    BY <1>2, <1>9, <1>12, <2>1 DEF OneOwner
  <2>4. \A h, k \in Procs : h # k => Own(h)' \cap Own(k)' = {}
    BY <1>2, <1>3, <1>9, <1>12 DEF OneOwner
  <2> QED  BY <2>1, <2>2, <2>3, <2>4 DEF OneOwner
<1>14. HandIsApart'
  BY <1>2, <1>3, <1>4, <1>9, <1>11, <1>12 DEF HandIsApart
<1>15. Promise!Get(g, x)
  <2>1. x \notin UNION {[h \in Procs |-> held[h] \cup InHand(h)][k] : k \in Procs}
    BY <1>3 DEF Own
  <2>2. {mem'[q] : q \in items'} = {mem[q] : q \in items} \ {x}
    BY <1>3, <1>7
  <2>3. [h \in Procs |-> held'[h] \cup InHand(h)'] =
          [[h \in Procs |-> held[h] \cup InHand(h)] EXCEPT ![g] = @ \cup {x}]
    BY <1>9, <1>12 DEF Own
  <2> QED  BY <2>1, <2>2, <2>3 DEF Promise!Get, Promise!Owned
<1>16. PromiseStep
  BY <1>15 DEF PromiseStep, Promise!Next
<1> QED  BY <1>5, <1>8, <1>9, <1>10, <1>13, <1>14, <1>16 DEF PoolInv

\* items.Put: the item behind the pointer goes back to the pool.
LEMMA ReturnStep ==
  ASSUME PoolInv, NEW g \in Procs, Return(g)
  PROVE  PoolInv' /\ PromiseStep
<1>1. /\ pc[g] = "return" /\ pc' = [pc EXCEPT ![g] = "idle"]
      /\ items' = items \cup {ptr[g]}
      /\ ptr' = [ptr EXCEPT ![g] = Nil] /\ item' = [item EXCEPT ![g] = Zero]
      /\ UNCHANGED <<pointers, mem, held>>
  BY DEF Return, Leave
<1>2. TypeOK /\ AtStep(g) /\ PointersAreSpare /\ HandIsApart /\ OneOwner
  BY DEF PoolInv
<1> DEFINE x == item[g]
<1>3. /\ pc'[g] = "idle" /\ ptr'[g] = Nil /\ item'[g] = Zero /\ held'[g] = held[g]
      /\ ptr[g] \in Pointer /\ mem[ptr[g]] = x /\ x \in Item
      /\ \A h \in Procs \ {g} :
           pc'[h] = pc[h] /\ ptr'[h] = ptr[h] /\ item'[h] = item[h] /\ held'[h] = held[h]
  BY <1>1, <1>2 DEF TypeOK, AtStep
<1>4. TypeOK'
  BY <1>1, <1>2, <1>3 DEF TypeOK
<1>5. Busy' = Busy \ {g} /\ g \in Busy
  BY <1>1, <1>3 DEF Busy
<1>6. ptr[g] \notin items \cup pointers /\ \A h \in Busy \ {g} : ptr[h] # ptr[g]
  BY <1>2, <1>5 DEF PointersAreSpare
<1>7. PointersAreSpare'
  <2>1. \A h \in Busy' : h \in Busy /\ h # g /\ ptr'[h] = ptr[h]
    BY <1>3, <1>5 DEF Busy
  <2>2. \A p \in pointers' : mem'[p] = Zero
    BY <1>1, <1>2 DEF PointersAreSpare
  <2>3. items' \cap pointers' = {}
    BY <1>1, <1>2, <1>6 DEF PointersAreSpare
  <2>4. \A h \in Busy' : /\ ptr'[h] \notin items' \cup pointers'
                        /\ \A k \in Busy' \ {h} : ptr'[k] # ptr'[h]
    BY <1>1, <1>2, <1>6, <2>1 DEF PointersAreSpare
  <2> QED  BY <2>2, <2>3, <2>4 DEF PointersAreSpare
<1>8. /\ \A h \in Procs \ {g} : InHand(h)' = InHand(h)
      /\ \A h \in Procs \ {g} : Own(h)' = Own(h)
      /\ \A h \in Procs \ {g} : AtStep(h)'
  <2>1. \A p \in Pointer \ {ptr[g]} : mem'[p] = mem[p]
    BY <1>1
  <2> QED  BY <1>3, <1>6, <2>1, OthersHands
<1>9. AtStep(g)'
  BY <1>3 DEF AtStep
<1>10. InHand(g) = {x} /\ InHand(g)' = {}
  BY <1>1, <1>3, InHandIs, InHandIsPrime
<1>11. Own(g)' = Own(g) \ {x} /\ x \in Own(g)
  BY <1>2, <1>3, <1>10 DEF Own, HandIsApart
<1>12. OneOwner'
  <2>1. \A p \in items' : (p \in items \/ p = ptr[g]) /\ mem'[p] = mem[p]
    BY <1>1
  <2>2. \A p \in items : mem[p] # x
    BY <1>2, <1>11 DEF OneOwner
  <2>3. \A h \in Procs \ {g} : x \notin Own(h)
    BY <1>2, <1>11 DEF OneOwner
  <2>4. \A p \in items' : mem'[p] \in Item
    BY <1>2, <1>3, <2>1 DEF OneOwner
  <2>5. \A p, q \in items' : mem'[p] = mem'[q] => p = q
    BY <1>2, <1>3, <2>1, <2>2 DEF OneOwner
  <2>6. \A p \in items', h \in Procs : mem'[p] \notin Own(h)'
    BY <1>2, <1>3, <1>8, <1>11, <2>1, <2>3 DEF OneOwner
  <2>7. \A h, k \in Procs : h # k => Own(h)' \cap Own(k)' = {}
    BY <1>2, <1>8, <1>11 DEF OneOwner
  <2> QED  BY <2>4, <2>5, <2>6, <2>7 DEF OneOwner
<1>13. HandIsApart'
  BY <1>2, <1>3, <1>8, <1>10 DEF HandIsApart
<1>14. PICK y \in Item : y = x
  BY <1>3
<1>15. Promise!Put(g, y)
  <2>1. x \in [h \in Procs |-> held[h] \cup InHand(h)][g]
    BY <1>11 DEF Own
  <2>2. {mem'[p] : p \in items'} = {mem[p] : p \in items} \cup {x}
    BY <1>1, <1>3
  <2>3. [h \in Procs |-> held'[h] \cup InHand(h)'] =
          [[h \in Procs |-> held[h] \cup InHand(h)] EXCEPT ![g] = @ \ {x}]
    BY <1>8, <1>11 DEF Own
  <2> QED  BY <1>14, <2>1, <2>2, <2>3 DEF Promise!Put
<1>16. PromiseStep
  BY <1>15, PutIsPromised
<1> QED  BY <1>4, <1>7, <1>8, <1>9, <1>12, <1>13, <1>16 DEF PoolInv

\* The garbage collector drops what no goroutine refers to.
LEMMA CollectStep ==
  ASSUME PoolInv, Collect
  PROVE  PoolInv' /\ PromiseStep
<1>1. PICK p \in items \cup pointers : /\ items' = items \ {p}
                                      /\ pointers' = pointers \ {p}
                                      /\ mem' = [mem EXCEPT ![p] = Zero]
  BY DEF Collect
<1>2. TypeOK /\ PointersAreSpare /\ HandIsApart /\ OneOwner
  BY DEF PoolInv
<1>3. UNCHANGED <<pc, ptr, item, held>>
  BY DEF Collect
<1>4. p \in Pointer /\ \A q \in Pointer \ {p} : mem'[q] = mem[q]
  BY <1>1, <1>2 DEF TypeOK
<1>5. TypeOK'
  BY <1>1, <1>2, <1>3, <1>4 DEF TypeOK
<1>6. Busy' = Busy /\ \A g \in Busy : ptr[g] # p
  BY <1>2, <1>3 DEF Busy, PointersAreSpare
<1>7. \A q \in items' \cup pointers' : mem'[q] = mem[q]
  BY <1>1, <1>2, <1>4 DEF TypeOK
<1>8. PointersAreSpare'
  BY <1>1, <1>2, <1>3, <1>6, <1>7 DEF PointersAreSpare
<1>9. ASSUME NEW g \in Procs
      PROVE  InHand(g)' = InHand(g) /\ Own(g)' = Own(g) /\ AtStep(g)'
  <2>1. pc[g] \in {"idle", "read", "clear", "release", "store", "return"}
    BY <1>2 DEF TypeOK
  <2>2. AtStep(g)
    BY DEF PoolInv
  <2>3. pc[g] # "idle" => mem'[ptr[g]] = mem[ptr[g]]
    BY <1>4, <1>6, <2>2 DEF AtStep, Busy
  <2>4. AtStep(g)'
    BY <1>3, <2>2, <2>3 DEF AtStep
  <2>5. InHand(g)' = InHand(g)
    BY <1>3, <2>1, <2>3, InHandIs, InHandIsPrime
  <2> QED  BY <1>3, <2>4, <2>5 DEF Own
<1>10. OneOwner'
  BY <1>1, <1>2, <1>7, <1>9 DEF OneOwner
<1>11. HandIsApart'
  BY <1>2, <1>3, <1>9 DEF HandIsApart
<1>12. [g \in Procs |-> held'[g] \cup InHand(g)'] = [g \in Procs |-> held[g] \cup InHand(g)]
  BY <1>3, <1>9
<1>13. PromiseStep
  <2>1. CASE p \in items
    <3>1. mem[p] \in Item /\ \A q \in items \ {p} : mem[q] # mem[p]
      BY <1>2, <2>1 DEF OneOwner
    <3>2. {mem'[q] : q \in items'} = {mem[q] : q \in items} \ {mem[p]}
      BY <1>1, <1>7, <3>1
    <3>3. PICK y \in Item : y = mem[p]
      BY <3>1
    <3>4. Promise!Drop(y)
      BY <1>12, <2>1, <3>2, <3>3 DEF Promise!Drop
    <3> QED  BY <3>4, DropIsPromised
  <2>2. CASE p \notin items
    <3>1. items' = items
      BY <1>1, <2>2
    <3>2. {mem'[q] : q \in items'} = {mem[q] : q \in items}
      BY <1>7, <3>1
    <3> QED  BY <1>12, <3>2 DEF PromiseStep
  <2> QED  BY <2>1, <2>2
<1> QED  BY <1>5, <1>8, <1>9, <1>10, <1>11, <1>13 DEF PoolInv

----------------------------------------------------------------------------
(* Theorems. *)

LEMMA InitPool == Init => PoolInv /\ Promise!Init
<1> SUFFICES ASSUME Init PROVE PoolInv /\ Promise!Init
  OBVIOUS
<1>1. \A g \in Procs : pc[g] = "idle" /\ held[g] = {} /\ ptr[g] = Nil /\ item[g] = Zero
  BY DEF Init
<1>2. \A g \in Procs : InHand(g) = {} /\ Own(g) = {}
  BY <1>1, InHandIs DEF Own
<1>3. TypeOK
  BY DEF Init, TypeOK
<1>4. PointersAreSpare /\ OneOwner
  BY <1>1, <1>2 DEF Init, PointersAreSpare, Busy, OneOwner
<1>5. (\A g \in Procs : AtStep(g)) /\ HandIsApart
  BY <1>1, <1>2 DEF AtStep, HandIsApart
<1>6. Promise!Init
  BY <1>1, <1>2 DEF Init, Promise!Init
<1> QED  BY <1>3, <1>4, <1>5, <1>6 DEF PoolInv

LEMMA NextPool == PoolInv /\ [Next]_vars => PoolInv' /\ PromiseStep
<1> SUFFICES ASSUME PoolInv, [Next]_vars PROVE PoolInv' /\ PromiseStep
  OBVIOUS
<1>1. CASE UNCHANGED vars
  <2>1. UNCHANGED <<items, pointers, mem, pc, ptr, item, held>>
    BY <1>1 DEF vars
  <2>2. \A g \in Procs : InHand(g)' = InHand(g) /\ Own(g)' = Own(g) /\ AtStep(g)'
    BY <2>1 DEF InHand, Own, PoolInv, AtStep
  <2>3. TypeOK' /\ PointersAreSpare'
    BY <2>1 DEF PoolInv, TypeOK, PointersAreSpare, Busy
  <2>4. HandIsApart'
    BY <2>1, <2>2 DEF PoolInv, HandIsApart
  <2> QED  BY <2>1, <2>2, <2>3, <2>4, StutterStep DEF PoolInv, PromiseStep
<1>2. CASE Next
  BY <1>2, GetStep, ReadStep, ClearStep, ReleaseStep, PutStep, StoreStep,
     ReturnStep, CollectStep
  DEF Next
<1> QED  BY <1>1, <1>2

LEMMA PoolInvariant == Spec => []PoolInv
<1>1. Init => PoolInv
  BY InitPool
<1>2. PoolInv /\ [Next]_vars => PoolInv'
  BY NextPool
<1> QED  BY <1>1, <1>2, PTL DEF Spec

\* The pool's pointers, items and goroutines have their types.
THEOREM PoolTypeCorrect == Spec => []TypeOK
<1>1. PoolInv => TypeOK
  BY DEF PoolInv
<1> QED  BY <1>1, PoolInvariant, PTL

\* A pointer in the second pool refers to nothing and is nowhere else, so
\* that Put may overwrite what it points to, whatever runs beside it.
THEOREM SparePointers == Spec => []PointersAreSpare
<1>1. PoolInv => PointersAreSpare
  BY DEF PoolInv
<1> QED  BY <1>1, PoolInvariant, PTL

\* However Get, Put and the garbage collector interleave, Pool[T] hands no
\* item to two callers and never the zero value: it implements ItemPool.
THEOREM PoolIsItemPool == Spec => ImplementsItemPool
<1>1. Init => Promise!Init
  BY InitPool
<1>2. PoolInv /\ [Next]_vars => [Promise!Next]_<<{mem[p] : p \in items},
                                [g \in Procs |-> held[g] \cup InHand(g)]>>
  BY NextPool DEF PromiseStep
<1> QED  BY <1>1, <1>2, PoolInvariant, PTL DEF Spec, ImplementsItemPool, Promise!Spec

==========================================================================
