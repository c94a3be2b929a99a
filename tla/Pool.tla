-------------------------------- MODULE Pool --------------------------------
(***************************************************************************)
(* Pool[T] of pool.go, which every buffer of kcp2k comes from.  It keeps   *)
(* the pooled values behind pointers in one sync.Pool (items) and the      *)
(* pointers it has no use for in a second one (pointers), so that storing  *)
(* a value allocates nothing.  Get and Put are called by several           *)
(* goroutines and are four and three steps of memory.                      *)
(***************************************************************************)
EXTENDS Naturals, FiniteSets

CONSTANTS
  Procs,   \* goroutines
  Item,    \* values of T: bound on those in use at a time
  Pointer, \* *T: bound on those in use at a time
  Zero,    \* the zero value of T
  Nil      \* no pointer

ASSUME PoolAssumption == Zero \notin Item /\ Nil \notin Pointer

VARIABLES
  items,    \* sync.Pool of pointers to pooled items
  pointers, \* sync.Pool of pointers to nothing
  mem,      \* what each pointer points to
  pc,       \* the step each goroutine is at
  ptr,      \* its variable ptr, Nil outside of Get and Put
  item,     \* its variable item, Zero outside
  held      \* the items its callers have and did not put back

vars == <<items, pointers, mem, pc, ptr, item, held>>

Busy == {g \in Procs : pc[g] # "idle"}

\* Places that refer to a pointer or an item: a new one is none of them.
LivePointers == items \cup pointers \cup {ptr[g] : g \in Busy}
LiveItems == {mem[p] : p \in LivePointers} \cup {item[g] : g \in Busy}
             \cup UNION {held[g] : g \in Procs}

\* Get or Put returns, and its variables are gone.
Leave(g) == /\ pc' = [pc EXCEPT ![g] = "idle"]
            /\ ptr' = [ptr EXCEPT ![g] = Nil]
            /\ item' = [item EXCEPT ![g] = Zero]

----------------------------------------------------------------------------

\* Get: items.Get, a pooled pointer or one that New makes with its item.  It
\* is never nil: every Pool of the repository is made by New.
Get(g) ==
  /\ pc[g] = "idle"
  /\ \/ \E p \in items : /\ ptr' = [ptr EXCEPT ![g] = p]
                         /\ items' = items \ {p}
                         /\ UNCHANGED mem
     \/ \E p \in Pointer \ LivePointers, x \in Item \ LiveItems :
          /\ ptr' = [ptr EXCEPT ![g] = p]
          /\ mem' = [mem EXCEPT ![p] = x]
          /\ UNCHANGED items
  /\ pc' = [pc EXCEPT ![g] = "read"]
  /\ UNCHANGED <<pointers, item, held>>

\* item := *ptr
Read(g) ==
  /\ pc[g] = "read"
  /\ item' = [item EXCEPT ![g] = mem[ptr[g]]]
  /\ pc' = [pc EXCEPT ![g] = "clear"]
  /\ UNCHANGED <<items, pointers, mem, ptr, held>>

\* Mutant: the pointer keeps the item.
ClearNothing(g) ==
  /\ pc[g] = "clear"
  /\ pc' = [pc EXCEPT ![g] = "release"]
  /\ UNCHANGED <<items, pointers, mem, ptr, item, held>>

\* *ptr = zero
Clear(g) ==
  /\ pc[g] = "clear"
  /\ mem' = [mem EXCEPT ![ptr[g]] = Zero]
  /\ pc' = [pc EXCEPT ![g] = "release"]
  /\ UNCHANGED <<items, pointers, ptr, item, held>>

\* pointers.Put(ptr), and the item is the caller's.
Release(g) ==
  /\ pc[g] = "release"
  /\ pointers' = pointers \cup {ptr[g]}
  /\ held' = [held EXCEPT ![g] = @ \cup {item[g]}]
  /\ Leave(g)
  /\ UNCHANGED <<items, mem>>

\* Put: pointers.Get, or a new pointer.  The caller has no more use for x.
Put(g, x) ==
  /\ pc[g] = "idle" /\ x \in held[g]
  /\ \/ \E p \in pointers : /\ ptr' = [ptr EXCEPT ![g] = p]
                            /\ pointers' = pointers \ {p}
                            /\ UNCHANGED mem
     \/ \E p \in Pointer \ LivePointers : /\ ptr' = [ptr EXCEPT ![g] = p]
                                          /\ mem' = [mem EXCEPT ![p] = Zero]
                                          /\ UNCHANGED pointers
  /\ item' = [item EXCEPT ![g] = x]
  /\ held' = [held EXCEPT ![g] = @ \ {x}]
  /\ pc' = [pc EXCEPT ![g] = "store"]
  /\ UNCHANGED items

\* Mutant: the item is not written.
StoreNothing(g) ==
  /\ pc[g] = "store"
  /\ pc' = [pc EXCEPT ![g] = "return"]
  /\ UNCHANGED <<items, pointers, mem, ptr, item, held>>

\* *ptr = item
Store(g) ==
  /\ pc[g] = "store"
  /\ mem' = [mem EXCEPT ![ptr[g]] = item[g]]
  /\ pc' = [pc EXCEPT ![g] = "return"]
  /\ UNCHANGED <<items, pointers, ptr, item, held>>

\* Mutant: the item itself instead of the pointer to it.
ReturnItem(g) ==
  /\ pc[g] = "return"
  /\ items' = items \cup {item[g]}
  /\ Leave(g)
  /\ UNCHANGED <<pointers, mem, held>>

\* items.Put(ptr)
Return(g) ==
  /\ pc[g] = "return"
  /\ items' = items \cup {ptr[g]}
  /\ Leave(g)
  /\ UNCHANGED <<pointers, mem, held>>

\* A sync.Pool drops what it likes when the garbage collector runs.
Collect ==
  /\ \E p \in items \cup pointers : /\ items' = items \ {p}
                                    /\ pointers' = pointers \ {p}
                                    /\ mem' = [mem EXCEPT ![p] = Zero]
  /\ UNCHANGED <<pc, ptr, item, held>>

Init ==
  /\ items = {} /\ pointers = {}
  /\ mem = [p \in Pointer |-> Zero]
  /\ pc = [g \in Procs |-> "idle"]
  /\ ptr = [g \in Procs |-> Nil] /\ item = [g \in Procs |-> Zero]
  /\ held = [g \in Procs |-> {}]

Next ==
  \/ \E g \in Procs : \/ Get(g) \/ Read(g) \/ Clear(g) \/ Release(g)
                      \/ Store(g) \/ Return(g)
                      \/ \E x \in Item : Put(g, x)
  \/ Collect

Spec == Init /\ [][Next]_vars

----------------------------------------------------------------------------
(* Properties *)

\* Type invariant.
TypeOK ==
  /\ items \in SUBSET Pointer /\ pointers \in SUBSET Pointer
  /\ mem \in [Pointer -> Item \cup {Zero}]
  /\ pc \in [Procs -> {"idle", "read", "clear", "release", "store", "return"}]
  /\ ptr \in [Procs -> Pointer \cup {Nil}] /\ item \in [Procs -> Item \cup {Zero}]
  /\ held \in [Procs -> SUBSET Item]

(***************************************************************************)
(* What pool.go says of pointers: the values they refer to are not used,   *)
(* so they are safe to overwrite, and a dropped item is not kept alive.    *)
(* A pointer is in one place at a time.                                    *)
(***************************************************************************)
PointersAreSpare ==
  /\ \A p \in pointers : mem[p] = Zero
  /\ items \cap pointers = {}
  /\ \A g \in Busy : /\ ptr[g] \notin items \cup pointers
                     /\ \A h \in Busy \ {g} : ptr[h] # ptr[g]

\* The item a goroutine is in the middle of taking or returning.
InHand(g) == CASE pc[g] = "read" -> {mem[ptr[g]]}
               [] pc[g] = "idle" -> {}
               [] OTHER -> {item[g]}

\* Get and Put take effect at their steps on items.
Promise == INSTANCE ItemPool WITH free <- {mem[p] : p \in items},
                                  own  <- [g \in Procs |-> held[g] \cup InHand(g)]

(***************************************************************************)
(* "Get may be called concurrently from multiple goroutines": whatever the *)
(* interleaving, no item is handed to two callers or while it is held, and *)
(* no caller gets the zero value.                                          *)
(***************************************************************************)
ImplementsItemPool == Promise!Spec
=============================================================================
