------------------------------ MODULE ItemPool ------------------------------
(* What a Pool[T] (pool.go) promises: an item has one owner at a time.      *)
EXTENDS Naturals

CONSTANTS Procs, Item

VARIABLES free,  \* items that Get may hand out again
          own    \* items of each goroutine

Owned == UNION {own[g] : g \in Procs}

\* An item of the pool, or a new one.
Get(g, x) == /\ x \notin Owned
             /\ free' = free \ {x}
             /\ own' = [own EXCEPT ![g] = @ \cup {x}]

Put(g, x) == /\ x \in own[g]
             /\ free' = free \cup {x}
             /\ own' = [own EXCEPT ![g] = @ \ {x}]

\* The garbage collector may empty the pool.
Drop(x) == /\ x \in free
           /\ free' = free \ {x}
           /\ UNCHANGED own

Init == free = {} /\ own = [g \in Procs |-> {}]

Next == \E x \in Item : Drop(x) \/ \E g \in Procs : Get(g, x) \/ Put(g, x)

Spec == Init /\ [][Next]_<<free, own>>
=============================================================================
