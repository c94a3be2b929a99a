----------------------------- MODULE MCSession -----------------------------
(* Small instances of Session for TLC. *)
EXTENDS Session

CONSTANTS a1, a2

\* Two hosts whose addresses have the same ConnectionHash.
Neighbours == [a \in {a1, a2} |->
  IF a = a1 THEN [ip |-> <<10, 0, 0, 1>>, port |-> 50031]
            ELSE [ip |-> <<10, 0, 0, 2>>, port |-> 50000]]

============================================================================
