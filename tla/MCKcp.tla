------------------------------- MODULE MCKcp -------------------------------
(* Small instances of Kcp for TLC. *)
EXTENDS Kcp

CONSTANTS c1, c2

\* A message of one chunk, and one of two fragments.
OneMessage == {<<c1>>}
OneDouble == {<<c1, c2>>}

\* The same value at both ends, or at A alone.
Both1 == [p \in End |-> 1]
Both2 == [p \in End |-> 2]
Both3 == [p \in End |-> 3]
Both4 == [p \in End |-> 4]
Only2 == [p \in End |-> IF p = A THEN 2 ELSE 0]
Only3 == [p \in End |-> IF p = A THEN 3 ELSE 0]

============================================================================
