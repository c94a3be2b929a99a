-------------------------- MODULE ReliableChannel --------------------------
(***************************************************************************)
(* What the reliable channel of kcp2k promises its two users: messages     *)
(* arrive whole, unaltered, once each and in the order they were sent.     *)
(***************************************************************************)
EXTENDS Naturals, Sequences

CONSTANTS A, B, Messages

VARIABLES sent, delivered

Peer(p) == IF p = A THEN B ELSE A

Init ==
  /\ sent = [p \in {A, B} |-> <<>>]
  /\ delivered = [p \in {A, B} |-> <<>>]

Send(p, m) ==
  /\ sent' = [sent EXCEPT ![p] = Append(@, m)]
  /\ UNCHANGED delivered

\* p is handed the first message of the other end that it has not had yet.
Receive(p) ==
  /\ Len(delivered[p]) < Len(sent[Peer(p)])
  /\ delivered' = [delivered EXCEPT ![p] =
       Append(@, sent[Peer(p)][Len(@) + 1])]
  /\ UNCHANGED sent

Next == \E p \in {A, B} : Receive(p) \/ \E m \in Messages : Send(p, m)

Spec == Init /\ [][Next]_<<sent, delivered>>

============================================================================
