---------------------------- MODULE WinnerOutbox ----------------------------
(***************************************************************************)
(* What the campaign runtime promises about its requests to the broker:    *)
(* an operation is durable before its request leaves, and no operation     *)
(* ever sends a second one, whatever happened to the answer of the first.  *)
(***************************************************************************)
EXTENDS Naturals

CONSTANT Operations

VARIABLES
  reserved,   \* operations that a save has made durable
  sent        \* requests that left, per operation

outbox == <<reserved, sent>>

Init == reserved = {} /\ sent = [k \in Operations |-> 0]

Reserve(k) == /\ k \notin reserved
              /\ reserved' = reserved \cup {k}
              /\ UNCHANGED sent

Send(k) == /\ k \in reserved /\ sent[k] = 0
           /\ sent' = [sent EXCEPT ![k] = 1]
           /\ UNCHANGED reserved

Next == \E k \in Operations : Reserve(k) \/ Send(k)

Spec == Init /\ [][Next]_outbox
=============================================================================
