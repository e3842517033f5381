----------------------------- MODULE DropQueue -----------------------------
(***************************************************************************)
(* What the message pool of the audio decoder promises: a first-in         *)
(* first-out queue that never refuses a message.  A message put into a     *)
(* full queue pushes the oldest one out.                                   *)
(***************************************************************************)
EXTENDS Naturals, Sequences

CONSTANTS Messages,     \* what can be queued
          Capacity      \* MESSAGE_NUM_MAX

VARIABLE q

Init == q = <<>>

Put(m) == q' = Append(IF Len(q) = Capacity THEN Tail(q) ELSE q, m)

Get(m) == /\ q # <<>>
          /\ m = Head(q)
          /\ q' = Tail(q)

Next == \E m \in Messages : Put(m) \/ Get(m)

Spec == Init /\ [][Next]_q
=============================================================================
