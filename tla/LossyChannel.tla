---------------------------- MODULE LossyChannel ----------------------------
(***************************************************************************)
(* What the event bus promises a subscriber.  Events are numbered as they  *)
(* are offered.  Until something goes wrong the subscriber receives every  *)
(* one of them, once and in order; after that, events may be missing, but  *)
(* none comes twice or late.                                               *)
(***************************************************************************)
EXTENDS Naturals, Sequences

VARIABLES
  offered,    \* events published for the subscriber
  received,   \* what it got, in order
  broken      \* something went wrong

Newest == IF received = <<>> THEN 0 ELSE received[Len(received)]

(* Nothing that was offered lies between the newest one and e.             *)
IsNext(e) == \A f \in offered : ~(Newest < f /\ f < e)

Init == offered = {} /\ received = <<>> /\ broken = FALSE

Offer(e) ==
  /\ \A f \in offered : f < e
  /\ offered' = offered \union {e}
  /\ broken' \in {broken, TRUE}
  /\ UNCHANGED received

Receive(e) ==
  /\ e \in offered /\ Newest < e
  /\ broken \/ IsNext(e)
  /\ received' = Append(received, e)
  /\ broken' \in {broken, TRUE}
  /\ UNCHANGED offered

Break == broken' = TRUE /\ UNCHANGED <<offered, received>>

Next ==
  \/ \E e \in offered' : Offer(e)
  \/ \E e \in offered : Receive(e)
  \/ Break

Spec == Init /\ [][Next]_<<offered, received, broken>>

=============================================================================
