---------------------------- MODULE ClientOrder ----------------------------
(***************************************************************************)
(* What the bot promises of an order it was asked to submit.  The order is *)
(* written down before it is sent; it is sent once; the broker decides     *)
(* once; the row comes to point at that order and at no other for good;    *)
(* and a fill is told when the broker has filled the order.  A row may     *)
(* take "filled" back (an older answer is written late), but what was      *)
(* announced stays so.                                                     *)
(***************************************************************************)
EXTENDS Naturals

CONSTANTS
  ClientIds,
  BrokerIds,
  Final       \* what the broker may decide

VARIABLES
  written,    \* the client orders that have a row
  orders,     \* the orders at the broker, per client order
  word,       \* what was decided of them: one status of Final or none yet
  pointer,    \* the order the row points at, or none
  filled,     \* the rows that say "filled"
  announced   \* the fills the bus was told of

vars == <<written, orders, word, pointer, filled, announced>>

Nothing == [c \in ClientIds |-> {}]
Init ==
  /\ written = {} /\ filled = {} /\ announced = {}
  /\ orders = Nothing /\ word = Nothing /\ pointer = Nothing

Write(c) ==
  /\ c \notin written
  /\ written' = written \union {c}
  /\ UNCHANGED <<orders, word, pointer, filled, announced>>

Send(c) ==
  /\ c \in written /\ orders[c] = {}
  /\ \E b \in BrokerIds :
       /\ \A d \in ClientIds : b \notin orders[d]
       /\ orders' = [orders EXCEPT ![c] = {b}]
  /\ UNCHANGED <<written, word, pointer, filled, announced>>

Decide(c) ==
  /\ orders[c] # {} /\ word[c] = {}
  /\ \E s \in Final : word' = [word EXCEPT ![c] = {s}]
  /\ UNCHANGED <<written, orders, pointer, filled, announced>>

Record(c) ==
  /\ orders[c] # {}
  /\ pointer' = [pointer EXCEPT ![c] = orders[c]]
  /\ filled' \in {filled \ {c}, filled \union {c}}
  /\ announced' \in {announced, announced \union {c}}
  /\ c \in filled' \/ announced' # announced => word[c] = {"FILLED"}
  /\ UNCHANGED <<written, orders, word>>

Next == \E c \in ClientIds : Write(c) \/ Send(c) \/ Decide(c) \/ Record(c)

Spec == Init /\ [][Next]_vars

=============================================================================
