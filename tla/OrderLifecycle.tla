--------------------------- MODULE OrderLifecycle ---------------------------
(***************************************************************************)
(* What the engine promises of an order, with no topic, task, key or lock: *)
(* one atomic step per change of state, the customer's money included.  It *)
(* is the state machine of app/db/models.py with the two edges the         *)
(* handlers add: a shipped order can be cancelled, and an order can fail   *)
(* from any status.                                                        *)
(***************************************************************************)
EXTENDS OrderTypes

VARIABLES status,    \* the order's status, None before it exists
          item,      \* its name and price
          charged,   \* the orders whose payment was processed
          refunded   \* the orders cancelled with a refund

vars == <<status, item, charged, refunded>>

Init ==
    /\ status = [o \in Orders |-> None]
    /\ item = [o \in Orders |-> None]
    /\ charged = {}
    /\ refunded = {}

Move(o, from, to) ==
    /\ status[o] \in from
    /\ status' = [status EXCEPT ![o] = to]

\* One order, or a whole batch at once.
Create(os) ==
    /\ \A o \in os : status[o] = None
    /\ status' = [o \in Orders |-> IF o \in os THEN "PENDING" ELSE status[o]]
    /\ item' \in [Orders -> Contents \union {None}]
    /\ \A o \in Orders \ os : item'[o] = item[o]
    /\ UNCHANGED <<charged, refunded>>

Edit(o) ==
    /\ status[o] = "PENDING"
    /\ \E content \in Contents : item' = [item EXCEPT ![o] = content]
    /\ UNCHANGED <<status, charged, refunded>>

Pay(o) ==
    /\ Move(o, {"PENDING"}, "PAID")
    /\ charged' = charged \union {o}
    /\ UNCHANGED <<item, refunded>>

Ship(o) == Move(o, {"PAID"}, "SHIPPED") /\ UNCHANGED <<item, charged, refunded>>

Deliver(o) ==
    Move(o, {"SHIPPED"}, "DELIVERED") /\ UNCHANGED <<item, charged, refunded>>

\* The money goes back if and only if it was taken.
Cancel(o) ==
    /\ Move(o, {"PENDING", "PAID", "SHIPPED"}, "CANCELLED")
    /\ refunded' = refunded \union (charged \intersect {o})
    /\ UNCHANGED <<item, charged>>

Fail(o) ==
    Move(o, Statuses, "FAILED") /\ UNCHANGED <<item, charged, refunded>>

Next ==
    \/ \E os \in SUBSET Orders : Create(os)
    \/ \E o \in Orders :
          Edit(o) \/ Pay(o) \/ Ship(o) \/ Deliver(o) \/ Cancel(o) \/ Fail(o)

Spec == Init /\ [][Next]_vars
=============================================================================
