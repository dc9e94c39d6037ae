------------------------------ MODULE Delivery ------------------------------
(***************************************************************************)
(* What the WebSocket bridge promises, with no lists, rooms or handlers:   *)
(* one notification after the other is brought to the clients that are     *)
(* there and want it, to each at most once, and the next one is not begun  *)
(* while a client is waiting that was there when this one was taken.       *)
(***************************************************************************)
EXTENDS Naturals, Sequences

CONSTANTS Orders, Sockets, path

VARIABLES pushed,     \* the notifications of the queue, oldest first
          taken,      \* how many have been taken
          busy,       \* whether the last of these is still being brought
          present,    \* the clients that are connected
          awaiting,   \* those that must get it before the next is taken
          inbox       \* what each client has got, by number

vars == <<pushed, taken, busy, present, awaiting, inbox>>

Init ==
    /\ pushed = <<>> /\ taken = 0 /\ busy = FALSE
    /\ present = {} /\ awaiting = {}
    /\ inbox = [s \in Sockets |-> <<>>]

Wants(s, o) == path[s] \in {o, "all"}

Push(o) ==
    /\ pushed' = Append(pushed, o)
    /\ UNCHANGED <<taken, busy, present, awaiting, inbox>>

\* Who joins in the middle need not get what is being brought.
Join(s) ==
    /\ s \notin present
    /\ present' = present \union {s}
    /\ UNCHANGED <<pushed, taken, busy, awaiting, inbox>>

Leave(s) ==
    /\ s \in present
    /\ present' = present \ {s}
    /\ awaiting' = awaiting \ {s}
    /\ UNCHANGED <<pushed, taken, busy, inbox>>

Take ==
    /\ ~ busy /\ taken < Len(pushed)
    /\ busy' = TRUE /\ taken' = taken + 1
    /\ awaiting' = {s \in present : Wants(s, pushed[taken + 1])}
    /\ UNCHANGED <<pushed, present, inbox>>

Deliver(s) ==
    /\ busy /\ s \in present /\ Wants(s, pushed[taken])
    /\ \A j \in DOMAIN inbox[s] : inbox[s][j] < taken
    /\ inbox' = [inbox EXCEPT ![s] = Append(@, taken)]
    /\ awaiting' = awaiting \ {s}
    /\ UNCHANGED <<pushed, taken, busy, present>>

Finish ==
    /\ busy /\ awaiting = {}
    /\ busy' = FALSE
    /\ UNCHANGED <<pushed, taken, present, awaiting, inbox>>

Next ==
    \/ \E o \in Orders : Push(o)
    \/ \E s \in Sockets : Join(s) \/ Leave(s) \/ Deliver(s)
    \/ Take \/ Finish

Spec == Init /\ [][Next]_vars
=============================================================================
