-------------------------- MODULE MCOrderWorkflow --------------------------
(* Small instances of the order pipeline for TLC. *)
EXTENDS OrderClaims, TLC

CONSTANTS book, lamp,    \* values of Order.item_name
          low, high      \* values of Order.price

\* Every order starts as a book at the low price.
MCItems == {[item_name |-> book, price |-> low]}

\* One customer renames the order; the other restores the name and changes
\* the price, so that the first edit would have something to do again.
MCEdits == { [item_name |-> lamp, price |-> None],
             [item_name |-> book, price |-> high] }

\* Orders, threads and slots are interchangeable: nothing orders them.
MCSymmetry ==
    Permutations(Orders) \union Permutations(Threads) \union Permutations(Slots)
=============================================================================
