----------------------------- MODULE MCOrderApp -----------------------------
(* The page with two orders, in short sessions of one kind each. *)
EXTENDS AppProperties

Visit(controls, n, imported, moved, pushed, lost, unpriced_edits, isStrict) ==
    [controls |-> controls, clicks |-> n, lines |-> imported, moves |-> moved,
     pushes |-> pushed, losses |-> lost, emptied |-> unpriced_edits,
     strict |-> isStrict]

\* One of the two orders: its edits may leave the price empty, the other's do
\* not.
OneOrder == {CHOOSE o \in Orders : TRUE}

MCSessions == {
  \* an order placed and retried until it fails, in a development build whose
  \* network loses something; the same while the order moves; Retry clicked
  \* twice
  Visit({"place", "retry"}, 2, 2, 0, 1, 1, {}, TRUE),
  Visit({"place", "retry"}, 2, 2, 1, 0, 0, {}, FALSE),
  Visit({"place", "retry"}, 3, 2, 0, 0, 0, {}, FALSE),
  \* an order that moves, or that another customer edits, under the tracker,
  \* with events out of order
  Visit({"place"}, 1, 2, 2, 2, 0, OneOrder, FALSE),
  Visit({"place", "dismiss"}, 2, 2, 1, 0, 0, {}, FALSE),
  \* two ways to fill the tracker at once; a batch, also one that another
  \* customer edits while the user turns its pages
  Visit({"place", "bulk"}, 3, 1, 0, 1, 0, {}, FALSE),
  Visit({"bulk", "pay_all", "turn"}, 4, 2, 0, 1, 0, {}, FALSE),
  Visit({"bulk", "turn"}, 4, 2, 1, 1, 0, OneOrder, FALSE),
  \* the history: its filter, its details, its payments, edits and cancellations
  Visit({"filter", "refresh"}, 2, 2, 2, 1, 0, {}, FALSE),
  Visit({"detail", "close"}, 3, 2, 2, 1, 0, {}, FALSE),
  Visit({"pay", "edit", "cancel", "close"}, 3, 2, 2, 1, 1, {}, FALSE),
  Visit({"edit", "cancel", "close"}, 4, 2, 1, 0, 0, {}, FALSE),
  \* an edit of the tracked order
  Visit({"place", "edit"}, 3, 2, 0, 2, 0, OneOrder, FALSE) }
=============================================================================
