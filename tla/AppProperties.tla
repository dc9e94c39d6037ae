--------------------------- MODULE AppProperties ---------------------------
(***************************************************************************)
(* What the page of App.js keeps true of what it shows, of its timers and  *)
(* of the requests it has under way.                                       *)
(***************************************************************************)
EXTENDS OrderApp

\* The types of the page's state; an order is tracked once.
TypeOK ==
    /\ session \in Sessions
    /\ status \in Listings /\ retried \in [Orders -> Nat] /\ moves \in Nat
    /\ wire \subseteq Pushes
    /\ activeBatch \in Seq(Rows) /\ activeBatchIndex \in Nat
    /\ \A i, j \in DOMAIN activeBatch :
          activeBatch[i].id = activeBatch[j].id => i = j
    /\ retryCounts \in [Orders -> Nat] /\ failTriggered \subseteq Orders
    /\ ordersHistory \in Listings /\ statusFilter \in Filters
    /\ busy \subseteq {"history", "place", "bulk", "detail"}
    /\ dialog \in Dialogs /\ timeline \in Orders \union {None}
    /\ wsConnected \in BOOLEAN /\ blank \in BOOLEAN /\ ghost \in BOOLEAN
    /\ socket \in {"connecting", "open", "closed"}
    /\ fetch \in [Fetches -> Requesting \union {Idle}]
    /\ clicks \in Nat /\ losses \in Nat

-----------------------------------------------------------------------------

\* An order that has this status now may have had that one before.
CameThrough(now, before) ==
    \/ before = now
    \/ before # None /\ now = "FAILED"
    \/ before = "PENDING" /\ now # None
    \/ before = "PAID" /\ now \in {"SHIPPED", "DELIVERED", "CANCELLED"}
    \/ before = "SHIPPED" /\ now \in {"DELIVERED", "CANCELLED"}

\* Whatever the interleaving of pushes, polls, late answers and optimistic
\* updates (App.js:360 writes FAILED itself), the tracker and the history
\* never show a status the order has not had: they lag, they do not invent.
ShownHappened ==
    /\ \A i \in DOMAIN activeBatch :
          CameThrough(status[activeBatch[i].id], activeBatch[i].status)
    /\ \A o \in Orders :
          ordersHistory[o] # None => CameThrough(status[o], ordersHistory[o])

\* An order is reported as failed (App.js:356) only when the engine's own
\* timeline has all the retries the customer is promised, although the page
\* decides by a count of its own, kept from answers that may get lost.
FailIsEarned ==
    /\ \A o \in Orders : retryCounts[o] <= retried[o]
    /\ \A c \in UnderWay("fail") : retried[Of(c)] >= MaxRetries

\* The effect of App.js:347 runs every second and after every push, but never
\* has two reports of the same order under way.
OneFailAtATime ==
    \A c, d \in UnderWay("fail") : Of(c) = Of(d) => c = d

\* The buttons that submit an order and an import are disabled exactly while
\* such a request is under way, so nothing is submitted twice at once.  The
\* spinners of the history and the detail dialog turn only while an answer to
\* such a request is still to come, so neither turns for ever; they may stop
\* earlier, or not turn at all (App.js:241, 604 clear them at any answer, the
\* delayed refetch never sets one).
SpinnersAreBacked ==
    /\ "place" \in busy <=> UnderWay("place") # {}
    /\ "bulk" \in busy <=> UnderWay("bulk") # {}
    /\ Cardinality(UnderWay("place")) <= 1 /\ Cardinality(UnderWay("bulk")) <= 1
    /\ "history" \in busy => UnderWay("history") # {}
    /\ "detail" \in busy => UnderWay("detail") # {}

\* A page that says LIVE has an open socket; otherwise it polls.  No order of
\* opening, failing and closing sockets leaves it with neither.
NotLeftAlone == wsConnected => socket = "open"

\* Whatever events carry or leave out, in whatever order they and the answers
\* arrive, a tracked order has no price, and the page disappears under the one
\* it renders (App.js:777), only where an edit of that very order, by this user
\* or by any other customer, left its price empty.
OnlyEmptiedPricesBlank ==
    /\ \A i \in DOMAIN activeBatch :
          ~activeBatch[i].priced => activeBatch[i].id \in session.emptied
    /\ blank => HasActive /\ ActiveOrder.id \in session.emptied

\* An order leaves the tracker only when an import replaces the batch or when
\* the user dismisses it under an order shown as finished: placing another
\* order, pushes and answers that arrive meanwhile never drop one.
RowsStay ==
    [][ \/ Tracked \subseteq Tracked'
        \/ /\ activeBatch' = <<>>
           /\ HasActive /\ ActiveOrder.status \in TERMINAL_STATES
        \/ \E c \in UnderWay("bulk") :
              fetch[c].stage = "ok" /\ c \notin UnderWay("bulk")'
      ]_activeBatch

-----------------------------------------------------------------------------

ShowsNow(o) ==
    ActiveIs(o) /\ \/ ActiveOrder.status = status[o]
                   \/ ActiveOrder.status \in TERMINAL_STATES

\* Without a connection, the order the user stays with is eventually shown as
\* it is, or as finished, where polling stops (App.js:315).
PollingCatchesUp ==
    \A o \in Orders :
        <>[](~wsConnected /\ ActiveIs(o) /\ ~blank) => <>[]ShowsNow(o)

UsedUp(o) ==
    /\ ~blank
    /\ \E i \in DOMAIN activeBatch :
          /\ activeBatch[i].id = o /\ TimedOut(activeBatch[i])
          /\ retryCounts[o] >= MaxRetries

\* A tracked order whose retries and time are used up does not stay PENDING,
\* though reports or their answers get lost: they are repeated.
ExpiredOrdersFail ==
    \A o \in Orders :
        UsedUp(o) ~> (status[o] # "PENDING" \/ o \notin Tracked \/ blank)
=============================================================================
