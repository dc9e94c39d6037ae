----------------------------- MODULE AppTracker -----------------------------
(***************************************************************************)
(* The handlers of App.js around the tracked orders: placing and importing *)
(* orders, paying and retrying them, the background trigger that reports   *)
(* an order as failed, the fallback polling, the arrows and the dismissal. *)
(***************************************************************************)
EXTENDS AppState

\* The form, filled in; its button is disabled while loading.
PlaceOffered == Page("place") /\ "place" \notin busy

\* handlePlaceOrder up to the await.
handlePlaceOrder ==
    /\ PlaceOffered
    /\ Left(1)
    /\ busy' = busy \union {"place"}
    /\ Send(Asks("place", <<>>, statusFilter))
    /\ UNCHANGED <<engine, tracker, history, dialogs, link, losses, still>>

\* Seeded mistake: whether to start a batch is decided by the closure.
appended_to_closure(c) ==
    activeBatch' = IF fetch[c].fresh THEN <<NewRow(Of(c))>>
                   ELSE Append(activeBatch, NewRow(Of(c)))

\* The functional update sees the batch of the day, ...
appended(c) == activeBatch' = Append(activeBatch, NewRow(Of(c)))

\* Seeded mistake: the spinner only stops where an error is caught.
loading_forgotten(kind) == busy' = busy

\* finally: setLoading(false), setBulkLoading(false), setDetailLoading(false)
finally(kind) == busy' = busy \ {kind}

\* ... whether to turn to the first order is decided by the closure.
order_placed(c) ==
    /\ At(c, "place", "ok")
    /\ appended(c)
    /\ activeBatchIndex' = IF fetch[c].fresh THEN 0 ELSE activeBatchIndex
    /\ finally("place")
    /\ ThenHistory(c, "sent")
    /\ UNCHANGED <<engine, retryCounts, failTriggered, history, dialogs, link,
                   clicks, losses>>
    /\ Render

\* The Bulk Import button.
open_bulk ==
    /\ Page("bulk")
    /\ dialog' = [kind |-> "bulk", order |-> None]
    /\ UNCHANGED <<engine, tracker, history, timeline, link, busy, fetch,
                   losses, still>>

\* The import dialog; Import is disabled while bulkLoading.
ImportOffered == Click("bulk") /\ dialog.kind = "bulk" /\ "bulk" \notin busy

\* handleBulkSubmit up to the await.
handleBulkSubmit ==
    /\ ImportOffered
    /\ Left(session.lines)
    /\ busy' = busy \union {"bulk"}
    /\ Send(Asks("bulk", <<>>, statusFilter))
    /\ UNCHANGED <<engine, tracker, history, dialogs, link, losses, still>>

\* The import replaces whatever was tracked.
orders_imported(c) ==
    /\ At(c, "bulk", "ok")
    /\ activeBatch' = [i \in DOMAIN fetch[c].ids |-> NewRow(fetch[c].ids[i])]
    /\ activeBatchIndex' = 0
    /\ CloseDialog("bulk")
    /\ finally("bulk")
    /\ ThenHistory(c, "sent")
    /\ UNCHANGED <<engine, retryCounts, failTriggered, history, timeline, link,
                   clicks, losses>>
    /\ Render

-----------------------------------------------------------------------------

\* The tracker's button: Pay while there is time, then Retry while retries
\* are left, then a chip.
PayOffered(o) == Page("pay") /\ ActiveIs(o) /\ Unexpired(ActiveOrder)
RetryOffered ==
    /\ Page("retry")
    /\ HasActive /\ TimedOut(ActiveOrder)
    /\ retryCounts[ActiveOrder.id] < MaxRetries

\* Pay on a row of the history, whose own timer is not modelled.
RowPayOffered(o) ==
    Page("pay") /\ ordersHistory[o] = "PENDING" /\ "history" \notin busy

PayAllOffered ==
    /\ Page("pay_all")
    /\ Len(activeBatch) > 1 /\ HasActive

\* handlePayOrder and handlePayAll: their answers only make messages.
handlePayOrder(o) ==
    /\ PayOffered(o) \/ RowPayOffered(o)
    /\ Send(Asks("pay", <<o>>, statusFilter))
    /\ UNCHANGED <<engine, tracker, history, dialogs, link, busy, losses,
                   still>>

handlePayAll ==
    /\ PayAllOffered
    /\ \E i \in DOMAIN activeBatch : Unexpired(activeBatch[i])
    /\ Send(Asks("pay_all", <<>>, statusFilter))
    /\ UNCHANGED <<engine, tracker, history, dialogs, link, busy, losses,
                   still>>

payment_submitted(c) ==
    /\ \E op \in {"pay", "pay_all"}, stage \in {"ok", "refused"} :
          At(c, op, stage)
    /\ Done(c)
    /\ UNCHANGED <<engine, tracker, history, dialogs, link, busy, clicks,
                   losses, still>>

handleRetryOrder ==
    /\ RetryOffered
    /\ Send(Asks("retry", <<ActiveOrder.id>>, statusFilter))
    /\ UNCHANGED <<engine, tracker, history, dialogs, link, busy, losses,
                   still>>

\* Seeded mistake: a refused retry counts, too.
counted_anyway(stage) == 1

counted(stage) == IF stage = "ok" THEN 1 ELSE 0

\* Only an accepted retry counts and restarts the timer.
retry_answered(c) ==
    /\ \E stage \in {"ok", "refused"} :
          /\ At(c, "retry", stage)
          /\ retryCounts' = [retryCounts EXCEPT ![Of(c)] = @ + counted(stage)]
          /\ IF stage = "ok"
             THEN UpdateRow(Of(c),
                            [row \in Rows |-> [row EXCEPT !.expired = FALSE]])
             ELSE UNCHANGED activeBatch
    /\ Done(c)
    /\ UNCHANGED <<engine, activeBatchIndex, failTriggered, history, dialogs,
                   link, busy, clicks, losses>>
    /\ Render

\* `now` moves on: the payment time of a tracked order is up.
expire(i) ==
    /\ ~blank
    /\ i \in DOMAIN activeBatch
    /\ Unexpired(activeBatch[i])
    /\ activeBatch' = [activeBatch EXCEPT ![i].expired = TRUE]
    /\ UNCHANGED <<engine, activeBatchIndex, retryCounts, failTriggered,
                   history, dialogs, link, busy, fetch, clicks, losses>>
    /\ Render

-----------------------------------------------------------------------------

\* Seeded mistake: the trigger does not look at failTriggeredRef.
used_up_again(row) == TimedOut(row) /\ retryCounts[row.id] >= MaxRetries

used_up(row) ==
    /\ TimedOut(row)
    /\ retryCounts[row.id] >= MaxRetries
    /\ row.id \notin failTriggered

\* The effect that reports an order whose retries and time are used up.
trigger_fail(o) ==
    /\ ~blank
    /\ \E i \in DOMAIN activeBatch :
          activeBatch[i].id = o /\ used_up(activeBatch[i])
    /\ failTriggered' = failTriggered \union {o}
    /\ Send(Asks("fail", <<o>>, statusFilter))
    /\ UNCHANGED <<engine, activeBatch, activeBatchIndex, retryCounts, history,
                   dialogs, link, busy, clicks, losses, still>>

\* Seeded mistake: the trigger does not look at res.ok.
failed_anyway(row, stage) == [row EXCEPT !.status = "FAILED"]

failed(row, stage) ==
    [row EXCEPT !.status = IF stage = "ok" THEN "FAILED" ELSE @]

\* A refusal is neither an exception nor ok: nothing happens, ever again.
fail_answered(c) ==
    /\ \E stage \in {"ok", "refused"} :
          /\ At(c, "fail", stage)
          /\ UpdateRow(Of(c), [row \in Rows |-> failed(row, stage)])
    /\ Done(c)
    /\ UNCHANGED <<engine, activeBatchIndex, retryCounts, failTriggered,
                   history, dialogs, link, busy, clicks, losses>>
    /\ Render

-----------------------------------------------------------------------------

\* Seeded mistake: polling stops at any status past PENDING.
poll_pending == activeBatch # <<>> /\ ~wsConnected /\ HasActive
                  /\ ActiveOrder.status = "PENDING"

\* The interval runs without a connection; it asks about the shown order.
polling == activeBatch # <<>> /\ ~wsConnected /\ HasActive
             /\ ActiveOrder.status \notin TERMINAL_STATES

\* One turn of the interval.  A bound: it leaves a place for another request.
poll ==
    /\ ~blank
    /\ polling
    /\ Cardinality(Free) > 1
    /\ Send(Asks("poll", <<ActiveOrder.id>>, statusFilter))
    /\ UNCHANGED <<engine, tracker, history, dialogs, link, busy, clicks,
                   losses, still>>

\* Its answer is applied even if a connection was opened meanwhile.
poll_answered(c) ==
    /\ At(c, "poll", "ok")
    /\ LET now == fetch[c].reply[Of(c)] IN
       /\ UpdateRow(Of(c), [row \in Rows |->
                             [row EXCEPT !.status = now, !.priced = TRUE]])
       /\ IF now \in TERMINAL_STATES THEN ThenHistory(c, "sent") ELSE Done(c)
    /\ UNCHANGED <<engine, activeBatchIndex, retryCounts, failTriggered,
                   history, dialogs, link, busy, clicks, losses>>
    /\ Render

-----------------------------------------------------------------------------

\* The arrows of a batch of several orders.
turn(step) ==
    /\ Page("turn")
    /\ HasActive
    /\ activeBatchIndex + step \in 0..(Len(activeBatch) - 1)
    /\ activeBatchIndex' = activeBatchIndex + step
    /\ UNCHANGED <<engine, activeBatch, retryCounts, failTriggered, history,
                   dialogs, link, busy, fetch, losses>>
    /\ Render

dismissable == HasActive /\ ActiveOrder.status \in TERMINAL_STATES

\* Dismiss Tracker: setActiveBatch([]); the index stays.
dismiss ==
    /\ Page("dismiss")
    /\ dismissable
    /\ activeBatch' = <<>>
    /\ UNCHANGED <<engine, activeBatchIndex, retryCounts, failTriggered,
                   history, dialogs, link, busy, fetch, losses>>
    /\ Render
=============================================================================
