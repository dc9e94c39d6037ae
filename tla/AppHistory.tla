----------------------------- MODULE AppHistory -----------------------------
(***************************************************************************)
(* The handlers of App.js around the order history: the filtered list, the *)
(* details, the edit and the cancellation of a row.  The dialogs hold a    *)
(* copy of the row they were opened on.                                    *)
(***************************************************************************)
EXTENDS AppState

\* setHistoryLoading(false): this spinner only turns until the first answer.
history_fetched(c) ==
    /\ At(c, "history", "ok")
    /\ ordersHistory' = fetch[c].reply
    /\ busy' = busy \ {"history"}
    /\ Done(c)
    /\ UNCHANGED <<engine, tracker, statusFilter, dialogs, link, clicks, losses,
                   still>>

\* A filter chip or the search text: the effect fetches with the new one.
setStatusFilter(filter) ==
    /\ Page("filter")
    /\ filter # statusFilter
    /\ statusFilter' = filter
    /\ Send(Asks("history", <<>>, filter))
    /\ UNCHANGED <<engine, tracker, ordersHistory, dialogs, link, busy, losses,
                   still>>

refresh ==
    /\ Page("refresh")
    /\ Send(Asks("history", <<>>, statusFilter))
    /\ UNCHANGED <<engine, tracker, history, dialogs, link, busy, losses,
                   still>>

\* setTimeout(fetchHistory, 1500) is due: it still has its old filter.
refetch(c) ==
    /\ At(c, "history", "timer")
    /\ fetch' = [fetch EXCEPT ![c].stage = "sent"]
    /\ UNCHANGED <<engine, tracker, history, dialogs, link, busy, clicks,
                   losses, still>>

-----------------------------------------------------------------------------

\* A row that is shown with one of these statuses.
Row(o, control, statuses) ==
    /\ Page(control)
    /\ "history" \notin busy
    /\ ordersHistory[o] \in statuses

\* openDetailDialog up to the await of its two requests.
openDetailDialog(o) ==
    /\ Row(o, "detail", Statuses)
    /\ dialog' = [kind |-> "detail", order |-> o]
    /\ timeline' = None
    /\ busy' = busy \union {"detail"}
    /\ Send(Asks("detail", <<o>>, statusFilter))
    /\ UNCHANGED <<engine, tracker, history, link, losses, still>>

\* The answer is shown whichever order the dialog shows by now.
detail_loaded(c) ==
    /\ At(c, "detail", "ok")
    /\ timeline' = Of(c)
    /\ busy' = busy \ {"detail"}
    /\ Done(c)
    /\ UNCHANGED <<engine, tracker, history, dialog, link, clicks, losses,
                   still>>

\* A row's buttons: edit, cancel.
RowOffers(kind) ==
    IF kind = "edit" THEN {"PENDING"} ELSE {"PENDING", "PAID", "SHIPPED"}

\* setEditDialog(order), setCancelConfirm(order)
open_dialog(kind, o) ==
    /\ Row(o, kind, RowOffers(kind))
    /\ dialog' = [kind |-> kind, order |-> o]
    /\ UNCHANGED <<engine, tracker, history, timeline, link, busy, fetch,
                   losses, still>>

\* Any dialog can be closed, also while its request is under way.
close_dialog ==
    /\ Click("close")
    /\ dialog # NoDialog
    /\ dialog' = NoDialog
    /\ UNCHANGED <<engine, tracker, history, timeline, link, busy, fetch,
                   losses, still>>

EditOffered == Click("edit") /\ dialog.kind = "edit"
CancelOffered == Click("cancel") /\ dialog.kind = "cancel"

\* handleUpdateOrder: a field left empty is left out of the request's body.
\* The session bounds whose price that is.
handleUpdateOrder(null) ==
    /\ EditOffered
    /\ null => dialog.order \in session.emptied
    /\ Send([Asks("edit", <<dialog.order>>, statusFilter) EXCEPT !.null = null])
    /\ UNCHANGED <<engine, tracker, history, dialogs, link, busy, losses,
                   still>>

handleCancelOrder ==
    /\ CancelOffered
    /\ Send(Asks("cancel", <<dialog.order>>, statusFilter))
    /\ UNCHANGED <<engine, tracker, history, dialogs, link, busy, losses,
                   still>>

\* Either answer closes the dialog of its kind, whichever order it shows by
\* now; acceptance fetches the history later.
queued(c, kind) ==
    /\ CloseDialog(kind)
    /\ \/ At(c, kind, "ok") /\ ThenHistory(c, "timer")
       \/ At(c, kind, "refused") /\ Done(c)
    /\ UNCHANGED <<engine, tracker, history, timeline, link, busy, clicks,
                   losses, still>>

update_queued(c) == queued(c, "edit")
cancellation_queued(c) == queued(c, "cancel")
=============================================================================
