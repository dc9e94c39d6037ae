------------------------------ MODULE OrderApp ------------------------------
(***************************************************************************)
(* The React page of frontend/src/App.js at work: its handlers (AppTracker *)
(* and AppHistory), its WebSocket, the network, and an engine that accepts *)
(* its requests and otherwise moves orders as OrderLifecycle allows.       *)
(***************************************************************************)
EXTENDS AppTracker, AppHistory

vars == <<engine, tracker, history, dialogs, link, busy, blank, fetch,
          clicks, losses, session>>

page == <<tracker, history, dialogs, link, busy, clicks, still>>

\* React.StrictMode runs the effects of a development build twice.
mounts == IF session.strict THEN 2 ELSE 1

Init ==
    /\ session \in Sessions
    /\ status = [o \in Orders |-> None]
    /\ retried = [o \in Orders |-> 0]
    /\ moves = 0
    /\ wire = {}
    /\ activeBatch = <<>>
    /\ activeBatchIndex = 0
    /\ retryCounts = [o \in Orders |-> 0]
    /\ failTriggered = {}
    /\ ordersHistory = Nothing
    /\ statusFilter = "ALL"
    /\ busy = {"history"}
    /\ dialog = NoDialog
    /\ timeline = None
    /\ wsConnected = FALSE
    /\ blank = FALSE
    /\ socket = "connecting"
    /\ ghost = session.strict
    /\ clicks = 0
    /\ losses = 0
    \* the effect on fetchHistory
    /\ fetch = [c \in Fetches |->
                  IF c <= mounts
                  THEN [op |-> "history", ids |-> <<>>, filter |-> "ALL",
                        fresh |-> FALSE, null |-> FALSE, stage |-> "sent",
                        reply |-> Nothing]
                  ELSE Idle]

-----------------------------------------------------------------------------

\* The payload of an event: no status in a request, a price only in an edit.
Pushes == [id : Orders, status : Statuses \union {None},
           price : {"absent", "number", "null"}]
Push(o, to, price) == [id |-> o, status |-> to, price |-> price]

\* Events may get lost on their way, and go nowhere without a socket; the set
\* lets them arrive in any order, as the publishers do.
Publish(pushes) ==
    \E heard \in SUBSET pushes :
        /\ heard # {} => socket # "closed" /\ ~blank
        /\ Cardinality(wire \union heard) <= session.pushes
        /\ wire' = wire \union heard

Moves ==
    {<<"PENDING", "PAID">>, <<"PAID", "SHIPPED">>, <<"SHIPPED", "DELIVERED">>}
    \union {"PENDING", "PAID", "SHIPPED"} \X {"CANCELLED"}
    \union Statuses \X {"FAILED"}

\* A task or another customer changes an order.
order_moves(o) ==
    /\ moves < session.moves
    /\ moves' = moves + 1
    /\ \E to \in Statuses :
          /\ <<status[o], to>> \in Moves
          /\ status' = [status EXCEPT ![o] = to]
          /\ Publish({Push(o, to, "absent")})
    /\ UNCHANGED <<retried, page, fetch, losses>>

\* Another customer places an order.
other_order(o) ==
    /\ moves < session.moves
    /\ moves' = moves + 1
    /\ status[o] = None /\ Left(1)
    /\ status' = [status EXCEPT ![o] = "PENDING"]
    /\ Publish({Push(o, "PENDING", "absent")})
    /\ UNCHANGED <<retried, page, fetch, losses>>

\* Another customer's PUT is accepted: its event goes to every page with the
\* price asked for, null where it was left empty.
other_edit(o) ==
    /\ moves < session.moves
    /\ moves' = moves + 1
    /\ status[o] = "PENDING"
    /\ \E price \in {"number", "null"} :
          /\ price = "null" => o \in session.emptied
          /\ Publish({Push(o, None, price)})
    /\ UNCHANGED <<status, retried, page, fetch, losses>>

\* The task commits such an edit: order.updated has the order's own price.
order_edited(o) ==
    /\ moves < session.moves
    /\ moves' = moves + 1
    /\ status[o] = "PENDING"
    /\ Publish({Push(o, "PENDING", "number")})
    /\ UNCHANGED <<status, retried, page, fetch, losses>>

Accept(c) == fetch' = [fetch EXCEPT ![c].stage = "ok"]
Refuse(c) == fetch' = [fetch EXCEPT ![c].stage = "refused"]
Arrived(c, ops) == fetch[c].op \in ops /\ fetch[c].stage = "sent"

Ordered(c) == IF fetch[c].op = "bulk" THEN session.lines ELSE 1

\* POST /orders and /orders/bulk answer with the ids of the new orders.
create(c) ==
    /\ Arrived(c, {"place", "bulk"})
    /\ \E ids \in [1..Ordered(c) -> Unused] :
          /\ \A i, j \in DOMAIN ids : i # j => ids[i] # ids[j]
          /\ LET new == {ids[i] : i \in DOMAIN ids} IN
             /\ status' = [o \in Orders |-> IF o \in new THEN "PENDING"
                                                         ELSE status[o]]
             /\ Publish({Push(o, "PENDING", "absent") : o \in new})
          /\ fetch' = [fetch EXCEPT ![c].ids = ids, ![c].stage = "ok"]
    /\ UNCHANGED <<retried, moves, page, losses>>

\* GET /orders, /orders/{id}, and /timeline with /retries.
read(c) ==
    /\ Arrived(c, {"history", "poll", "detail"})
    /\ LET reply == CASE fetch[c].op = "history" ->
                           [o \in Orders |->
                              IF fetch[c].filter \in {"ALL", status[o]}
                              THEN status[o] ELSE None]
                      [] fetch[c].op = "poll" -> OnlyRow(Of(c))
                      [] OTHER -> Nothing
       IN  fetch' = [fetch EXCEPT ![c].reply = reply, ![c].stage = "ok"]
    /\ UNCHANGED <<engine, page, losses>>

\* POST /pay, PUT and DELETE start tasks that may move the order later; an
\* edit's event already carries the price asked for, null where it is absent.
request(c) ==
    /\ Arrived(c, {"pay", "pay_all", "edit", "cancel"})
    /\ IF \/ fetch[c].op = "pay_all"
          \/ status[Of(c)] = "PENDING"
          \/ fetch[c].op = "cancel" /\ status[Of(c)] \in {"PAID", "SHIPPED"}
       THEN /\ Accept(c)
            /\ IF fetch[c].op = "edit"
               THEN Publish({Push(Of(c), None, IF fetch[c].null THEN "null"
                                                               ELSE "number")})
               ELSE UNCHANGED wire
       ELSE Refuse(c) /\ UNCHANGED wire
    /\ UNCHANGED <<status, retried, moves, page, losses>>

\* POST /retry and /fail change the order at once.
retry_payment(c) ==
    /\ Arrived(c, {"retry"})
    /\ IF status[Of(c)] = "PENDING"
       THEN Accept(c) /\ retried' = [retried EXCEPT ![Of(c)] = @ + 1]
       ELSE Refuse(c) /\ UNCHANGED retried
    /\ UNCHANGED <<status, moves, wire, page, losses>>

fail_payment(c) ==
    /\ Arrived(c, {"fail"})
    /\ IF status[Of(c)] = "PENDING"
       THEN /\ Accept(c)
            /\ status' = [status EXCEPT ![Of(c)] = "FAILED"]
            /\ Publish({Push(Of(c), "FAILED", "absent")})
       ELSE Refuse(c) /\ UNCHANGED <<status, wire>>
    /\ UNCHANGED <<retried, moves, page, losses>>

-----------------------------------------------------------------------------

\* Seeded mistake: the catch clause only logs.
ref_kept(c) == failTriggered

ref_reset(c) ==
    IF fetch[c].op = "fail" THEN failTriggered \ {Of(c)} ELSE failTriggered

\* fetch rejects: the request or its answer is lost.  The catch and finally
\* clauses do what they do for an answer that is not ok, and take back
\* failTriggeredRef.
lose(c) ==
    /\ ~blank
    /\ losses < session.losses
    /\ losses' = losses + 1
    /\ fetch[c] # Idle /\ fetch[c].stage # "timer"
    /\ Done(c)
    /\ busy' = busy \ {fetch[c].op}
    /\ failTriggered' = ref_reset(c)
    /\ CloseDialog(IF fetch[c].op \in {"edit", "cancel"} THEN fetch[c].op
                                                        ELSE "none")
    /\ UNCHANGED <<engine, activeBatch, activeBatchIndex, retryCounts, history,
                   timeline, link, clicks, still>>

\* ws.onopen
onopen ==
    /\ ~blank
    /\ socket = "connecting"
    /\ socket' = "open"
    /\ wsConnected' = TRUE
    /\ UNCHANGED <<engine, tracker, history, dialogs, ghost, busy, fetch,
                   clicks, losses, still>>

\* Seeded mistake: an event without a status overwrites the one shown.
overwritten(row, push) ==
    [row EXCEPT !.status = push.status,
                !.priced = IF push.price = "absent" THEN @
                                                    ELSE push.price = "number"]

\* Seeded mistake: the price is not tested for undefined.
unpriced(row, push) ==
    [row EXCEPT !.status = IF push.status = None THEN @ ELSE push.status,
                !.priced = push.price = "number"]

\* The fields an event carries replace the row's; null is a value, too.
updated(row, push) ==
    [row EXCEPT !.status = IF push.status = None THEN @ ELSE push.status,
                !.priced = IF push.price = "absent" THEN @
                                                    ELSE push.price = "number"]

\* ws.onmessage: the order's tracked row and its row of the history.
onmessage(push) ==
    /\ ~blank
    /\ socket = "open"
    /\ wire' = wire \ {push}
    /\ UpdateRow(push.id, [row \in Rows |-> updated(row, push)])
    /\ ordersHistory' =
          IF ordersHistory[push.id] # None /\ push.status # None
          THEN [ordersHistory EXCEPT ![push.id] = push.status]
          ELSE ordersHistory
    /\ UNCHANGED <<status, retried, moves, activeBatchIndex, retryCounts,
                   failTriggered, statusFilter, dialogs, link, busy, fetch,
                   clicks, losses>>
    /\ Render

\* Seeded mistake: onclose only stops the heartbeat.
indicator_kept == wsConnected

disconnected == FALSE

\* ws.onerror and ws.onclose; nothing connects again, and what was on its way
\* to this client is gone.
onclose ==
    /\ ~blank
    /\ socket # "closed"
    /\ socket' = "closed"
    /\ wire' = {}
    /\ wsConnected' = disconnected
    /\ UNCHANGED <<status, retried, moves, tracker, history, dialogs, ghost,
                   busy, fetch, clicks, losses, still>>

\* React.StrictMode mounts twice: the first mount's socket was closed while
\* it was connecting, and its handlers set the same state.
first_socket_closes ==
    /\ ~blank
    /\ ghost
    /\ ghost' = FALSE
    /\ wsConnected' = FALSE
    /\ UNCHANGED <<engine, tracker, history, dialogs, socket, busy, fetch,
                   clicks, losses, still>>

-----------------------------------------------------------------------------

Customers(o) ==
    order_moves(o) \/ other_order(o) \/ other_edit(o) \/ order_edited(o)

Serve(c) ==
    create(c) \/ read(c) \/ request(c) \/ retry_payment(c) \/ fail_payment(c)

Continue(c) ==
    \/ order_placed(c) \/ orders_imported(c) \/ payment_submitted(c)
    \/ retry_answered(c) \/ fail_answered(c) \/ poll_answered(c)
    \/ history_fetched(c) \/ detail_loaded(c) \/ refetch(c)
    \/ update_queued(c) \/ cancellation_queued(c)

User ==
    \/ handlePlaceOrder \/ open_bulk \/ handleBulkSubmit
    \/ handlePayAll \/ handleRetryOrder \/ dismiss \/ turn(1) \/ turn(-1)
    \/ refresh \/ close_dialog \/ handleCancelOrder
    \/ \E o \in Orders : \/ handlePayOrder(o) \/ openDetailDialog(o)
                         \/ open_dialog("edit", o) \/ open_dialog("cancel", o)
    \/ \E filter \in Filters : setStatusFilter(filter)
    \/ \E null \in BOOLEAN : handleUpdateOrder(null)

Socket ==
    \/ onopen \/ onclose \/ first_socket_closes
    \/ \E push \in wire : onmessage(push)

\* Nothing is under way and no timer of the page but the clock does anything.
AtRest ==
    \/ blank
    \/ /\ Free = Fetches /\ (wire = {} \/ socket # "open") /\ ~polling
       /\ \A i \in DOMAIN activeBatch : ~used_up(activeBatch[i])

Rest == AtRest /\ UNCHANGED vars

Step ==
    \/ \E o \in Orders : Customers(o) \/ trigger_fail(o)
    \/ \E c \in Fetches : Serve(c) \/ Continue(c) \/ lose(c)
    \/ \E i \in DOMAIN activeBatch : expire(i)
    \/ User
    \/ poll
    \/ Socket

Next == Step \/ Rest

Spec == Init /\ [][Next]_vars

\* Requests are answered, answers delivered, time passes and the page's timers
\* run.  Nobody need click, no order need move, no event need arrive, nothing
\* need be lost.
Fairness ==
    /\ \A c \in Fetches : WF_vars(Serve(c) \/ Continue(c))
    /\ \A o \in Orders : WF_vars(trigger_fail(o))
    /\ \A i \in 1..Cardinality(Orders) : WF_vars(expire(i))
    /\ WF_vars(poll)

FairSpec == Spec /\ Fairness
=============================================================================
