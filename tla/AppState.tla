------------------------------ MODULE AppState ------------------------------
(***************************************************************************)
(* The state of the React page of frontend/src/App.js, of the requests it  *)
(* has under way and of the engine as the page sees it, with the helpers   *)
(* its handlers share.  AppTracker and AppHistory hold the handlers,       *)
(* OrderApp puts them together.                                            *)
(*                                                                         *)
(* JavaScript runs one callback at a time, so a step runs from one await,  *)
(* timer or event to the next.  A handler works with the values captured   *)
(* when it was created (its closure) unless it uses a functional update.   *)
(***************************************************************************)
EXTENDS OrderTypes, Sequences, FiniteSets

CONSTANTS
    Filters,      \* the status chips the user picks; "ALL" is the first
    MaxRetries,   \* the retries after which App.js fails an order: 3
    MaxFetches,   \* bound: requests and delayed refetches under way at once
    Sessions      \* bounds, and the kind of build: see below

Fetches == 1..MaxFetches

\* What may happen in one behaviour.  An instance with several small sessions
\* checks their union, not every mixture of them.
Session ==
    [controls : SUBSET STRING,  \* the page's controls the user works ...
     clicks : Nat,              \* ... and how often altogether
     lines : Nat \ {0},         \* the lines of the text of a bulk import
     moves : Nat,               \* steps of the engine nobody here asked for
     pushes : Nat,              \* events on their way at once
     losses : Nat,              \* requests or answers lost in the network
     emptied : SUBSET Orders,   \* whose price some edit, here or by another
                                \* customer, leaves empty
     strict : BOOLEAN]          \* a development build: effects mount twice

ASSUME AppConstants ==
    /\ MaxRetries \in Nat \ {0}
    /\ MaxFetches \in Nat \ {0, 1}
    /\ "ALL" \in Filters /\ Filters \subseteq Statuses \union {"ALL"}
    /\ Sessions \subseteq Session

VARIABLES
    \* the engine
    status,           \* orders.status, None before the order exists
    retried,          \* the payment.retry entries on each order's timeline
    moves,            \* how many of the session's moves were made
    wire,             \* pushes published and not yet received
    \* the page's state hooks and refs
    activeBatch,      \* the tracked orders
    activeBatchIndex, \* the one shown, from 0
    retryCounts,      \* retries per order, as counted on this page
    failTriggered,    \* failTriggeredRef: the orders reported as failed
    ordersHistory,    \* the status on each order's row, None without a row
    statusFilter,     \* the filter; it stands for the search text, too
    busy,             \* which of the page's four spinners are turning
    dialog,           \* the modal dialog that is open, and its order
    timeline,         \* the order whose timeline and retries are displayed
    wsConnected,      \* the LIVE/POLLING indicator
    blank,            \* rendering threw: React has unmounted the page
    \* around it
    socket,           \* the page's WebSocket
    ghost,            \* a first socket's close event is still to come
    fetch,            \* the requests and the delayed refetches under way
    clicks, losses,   \* how many of the session's were made
    session           \* the bounds of this behaviour

engine == <<status, retried, moves, wire>>
tracker == <<activeBatch, activeBatchIndex, retryCounts, failTriggered>>
history == <<ordersHistory, statusFilter>>
dialogs == <<dialog, timeline>>
link == <<wsConnected, socket, ghost>>
still == <<blank, session>>

-----------------------------------------------------------------------------

TERMINAL_STATES == {"DELIVERED", "FAILED", "CANCELLED"}

\* One status per order; None where there is nothing to say.
Listings == [Orders -> Statuses \union {None}]
Nothing == [o \in Orders |-> None]
OnlyRow(o) == [Nothing EXCEPT ![o] = status[o]]

\* A tracked order.  priced: its price is a number, not null.  expired: its
\* payment timer has run down.
Rows == [id : Orders, status : Statuses, priced : BOOLEAN, expired : BOOLEAN]
NewRow(o) ==
    [id |-> o, status |-> "PENDING", priced |-> TRUE, expired |-> FALSE]

Tracked == {activeBatch[i].id : i \in DOMAIN activeBatch}

\* activeBatch[activeBatchIndex]: undefined past the end.
HasActive == activeBatchIndex < Len(activeBatch)
ActiveOrder == activeBatch[activeBatchIndex + 1]
ActiveIs(o) == HasActive /\ ActiveOrder.id = o

\* Rendering calls activeOrder.price.toFixed: null throws, and a page without
\* an error boundary is unmounted for good.
Renders == HasActive => ActiveOrder.priced
Render == blank' = (blank \/ ~Renders') /\ UNCHANGED session

\* setActiveBatch with a functional update of one order's row.
UpdateRow(o, change) ==
    activeBatch' = [i \in DOMAIN activeBatch |->
                      IF activeBatch[i].id = o THEN change[activeBatch[i]]
                                               ELSE activeBatch[i]]

Unexpired(row) == row.status = "PENDING" /\ ~row.expired
TimedOut(row) == row.status = "PENDING" /\ row.expired

-----------------------------------------------------------------------------

OnOne == {"pay", "retry", "fail", "poll", "cancel", "edit", "detail"}
Ops == OnOne \union {"history", "place", "bulk", "pay_all"}

\* What a request under way remembers: its orders, the filter and the
\* emptiness of the batch in its handler's closure, and the answer.
Requesting == [op : Ops, ids : Seq(Orders),
               filter : Filters, fresh : BOOLEAN, null : BOOLEAN,
               stage : {"timer", "sent", "ok", "refused"}, reply : Listings]
Idle == [op |-> "none"]

Asks(op, ids, filter) ==
    [op |-> op, ids |-> ids, filter |-> filter,
     fresh |-> op = "place" /\ activeBatch = <<>>, null |-> FALSE,
     stage |-> "sent", reply |-> Nothing]

Free == {c \in Fetches : fetch[c] = Idle}
FirstFree == CHOOSE c \in Free : \A d \in Free : c <= d

\* fetch(...): the request is on its way and the handler awaits it.
Send(request) ==
    /\ Free # {}
    /\ fetch' = [fetch EXCEPT ![FirstFree] = request]

UnderWay(op) == {c \in Fetches : fetch[c].op = op}
Of(c) == fetch[c].ids[1]
\* The page is there and has this request at this stage.
At(c, op, stage) == ~blank /\ fetch[c].op = op /\ fetch[c].stage = stage

\* A bound: no more orders are asked for than Orders has left.
Unused == {o \in Orders : status[o] = None}
Creating(op) == Cardinality({c \in UnderWay(op) : fetch[c].stage = "sent"})
Left(n) ==
    Creating("place") + session.lines * Creating("bulk") + n
        <= Cardinality(Unused)

Done(c) == fetch' = [fetch EXCEPT ![c] = Idle]

\* fetchHistory(), called by a handler with the filter of its closure, at
\* once or through setTimeout.
ThenHistory(c, stage) ==
    fetch' = [fetch EXCEPT ![c] =
                [Asks("history", <<>>, fetch[c].filter) EXCEPT !.stage = stage]]

\* A control of the page: nothing behind an open modal dialog can be clicked.
Click(control) ==
    /\ control \in session.controls
    /\ ~blank
    /\ clicks < session.clicks
    /\ clicks' = clicks + 1

NoDialog == [kind |-> "none", order |-> None]
Dialogs == [kind : {"none", "bulk"}, order : {None}]
           \union [kind : {"detail", "edit", "cancel"}, order : Orders]
Page(control) == Click(control) /\ dialog = NoDialog

\* setXDialog(null): closes that dialog, whichever order it is open for.
CloseDialog(kind) == dialog' = IF dialog.kind = kind THEN NoDialog ELSE dialog
=============================================================================
