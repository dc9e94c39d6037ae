--------------------------- MODULE OrderAppProofs ---------------------------
(***************************************************************************)
(* The invariant of the page of App.js, for every session and any number   *)
(* of orders, requests and retries: what the batch, the requests under way *)
(* and the engine have to do with each other.                              *)
(*                                                                         *)
(* A step is looked at once, and what later proofs need of it is kept in   *)
(* two formulas: Calm (it lets no new order be tracked) and Even (it       *)
(* counts no retry and reports no order).  AppEffectsProofs builds on both.*)
(***************************************************************************)
EXTENDS AppProperties, FiniteSetTheorems, SequenceTheorems, TLAPS

-----------------------------------------------------------------------------
(* Lemmas about the operators.                                             *)

AnyFetch == [Fetches -> Requesting \union {Idle}]

\* A new request has the type of one.
LEMMA AsksType ==
    ASSUME NEW op \in Ops, NEW ids \in Seq(Orders), NEW filter \in Filters
    PROVE  /\ Asks(op, ids, filter) \in Requesting
           /\ Asks(op, ids, filter).op = op
           /\ Asks(op, ids, filter).ids = ids
           /\ Asks(op, ids, filter).stage = "sent"
<1>1. Nothing \in Listings
  BY DEF Nothing, Listings
<1> QED
  BY <1>1 DEF Asks, Requesting

\* Sending a request fills one place and leaves the others alone.
LEMMA SendFills ==
    ASSUME fetch \in AnyFetch, NEW r \in Requesting, Send(r)
    PROVE  /\ fetch' \in AnyFetch
           /\ \A d \in Fetches : fetch'[d] \in {fetch[d], r}
BY DEF AnyFetch, Send

\* The end of a request empties its place.
LEMMA DoneEmpties ==
    ASSUME fetch \in AnyFetch, NEW c \in Fetches, Done(c)
    PROVE  /\ fetch' \in AnyFetch
           /\ fetch'[c] = Idle
           /\ \A d \in Fetches \ {c} : fetch'[d] = fetch[d]
BY DEF AnyFetch, Done

\* A fetch of the history takes the place of the request it follows.
LEMMA HistoryFollows ==
    ASSUME fetch \in AnyFetch, NEW c \in Fetches, fetch[c] # Idle,
           NEW stage \in {"timer", "sent"}, ThenHistory(c, stage)
    PROVE  /\ fetch' \in AnyFetch
           /\ fetch'[c].op = "history" /\ fetch'[c].stage = stage
           /\ fetch'[c].reply = Nothing
           /\ \A d \in Fetches \ {c} : fetch'[d] = fetch[d]
<1> DEFINE r == Asks("history", <<>>, fetch[c].filter)
<1>1. "history" \in Ops /\ <<>> \in Seq(Orders) /\ fetch[c].filter \in Filters
  BY DEF AnyFetch, Requesting, Ops
<1>2. r \in Requesting /\ r.op = "history" /\ r.reply = Nothing
  <2>1. r \in Requesting /\ r.op = "history"
    BY <1>1, AsksType
  <2>2. r.reply = Nothing
    BY DEF Asks
  <2> QED
    BY <2>1, <2>2
<1>3. /\ [r EXCEPT !.stage = stage] \in Requesting
      /\ [r EXCEPT !.stage = stage].op = "history"
      /\ [r EXCEPT !.stage = stage].stage = stage
      /\ [r EXCEPT !.stage = stage].reply = Nothing
  <2> HIDE DEF r
  <2> QED BY <1>2 DEF Requesting
<1>4. fetch' = [fetch EXCEPT ![c] = [r EXCEPT !.stage = stage]]
  BY DEF ThenHistory
<1> HIDE DEF r
<1> QED
  BY <1>3, <1>4 DEF AnyFetch

\* The engine's answer and the end of a delay only change the stage.
LEMMA StageChanges ==
    ASSUME fetch \in AnyFetch, NEW c \in Fetches, fetch[c] # Idle,
           NEW to \in {"sent", "ok", "refused"},
           fetch' = [fetch EXCEPT ![c].stage = to]
    PROVE  /\ fetch' \in AnyFetch
           /\ fetch'[c] = [fetch[c] EXCEPT !.stage = to]
           /\ fetch'[c].op = fetch[c].op /\ fetch'[c].ids = fetch[c].ids
           /\ fetch'[c].reply = fetch[c].reply /\ fetch'[c].stage = to
           /\ \A d \in Fetches \ {c} : fetch'[d] = fetch[d]
<1>1. fetch[c] \in Requesting
  BY DEF AnyFetch
<1>2. fetch'[c] = [fetch[c] EXCEPT !.stage = to]
  BY DEF AnyFetch
<1>3. fetch'[c] \in Requesting
  BY <1>1, <1>2 DEF Requesting
<1> QED
  BY <1>1, <1>2, <1>3 DEF AnyFetch, Requesting

\* The tracked orders stay the same, in the same order.
SameRows ==
    /\ DOMAIN activeBatch' = DOMAIN activeBatch
    /\ \A i \in DOMAIN activeBatch : activeBatch'[i].id = activeBatch[i].id

\* A functional update of one row keeps the batch a batch of the same orders.
LEMMA RowUpdates ==
    ASSUME activeBatch \in Seq(Rows), NEW o,
           NEW change \in [Rows -> Rows],
           \A row \in Rows : change[row].id = row.id,
           UpdateRow(o, change)
    PROVE  activeBatch' \in Seq(Rows) /\ SameRows
<1> DEFINE n == Len(activeBatch)
<1>1. n \in Nat /\ DOMAIN activeBatch = 1..n
  OBVIOUS
<1>2. \A i \in 1..n : activeBatch[i] \in Rows
  BY <1>1
<1>3. activeBatch' = [i \in 1..n |-> IF activeBatch[i].id = o
                                     THEN change[activeBatch[i]]
                                     ELSE activeBatch[i]]
  BY <1>1 DEF UpdateRow
<1>4. DOMAIN activeBatch' = 1..n /\ \A i \in 1..n : activeBatch'[i] \in Rows
  BY <1>2, <1>3
<1>5. activeBatch' \in [1..n -> Rows]
  BY <1>2, <1>3
<1>6. activeBatch' \in Seq(Rows)
  BY <1>1, <1>5, SeqDef
<1> QED
  BY <1>1, <1>2, <1>3, <1>6 DEF SameRows

-----------------------------------------------------------------------------
(* The invariant.                                                          *)

\* The answer to a creation is on its way.
Creates(c) == fetch[c].op \in {"place", "bulk"} /\ fetch[c].stage = "ok"

\* Only orders that exist are tracked, ...
TrackedExist == \A i \in DOMAIN activeBatch : status[activeBatch[i].id] # None

\* ... asked about, and told of.
RequestsFit ==
    \A c \in Fetches :
        /\ fetch[c].op \in OnOne => fetch[c].ids # <<>>
        /\ fetch[c].op = "poll" =>
              /\ status[Of(c)] # None
              /\ fetch[c].stage = "ok" => fetch[c].reply[Of(c)] # None
        /\ Creates(c) =>
              /\ fetch[c].ids # <<>>
              /\ \A i \in DOMAIN fetch[c].ids : status[fetch[c].ids[i]] # None
              /\ \A i, j \in DOMAIN fetch[c].ids :
                    fetch[c].ids[i] = fetch[c].ids[j] => i = j

\* An order on its way to the tracker is not there yet, nor on its way twice.
NewApart ==
    \A c \in Fetches : Creates(c) =>
        \A i \in DOMAIN fetch[c].ids :
            /\ \A j \in DOMAIN activeBatch :
                  fetch[c].ids[i] # activeBatch[j].id
            /\ \A d \in Fetches \ {c} : Creates(d) =>
                  \A j \in DOMAIN fetch[d].ids :
                     fetch[c].ids[i] # fetch[d].ids[j]

PageInv == TypeOK /\ TrackedExist /\ RequestsFit /\ NewApart

-----------------------------------------------------------------------------
(* Most steps leave little to argue: what they make of a request has no new *)
(* order, and neither a new report nor a newly accepted retry.             *)

CalmSlot(d) ==
    \/ fetch'[d] = fetch[d]
    \/ /\ fetch'[d].op \in OnOne => fetch'[d].ids # <<>>
       /\ fetch'[d].op = "poll" =>
             fetch'[d].stage = "sent" /\ status[fetch'[d].ids[1]] # None
       /\ fetch'[d].op \in {"place", "bulk"} => fetch'[d].stage # "ok"

Calm ==
    /\ \A o \in Orders : status[o] # None => status'[o] # None
    /\ SameRows \/ activeBatch' = <<>>
    /\ \A d \in Fetches : CalmSlot(d)

EvenSlot(d) ==
    /\ fetch'[d].op = "fail" =>
          fetch[d].op = "fail" /\ fetch'[d].ids = fetch[d].ids
    /\ fetch'[d].op = "retry" /\ fetch'[d].stage = "ok" =>
          /\ fetch[d].op = "retry" /\ fetch[d].stage = "ok"
          /\ fetch'[d].ids = fetch[d].ids

Even ==
    /\ UNCHANGED <<retryCounts, retried, failTriggered>>
    /\ \A d \in Fetches : EvenSlot(d)

LEMMA TrackedAreOrders ==
    ASSUME activeBatch \in Seq(Rows)
    PROVE  \A i \in DOMAIN activeBatch :
              activeBatch[i] \in Rows /\ activeBatch[i].id \in Orders
<1>1. \A i \in DOMAIN activeBatch : activeBatch[i] \in Rows
  OBVIOUS
<1> QED
  BY <1>1 DEF Rows

\* Calm requests still fit, whatever happens to the batch.
LEMMA CalmRequests ==
    ASSUME PageInv, fetch' \in AnyFetch, \A d \in Fetches : CalmSlot(d),
           \A o \in Orders : status[o] # None => status'[o] # None
    PROVE  RequestsFit'
<1>1. \A c \in Fetches : fetch[c] = Idle \/ fetch[c] \in Requesting
  BY DEF PageInv, TypeOK
<1>2. \A c \in Fetches : fetch'[c] = Idle \/ fetch'[c] \in Requesting
  BY DEF AnyFetch
<1> SUFFICES ASSUME NEW c \in Fetches
             PROVE  (/\ fetch[c].op \in OnOne => fetch[c].ids # <<>>
                     /\ fetch[c].op = "poll" =>
                           /\ status[Of(c)] # None
                           /\ fetch[c].stage = "ok" =>
                                 fetch[c].reply[Of(c)] # None
                     /\ Creates(c) =>
                           /\ fetch[c].ids # <<>>
                           /\ \A i \in DOMAIN fetch[c].ids :
                                 status[fetch[c].ids[i]] # None
                           /\ \A i, j \in DOMAIN fetch[c].ids :
                                 fetch[c].ids[i] = fetch[c].ids[j] => i = j)'
  BY DEF RequestsFit
<1>3. CASE fetch'[c] = fetch[c]
  <2>1. CASE fetch[c] = Idle
    BY <1>3, <2>1 DEF Idle, Creates, OnOne
  <2>2. CASE fetch[c] \in Requesting
    <3>1. fetch[c].ids \in Seq(Orders)
      BY <2>2 DEF Requesting
    <3>2. \A i \in DOMAIN fetch[c].ids : fetch[c].ids[i] \in Orders
      BY <3>1
    <3>3. fetch[c].op \in OnOne => Of(c) \in Orders
      BY <3>1 DEF PageInv, RequestsFit, Of
    <3> QED
      BY <1>3, <3>2, <3>3 DEF PageInv, RequestsFit, Creates, Of, OnOne
  <2> QED
    BY <1>1, <2>1, <2>2
<1>4. CASE fetch'[c] # fetch[c]
  <2>1. CASE fetch'[c] = Idle
    BY <2>1 DEF Idle, Creates, OnOne
  <2>2. CASE fetch'[c] \in Requesting
    <3>1. fetch'[c].ids \in Seq(Orders)
      BY <2>2 DEF Requesting
    <3>2. fetch'[c].op \in OnOne => Of(c)' \in Orders
      BY <1>4, <3>1 DEF CalmSlot, Of
    <3> QED
      BY <1>4, <3>2 DEF CalmSlot, Creates, Of, OnOne
  <2> QED
    BY <1>2, <2>1, <2>2
<1> QED
  BY <1>3, <1>4

\* A calm step that keeps the types keeps the invariant.
LEMMA CalmKeeps ==
    ASSUME PageInv, TypeOK', Calm
    PROVE  PageInv'
<1>1. \A i \in DOMAIN activeBatch : activeBatch[i].id \in Orders
  BY TrackedAreOrders DEF PageInv, TypeOK
<1>2. \A i \in DOMAIN activeBatch' :
         i \in DOMAIN activeBatch /\ activeBatch'[i].id = activeBatch[i].id
  BY DEF Calm, SameRows
<1>3. TrackedExist'
  BY <1>1, <1>2 DEF PageInv, TrackedExist, Calm
<1>4. RequestsFit'
  BY CalmRequests DEF Calm, TypeOK, AnyFetch
<1>5. \A c \in Fetches : Creates(c)' => Creates(c) /\ fetch'[c] = fetch[c]
  BY DEF Calm, CalmSlot, Creates
<1>6. NewApart'
  BY <1>2, <1>5 DEF PageInv, NewApart
<1> QED
  BY <1>3, <1>4, <1>6 DEF PageInv

\* Sending anything but a report is calm and even for the requests.
LEMMA SendIsCalm ==
    ASSUME PageInv, NEW r \in Requesting, Send(r), r.stage = "sent",
           r.op # "fail", r.op \in OnOne => r.ids # <<>>,
           r.op = "poll" => status[r.ids[1]] # None
    PROVE  /\ fetch' \in AnyFetch
           /\ \A d \in Fetches : CalmSlot(d) /\ EvenSlot(d)
<1>1. fetch \in AnyFetch
  BY DEF PageInv, TypeOK, AnyFetch
<1>2. fetch' \in AnyFetch /\ \A d \in Fetches : fetch'[d] \in {fetch[d], r}
  BY <1>1, SendFills
<1> QED
  BY <1>2 DEF CalmSlot, EvenSlot

LEMMA DoneIsCalm ==
    ASSUME PageInv, NEW c \in Fetches, Done(c)
    PROVE  /\ fetch' \in AnyFetch
           /\ \A d \in Fetches : CalmSlot(d) /\ EvenSlot(d)
<1>1. fetch \in AnyFetch
  BY DEF PageInv, TypeOK, AnyFetch
<1> QED
  BY <1>1, DoneEmpties DEF CalmSlot, EvenSlot, Idle, OnOne

LEMMA HistoryIsCalm ==
    ASSUME PageInv, NEW c \in Fetches, fetch[c] # Idle,
           NEW stage \in {"timer", "sent"}, ThenHistory(c, stage)
    PROVE  /\ fetch' \in AnyFetch
           /\ \A d \in Fetches : CalmSlot(d) /\ EvenSlot(d)
<1>1. fetch \in AnyFetch
  BY DEF PageInv, TypeOK, AnyFetch
<1> QED
  BY <1>1, HistoryFollows DEF CalmSlot, EvenSlot, OnOne

\* So is an answer that creates nothing, tells nothing and counts nothing.
LEMMA StageIsCalm ==
    ASSUME PageInv, NEW c \in Fetches, fetch[c] # Idle,
           fetch[c].op \notin {"poll", "place", "bulk"},
           NEW to \in {"sent", "ok", "refused"},
           fetch' = [fetch EXCEPT ![c].stage = to]
    PROVE  /\ fetch' \in AnyFetch
           /\ \A d \in Fetches : CalmSlot(d)
           /\ fetch[c].op # "retry" \/ to # "ok" =>
                 \A d \in Fetches : EvenSlot(d)
<1>1. fetch \in AnyFetch
  BY DEF PageInv, TypeOK, AnyFetch
<1>2. fetch[c].op \in OnOne => fetch[c].ids # <<>>
  BY DEF PageInv, RequestsFit
<1>3. /\ fetch' \in AnyFetch
      /\ fetch'[c].op = fetch[c].op /\ fetch'[c].ids = fetch[c].ids
      /\ fetch'[c].stage = to
      /\ \A d \in Fetches \ {c} : fetch'[d] = fetch[d]
  BY <1>1, StageChanges
<1> QED
  BY <1>2, <1>3 DEF CalmSlot, EvenSlot

-----------------------------------------------------------------------------
(* The steps, in the order of the modules.                                 *)

Ordinary == TypeOK' /\ Calm /\ Even /\ UNCHANGED <<wsConnected, socket>>

\* What a click leaves to show where it only sends a request.
LEMMA Sending ==
    ASSUME PageInv, NEW r \in Requesting, Send(r), r.stage = "sent",
           r.op # "fail", r.op \in OnOne => r.ids # <<>>,
           r.op = "poll" => status[r.ids[1]] # None,
           UNCHANGED <<engine, tracker, ordersHistory, link, still>>,
           statusFilter' \in Filters,
           busy' \subseteq busy \union {"place", "bulk", "detail"},
           dialog' \in Dialogs, timeline' \in Orders \union {None},
           clicks' \in Nat, losses' \in Nat
    PROVE  Ordinary
<1>1. fetch' \in AnyFetch /\ \A d \in Fetches : CalmSlot(d) /\ EvenSlot(d)
  BY SendIsCalm
<1>2. Calm /\ Even /\ UNCHANGED <<wsConnected, socket>>
  BY <1>1 DEF Calm, Even, SameRows, engine, tracker, link
<1>3. TypeOK'
  BY <1>1 DEF PageInv, TypeOK, AnyFetch, engine, tracker, link, still
<1> QED
  BY <1>2, <1>3 DEF Ordinary

\* A request about nothing or about one order has the type of one.
LEMMA Asking ==
    ASSUME PageInv, NEW op \in Ops, NEW filter \in Filters,
           NEW ids, ids = <<>> \/ \E o \in Orders : ids = <<o>>
    PROVE  /\ Asks(op, ids, filter) \in Requesting
           /\ Asks(op, ids, filter).op = op
           /\ Asks(op, ids, filter).ids = ids
           /\ Asks(op, ids, filter).stage = "sent"
           /\ statusFilter \in Filters
<1>1. ids = <<>> => ids \in Seq(Orders)
  OBVIOUS
<1>2. ASSUME NEW o \in Orders, ids = <<o>>
      PROVE  ids \in Seq(Orders)
  BY <1>2
<1>3. ids \in Seq(Orders)
  BY <1>1, <1>2
<1> QED
  BY <1>3, AsksType DEF PageInv, TypeOK

\* The order shown is one of the tracked ones.
LEMMA ActiveIsTracked ==
    ASSUME PageInv, HasActive
    PROVE  /\ activeBatchIndex + 1 \in DOMAIN activeBatch
           /\ ActiveOrder \in Rows /\ ActiveOrder.id \in Orders
           /\ status[ActiveOrder.id] # None
<1>1. activeBatch \in Seq(Rows) /\ activeBatchIndex \in Nat
  BY DEF PageInv, TypeOK
<1>2. activeBatchIndex + 1 \in DOMAIN activeBatch
  BY <1>1 DEF HasActive
<1> QED
  BY <1>1, <1>2, TrackedAreOrders DEF ActiveOrder, PageInv, TrackedExist

LEMMA PlaceStep ==
    ASSUME PageInv, handlePlaceOrder
    PROVE  Ordinary
<1> DEFINE r == Asks("place", <<>>, statusFilter)
<1>1. "place" \in Ops /\ "place" \notin OnOne /\ statusFilter \in Filters
  BY DEF Ops, OnOne, PageInv, TypeOK
<1>2. r \in Requesting /\ r.op = "place" /\ r.stage = "sent"
  BY <1>1, Asking
<1> HIDE DEF r
<1>3. Send(r)
  BY DEF handlePlaceOrder, r
<1> QED
  BY <1>1, <1>2, <1>3, Sending
     DEF handlePlaceOrder, PlaceOffered, Page, Click, PageInv, TypeOK, history,
         dialogs

LEMMA ImportStep ==
    ASSUME PageInv, handleBulkSubmit
    PROVE  Ordinary
<1> DEFINE r == Asks("bulk", <<>>, statusFilter)
<1>1. "bulk" \in Ops /\ "bulk" \notin OnOne /\ statusFilter \in Filters
  BY DEF Ops, OnOne, PageInv, TypeOK
<1>2. r \in Requesting /\ r.op = "bulk" /\ r.stage = "sent"
  BY <1>1, Asking
<1> HIDE DEF r
<1>3. Send(r)
  BY DEF handleBulkSubmit, r
<1> QED
  BY <1>1, <1>2, <1>3, Sending
     DEF handleBulkSubmit, ImportOffered, Click, PageInv, TypeOK, history,
         dialogs

\* The buttons that ask for something about the order o.
LEMMA AskStep ==
    ASSUME PageInv, NEW op \in {"pay", "retry", "cancel", "edit"},
           NEW o \in Orders,
           UNCHANGED <<engine, tracker, history, dialogs, link, busy, losses,
                       still>>,
           clicks' \in Nat,
           \/ Send(Asks(op, <<o>>, statusFilter))
           \/ \E null \in BOOLEAN :
                 Send([Asks(op, <<o>>, statusFilter) EXCEPT !.null = null])
    PROVE  Ordinary
<1> DEFINE r == Asks(op, <<o>>, statusFilter)
<1>1. /\ op \in Ops /\ op \in OnOne /\ op \notin {"fail", "poll"}
      /\ statusFilter \in Filters
  BY DEF Ops, OnOne, PageInv, TypeOK
<1>2. r \in Requesting /\ r.op = op /\ r.stage = "sent" /\ r.ids = <<o>>
  BY <1>1, Asking
<1>3. UNCHANGED <<ordersHistory, statusFilter, dialog, timeline>>
  BY DEF history, dialogs
<1>4. PICK q \in Requesting : /\ Send(q) /\ q.op = op /\ q.stage = "sent"
                              /\ q.ids = <<o>>
  <2>1. CASE Send(r)
    BY <1>2, <2>1
  <2>2. ASSUME NEW null \in BOOLEAN, Send([r EXCEPT !.null = null])
        PROVE  \E q \in Requesting : /\ Send(q) /\ q.op = op /\ q.stage = "sent"
                                     /\ q.ids = <<o>>
    <3> HIDE DEF r
    <3>1. /\ [r EXCEPT !.null = null] \in Requesting
          /\ [r EXCEPT !.null = null].op = op
          /\ [r EXCEPT !.null = null].stage = "sent"
          /\ [r EXCEPT !.null = null].ids = <<o>>
      BY <1>2 DEF Requesting
    <3> QED
      BY <2>2, <3>1
  <2> QED
    BY <2>1, <2>2
<1>5. q.ids # <<>>
  BY <1>4
<1>6. /\ statusFilter' \in Filters /\ dialog' \in Dialogs
      /\ timeline' \in Orders \union {None} /\ losses' \in Nat
  BY <1>3 DEF PageInv, TypeOK
<1>7. busy' \subseteq busy \union {"place", "bulk", "detail"}
  OBVIOUS
<1> HIDE DEF r
<1> QED
  BY <1>1, <1>3, <1>4, <1>5, <1>6, <1>7, Sending

LEMMA ClickSteps ==
    ASSUME PageInv,
           \/ handleRetryOrder \/ handleCancelOrder
           \/ \E o \in Orders : handlePayOrder(o)
           \/ \E null \in BOOLEAN : handleUpdateOrder(null)
    PROVE  Ordinary
<1>1. clicks \in Nat /\ dialog \in Dialogs /\ Statuses # {}
  BY DEF PageInv, TypeOK, Statuses
<1>2. CASE handleRetryOrder
  <2>1. HasActive /\ clicks' \in Nat
    BY <1>1, <1>2 DEF handleRetryOrder, RetryOffered, Page, Click
  <2>2. ActiveOrder.id \in Orders
    BY <2>1, ActiveIsTracked
  <2> QED
    BY <1>2, <2>1, <2>2, AskStep DEF handleRetryOrder
<1>3. CASE handleCancelOrder
  <2>1. dialog.order \in Orders /\ clicks' \in Nat
    BY <1>1, <1>3 DEF handleCancelOrder, CancelOffered, Click, Dialogs
  <2> QED
    BY <1>3, <2>1, AskStep DEF handleCancelOrder
<1>4. ASSUME NEW o \in Orders, handlePayOrder(o)
      PROVE  Ordinary
  <2>1. clicks' \in Nat
    BY <1>1, <1>4 DEF handlePayOrder, PayOffered, RowPayOffered, Page, Click
  <2> QED
    BY <1>4, <2>1, AskStep DEF handlePayOrder
<1>5. ASSUME NEW null \in BOOLEAN, handleUpdateOrder(null)
      PROVE  Ordinary
  <2>1. dialog.order \in Orders /\ clicks' \in Nat
    BY <1>1, <1>5 DEF handleUpdateOrder, EditOffered, Click, Dialogs
  <2> QED
    BY <1>5, <2>1, AskStep DEF handleUpdateOrder
<1> QED
  BY <1>2, <1>3, <1>4, <1>5

LEMMA PollStep ==
    ASSUME PageInv, poll
    PROVE  Ordinary
<1> DEFINE r == Asks("poll", <<ActiveOrder.id>>, statusFilter)
<1>1. ActiveOrder.id \in Orders /\ status[ActiveOrder.id] # None
  BY ActiveIsTracked DEF poll, polling
<1>2. "poll" \in Ops /\ statusFilter \in Filters
  BY DEF Ops, OnOne, PageInv, TypeOK
<1>3. /\ r \in Requesting /\ r.op = "poll" /\ r.stage = "sent"
      /\ r.ids = <<ActiveOrder.id>>
  BY <1>1, <1>2, Asking
<1> HIDE DEF r
<1>4. r.ids # <<>> /\ r.ids[1] = ActiveOrder.id
  BY <1>3
<1>5. Send(r)
  BY DEF poll, r
<1> QED
  BY <1>1, <1>3, <1>4, <1>5, Sending DEF poll, PageInv, TypeOK, history, dialogs

LEMMA PayAllStep ==
    ASSUME PageInv, handlePayAll
    PROVE  Ordinary
<1> DEFINE r == Asks("pay_all", <<>>, statusFilter)
<1>1. "pay_all" \in Ops /\ "pay_all" \notin OnOne /\ statusFilter \in Filters
  BY DEF Ops, OnOne, PageInv, TypeOK
<1>2. r \in Requesting /\ r.op = "pay_all" /\ r.stage = "sent"
  BY <1>1, Asking
<1>3. Send(r)
  BY DEF handlePayAll
<1> HIDE DEF r
<1> QED
  BY <1>1, <1>2, <1>3, Sending
     DEF handlePayAll, PayAllOffered, Page, Click, PageInv, TypeOK, history,
         dialogs

LEMMA ListSteps ==
    ASSUME PageInv, refresh \/ \E filter \in Filters : setStatusFilter(filter)
    PROVE  Ordinary
<1>1. PICK filter \in Filters :
         /\ Send(Asks("history", <<>>, filter)) /\ statusFilter' = filter
         /\ clicks' = clicks + 1
         /\ UNCHANGED <<engine, tracker, ordersHistory, dialogs, link, busy,
                        losses, still>>
  BY DEF refresh, setStatusFilter, Page, Click, PageInv, TypeOK, history
<1> DEFINE r == Asks("history", <<>>, filter)
<1>2. "history" \in Ops /\ "history" \notin OnOne
  BY DEF Ops, OnOne
<1>3. r \in Requesting /\ r.op = "history" /\ r.stage = "sent"
  BY <1>2, Asking
<1>4. Send(r)
  BY <1>1
<1> HIDE DEF r
<1> QED
  BY <1>1, <1>2, <1>3, <1>4, Sending DEF PageInv, TypeOK, dialogs

LEMMA DetailStep ==
    ASSUME PageInv, NEW o \in Orders, openDetailDialog(o)
    PROVE  Ordinary
<1> DEFINE r == Asks("detail", <<o>>, statusFilter)
<1>1. "detail" \in Ops /\ statusFilter \in Filters
  BY DEF Ops, OnOne, PageInv, TypeOK
<1>2. r \in Requesting /\ r.op = "detail" /\ r.stage = "sent" /\ r.ids = <<o>>
  BY <1>1, Asking
<1>3. Send(r) /\ r.ids # <<>>
  BY <1>2 DEF openDetailDialog
<1>4. [kind |-> "detail", order |-> o] \in Dialogs
  BY DEF Dialogs
<1>5. /\ statusFilter' \in Filters /\ dialog' \in Dialogs
      /\ timeline' \in Orders \union {None}
      /\ busy' \subseteq busy \union {"place", "bulk", "detail"}
      /\ clicks' \in Nat /\ losses' \in Nat
      /\ UNCHANGED <<engine, tracker, ordersHistory, link, still>>
  BY <1>4 DEF openDetailDialog, Row, Page, Click, PageInv, TypeOK, history
<1> HIDE DEF r
<1> QED
  BY <1>1, <1>2, <1>3, <1>5, Sending

-----------------------------------------------------------------------------

\* Steps of the page that touch no request and no row.
LEMMA DialogSteps ==
    ASSUME PageInv,
           \/ open_bulk \/ close_dialog
           \/ \E o \in Orders, kind \in {"edit", "cancel"} :
                 open_dialog(kind, o)
    PROVE  Ordinary
<1>1. /\ dialog' \in Dialogs /\ clicks' \in Nat
      /\ UNCHANGED <<engine, tracker, history, timeline, link, busy, fetch,
                     losses, still>>
  BY DEF open_bulk, close_dialog, open_dialog, Row, Page, Click, Dialogs,
     NoDialog, PageInv, TypeOK
<1>2. TypeOK'
  BY <1>1 DEF PageInv, TypeOK, engine, tracker, history, link, still
<1>3. Calm /\ Even /\ UNCHANGED <<wsConnected, socket>>
  BY <1>1 DEF Calm, Even, CalmSlot, EvenSlot, SameRows, engine, tracker, link
<1> QED
  BY <1>2, <1>3 DEF Ordinary

LEMMA TurnStep ==
    ASSUME PageInv, NEW step \in Int, turn(step)
    PROVE  Ordinary
<1>1. /\ activeBatchIndex' \in Nat /\ clicks' \in Nat /\ blank' \in BOOLEAN
      /\ UNCHANGED <<engine, activeBatch, retryCounts, failTriggered, history,
                     dialogs, link, busy, fetch, losses, session>>
  BY DEF turn, Page, Click, Render, PageInv, TypeOK
<1>2. TypeOK'
  BY <1>1 DEF PageInv, TypeOK, engine, history, dialogs, link
<1>3. Calm /\ Even /\ UNCHANGED <<wsConnected, socket>>
  BY <1>1 DEF Calm, Even, CalmSlot, EvenSlot, SameRows, engine, link
<1> QED
  BY <1>2, <1>3 DEF Ordinary

LEMMA DismissStep ==
    ASSUME PageInv, dismiss
    PROVE  Ordinary
<1>1. /\ activeBatch' = <<>> /\ clicks' \in Nat /\ blank' \in BOOLEAN
      /\ UNCHANGED <<engine, activeBatchIndex, retryCounts, failTriggered,
                     history, dialogs, link, busy, fetch, losses, session>>
  BY DEF dismiss, Page, Click, Render, PageInv, TypeOK
<1>2. TypeOK'
  BY <1>1 DEF PageInv, TypeOK, engine, history, dialogs, link
<1>3. Calm /\ Even /\ UNCHANGED <<wsConnected, socket>>
  BY <1>1 DEF Calm, Even, CalmSlot, EvenSlot, engine, link
<1> QED
  BY <1>2, <1>3 DEF Ordinary

\* The socket's own events.
LEMMA LinkSteps ==
    ASSUME PageInv, onopen \/ onclose \/ first_socket_closes
    PROVE  TypeOK' /\ Calm /\ Even
<1>1. /\ wire' \subseteq wire /\ UNCHANGED <<status, retried, moves>>
      /\ wsConnected' \in BOOLEAN /\ ghost' \in BOOLEAN
      /\ socket' \in {"connecting", "open", "closed"}
      /\ UNCHANGED <<tracker, history, dialogs, busy, fetch, clicks, losses,
                     still>>
  BY DEF onopen, onclose, first_socket_closes, disconnected, PageInv, TypeOK,
     engine
<1>2. TypeOK'
  BY <1>1 DEF PageInv, TypeOK, tracker, history, dialogs, still
<1>3. Calm /\ Even
  BY <1>1 DEF Calm, Even, CalmSlot, EvenSlot, SameRows, tracker
<1> QED
  BY <1>2, <1>3

-----------------------------------------------------------------------------

\* Time passes for a tracked order.
LEMMA ExpireStep ==
    ASSUME PageInv, NEW i \in DOMAIN activeBatch, expire(i)
    PROVE  Ordinary /\ SameRows
<1>1. activeBatch \in Seq(Rows) /\ activeBatch[i] \in Rows
  BY TrackedAreOrders DEF PageInv, TypeOK
<1>2. /\ [activeBatch[i] EXCEPT !.expired = TRUE] \in Rows
      /\ [activeBatch[i] EXCEPT !.expired = TRUE].id = activeBatch[i].id
  BY <1>1 DEF Rows
<1>3. activeBatch' = [activeBatch EXCEPT ![i] =
                        [activeBatch[i] EXCEPT !.expired = TRUE]]
  BY DEF expire
<1>4. activeBatch' \in Seq(Rows)
  BY <1>1, <1>2, <1>3
<1>5. SameRows
  BY <1>1, <1>2, <1>3 DEF SameRows
<1>6. /\ blank' \in BOOLEAN
      /\ UNCHANGED <<engine, activeBatchIndex, retryCounts, failTriggered,
                     history, dialogs, link, busy, fetch, clicks, losses,
                     session>>
  BY DEF expire, Render, PageInv, TypeOK
<1>7. TypeOK'
  BY <1>4, <1>5, <1>6
     DEF PageInv, TypeOK, SameRows, engine, history, dialogs, link
<1>8. Calm /\ Even /\ UNCHANGED <<wsConnected, socket>>
  BY <1>5, <1>6 DEF Calm, Even, CalmSlot, EvenSlot, engine, link
<1> QED
  BY <1>5, <1>7, <1>8 DEF Ordinary

\* What an answer about one order leaves to show.
LEMMA Telling ==
    ASSUME PageInv, NEW c \in Fetches, fetch[c] # Idle,
           activeBatch' \in Seq(Rows), SameRows,
           Done(c) \/ ThenHistory(c, "sent"), blank' \in BOOLEAN,
           UNCHANGED <<engine, activeBatchIndex, retryCounts, failTriggered,
                       history, dialogs, link, busy, clicks, losses, session>>
    PROVE  Ordinary
<1>1. fetch' \in AnyFetch /\ \A d \in Fetches : CalmSlot(d) /\ EvenSlot(d)
  BY DoneIsCalm, HistoryIsCalm
<1>2. TypeOK'
  BY <1>1 DEF PageInv, TypeOK, AnyFetch, SameRows, engine, history, dialogs,
              link
<1>3. Calm /\ Even /\ UNCHANGED <<wsConnected, socket>>
  BY <1>1 DEF Calm, Even, engine, link
<1> QED
  BY <1>2, <1>3 DEF Ordinary

LEMMA FailAnswered ==
    ASSUME PageInv, NEW c \in Fetches, fail_answered(c)
    PROVE  Ordinary /\ SameRows
<1>1. PICK stage \in {"ok", "refused"} :
         /\ At(c, "fail", stage)
         /\ UpdateRow(Of(c), [row \in Rows |-> failed(row, stage)])
  BY DEF fail_answered
<1> DEFINE change == [row \in Rows |-> failed(row, stage)]
<1>2. \A row \in Rows :
         failed(row, stage) \in Rows /\ failed(row, stage).id = row.id
  BY DEF failed, Rows, Statuses
<1>3. change \in [Rows -> Rows] /\ \A row \in Rows : change[row].id = row.id
  BY <1>2
<1>4. UpdateRow(Of(c), change)
  BY <1>1
<1> HIDE DEF change
<1>5. activeBatch' \in Seq(Rows) /\ SameRows
  BY <1>3, <1>4, RowUpdates DEF PageInv, TypeOK
<1>6. fetch[c] # Idle
  BY <1>1 DEF At, Idle
<1>7. blank' \in BOOLEAN /\ UNCHANGED session
  BY DEF fail_answered, Render, PageInv, TypeOK
<1> QED
  BY <1>5, <1>6, <1>7, Telling DEF fail_answered

LEMMA PollAnswered ==
    ASSUME PageInv, NEW c \in Fetches, poll_answered(c)
    PROVE  Ordinary /\ SameRows
<1> DEFINE now == fetch[c].reply[Of(c)]
           change == [row \in Rows |-> [row EXCEPT !.status = now,
                                                   !.priced = TRUE]]
<1>1. At(c, "poll", "ok")
  BY DEF poll_answered
<1>2. fetch[c] # Idle
  BY <1>1 DEF At, Idle
<1>3. fetch[c] \in Requesting /\ fetch[c].ids # <<>>
  BY <1>1, <1>2 DEF At, PageInv, TypeOK, RequestsFit, OnOne
<1>4. fetch[c].reply \in Listings /\ fetch[c].ids \in Seq(Orders)
  BY <1>3 DEF Requesting
<1>5. Of(c) \in Orders
  BY <1>3, <1>4 DEF Of
<1>6. now \in Statuses
  BY <1>1, <1>4, <1>5 DEF At, PageInv, RequestsFit, Listings
<1>7. \A row \in Rows :
         /\ [row EXCEPT !.status = now, !.priced = TRUE] \in Rows
         /\ [row EXCEPT !.status = now, !.priced = TRUE].id = row.id
  <2> HIDE DEF now
  <2> QED BY <1>6 DEF Rows
<1>8. change \in [Rows -> Rows] /\ \A row \in Rows : change[row].id = row.id
  <2> HIDE DEF now
  <2> QED BY <1>7
<1>9. UpdateRow(Of(c), change)
  BY DEF poll_answered
<1>10. Done(c) \/ ThenHistory(c, "sent")
  BY DEF poll_answered
<1>11. blank' \in BOOLEAN /\ UNCHANGED session
  BY DEF poll_answered, Render, PageInv, TypeOK
<1>12. UNCHANGED <<engine, activeBatchIndex, retryCounts, failTriggered,
                   history, dialogs, link, busy, clicks, losses>>
  BY DEF poll_answered
<1> HIDE DEF now, change
<1>13. activeBatch' \in Seq(Rows) /\ SameRows
  BY <1>8, <1>9, RowUpdates DEF PageInv, TypeOK
<1> QED
  BY <1>2, <1>10, <1>11, <1>12, <1>13, Telling

LEMMA PushArrives ==
    ASSUME PageInv, NEW push \in wire, onmessage(push)
    PROVE  Ordinary /\ SameRows
<1> DEFINE change == [row \in Rows |-> updated(row, push)]
<1>1. push \in Pushes
  BY DEF PageInv, TypeOK
<1>2. \A row \in Rows :
         updated(row, push) \in Rows /\ updated(row, push).id = row.id
  BY <1>1 DEF updated, Rows, Pushes
<1>3. change \in [Rows -> Rows] /\ \A row \in Rows : change[row].id = row.id
  BY <1>2
<1>4. UpdateRow(push.id, change)
  BY DEF onmessage
<1> HIDE DEF change
<1>5. activeBatch' \in Seq(Rows) /\ SameRows
  BY <1>3, <1>4, RowUpdates DEF PageInv, TypeOK
<1>6. ordersHistory' \in Listings
  BY <1>1 DEF onmessage, PageInv, TypeOK, Listings, Pushes
<1>7. /\ wire' \subseteq wire /\ blank' \in BOOLEAN
      /\ UNCHANGED <<status, retried, moves, activeBatchIndex, retryCounts,
                     failTriggered, statusFilter, dialogs, link, busy, fetch,
                     clicks, losses, session>>
  BY DEF onmessage, Render, PageInv, TypeOK
<1>8. TypeOK'
  BY <1>5, <1>6, <1>7 DEF PageInv, TypeOK, SameRows, dialogs, link
<1>9. Calm /\ Even /\ UNCHANGED <<wsConnected, socket>>
  BY <1>5, <1>7 DEF Calm, Even, CalmSlot, EvenSlot, link
<1> QED
  BY <1>5, <1>8, <1>9 DEF Ordinary

\* The answers that change no row.
LEMMA AnswerSteps ==
    ASSUME PageInv, NEW c \in Fetches,
           \/ payment_submitted(c) \/ history_fetched(c) \/ detail_loaded(c)
           \/ refetch(c) \/ update_queued(c) \/ cancellation_queued(c)
    PROVE  Ordinary
<1>1. fetch[c] # Idle
  BY DEF payment_submitted, history_fetched, detail_loaded, refetch,
     update_queued, cancellation_queued, queued, At, Idle
<1>2. fetch[c] \in Requesting
  BY <1>1 DEF PageInv, TypeOK
<1>3. fetch[c].ids \in Seq(Orders) /\ fetch[c].reply \in Listings
  BY <1>2 DEF Requesting
<1>4. detail_loaded(c) => Of(c) \in Orders
  BY <1>3 DEF detail_loaded, At, PageInv, RequestsFit, OnOne, Of
<1>5. /\ ordersHistory' \in Listings /\ busy' \subseteq busy
      /\ timeline' \in Orders \union {None} /\ dialog' \in Dialogs
      /\ UNCHANGED <<engine, tracker, statusFilter, link, clicks, losses,
                     still>>
  BY <1>3, <1>4 DEF payment_submitted, history_fetched, detail_loaded, refetch,
     update_queued, cancellation_queued, queued, CloseDialog, NoDialog, Dialogs,
     history, dialogs, PageInv, TypeOK
<1>6. \/ Done(c) \/ ThenHistory(c, "timer")
      \/ /\ fetch[c].op = "history"
         /\ fetch' = [fetch EXCEPT ![c].stage = "sent"]
  BY DEF payment_submitted, history_fetched, detail_loaded, refetch,
     update_queued, cancellation_queued, queued, At
<1>7. fetch' \in AnyFetch /\ \A d \in Fetches : CalmSlot(d) /\ EvenSlot(d)
  BY <1>1, <1>6, DoneIsCalm, HistoryIsCalm, StageIsCalm
<1>8. TypeOK'
  BY <1>5, <1>7 DEF PageInv, TypeOK, AnyFetch, engine, tracker, link, still
<1>9. Calm /\ Even /\ UNCHANGED <<wsConnected, socket>>
  BY <1>5, <1>7 DEF Calm, Even, SameRows, engine, tracker, link
<1> QED
  BY <1>8, <1>9 DEF Ordinary

-----------------------------------------------------------------------------

LEMMA PublishType ==
    ASSUME wire \subseteq Pushes, NEW pushes \in SUBSET Pushes, Publish(pushes)
    PROVE  wire' \subseteq Pushes
BY DEF Publish

LEMMA PushType ==
    ASSUME NEW o \in Orders, NEW to \in Statuses \union {None},
           NEW price \in {"absent", "number", "null"}
    PROVE  Push(o, to, price) \in Pushes
BY DEF Push, Pushes

\* Statuses are not None, so an order that has one exists.
LEMMA StatusExists ==
    \A s \in Statuses : s # None
BY NoneIsFresh

\* Whatever the engine does to an order on its own.
LEMMA CustomerSteps ==
    ASSUME PageInv, NEW o \in Orders, Customers(o)
    PROVE  Ordinary
<1>1. /\ status' \in Listings
      /\ \A q \in Orders : status[q] # None => status'[q] # None
      /\ wire' \subseteq Pushes /\ moves' \in Nat
      /\ UNCHANGED <<retried, page, fetch, losses>>
  <2>1. status \in Listings /\ wire \subseteq Pushes /\ moves \in Nat
    BY DEF PageInv, TypeOK
  <2>2. CASE order_moves(o)
    <3>1. PICK to \in Statuses : /\ status' = [status EXCEPT ![o] = to]
                                 /\ Publish({Push(o, to, "absent")})
      BY <2>2 DEF order_moves
    <3>2. {Push(o, to, "absent")} \in SUBSET Pushes
      BY PushType
    <3>3. wire' \subseteq Pushes
      BY <2>1, <3>1, <3>2, PublishType
    <3> QED
      BY <2>1, <2>2, <3>1, <3>3, StatusExists DEF order_moves, Listings
  <2>3. CASE other_order(o)
    <3>1. {Push(o, "PENDING", "absent")} \in SUBSET Pushes
      BY PushType DEF Statuses
    <3>2. wire' \subseteq Pushes
      BY <2>1, <2>3, <3>1, PublishType DEF other_order
    <3>3. "PENDING" \in Statuses
      BY DEF Statuses
    <3> QED
      BY <2>1, <2>3, <3>2, <3>3, StatusExists DEF other_order, Listings
  <2>4. CASE order_edited(o)
    <3>1. {Push(o, "PENDING", "number")} \in SUBSET Pushes
      BY PushType DEF Statuses
    <3>2. wire' \subseteq Pushes
      BY <2>1, <2>4, <3>1, PublishType DEF order_edited
    <3> QED
      BY <2>1, <2>4, <3>2 DEF order_edited
  <2>5. CASE other_edit(o)
    <3>1. PICK price \in {"number", "null"} : Publish({Push(o, None, price)})
      BY <2>5 DEF other_edit
    <3>2. {Push(o, None, price)} \in SUBSET Pushes
      BY PushType
    <3>3. wire' \subseteq Pushes
      BY <2>1, <3>1, <3>2, PublishType
    <3> QED
      BY <2>1, <2>5, <3>3 DEF other_edit
  <2> QED
    BY <2>2, <2>3, <2>4, <2>5 DEF Customers
<1>2. TypeOK'
  BY <1>1 DEF PageInv, TypeOK, page, tracker, history, dialogs, link, still
<1>3. Calm /\ Even /\ UNCHANGED <<wsConnected, socket>>
  BY <1>1 DEF Calm, Even, CalmSlot, EvenSlot, SameRows, page, tracker, link
<1> QED
  BY <1>2, <1>3 DEF Ordinary

\* The engine answers a request without having to create or look up anything.
LEMMA RequestSteps ==
    ASSUME PageInv, NEW c \in Fetches, request(c) \/ fail_payment(c)
    PROVE  Ordinary
<1>1. /\ fetch[c].op \in {"pay", "pay_all", "edit", "cancel", "fail"}
      /\ fetch[c].stage = "sent"
  BY DEF request, fail_payment, Arrived
<1>2. fetch[c] # Idle /\ fetch[c] \in Requesting
  BY <1>1 DEF Idle, PageInv, TypeOK
<1>3. fetch[c].op # "pay_all" => Of(c) \in Orders
  <2>1. fetch[c].ids \in Seq(Orders)
    BY <1>2 DEF Requesting
  <2>2. fetch[c].op # "pay_all" => fetch[c].ids # <<>>
    BY <1>1 DEF PageInv, RequestsFit, OnOne
  <2> QED
    BY <2>1, <2>2 DEF Of
<1>4. Accept(c) \/ Refuse(c)
  BY DEF request, fail_payment
<1>5. fetch' \in AnyFetch /\ \A d \in Fetches : CalmSlot(d) /\ EvenSlot(d)
  BY <1>1, <1>2, <1>4, StageIsCalm DEF Accept, Refuse
<1>6. wire' \subseteq Pushes
  <2>1. wire \subseteq Pushes
    BY DEF PageInv, TypeOK
  <2>2. CASE UNCHANGED wire
    BY <2>1, <2>2
  <2>3. CASE wire' # wire
    <3>1. PICK to \in {None, "FAILED"}, price \in {"absent", "number", "null"} :
             Of(c) \in Orders /\ Publish({Push(Of(c), to, price)})
      <4>1. CASE fail_payment(c)
        BY <1>3, <2>3, <4>1 DEF fail_payment, Arrived
      <4>2. CASE request(c)
        <5>1. Of(c) \in Orders /\ \E price \in {"number", "null"} :
                 Publish({Push(Of(c), None, price)})
          <6>1. fetch[c].op = "edit"
            BY <2>3, <4>2 DEF request
          <6>2. CASE fetch[c].null
            BY <1>3, <2>3, <4>2, <6>1, <6>2 DEF request
          <6>3. CASE ~fetch[c].null
            BY <1>3, <2>3, <4>2, <6>1, <6>3 DEF request
          <6> QED
            BY <6>2, <6>3
        <5> QED
          BY <5>1
      <4> QED
        BY <4>1, <4>2
    <3>2. {Push(Of(c), to, price)} \in SUBSET Pushes
      BY <3>1, PushType DEF Statuses
    <3> QED
      BY <2>1, <3>1, <3>2, PublishType
  <2> QED
    BY <2>2, <2>3
<1>7. /\ status' \in Listings
      /\ \A o \in Orders : status[o] # None => status'[o] # None
      /\ UNCHANGED <<retried, moves, page, losses>>
  <2>1. "FAILED" \in Statuses
    BY DEF Statuses
  <2> QED
    BY <2>1, StatusExists DEF request, fail_payment, PageInv, TypeOK, Listings
<1>8. TypeOK'
  BY <1>5, <1>6, <1>7 DEF PageInv, TypeOK, AnyFetch, page, tracker, history,
                          dialogs, link, still
<1>9. Calm /\ Even /\ UNCHANGED <<wsConnected, socket>>
  BY <1>5, <1>7 DEF Calm, Even, SameRows, page, tracker, link
<1> QED
  BY <1>8, <1>9 DEF Ordinary

-----------------------------------------------------------------------------
(* The steps that count retries or mark reports.                           *)

LEMMA RetryPaid ==
    ASSUME PageInv, NEW c \in Fetches, retry_payment(c)
    PROVE  /\ TypeOK' /\ Calm /\ UNCHANGED <<wsConnected, socket>>
           /\ UNCHANGED <<retryCounts, failTriggered>>
           /\ fetch' \in AnyFetch /\ fetch[c].op = "retry" /\ Of(c) \in Orders
           /\ fetch'[c].op = "retry" /\ fetch'[c].ids = fetch[c].ids
           /\ \A d \in Fetches \ {c} : fetch'[d] = fetch[d]
           /\ \/ Even
              \/ retried' = [retried EXCEPT ![Of(c)] = @ + 1]
<1>1. fetch[c].op = "retry" /\ fetch[c].stage = "sent"
  BY DEF retry_payment, Arrived
<1>2. fetch[c] # Idle /\ fetch[c] \in Requesting /\ fetch[c].ids # <<>>
  BY <1>1 DEF Idle, PageInv, TypeOK, RequestsFit, OnOne
<1>3. fetch[c].ids \in Seq(Orders)
  BY <1>2 DEF Requesting
<1>4. Of(c) \in Orders
  BY <1>2, <1>3 DEF Of
<1>5. fetch \in AnyFetch
  BY DEF PageInv, TypeOK, AnyFetch
<1>6. /\ fetch' \in AnyFetch /\ \A d \in Fetches : CalmSlot(d)
      /\ fetch'[c].op = "retry" /\ fetch'[c].ids = fetch[c].ids
      /\ \A d \in Fetches \ {c} : fetch'[d] = fetch[d]
      /\ Refuse(c) => \A d \in Fetches : EvenSlot(d)
  <2>1. PICK to \in {"ok", "refused"} :
            /\ fetch' = [fetch EXCEPT ![c].stage = to]
            /\ Refuse(c) => to = "refused"
    <3>1. CASE Refuse(c)
      BY <3>1 DEF Refuse
    <3>2. CASE ~Refuse(c)
      BY <3>2 DEF retry_payment, Accept
    <3> QED
      BY <3>1, <3>2
  <2>2. fetch[c].op \notin {"poll", "place", "bulk"}
    BY <1>1
  <2>3. /\ fetch'[c].op = fetch[c].op /\ fetch'[c].ids = fetch[c].ids
        /\ \A d \in Fetches \ {c} : fetch'[d] = fetch[d]
    BY <1>2, <1>5, <2>1, StageChanges
  <2>4. /\ fetch' \in AnyFetch /\ \A d \in Fetches : CalmSlot(d)
        /\ to # "ok" => \A d \in Fetches : EvenSlot(d)
    BY <1>2, <2>1, <2>2, StageIsCalm
  <2> QED
    BY <1>1, <2>1, <2>3, <2>4
<1>7. /\ retried' \in [Orders -> Nat]
      /\ UNCHANGED <<status, moves, wire, page, losses>>
  BY <1>4 DEF retry_payment, PageInv, TypeOK
<1>8. \/ Refuse(c) /\ UNCHANGED retried
      \/ retried' = [retried EXCEPT ![Of(c)] = @ + 1]
  BY DEF retry_payment
<1>9. TypeOK'
  BY <1>6, <1>7 DEF PageInv, TypeOK, AnyFetch, page, tracker, history, dialogs,
                    link, still
<1>10. Calm /\ UNCHANGED <<wsConnected, socket, retryCounts, failTriggered>>
  BY <1>6, <1>7 DEF Calm, SameRows, page, tracker, link
<1> QED
  BY <1>1, <1>4, <1>6, <1>8, <1>9, <1>10 DEF Even

LEMMA RetryAnswered ==
    ASSUME PageInv, NEW c \in Fetches, retry_answered(c)
    PROVE  /\ TypeOK' /\ Calm /\ SameRows /\ UNCHANGED <<wsConnected, socket>>
           /\ UNCHANGED <<retried, failTriggered>>
           /\ \A d \in Fetches : EvenSlot(d)
           /\ Of(c) \in Orders
           /\ \/ UNCHANGED retryCounts
              \/ /\ fetch[c].op = "retry" /\ fetch[c].stage = "ok"
                 /\ fetch'[c] = Idle
                 /\ retryCounts' = [retryCounts EXCEPT ![Of(c)] = @ + 1]
<1>1. PICK stage \in {"ok", "refused"} :
         /\ At(c, "retry", stage)
         /\ retryCounts' = [retryCounts EXCEPT ![Of(c)] = @ + counted(stage)]
         /\ IF stage = "ok"
            THEN UpdateRow(Of(c),
                           [row \in Rows |-> [row EXCEPT !.expired = FALSE]])
            ELSE UNCHANGED activeBatch
  BY DEF retry_answered
<1>2. fetch[c].op = "retry" /\ fetch[c].stage = stage
  BY <1>1 DEF At
<1>3. fetch[c] # Idle /\ fetch[c] \in Requesting /\ fetch[c].ids # <<>>
  BY <1>2 DEF Idle, PageInv, TypeOK, RequestsFit, OnOne
<1>4. fetch[c].ids \in Seq(Orders)
  BY <1>3 DEF Requesting
<1>5. Of(c) \in Orders
  BY <1>3, <1>4 DEF Of
<1>6. activeBatch \in Seq(Rows) /\ retryCounts \in [Orders -> Nat]
  BY DEF PageInv, TypeOK
<1>7. activeBatch' \in Seq(Rows) /\ SameRows
  <2> DEFINE change == [row \in Rows |-> [row EXCEPT !.expired = FALSE]]
  <2>1. \A row \in Rows : /\ [row EXCEPT !.expired = FALSE] \in Rows
                          /\ [row EXCEPT !.expired = FALSE].id = row.id
    BY DEF Rows
  <2>2. change \in [Rows -> Rows] /\ \A row \in Rows : change[row].id = row.id
    BY <2>1
  <2>3. UpdateRow(Of(c), change) \/ UNCHANGED activeBatch
    BY <1>1
  <2> HIDE DEF change
  <2> QED
    BY <1>6, <2>2, <2>3, RowUpdates DEF SameRows
<1>8. retryCounts' \in [Orders -> Nat]
  <2>1. counted(stage) \in Nat
    BY DEF counted
  <2>2. retryCounts[Of(c)] + counted(stage) \in Nat
    BY <1>5, <1>6, <2>1
  <2> QED
    BY <1>1, <1>6, <2>2
<1>9. \/ UNCHANGED retryCounts
      \/ stage = "ok" /\ retryCounts' = [retryCounts EXCEPT ![Of(c)] = @ + 1]
  <2>1. CASE stage = "ok"
    BY <1>1, <2>1 DEF counted
  <2>2. CASE stage # "ok"
    <3>1. retryCounts' = [retryCounts EXCEPT ![Of(c)] = retryCounts[Of(c)] + 0]
      BY <1>1, <2>2 DEF counted
    <3> QED
      BY <1>5, <1>6, <3>1
  <2> QED
    BY <2>1, <2>2
<1>10. /\ Done(c) /\ blank' \in BOOLEAN
       /\ UNCHANGED <<engine, activeBatchIndex, failTriggered, history, dialogs,
                      link, busy, clicks, losses, session>>
  BY DEF retry_answered, Render, PageInv, TypeOK
<1>11. fetch' \in AnyFetch /\ \A d \in Fetches : CalmSlot(d) /\ EvenSlot(d)
  BY <1>10, DoneIsCalm
<1>12. fetch'[c] = Idle
  BY <1>10, DoneEmpties DEF PageInv, TypeOK, AnyFetch
<1>13. TypeOK'
  BY <1>7, <1>8, <1>10, <1>11 DEF PageInv, TypeOK, AnyFetch, SameRows, engine,
                                  history, dialogs, link
<1>14. Calm /\ UNCHANGED <<wsConnected, socket, retried>>
  BY <1>7, <1>10, <1>11 DEF Calm, engine, link
<1> QED
  BY <1>2, <1>5, <1>7, <1>9, <1>10, <1>11, <1>12, <1>13, <1>14

LEMMA Triggered ==
    ASSUME PageInv, NEW o \in Orders, trigger_fail(o)
    PROVE  /\ TypeOK' /\ Calm
           /\ UNCHANGED <<retryCounts, retried, wsConnected, socket>>
           /\ o \notin failTriggered
           /\ failTriggered' = failTriggered \union {o}
           /\ retryCounts[o] >= MaxRetries
           /\ \E c \in Fetches :
                 /\ fetch'[c].op = "fail" => Of(c)' = o
                 /\ EvenSlot(c) \/ fetch'[c].op = "fail"
                 /\ \A d \in Fetches \ {c} : fetch'[d] = fetch[d]
<1> DEFINE r == Asks("fail", <<o>>, statusFilter)
<1>1. "fail" \in Ops /\ statusFilter \in Filters
  BY DEF Ops, OnOne, PageInv, TypeOK
<1>2. r \in Requesting /\ r.op = "fail" /\ r.stage = "sent" /\ r.ids = <<o>>
  BY <1>1, Asking
<1>3. Send(r)
  BY DEF trigger_fail
<1> HIDE DEF r
<1>4. fetch \in AnyFetch
  BY DEF PageInv, TypeOK, AnyFetch
<1>5. r.ids # <<>> /\ r.ids[1] = o
  BY <1>2
<1>6. fetch' \in AnyFetch
  BY <1>3, <1>4, <1>2, SendFills
<1>7. \A d \in Fetches : CalmSlot(d)
  BY <1>2, <1>3, <1>4, <1>5, SendFills DEF CalmSlot
<1>8. \E c \in Fetches :
         /\ fetch'[c].op = "fail" => Of(c)' = o
         /\ EvenSlot(c) \/ fetch'[c].op = "fail"
         /\ \A d \in Fetches \ {c} : fetch'[d] = fetch[d]
  <2>1. Free # {} /\ fetch' = [fetch EXCEPT ![FirstFree] = r]
    BY <1>3 DEF Send
  <2>2. CASE FirstFree \in Fetches
    <3>1. /\ fetch'[FirstFree] = r
          /\ \A d \in Fetches \ {FirstFree} : fetch'[d] = fetch[d]
      BY <1>4, <2>1, <2>2 DEF AnyFetch
    <3> QED
      BY <1>2, <1>5, <2>2, <3>1 DEF Of
  <2>3. CASE FirstFree \notin Fetches
    <3>1. \A d \in Fetches : fetch'[d] = fetch[d]
      BY <1>4, <2>1, <2>3 DEF AnyFetch
    <3>2. PICK c \in Fetches : fetch[c] = Idle
      BY <2>1 DEF Free
    <3> QED
      BY <3>1, <3>2 DEF Idle, EvenSlot
  <2> QED
    BY <2>2, <2>3
<1>9. /\ failTriggered' = failTriggered \union {o}
      /\ UNCHANGED <<engine, activeBatch, activeBatchIndex, retryCounts,
                     history, dialogs, link, busy, clicks, losses, still>>
  BY DEF trigger_fail
<1>10. o \notin failTriggered /\ retryCounts[o] >= MaxRetries
  BY DEF trigger_fail, used_up
<1>11. TypeOK'
  BY <1>6, <1>9 DEF PageInv, TypeOK, AnyFetch, engine, history, dialogs, link,
                    still
<1>12. Calm /\ UNCHANGED <<retried, wsConnected, socket>>
  BY <1>7, <1>9 DEF Calm, SameRows, engine, link
<1> QED
  BY <1>8, <1>9, <1>10, <1>11, <1>12

LEMMA Lost ==
    ASSUME PageInv, NEW c \in Fetches, lose(c)
    PROVE  /\ TypeOK' /\ Calm
           /\ UNCHANGED <<retryCounts, retried, wsConnected, socket>>
           /\ failTriggered' = ref_reset(c)
           /\ fetch'[c] = Idle
           /\ \A d \in Fetches \ {c} : fetch'[d] = fetch[d]
           /\ \A d \in Fetches : EvenSlot(d)
<1>1. fetch' \in AnyFetch /\ \A d \in Fetches : CalmSlot(d) /\ EvenSlot(d)
  BY DoneIsCalm DEF lose
<1>2. fetch'[c] = Idle /\ \A d \in Fetches \ {c} : fetch'[d] = fetch[d]
  BY DoneEmpties DEF lose, PageInv, TypeOK, AnyFetch
<1>3. failTriggered' = ref_reset(c) /\ ref_reset(c) \subseteq failTriggered
  BY DEF lose, ref_reset
<1>4. /\ busy' \subseteq busy /\ losses' \in Nat /\ dialog' \in Dialogs
      /\ UNCHANGED <<engine, activeBatch, activeBatchIndex, retryCounts,
                     history, timeline, link, clicks, still>>
  BY DEF lose, CloseDialog, NoDialog, Dialogs, PageInv, TypeOK
<1>5. TypeOK'
  BY <1>1, <1>3, <1>4 DEF PageInv, TypeOK, AnyFetch, engine, history, link,
                          still
<1>6. Calm /\ UNCHANGED <<retried, wsConnected, socket>>
  BY <1>1, <1>4 DEF Calm, SameRows, engine, link
<1> QED
  BY <1>1, <1>2, <1>3, <1>4, <1>5, <1>6

-----------------------------------------------------------------------------
(* The steps that bring new orders and news of orders.                     *)

\* The order in an answer to a creation is new to the tracker.
LEMMA CreatedIsNew ==
    ASSUME PageInv, NEW c \in Fetches, Creates(c)
    PROVE  /\ fetch[c] # Idle /\ fetch[c].ids \in Seq(Orders)
           /\ fetch[c].ids # <<>> /\ 1 \in DOMAIN fetch[c].ids
           /\ \A i \in DOMAIN fetch[c].ids :
                 /\ fetch[c].ids[i] \in Orders
                 /\ status[fetch[c].ids[i]] # None
<1>1. fetch[c] # Idle /\ fetch[c] \in Requesting
  BY DEF Creates, Idle, PageInv, TypeOK
<1>2. fetch[c].ids \in Seq(Orders)
  BY <1>1 DEF Requesting
<1> QED
  BY <1>1, <1>2 DEF PageInv, RequestsFit

LEMMA Placed ==
    ASSUME PageInv, NEW c \in Fetches, order_placed(c)
    PROVE  /\ PageInv' /\ Even /\ UNCHANGED <<wsConnected, socket>>
           /\ Tracked \subseteq Tracked'
<1> DEFINE n == Len(activeBatch)
           o == Of(c)
<1>1. Creates(c) /\ At(c, "place", "ok")
  BY DEF order_placed, At, Creates
<1>2. /\ o \in Orders /\ status[o] # None /\ o = fetch[c].ids[1]
      /\ 1 \in DOMAIN fetch[c].ids /\ fetch[c] # Idle
  BY <1>1, CreatedIsNew DEF Of
<1>3. activeBatch \in Seq(Rows) /\ n \in Nat /\ DOMAIN activeBatch = 1..n
  BY DEF PageInv, TypeOK
<1>4. NewRow(o) \in Rows /\ NewRow(o).id = o
  BY <1>2 DEF NewRow, Rows, Statuses
<1>5. activeBatch' = Append(activeBatch, NewRow(o))
  BY DEF order_placed, appended
<1> HIDE DEF o
<1>6. /\ activeBatch' \in Seq(Rows) /\ DOMAIN activeBatch' = 1..(n + 1)
      /\ activeBatch'[n + 1] = NewRow(o)
      /\ \A i \in 1..n : activeBatch'[i] = activeBatch[i]
  BY <1>3, <1>4, <1>5
<1>7. \A i \in 1..n : activeBatch[i].id # o
  BY <1>1, <1>2, <1>3 DEF PageInv, NewApart
<1>8. \A i, j \in DOMAIN activeBatch' :
         activeBatch'[i].id = activeBatch'[j].id => i = j
  <2> SUFFICES ASSUME NEW i \in 1..(n + 1), NEW j \in 1..(n + 1),
                      activeBatch'[i].id = activeBatch'[j].id
               PROVE  i = j
    BY <1>6
  <2>1. CASE i \in 1..n /\ j \in 1..n
    BY <1>3, <1>6, <2>1 DEF PageInv, TypeOK
  <2>2. CASE i = n + 1 \/ j = n + 1
    BY <1>3, <1>4, <1>6, <1>7, <2>2
  <2> QED
    BY <1>3, <2>1, <2>2
<1>9. ThenHistory(c, "sent")
  BY DEF order_placed
<1>10. fetch' \in AnyFetch /\ \A d \in Fetches : CalmSlot(d) /\ EvenSlot(d)
  BY <1>2, <1>9, HistoryIsCalm
<1>11. /\ fetch'[c].op = "history"
       /\ \A d \in Fetches \ {c} : fetch'[d] = fetch[d]
  BY <1>2, <1>9, HistoryFollows DEF PageInv, TypeOK, AnyFetch
<1>12. /\ activeBatchIndex' \in Nat /\ busy' \subseteq busy
       /\ blank' \in BOOLEAN
       /\ UNCHANGED <<engine, retryCounts, failTriggered, history, dialogs,
                      link, clicks, losses, session>>
  BY DEF order_placed, finally, Render, PageInv, TypeOK
<1>13. TypeOK'
  BY <1>6, <1>8, <1>10, <1>12 DEF PageInv, TypeOK, AnyFetch, engine, history,
                                  dialogs, link
<1>14. UNCHANGED status
  BY <1>12 DEF engine
<1>15. TrackedExist'
  <2> SUFFICES ASSUME NEW i \in 1..(n + 1)
               PROVE  status[activeBatch'[i].id] # None
    BY <1>6, <1>14 DEF TrackedExist
  <2>1. CASE i \in 1..n
    BY <1>3, <1>6, <2>1 DEF PageInv, TrackedExist
  <2>2. CASE i = n + 1
    BY <1>2, <1>4, <1>6, <2>2
  <2> QED
    BY <1>3, <2>1, <2>2
<1>16. RequestsFit'
  BY <1>10, <1>14, CalmRequests
<1>17. NewApart'
  <2>1. \A d \in Fetches : Creates(d)' =>
           d # c /\ Creates(d) /\ fetch'[d] = fetch[d]
    BY <1>11 DEF Creates
  <2>2. \A d \in Fetches \ {c} : Creates(d) =>
           \A i \in DOMAIN fetch[d].ids : fetch[d].ids[i] # o
    BY <1>1, <1>2 DEF PageInv, NewApart
  <2>3. ASSUME NEW d \in Fetches, Creates(d)', NEW i \in DOMAIN fetch'[d].ids,
               NEW j \in DOMAIN activeBatch'
        PROVE  fetch'[d].ids[i] # activeBatch'[j].id
    <3>1. CASE j \in 1..n
      BY <1>3, <1>6, <2>1, <2>3, <3>1 DEF PageInv, NewApart
    <3>2. CASE j = n + 1
      BY <1>4, <1>6, <2>1, <2>2, <2>3, <3>2
    <3> QED
      BY <1>3, <1>6, <2>3, <3>1, <3>2
  <2>4. \A d, e \in Fetches : Creates(d)' /\ Creates(e)' /\ e # d =>
           \A i \in DOMAIN fetch'[d].ids, j \in DOMAIN fetch'[e].ids :
              fetch'[d].ids[i] # fetch'[e].ids[j]
    BY <2>1 DEF PageInv, NewApart
  <2> QED
    BY <2>3, <2>4 DEF NewApart
<1>18. Even /\ UNCHANGED <<wsConnected, socket>>
  BY <1>10, <1>12 DEF Even, engine, link
<1>19. Tracked \subseteq Tracked'
  <2> SUFFICES ASSUME NEW i \in 1..n
               PROVE  activeBatch[i].id \in Tracked'
    BY <1>3 DEF Tracked
  <2>1. i \in DOMAIN activeBatch' /\ activeBatch'[i].id = activeBatch[i].id
    BY <1>3, <1>6
  <2> QED
    BY <2>1 DEF Tracked
<1> QED
  BY <1>13, <1>15, <1>16, <1>17, <1>18, <1>19 DEF PageInv

LEMMA Imported ==
    ASSUME PageInv, NEW c \in Fetches, orders_imported(c)
    PROVE  /\ PageInv' /\ Even /\ UNCHANGED <<wsConnected, socket>>
           /\ c \in UnderWay("bulk") /\ fetch[c].stage = "ok"
           /\ c \notin UnderWay("bulk")'
<1> DEFINE ids == fetch[c].ids
           n == Len(ids)
<1>1. Creates(c) /\ fetch[c].op = "bulk" /\ fetch[c].stage = "ok"
  BY DEF orders_imported, At, Creates
<1>2. /\ ids \in Seq(Orders) /\ fetch[c] # Idle
      /\ \A i \in DOMAIN ids : ids[i] \in Orders /\ status[ids[i]] # None
  BY <1>1, CreatedIsNew
<1>3. n \in Nat /\ DOMAIN ids = 1..n
  BY <1>2
<1>4. \A i, j \in DOMAIN ids : ids[i] = ids[j] => i = j
  BY <1>1 DEF PageInv, RequestsFit
<1>5. activeBatch' = [i \in DOMAIN ids |-> NewRow(ids[i])]
  BY DEF orders_imported
<1>6. ThenHistory(c, "sent")
  BY DEF orders_imported
<1>7. fetch' \in AnyFetch /\ \A d \in Fetches : CalmSlot(d) /\ EvenSlot(d)
  BY <1>2, <1>6, HistoryIsCalm
<1>8. /\ fetch'[c].op = "history"
      /\ \A d \in Fetches \ {c} : fetch'[d] = fetch[d]
  BY <1>2, <1>6, HistoryFollows DEF PageInv, TypeOK, AnyFetch
<1>9. \A d \in Fetches : Creates(d)' =>
         d # c /\ Creates(d) /\ fetch'[d] = fetch[d]
  BY <1>8 DEF Creates
<1>10. \A d \in Fetches \ {c} : Creates(d) =>
          \A i \in DOMAIN fetch[d].ids : \A j \in DOMAIN ids :
             fetch[d].ids[i] # ids[j]
  BY <1>1 DEF PageInv, NewApart
<1> HIDE DEF ids, n
<1>11. \A o \in Orders : NewRow(o) \in Rows /\ NewRow(o).id = o
  BY DEF NewRow, Rows, Statuses
<1>12. /\ DOMAIN activeBatch' = DOMAIN ids
       /\ \A i \in DOMAIN ids : activeBatch'[i] \in Rows
                                /\ activeBatch'[i].id = ids[i]
  BY <1>2, <1>5, <1>11
<1>13. activeBatch' \in [1..n -> Rows]
  BY <1>3, <1>5, <1>12
<1>14. activeBatch' \in Seq(Rows)
  BY <1>3, <1>13, SeqDef
<1>15. /\ activeBatchIndex' \in Nat /\ busy' \subseteq busy
       /\ dialog' \in Dialogs /\ blank' \in BOOLEAN
       /\ UNCHANGED <<engine, retryCounts, failTriggered, history, timeline,
                      link, clicks, losses, session>>
  BY DEF orders_imported, finally, CloseDialog, NoDialog, Dialogs, Render,
     PageInv, TypeOK
<1>16. TypeOK'
  BY <1>4, <1>7, <1>12, <1>14, <1>15 DEF PageInv, TypeOK, AnyFetch, engine,
                                         history, link
<1>17. UNCHANGED status
  BY <1>15 DEF engine
<1>18. TrackedExist'
  BY <1>2, <1>12, <1>17 DEF TrackedExist
<1>19. RequestsFit'
  BY <1>7, <1>17, CalmRequests
<1>20. NewApart'
  <2>1. \A d, e \in Fetches : Creates(d)' /\ Creates(e)' /\ e # d =>
           \A i \in DOMAIN fetch'[d].ids, j \in DOMAIN fetch'[e].ids :
              fetch'[d].ids[i] # fetch'[e].ids[j]
    BY <1>9 DEF PageInv, NewApart
  <2>2. \A d \in Fetches : Creates(d)' =>
           \A i \in DOMAIN fetch'[d].ids : \A j \in DOMAIN activeBatch' :
              fetch'[d].ids[i] # activeBatch'[j].id
    BY <1>9, <1>10, <1>12
  <2> QED
    BY <2>1, <2>2 DEF NewApart
<1>21. Even /\ UNCHANGED <<wsConnected, socket>>
  BY <1>7, <1>15 DEF Even, engine, link
<1> QED
  BY <1>1, <1>8, <1>16, <1>18, <1>19, <1>20, <1>21 DEF PageInv, UnderWay

LEMMA Created ==
    ASSUME PageInv, NEW c \in Fetches, create(c)
    PROVE  /\ PageInv' /\ Even
           /\ UNCHANGED <<wsConnected, socket, activeBatch>>
<1>1. fetch[c].op \in {"place", "bulk"} /\ fetch[c].stage = "sent"
  BY DEF create, Arrived
<1>2. fetch[c] # Idle /\ fetch[c] \in Requesting /\ session \in Session
  BY <1>1, AppConstants DEF Idle, PageInv, TypeOK
<1>3. PICK ids \in [1..Ordered(c) -> Unused] :
         /\ \A i, j \in DOMAIN ids : i # j => ids[i] # ids[j]
         /\ LET new == {ids[i] : i \in DOMAIN ids} IN
            /\ status' = [o \in Orders |-> IF o \in new THEN "PENDING"
                                                        ELSE status[o]]
            /\ Publish({Push(o, "PENDING", "absent") : o \in new})
         /\ fetch' = [fetch EXCEPT ![c].ids = ids, ![c].stage = "ok"]
  BY DEF create
<1>4. UNCHANGED <<retried, moves, page, losses>>
  BY DEF create
<1>5. Ordered(c) \in Nat \ {0}
  BY <1>2 DEF Ordered, Session
<1>6. /\ \A i \in DOMAIN ids : ids[i] \in Orders /\ status[ids[i]] = None
      /\ DOMAIN ids = 1..Ordered(c)
  BY <1>3 DEF Unused
<1>7. ids \in [1..Ordered(c) -> Orders]
  BY <1>3, <1>6
<1>8. ids \in Seq(Orders)
  BY <1>5, <1>7, SeqDef
<1>9. ids # <<>>
  BY <1>5, <1>6, <1>8
<1>10. /\ fetch'[c] = [[fetch[c] EXCEPT !.ids = ids] EXCEPT !.stage = "ok"]
       /\ \A d \in Fetches \ {c} : fetch'[d] = fetch[d]
       /\ fetch' = [d \in Fetches |-> fetch'[d]]
  BY <1>3 DEF PageInv, TypeOK
<1>11. /\ fetch'[c] \in Requesting /\ fetch'[c].op = fetch[c].op
       /\ fetch'[c].ids = ids /\ fetch'[c].stage = "ok"
  BY <1>2, <1>8, <1>10 DEF Requesting
<1>12. fetch' \in AnyFetch
  BY <1>10, <1>11 DEF AnyFetch, PageInv, TypeOK
<1>13. /\ status' \in Listings
       /\ \A o \in Orders : status[o] # None => status'[o] = status[o]
       /\ \A i \in DOMAIN ids : status'[ids[i]] # None
  BY <1>3, <1>6, StatusExists DEF PageInv, TypeOK, Listings, Statuses
<1>14. wire' \subseteq Pushes
  <2>1. \A o \in Orders : Push(o, "PENDING", "absent") \in Pushes
    BY PushType DEF Statuses
  <2>2. {Push(o, "PENDING", "absent") : o \in {ids[i] : i \in DOMAIN ids}}
           \in SUBSET Pushes
    BY <1>6, <2>1
  <2> QED
    BY <1>3, <2>2, PublishType DEF PageInv, TypeOK
<1>15. TypeOK'
  BY <1>4, <1>12, <1>13, <1>14 DEF PageInv, TypeOK, AnyFetch, page, tracker,
                                   history, dialogs, link, still
<1>16. UNCHANGED activeBatch
  BY <1>4 DEF page, tracker
<1>17. \A i \in DOMAIN activeBatch : activeBatch[i].id \in Orders
  BY TrackedAreOrders DEF PageInv, TypeOK
<1>18. TrackedExist'
  BY <1>13, <1>16, <1>17 DEF PageInv, TrackedExist
<1>19. RequestsFit'
  <2> SUFFICES ASSUME NEW d \in Fetches
               PROVE  (/\ fetch[d].op \in OnOne => fetch[d].ids # <<>>
                       /\ fetch[d].op = "poll" =>
                             /\ status[Of(d)] # None
                             /\ fetch[d].stage = "ok" =>
                                   fetch[d].reply[Of(d)] # None
                       /\ Creates(d) =>
                             /\ fetch[d].ids # <<>>
                             /\ \A i \in DOMAIN fetch[d].ids :
                                   status[fetch[d].ids[i]] # None
                             /\ \A i, j \in DOMAIN fetch[d].ids :
                                   fetch[d].ids[i] = fetch[d].ids[j] => i = j)'
    BY DEF RequestsFit
  <2>1. CASE d = c
    <3>1. fetch'[d].op \notin OnOne /\ fetch'[d].op # "poll"
      BY <1>1, <1>11, <2>1 DEF OnOne
    <3>2. \A i, j \in DOMAIN ids : ids[i] = ids[j] => i = j
      BY <1>3
    <3>3. /\ fetch'[d].ids # <<>>
          /\ \A i \in DOMAIN fetch'[d].ids : status'[fetch'[d].ids[i]] # None
          /\ \A i, j \in DOMAIN fetch'[d].ids :
                fetch'[d].ids[i] = fetch'[d].ids[j] => i = j
      BY <1>9, <1>11, <1>13, <2>1, <3>2
    <3> QED
      BY <3>1, <3>3
  <2>2. CASE d # c
    <3>1. fetch'[d] = fetch[d]
      BY <1>10, <2>2
    <3>2. Creates(d) =>
             \A i \in DOMAIN fetch[d].ids : fetch[d].ids[i] \in Orders
      BY CreatedIsNew
    <3>3. fetch[d].op = "poll" => Of(d) \in Orders
      <4>1. fetch[d].op = "poll" =>
               fetch[d] \in Requesting /\ fetch[d].ids # <<>>
        BY DEF PageInv, TypeOK, RequestsFit, Idle, OnOne
      <4>2. fetch[d] \in Requesting => fetch[d].ids \in Seq(Orders)
        BY DEF Requesting
      <4> QED
        BY <4>1, <4>2 DEF Of
    <3>4. Of(d)' = Of(d) /\ Creates(d)' = Creates(d)
      BY <3>1 DEF Of, Creates
    <3>5. (/\ fetch[d].op \in OnOne => fetch[d].ids # <<>>
           /\ fetch[d].op = "poll" =>
                 /\ status[Of(d)] # None
                 /\ fetch[d].stage = "ok" => fetch[d].reply[Of(d)] # None)'
      BY <1>13, <3>1, <3>3, <3>4 DEF PageInv, RequestsFit
    <3>6. (Creates(d) =>
             /\ fetch[d].ids # <<>>
             /\ \A i \in DOMAIN fetch[d].ids : status[fetch[d].ids[i]] # None
             /\ \A i, j \in DOMAIN fetch[d].ids :
                   fetch[d].ids[i] = fetch[d].ids[j] => i = j)'
      BY <1>13, <3>1, <3>2, <3>4 DEF PageInv, RequestsFit
    <3> QED
      BY <3>5, <3>6
  <2> QED
    BY <2>1, <2>2
<1>20. NewApart'
  <2>1. \A d \in Fetches \ {c} :
           Creates(d)' => Creates(d) /\ fetch'[d] = fetch[d]
    BY <1>10 DEF Creates
  <2>2. \A i \in DOMAIN ids : \A j \in DOMAIN activeBatch :
           ids[i] # activeBatch[j].id
    BY <1>6 DEF PageInv, TrackedExist
  <2>3. \A d \in Fetches : Creates(d) =>
           \A j \in DOMAIN fetch[d].ids : \A i \in DOMAIN ids :
              ids[i] # fetch[d].ids[j]
    BY <1>6 DEF PageInv, RequestsFit
  <2> SUFFICES ASSUME NEW d \in Fetches, Creates(d)',
                      NEW i \in DOMAIN fetch'[d].ids
               PROVE  /\ \A j \in DOMAIN activeBatch' :
                            fetch'[d].ids[i] # activeBatch'[j].id
                      /\ \A e \in Fetches \ {d} : Creates(e)' =>
                            \A j \in DOMAIN fetch'[e].ids :
                               fetch'[d].ids[i] # fetch'[e].ids[j]
    BY DEF NewApart
  <2>4. CASE d = c
    <3>1. i \in DOMAIN ids /\ fetch'[d].ids[i] = ids[i]
      BY <1>11, <2>4
    <3>2. \A e \in Fetches \ {d} : Creates(e)' =>
             \A j \in DOMAIN fetch'[e].ids : ids[i] # fetch'[e].ids[j]
      BY <2>1, <2>3, <2>4, <3>1
    <3> QED
      BY <1>16, <2>2, <3>1, <3>2
  <2>5. CASE d # c
    <3>1. Creates(d) /\ fetch'[d] = fetch[d] /\ i \in DOMAIN fetch[d].ids
      BY <2>1, <2>5
    <3>2. \A j \in DOMAIN activeBatch : fetch[d].ids[i] # activeBatch[j].id
      BY <3>1 DEF PageInv, NewApart
    <3>3. \A j \in DOMAIN ids : fetch[d].ids[i] # ids[j]
      BY <2>3, <3>1
    <3>4. \A e \in Fetches \ {d} : e # c /\ Creates(e)' =>
             \A j \in DOMAIN fetch'[e].ids : fetch[d].ids[i] # fetch'[e].ids[j]
      BY <2>1, <3>1 DEF PageInv, NewApart
    <3> QED
      BY <1>11, <1>16, <3>1, <3>2, <3>3, <3>4
  <2> QED
    BY <2>4, <2>5
<1>21. \A d \in Fetches : EvenSlot(d)
  BY <1>1, <1>10, <1>11 DEF EvenSlot
<1>22. Even /\ UNCHANGED <<wsConnected, socket>>
  BY <1>4, <1>21 DEF Even, page, tracker, link
<1> QED
  BY <1>15, <1>16, <1>18, <1>19, <1>20, <1>22 DEF PageInv

LEMMA WasRead ==
    ASSUME PageInv, NEW c \in Fetches, read(c)
    PROVE  /\ PageInv' /\ Even
           /\ UNCHANGED <<wsConnected, socket, activeBatch>>
<1>1. /\ fetch[c].op \in {"history", "poll", "detail"}
      /\ fetch[c].stage = "sent"
  BY DEF read, Arrived
<1>2. fetch[c] # Idle /\ fetch[c] \in Requesting
  BY <1>1 DEF Idle, PageInv, TypeOK
<1>3. fetch[c].op # "history" => fetch[c].ids # <<>>
  BY <1>1 DEF PageInv, RequestsFit, OnOne
<1>4. fetch[c].ids \in Seq(Orders)
  BY <1>2 DEF Requesting
<1>5. fetch[c].op # "history" => Of(c) \in Orders
  BY <1>3, <1>4 DEF Of
<1>6. PICK reply \in Listings :
         /\ fetch' = [fetch EXCEPT ![c].reply = reply, ![c].stage = "ok"]
         /\ fetch[c].op = "poll" => reply = OnlyRow(Of(c))
  <2>1. CASE fetch[c].op = "history"
    <3>1. [o \in Orders |-> IF fetch[c].filter \in {"ALL", status[o]}
                            THEN status[o] ELSE None] \in Listings
      BY DEF Listings, PageInv, TypeOK
    <3> QED
      BY <2>1, <3>1 DEF read
  <2>2. CASE fetch[c].op = "poll"
    <3>1. OnlyRow(Of(c)) \in Listings
      BY <1>5, <2>2 DEF OnlyRow, Nothing, Listings, PageInv, TypeOK
    <3> QED
      BY <2>2, <3>1 DEF read
  <2>3. CASE fetch[c].op = "detail"
    <3>1. Nothing \in Listings
      BY DEF Nothing, Listings
    <3> QED
      BY <2>3, <3>1 DEF read
  <2> QED
    BY <1>1, <2>1, <2>2, <2>3
<1>7. UNCHANGED <<engine, page, losses>>
  BY DEF read
<1>8. /\ fetch'[c] = [[fetch[c] EXCEPT !.reply = reply] EXCEPT !.stage = "ok"]
      /\ \A d \in Fetches \ {c} : fetch'[d] = fetch[d]
      /\ fetch' = [d \in Fetches |-> fetch'[d]]
  BY <1>6 DEF PageInv, TypeOK
<1>9. /\ fetch'[c] \in Requesting /\ fetch'[c].op = fetch[c].op
      /\ fetch'[c].ids = fetch[c].ids /\ fetch'[c].reply = reply
  BY <1>2, <1>8 DEF Requesting
<1>10. fetch' \in AnyFetch
  BY <1>8, <1>9 DEF AnyFetch, PageInv, TypeOK
<1>11. TypeOK'
  BY <1>7, <1>10 DEF PageInv, TypeOK, AnyFetch, engine, page, tracker, history,
                     dialogs, link, still
<1>12. UNCHANGED <<activeBatch, status>>
  BY <1>7 DEF engine, page, tracker
<1>13. \A d \in Fetches : Creates(d)' => Creates(d) /\ fetch'[d] = fetch[d]
  BY <1>1, <1>8, <1>9 DEF Creates
<1>14. fetch[c].op = "poll" => reply[Of(c)] # None
  BY <1>5, <1>6 DEF OnlyRow, Nothing, PageInv, RequestsFit
<1>15. RequestsFit'
  <2>1. \A d \in Fetches \ {c} : Of(d)' = Of(d)
    BY <1>8 DEF Of
  <2>2. Of(c)' = Of(c)
    BY <1>9 DEF Of
  <2>3. \A d \in Fetches \ {c} :
          (/\ fetch[d].op \in OnOne => fetch[d].ids # <<>>
           /\ fetch[d].op = "poll" =>
                 /\ status[Of(d)] # None
                 /\ fetch[d].stage = "ok" => fetch[d].reply[Of(d)] # None)'
    BY <1>8, <1>12, <2>1 DEF PageInv, RequestsFit
  <2>4. (/\ fetch[c].op \in OnOne => fetch[c].ids # <<>>
         /\ fetch[c].op = "poll" =>
               /\ status[Of(c)] # None
               /\ fetch[c].stage = "ok" => fetch[c].reply[Of(c)] # None)'
    BY <1>9, <1>12, <1>14, <2>2 DEF PageInv, RequestsFit
  <2>5. \A d \in Fetches : Creates(d)' =>
           (/\ fetch[d].ids # <<>>
            /\ \A i \in DOMAIN fetch[d].ids : status[fetch[d].ids[i]] # None
            /\ \A i, j \in DOMAIN fetch[d].ids :
                  fetch[d].ids[i] = fetch[d].ids[j] => i = j)'
    BY <1>12, <1>13 DEF PageInv, RequestsFit
  <2> QED
    BY <2>3, <2>4, <2>5 DEF RequestsFit
<1>16. TrackedExist' /\ NewApart'
  BY <1>12, <1>13 DEF PageInv, TrackedExist, NewApart
<1>17. \A d \in Fetches : EvenSlot(d)
  BY <1>1, <1>8, <1>9 DEF EvenSlot
<1>18. Even /\ UNCHANGED <<wsConnected, socket>>
  BY <1>7, <1>17 DEF Even, engine, page, tracker, link
<1> QED
  BY <1>11, <1>12, <1>15, <1>16, <1>18 DEF PageInv

-----------------------------------------------------------------------------
(* The invariant.                                                          *)

LEMMA PageInit ==
    ASSUME Init
    PROVE  PageInv
<1>1. session \in Sessions /\ session \in Session
  BY AppConstants DEF Init
<1>2. Nothing \in Listings /\ "ALL" \in Filters
  BY AppConstants DEF Nothing, Listings
<1>3. /\ <<>> \in Seq(Orders) /\ <<>> \in Seq(Rows)
      /\ DOMAIN activeBatch = {} /\ activeBatch = <<>>
  BY DEF Init
<1>4. ghost \in BOOLEAN
  BY <1>1 DEF Init, Session
<1>5. NoDialog \in Dialogs
  BY DEF NoDialog, Dialogs
<1>6. fetch \in AnyFetch
  BY <1>2, <1>3 DEF Init, AnyFetch, Requesting, Ops
<1>7. TypeOK
  BY <1>1, <1>2, <1>3, <1>4, <1>5, <1>6
     DEF Init, TypeOK, Listings, AnyFetch
<1>8. \A c \in Fetches : fetch[c].op \in {"history", "none"}
  BY DEF Init, Idle
<1>9. RequestsFit /\ NewApart
  BY <1>8 DEF RequestsFit, NewApart, Creates, OnOne
<1> QED
  BY <1>3, <1>7, <1>9 DEF PageInv, TrackedExist

\* The steps that neither create an order nor let it be tracked.
CalmStep ==
    \/ \E o \in Orders : Customers(o) \/ trigger_fail(o)
    \/ \E c \in Fetches :
          \/ request(c) \/ retry_payment(c) \/ fail_payment(c) \/ lose(c)
          \/ payment_submitted(c) \/ retry_answered(c) \/ fail_answered(c)
          \/ poll_answered(c) \/ history_fetched(c) \/ detail_loaded(c)
          \/ refetch(c) \/ update_queued(c) \/ cancellation_queued(c)
    \/ \E i \in DOMAIN activeBatch : expire(i)
    \/ User \/ poll \/ Socket

LEMMA UserSteps ==
    ASSUME PageInv, User
    PROVE  Ordinary
<1>1. CASE handlePlaceOrder
  BY <1>1, PlaceStep
<1>2. CASE handleBulkSubmit
  BY <1>2, ImportStep
<1>3. CASE handlePayAll
  BY <1>3, PayAllStep
<1>4. CASE \/ handleRetryOrder \/ handleCancelOrder
           \/ \E o \in Orders : handlePayOrder(o)
           \/ \E null \in BOOLEAN : handleUpdateOrder(null)
  BY <1>4, ClickSteps
<1>5. CASE dismiss
  BY <1>5, DismissStep
<1>6. CASE turn(1) \/ turn(-1)
  BY <1>6, TurnStep
<1>7. CASE refresh \/ \E filter \in Filters : setStatusFilter(filter)
  BY <1>7, ListSteps
<1>8. CASE \/ open_bulk \/ close_dialog
           \/ \E o \in Orders :
                 open_dialog("edit", o) \/ open_dialog("cancel", o)
  BY <1>8, DialogSteps
<1>9. CASE \E o \in Orders : openDetailDialog(o)
  BY <1>9, DetailStep
<1> QED
  BY <1>1, <1>2, <1>3, <1>4, <1>5, <1>6, <1>7, <1>8, <1>9 DEF User

\* A step is one of the calm ones or one of four, or nothing happens.
LEMMA StepsAre ==
    ASSUME [Next]_vars
    PROVE  \/ CalmStep \/ UNCHANGED vars
           \/ \E c \in Fetches : \/ create(c) \/ read(c)
                                 \/ order_placed(c) \/ orders_imported(c)
<1>1. CASE UNCHANGED vars
  BY <1>1
<1>2. CASE Next
  <2>1. Rest => UNCHANGED vars
    BY DEF Rest
  <2>2. \A c \in Fetches :
           Serve(c) \/ Continue(c) \/ lose(c) =>
              CalmStep \/ create(c) \/ read(c)
                       \/ order_placed(c) \/ orders_imported(c)
    BY DEF Serve, Continue, CalmStep
  <2>3. (\E o \in Orders : Customers(o) \/ trigger_fail(o)) => CalmStep
    BY DEF CalmStep
  <2>4. (\E i \in DOMAIN activeBatch : expire(i)) => CalmStep
    BY DEF CalmStep
  <2>5. User \/ poll \/ Socket => CalmStep
    BY DEF CalmStep
  <2> QED
    BY <1>2, <2>1, <2>2, <2>3, <2>4, <2>5 DEF Next, Step
<1> QED
  BY <1>1, <1>2

LEMMA CalmSteps ==
    ASSUME PageInv, CalmStep
    PROVE  TypeOK' /\ Calm
<1>1. CASE \E o \in Orders : Customers(o)
  BY <1>1, CustomerSteps DEF Ordinary
<1>2. CASE \E o \in Orders : trigger_fail(o)
  BY <1>2, Triggered
<1>3. CASE \E c \in Fetches : request(c) \/ fail_payment(c)
  BY <1>3, RequestSteps DEF Ordinary
<1>4. CASE \E c \in Fetches : retry_payment(c)
  BY <1>4, RetryPaid
<1>5. CASE \E c \in Fetches : lose(c)
  BY <1>5, Lost
<1>6. CASE \E c \in Fetches : retry_answered(c)
  BY <1>6, RetryAnswered
<1>7. CASE \E c \in Fetches : fail_answered(c)
  BY <1>7, FailAnswered DEF Ordinary
<1>8. CASE \E c \in Fetches : poll_answered(c)
  BY <1>8, PollAnswered DEF Ordinary
<1>9. CASE \E c \in Fetches :
              \/ payment_submitted(c) \/ history_fetched(c) \/ detail_loaded(c)
              \/ refetch(c) \/ update_queued(c) \/ cancellation_queued(c)
  BY <1>9, AnswerSteps DEF Ordinary
<1>10. CASE \E i \in DOMAIN activeBatch : expire(i)
  BY <1>10, ExpireStep DEF Ordinary
<1>11. CASE User \/ poll
  BY <1>11, UserSteps, PollStep DEF Ordinary
<1>12. CASE Socket
  BY <1>12, LinkSteps, PushArrives DEF Socket, Ordinary
<1> QED
  BY <1>1, <1>2, <1>3, <1>4, <1>5, <1>6, <1>7, <1>8, <1>9, <1>10, <1>11, <1>12
     DEF CalmStep

LEMMA PageStep ==
    ASSUME PageInv, [Next]_vars
    PROVE  PageInv'
<1>1. CASE CalmStep
  BY <1>1, CalmSteps, CalmKeeps
<1>2. CASE \E c \in Fetches : \/ create(c) \/ read(c)
                              \/ order_placed(c) \/ orders_imported(c)
  BY <1>2, Created, WasRead, Placed, Imported
<1>3. CASE UNCHANGED vars
  BY <1>3 DEF vars, engine, tracker, history, dialogs, link, PageInv, TypeOK,
              TrackedExist, RequestsFit, NewApart, Creates, Tracked, Of
<1> QED
  BY <1>1, <1>2, <1>3, StepsAre

\* Whatever is tracked, asked about or on its way to the tracker is an order
\* of the engine, and each is tracked once.
THEOREM PageInvariance == Spec => []PageInv
<1>1. Init => PageInv
  BY PageInit
<1>2. PageInv /\ [Next]_vars => PageInv'
  BY PageStep
<1> QED
  BY <1>1, <1>2, PTL DEF Spec

\* The page's state has its types, and no order is tracked twice, whatever
\* imports, answers and dismissals come in between (App.js:196, 219).
THEOREM AppTypeCorrect == Spec => []TypeOK
<1>1. PageInv => TypeOK
  BY DEF PageInv
<1> QED
  BY <1>1, PageInvariance, PTL
=============================================================================
