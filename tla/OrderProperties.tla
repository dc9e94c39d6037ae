-------------------------- MODULE OrderProperties --------------------------
(***************************************************************************)
(* What the order pipeline promises: invariants that relate the tables to  *)
(* each other and to the tasks in progress, what no step may do, and what  *)
(* must eventually happen.                                                 *)
(***************************************************************************)
EXTENDS OrderWorkflow

Last(s) == s[Len(s)]

\* The audit timeline of the order has an entry of this type.
Logged(o, type) == \E i \in DOMAIN events[o] : events[o][i].type = type

-----------------------------------------------------------------------------
(* Types *)

Entries == [type : AuditTypes, from : Statuses \union {None}, to : Statuses]
Attempts == [order : Orders, task : Tasks, attempt : 1 .. 4,
             backoff : {0} \union {backoff(n) : n \in 0 .. 3},
             status : {"SUCCEEDED", "RETRYING", "EXHAUSTED"}]
KeyRows == [task : Tasks, order : Orders, edit : EditRequests \union {None}]

Handling == [pc : {"retry", "fail"}, order : Orders, outbox : {{}}]
    \union [pc : {"publish"}, order : Orders \union {None},
            outbox : (SUBSET Messages) \ {{}}]

Working == [pc : {"queued", "checked", "locked", "publish", "except", "retry",
                  "exhausted", "notify"},
            kind : Tasks, order : Orders, edit : EditRequests \union {None},
            retries : 0 .. 3, seen : Statuses \union {None},
            out : Announcements \union {None}]

TablesTyped ==
    /\ status \in [Orders -> Statuses \union {None}]
    /\ item \in [Orders -> Contents \union {None}]
    /\ \A o \in Orders : item[o] = None <=> status[o] = None
    /\ keys \subseteq KeyRows
    /\ events \in [Orders -> Seq(Entries)]
    /\ retryLogs \subseteq Attempts
LocksTyped == lock \in [Orders -> Slots \union {None}]
RequestsTyped == req \in [Threads -> Handling \union {Idle}]
TasksTyped ==
    /\ task \in [Slots -> Working \union {NoTask}]
    /\ \A t \in Slots :
          /\ task[t].kind = "update" => task[t].edit # None
          /\ task[t].pc \in {"publish", "notify"} => task[t].out # None
BusTyped ==
    /\ topic \in Seq(Messages)
    /\ position \in Nat \ {0}
    /\ committed \in Nat \ {0}
    /\ wsStatus \in [Orders -> Statuses \union {None}]
CountersTyped ==
    /\ requests \in 0 .. MaxRequests
    /\ faults \in 0 .. MaxFaults

\* Every variable keeps its shape: an order has a content once it has a
\* status, a task carries an edit exactly when it is an update, holds an
\* event to publish exactly after a commit, and is retried at most 3 times.
TypeOK ==
    /\ TablesTyped /\ LocksTyped /\ RequestsTyped /\ TasksTyped
    /\ BusTyped /\ CountersTyped

-----------------------------------------------------------------------------
(* Invariants *)

\* The task that a row's lock names, and no other, is in the transaction
\* that locked it.
RowsAreHeld ==
    \A o \in Orders, t \in Slots :
        lock[o] = t <=> task[t].pc = "locked" /\ task[t].order = o

\* What a task read under SELECT ... FOR UPDATE is still true when it
\* commits: it holds the row, and neither another task nor an API handler
\* has changed the status or the content since.
LockedReadsStayTrue ==
    /\ RowsAreHeld
    /\ \A t \in Slots :
          task[t].pc = "locked" => /\ task[t].seen = status[task[t].order]
                                   /\ Applies(t)

\* Nothing on its way, in a handler, in a task or on the topic, is about an
\* order that was never created.
RequestsKnow ==
    \A r \in Threads :
        /\ req[r].pc \in {"retry", "fail"} => status[req[r].order] # None
        /\ \A m \in req[r].outbox : status[m.order] # None
TasksKnow == \A t \in Slots : task[t].pc # "free" => status[task[t].order] # None
TopicKnows == \A i \in DOMAIN topic : status[topic[i].order] # None
OrdersExist == RequestsKnow /\ TasksKnow /\ TopicKnows

\* A key left by a task means that the order has moved on for good: whatever
\* was retried, redelivered or restarted, the order never again is in a
\* status from which that task would apply.
KeyedTasksAreOver ==
    \A k \in keys : k.task # "update" => <<k.task, status[k.order]>> \notin Allowed

\* The effects of a payment, a shipment, a delivery and a cancellation
\* happen once per order, over duplicate requests, duplicate messages,
\* retries after a commit whose outcome was lost, and crashes.
OneTimeEffects == {"payment.processed", "order.shipped", "order.delivered",
                   "order.cancelled"}
EffectsHappenOnce ==
    \A o \in Orders : \A i, j \in DOMAIN events[o] :
        events[o][i].type \in OneTimeEffects
        /\ events[o][i].type = events[o][j].type => i = j

\* Each edit of an order leaves one key and one entry: applied again by a
\* duplicate, it would leave two entries.
EditsApplyOnce ==
    \A o \in Orders :
        Cardinality({i \in DOMAIN events[o] : events[o][i].type = "order.updated"})
        = Cardinality({k \in keys : k.task = "update" /\ k.order = o})

\* A cancellation refunds exactly the orders whose payment was processed,
\* however the cancellation and the payment raced.
RefundsMatchCharges ==
    \A o \in Orders : \A i \in DOMAIN events[o] :
        events[o][i].type = "order.cancelled" =>
            (events[o][i].from # "PENDING" <=> Logged(o, "payment.processed"))

\* An event that announces a status is on the topic only if the change it
\* announces is committed: nobody hears of a transaction that rolled back.
AnnouncedIsCommitted ==
    \A i \in DOMAIN topic :
        topic[i].type \in Announcements => Logged(topic[i].order, topic[i].type)

\* While nobody calls /retry or /fail and no attempt fails, the timeline
\* replays the order's history: each entry starts where the one before
\* ended, and the last ends in the order's status.
TimelineReplays ==
    \A o \in Orders : status[o] # None =>
        /\ Len(events[o]) > 0
        /\ Last(events[o]).to = status[o]
        /\ \A i \in 2 .. Len(events[o]) : events[o][i].from = events[o][i - 1].to

\* retry_logs agrees with the timeline and the order: shipping SUCCEEDED
\* where the shipment is on the timeline, shipping RETRYING where a failed
\* attempt is, and a task EXHAUSTED where its failure is, and then the order
\* is FAILED.
RetryLogAgrees ==
    /\ \A o \in Orders :
          Logged(o, "order.shipped") <=>
              \E row \in retryLogs : row.order = o /\ row.status = "SUCCEEDED"
    /\ \A o \in Orders : \A f \in FailedEvents :
          Logged(o, f[2]) <=>
              \E row \in retryLogs :
                  row.order = o /\ row.task = f[1] /\ row.status = "EXHAUSTED"
    /\ \A row \in retryLogs : row.status = "EXHAUSTED" => status[row.order] = "FAILED"
    /\ \A o \in Orders :
          Logged(o, "shipping.retry") <=>
              \E row \in retryLogs :
                  /\ row.order = o /\ row.task = "shipping"
                  /\ row.status = "RETRYING"

\* The entries of orders that fail.
FailureTypes == {"payment.failed"} \union {f[2] : f \in FailedEvents}

\* Where a failure comes from: /fail, or a task whose exhaustion marks its
\* order.
Sourced(type) ==
    \/ type = "payment.failed" /\ "fail" \in Calls
    \/ \E f \in FailedEvents : type = f[2] /\ MarksFailed(f[1])

\* retry_logs has this failed attempt of a task on an order.
Attempted(o, kind, n) ==
    \E row \in retryLogs : /\ row.order = o /\ row.task = kind
                           /\ row.attempt = n /\ row.status = "RETRYING"

\* An order is FAILED only for a reason that is on its timeline, and the
\* reason is /fail or an exhausted task that marks its order; and where
\* _mark_order_failed writes that a delivery's 4 attempts are exhausted (the
\* 4 is a literal there), retry_logs has each of the 4, failed, though
\* copies of the task, attempts of its other copies and restarts may lie
\* between them.  (Of the other tasks one logs no attempts, and shipping goes
\* on where the logging fails.)
FailuresAreEarned ==
    /\ \A o \in Orders :
          /\ status[o] = "FAILED" => \E type \in FailureTypes : Logged(o, type)
          /\ \A type \in FailureTypes : Logged(o, type) => Sourced(type)
    /\ \A row \in retryLogs :
          row.task = "delivery" /\ row.status = "EXHAUSTED" =>
              \A n \in 1 .. row.attempt : Attempted(row.order, "delivery", n)

-----------------------------------------------------------------------------
(* Steps *)

\* Nothing brings a FAILED order back, and its content is frozen with it.
FailedIsFinal ==
    [][\A o \in Orders :
          status[o] = "FAILED" => status'[o] = "FAILED" /\ item'[o] = item[o]]_vars

-----------------------------------------------------------------------------
(* Refinement *)

\* The abstract order's money, read off the timeline.
Charged == {o \in Orders : Logged(o, "payment.processed")}
Refunded == {o \in Orders : \E i \in DOMAIN events[o] :
                /\ events[o][i].type = "order.cancelled"
                /\ events[o][i].from # "PENDING"}

Lifecycle == INSTANCE OrderLifecycle WITH charged <- Charged, refunded <- Refunded

\* The pipeline, with its threads, tasks, retries and faults, does nothing to
\* an order that the atomic life cycle of OrderLifecycle does not allow.
ImplementsLifecycle == Lifecycle!Spec

-----------------------------------------------------------------------------
(* Liveness, under FairSpec *)

\* A paid order does not stay PAID, nor a shipped one SHIPPED, as long as no
\* more attempts fail than the shipping and delivery tasks are retried.
PaidOrdersShip == \A o \in Orders : status[o] = "PAID" ~> status[o] # "PAID"
ShippedOrdersArrive ==
    \A o \in Orders : status[o] = "SHIPPED" ~> status[o] # "SHIPPED"

\* A cancellation request on the topic ends with the order CANCELLED,
\* unless the order was FAILED or DELIVERED first.
CancelRequested(o) ==
    \E i \in DOMAIN topic : topic[i] = Message("order.cancel_requested", o)
CancellationsSettle ==
    \A o \in Orders :
        CancelRequested(o) ~> status[o] \in {"CANCELLED", "FAILED", "DELIVERED"}

\* Events start tasks and tasks publish events, but no event goes round for
\* ever: the pipeline comes to rest once customers stop calling.
ComesToRest == <>[]Quiescent
=============================================================================
