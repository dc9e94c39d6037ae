--------------------------- MODULE OrderWorkflow ---------------------------
(***************************************************************************)
(* The order pipeline: the HTTP handlers of app/main.py, the               *)
(* 'order-events' topic with the consumer loop of                          *)
(* app/core/kafka_manager.py, and the Celery tasks of                      *)
(* app/tasks/workflows.py, around the MySQL tables of app/db/models.py.    *)
(*                                                                         *)
(* A step is what runs without another process being able to see or        *)
(* change what it uses: one SELECT, one transaction from its locking read  *)
(* on, one message sent.  Everything else interleaves: handlers on the     *)
(* threads of FastAPI's pool, tasks on the workers of any number of Celery *)
(* processes, and the consumer thread.                                     *)
(***************************************************************************)
EXTENDS OrderTypes, Sequences, FiniteSets

CONSTANTS
    Threads,          \* bound: HTTP requests in progress at once
    Slots,            \* bound: Celery task messages queued or running at once
    Items,            \* contents customers create orders with
    Edits,            \* edits customers send to PUT /orders/{id}
    Calls,            \* the endpoints customers use in this instance
    MaxRequests,      \* bound: accepted requests after the creations
    MaxBulk,          \* the largest batch POST /orders/bulk accepts (50)
    FaultKinds,       \* the failures that may happen in this instance
    MaxFaults,        \* bound: how many failures happen
    RetryReraisesExc  \* Task.retry(exc=exc) past the limit raises exc itself

ASSUME ConstantsOK ==
    /\ None \notin Slots
    /\ Items \subseteq Contents /\ Edits \subseteq EditRequests
    /\ MaxRequests \in Nat /\ MaxFaults \in Nat /\ MaxBulk \in Nat
    /\ RetryReraisesExc \in BOOLEAN

VARIABLES
    status,     \* orders.status of each order; None while there is no row
    item,       \* orders.item_name and orders.price
    keys,       \* the rows of idempotent_keys
    events,     \* order_events: the audit timeline of each order
    retryLogs,  \* the rows of retry_logs, as a set
    lock,       \* the task whose SELECT ... FOR UPDATE holds the order's row
    req,        \* each API thread's request, and what it still has to publish
    task,       \* each Celery task message, queued or running
    topic,      \* 'order-events': one log, as auto-created with one partition
    position,   \* the next offset the consumer polls
    committed,  \* the consumer group's committed offset
    wsStatus,   \* the last status put on ws_notification_queue for the order
    requests,   \* accepted requests so far
    faults      \* failures so far

tables == <<status, item, keys, events, retryLogs>>
consumer == <<position, committed, wsStatus>>
vars == <<tables, lock, req, task, topic, consumer, requests, faults>>

-----------------------------------------------------------------------------
(* Records *)

Entry(type, from, to) == [type |-> type, from |-> from, to |-> to]
Message(type, o) == [type |-> type, order |-> o, edit |-> None]

\* pc: "idle"; "retry" or "fail" once the handler has read PENDING and before
\* it writes; "publish" while messages are left in the outbox.
Idle == [pc |-> "idle", order |-> None, outbox |-> {}]

\* pc: "free" (no message), "queued" at the broker, "checked" past the
\* idempotency check, "locked" holding the row, "publish" after the commit,
\* "except" in the except clause, "retry" past its logging, "exhausted"
\* entering _mark_order_failed, "notify" after _mark_order_failed's commit.
NoTask == [pc |-> "free", kind |-> None, order |-> None, edit |-> None,
           retries |-> 0, seen |-> None, out |-> None]
Queued(kind, o, edit, retries) ==
    [pc |-> "queued", kind |-> kind, order |-> o, edit |-> edit,
     retries |-> retries, seen |-> None, out |-> None]

RetryRow(t, retries, wait, result) ==
    [order |-> task[t].order, task |-> task[t].kind, attempt |-> retries,
     backoff |-> wait, status |-> result]

\* The idempotency key a task derives from its arguments.  The code joins
\* them with dashes; distinct arguments give distinct keys as long as nobody
\* names an item "None".
idempotency_key(t) ==
    [task |-> task[t].kind, order |-> task[t].order, edit |-> task[t].edit]

\* Seeded mistake: idempotent_keys has no primary key.
AnyKeyIsNew(t) == TRUE

KeyIsNew(t) == idempotency_key(t) \notin keys

\* Seeded mistake: with_for_update() is forgotten.
RowNeverWaits(o) == TRUE

\* No task holds the row: other transactions may lock or update it.
RowUnlocked(o) == lock[o] = None

\* What a transaction of task t that ends leaves locked.
LocksWithout(t) == [o \in Orders |-> IF lock[o] = t THEN None ELSE lock[o]]

\* Seeded mistakes: the assignment of the status, and the
\* _log_event call, are forgotten.
SetNoStatus(o, to) == status
LogNothing(o, entry) == events

SetStatus(o, to) == [status EXCEPT ![o] = to]
Log(o, entry) == [events EXCEPT ![o] = Append(@, entry)]

Call(endpoint) ==
    /\ endpoint \in Calls
    /\ requests < MaxRequests
    /\ requests' = requests + 1

Fault(kind) ==
    /\ kind \in FaultKinds
    /\ faults < MaxFaults
    /\ faults' = faults + 1

-----------------------------------------------------------------------------
(* The HTTP handlers.  Each reads the order without a lock; what it read   *)
(* may be stale when it writes or publishes.                               *)

Insert(r, os) ==
    /\ req[r] = Idle
    /\ \A o \in os : status[o] = None
    /\ status' = [o \in Orders |-> IF o \in os THEN "PENDING" ELSE status[o]]
    /\ \E content \in [os -> Items] :
          item' = [o \in Orders |-> IF o \in os THEN content[o] ELSE item[o]]
    /\ events' = [o \in Orders |->
                    IF o \in os
                    THEN Append(events[o], Entry("order.created", None, "PENDING"))
                    ELSE events[o]]
    /\ req' = [req EXCEPT ![r] =
                 [pc |-> "publish", order |-> None,
                  outbox |-> {Message("order.created", o) : o \in os}]]
    /\ UNCHANGED <<keys, retryLogs, lock, task, topic, consumer, requests, faults>>

create_order(r) == \E o \in Orders : Insert(r, {o})

\* One transaction inserts the whole batch; the events follow one by one.
create_bulk_orders(r) ==
    /\ "bulk" \in Calls
    /\ \E os \in SUBSET Orders :
          /\ Cardinality(os) \in 1 .. MaxBulk
          /\ Insert(r, os)

\* A request that, if the status read allows it, only publishes a message.
Submit(r, o, endpoint, statuses, message) ==
    /\ req[r] = Idle
    /\ Call(endpoint)
    /\ status[o] \in statuses
    /\ req' = [req EXCEPT ![r] =
                 [pc |-> "publish", order |-> o, outbox |-> {message}]]
    /\ UNCHANGED <<tables, lock, task, topic, consumer, faults>>

pay_for_order(r, o) ==
    Submit(r, o, "pay", {"PENDING"}, Message("payment.received", o))

cancel_order(r, o) ==
    Submit(r, o, "cancel", {"PENDING", "PAID", "SHIPPED"},
           Message("order.cancel_requested", o))

update_order(r, o) ==
    \E edit \in Edits :
        Submit(r, o, "update", {"PENDING"},
               [type |-> "order.update_requested", order |-> o, edit |-> edit])

\* /retry and /fail write to the database themselves: first the read ...
ReadPending(r, o, endpoint) ==
    /\ req[r] = Idle
    /\ Call(endpoint)
    /\ status[o] = "PENDING"
    /\ req' = [req EXCEPT ![r] = [pc |-> endpoint, order |-> o, outbox |-> {}]]
    /\ UNCHANGED <<tables, lock, task, topic, consumer, faults>>

\* ... then the UPDATE by primary key, which waits for the row lock but
\* does not test the status again.
retry_payment(r) ==
    LET o == req[r].order IN
    /\ req[r].pc = "retry"
    /\ RowUnlocked(o)
    /\ events' = Log(o, Entry("payment.retry", "PENDING", "PENDING"))
    /\ req' = [req EXCEPT ![r] = Idle]
    /\ UNCHANGED <<status, item, keys, retryLogs, lock, task, topic, consumer,
                   requests, faults>>

fail_payment(r) ==
    LET o == req[r].order IN
    /\ req[r].pc = "fail"
    /\ RowUnlocked(o)
    /\ status' = SetStatus(o, "FAILED")
    /\ events' = Log(o, Entry("payment.failed", "PENDING", "FAILED"))
    /\ req' = [req EXCEPT ![r] =
                 [pc |-> "publish", order |-> o,
                  outbox |-> {Message("payment.failed", o)}]]
    /\ UNCHANGED <<item, keys, retryLogs, lock, task, topic, consumer,
                   requests, faults>>

\* Seeded mistake: a request is not finished when it is done.
AfterPublishStays(r, sent) == [req[r] EXCEPT !.outbox = @ \ sent]

\* What is left of a request once the messages in sent need no publishing.
AfterPublish(r, sent) ==
    IF req[r].outbox = sent
    THEN Idle ELSE [req[r] EXCEPT !.outbox = @ \ sent]

api_publish(r) ==
    \E m \in req[r].outbox :
        /\ topic' = Append(topic, m)
        /\ req' = [req EXCEPT ![r] = AfterPublish(r, {m})]
        /\ UNCHANGED <<tables, lock, task, consumer, requests, faults>>

\* publish_event swallows its exceptions and only logs a failed delivery;
\* a failing db.refresh ends the handler with the batch partly published.
api_publish_lost(r) ==
    \E lost \in (SUBSET req[r].outbox) \ {{}} :
        /\ Fault("lose")
        /\ req' = [req EXCEPT ![r] = AfterPublish(r, lost)]
        /\ UNCHANGED <<tables, lock, task, topic, consumer, requests>>

-----------------------------------------------------------------------------
(* consume_loop: one thread, one message at a time, in the topic's order.  *)

Polled == topic[position]

\* The bridge puts every event on ws_notification_queue; clients show the
\* status its payload announces, if it announces one.
_push_to_ws_queue(m) ==
    wsStatus' = [o \in Orders |->
                   IF o = m.order /\ m.type \in Announcements
                   THEN CHOOSE s \in Statuses : <<m.type, s>> \in Announces
                   ELSE wsStatus[o]]

\* consumer.commit(message=msg) is asynchronous and may fail unnoticed.
commit_offset ==
    /\ position' = position + 1
    /\ \/ committed' = position + 1 /\ UNCHANGED faults
       \/ Fault("commit") /\ UNCHANGED committed

dispatch_event ==
    /\ position <= Len(topic)
    /\ \E t \in Slots, kind \in Tasks :
          /\ <<Polled.type, kind>> \in Dispatch
          /\ task[t] = NoTask
          /\ task' = [task EXCEPT ![t] = Queued(kind, Polled.order, Polled.edit, 0)]
    /\ _push_to_ws_queue(Polled)
    /\ commit_offset
    /\ UNCHANGED <<tables, lock, req, topic, requests>>

bridge_event ==
    /\ position <= Len(topic)
    /\ \A kind \in Tasks : <<Polled.type, kind>> \notin Dispatch
    /\ _push_to_ws_queue(Polled)
    /\ commit_offset
    /\ UNCHANGED <<tables, lock, req, task, topic, requests>>

\* delay() raises when the broker is away: nothing is started, bridged or
\* committed, and the loop goes on with the next message.
skip_event ==
    /\ position <= Len(topic)
    /\ \E kind \in Tasks : <<Polled.type, kind>> \in Dispatch
    /\ Fault("skip")
    /\ position' = position + 1
    /\ UNCHANGED <<tables, lock, req, task, topic, committed, wsStatus, requests>>

\* The API process dies: requests in progress end, and the new consumer
\* starts from the committed offset.
api_restart ==
    /\ Fault("restart")
    /\ req' = [r \in Threads |-> Idle]
    /\ position' = committed
    /\ UNCHANGED <<tables, lock, task, topic, committed, wsStatus, requests>>

-----------------------------------------------------------------------------
(* The Celery tasks: check the idempotency key, lock the row, commit the   *)
(* status, the key and the audit entry together, then publish.             *)

Goto(t, pc) == task' = [task EXCEPT ![t].pc = pc]
Finish(t) == task' = [task EXCEPT ![t] = NoTask]

check_key(t) ==
    /\ task[t].pc = "queued"
    /\ IF KeyIsNew(t) THEN Goto(t, "checked") ELSE Finish(t)
    /\ UNCHANGED <<tables, lock, req, topic, consumer, requests, faults>>

\* The test a task makes on the row it has just locked.
Applies(t) ==
    LET o == task[t].order IN
    /\ <<task[t].kind, status[o]>> \in Allowed
    /\ task[t].kind = "update" => Edited(item[o], task[t].edit) # item[o]

lock_order(t) ==
    LET o == task[t].order IN
    /\ task[t].pc = "checked"
    /\ RowUnlocked(o)
    /\ Applies(t)
    /\ lock' = [lock EXCEPT ![o] = t]
    /\ task' = [task EXCEPT ![t].pc = "locked", ![t].seen = status[o]]
    /\ UNCHANGED <<tables, req, topic, consumer, requests, faults>>

\* Seeded mistake: a task that does not apply waits for the
\* order to reach its status.
skip_requeues(t) ==
    /\ task[t].pc = "checked"
    /\ RowUnlocked(task[t].order)
    /\ ~ Applies(t)
    /\ Goto(t, "queued")
    /\ UNCHANGED <<tables, lock, req, topic, consumer, requests, faults>>

skip_order(t) ==
    /\ task[t].pc = "checked"
    /\ RowUnlocked(task[t].order)
    /\ ~ Applies(t)
    /\ Finish(t)
    /\ UNCHANGED <<tables, lock, req, topic, consumer, requests, faults>>

Ready(t, kind) ==
    /\ task[t].pc = "locked"
    /\ task[t].kind = kind

Committed(t, type) ==
    /\ lock' = LocksWithout(t)
    /\ task' = [task EXCEPT ![t].pc = "publish", ![t].seen = None, ![t].out = type]
    /\ UNCHANGED <<req, topic, consumer, requests, faults>>

\* Seeded mistake: the audit entry is written in a session of
\* its own, and the rest of the transaction is never committed.
CommitOnlyLogs(t, kind, to, type) ==
    /\ Ready(t, kind)
    /\ events' = Log(task[t].order, Entry(type, task[t].seen, to))
    /\ Committed(t, type)
    /\ UNCHANGED <<status, keys>>

\* One transaction: the status, the key and the audit entry, or nothing.
Commit(t, kind, to, type) ==
    /\ Ready(t, kind)
    /\ KeyIsNew(t)
    /\ status' = SetStatus(task[t].order, to)
    /\ keys' = keys \union {idempotency_key(t)}
    /\ events' = Log(task[t].order, Entry(type, task[t].seen, to))
    /\ Committed(t, type)

process_manual_payment_task(t) ==
    /\ Commit(t, "manual_payment", "PAID", "payment.processed")
    /\ UNCHANGED <<item, retryLogs>>

process_shipping_task(t) ==
    /\ Commit(t, "shipping", "SHIPPED", "order.shipped")
    /\ retryLogs' = retryLogs \union
                       {RetryRow(t, task[t].retries + 1, 0, "SUCCEEDED")}
    /\ UNCHANGED item

process_delivery_task(t) ==
    /\ Commit(t, "delivery", "DELIVERED", "order.delivered")
    /\ UNCHANGED <<item, retryLogs>>

process_cancellation_task(t) ==
    /\ Commit(t, "cancellation", "CANCELLED", "order.cancelled")
    /\ UNCHANGED <<item, retryLogs>>

process_update_task(t) ==
    /\ Commit(t, "update", "PENDING", "order.updated")
    /\ item' = [item EXCEPT ![task[t].order] = Edited(@, task[t].edit)]
    /\ UNCHANGED retryLogs

\* After its commit a task, or _mark_order_failed, publishes one event.
publish(t) ==
    /\ task[t].pc \in {"publish", "notify"}
    /\ topic' = Append(topic, Message(task[t].out, task[t].order))
    /\ Finish(t)
    /\ UNCHANGED <<tables, lock, req, consumer, requests, faults>>

publish_lost(t) ==
    /\ task[t].pc \in {"publish", "notify"}
    /\ Fault("lose")
    /\ Finish(t)
    /\ UNCHANGED <<tables, lock, req, topic, consumer, requests>>

-----------------------------------------------------------------------------
(* Failing attempts.                                                       *)

\* A statement of the try block raises: the transaction rolls back.
Rollback(t) ==
    /\ lock' = LocksWithout(t)
    /\ task' = [task EXCEPT ![t].pc = "except", ![t].seen = None, ![t].out = None]
    /\ UNCHANGED <<tables, req, topic, consumer, requests>>

attempt_fails(t) ==
    /\ task[t].pc \in {"queued", "checked", "locked"}
    /\ Fault("exception")
    /\ Rollback(t)

\* Another task has inserted the same key since this one looked.
IntegrityError(t) ==
    /\ task[t].pc = "locked"
    /\ ~ KeyIsNew(t)
    /\ Rollback(t)
    /\ UNCHANGED faults

\* The transaction is durable, but commit() or the attribute refresh after
\* it raises: there is nothing to roll back and nothing gets published.
fails_after_commit(t) ==
    /\ task[t].pc = "publish"
    /\ Fault("disconnect")
    /\ Rollback(t)

\* The except clause writes its rows, if this kind of task has any, in a
\* transaction of its own; shipping swallows a failure to do so.
log_attempt(t) ==
    LET o == task[t].order IN
    /\ task[t].pc = "except"
    /\ \/ /\ task[t].kind = "shipping"
          /\ retryLogs' = retryLogs \union
                 {RetryRow(t, task[t].retries + 1, backoff(task[t].retries), "RETRYING")}
          /\ events' = Log(o, Entry("shipping.retry", "PAID", "PAID"))
          /\ UNCHANGED faults
       \/ /\ task[t].kind = "delivery"
          /\ retryLogs' = retryLogs \union
                 {RetryRow(t, task[t].retries + 1, 5, "RETRYING")}
          /\ UNCHANGED <<events, faults>>
       \/ /\ task[t].kind \notin {"shipping", "delivery"}
          /\ UNCHANGED <<events, retryLogs, faults>>
       \/ /\ task[t].kind = "shipping"
          /\ Fault("exception")
          /\ UNCHANGED <<events, retryLogs>>
    /\ Goto(t, "retry")
    /\ UNCHANGED <<status, item, keys, lock, req, topic, consumer, requests>>

\* self.retry(...) sends the same task again, counted one retry more.
retry_task(t) ==
    /\ task[t].pc = "retry"
    /\ task[t].retries < max_retries(task[t].kind)
    /\ task' = [task EXCEPT ![t] = Queued(@.kind, @.order, @.edit, @.retries + 1)]
    /\ UNCHANGED <<tables, lock, req, topic, consumer, requests, faults>>

\* The tasks that reach _mark_order_failed when the attempts run out.
MarksFailed(kind) ==
    \/ kind = "delivery"
    \/ kind \in {"manual_payment", "shipping"} /\ ~ RetryReraisesExc

give_up(t) ==
    /\ task[t].pc = "retry"
    /\ task[t].retries >= max_retries(task[t].kind)
    /\ IF MarksFailed(task[t].kind) THEN Goto(t, "exhausted") ELSE Finish(t)
    /\ UNCHANGED <<tables, lock, req, topic, consumer, requests, faults>>

\* The statuses _mark_order_failed leaves as they are.
Spared == {"SHIPPED", "FAILED", "CANCELLED"}

_mark_order_failed(t) ==
    LET o == task[t].order IN
    /\ task[t].pc = "exhausted"
    /\ RowUnlocked(o)
    /\ status[o] \notin Spared
    /\ \E type \in Announcements :
          /\ <<task[t].kind, type>> \in FailedEvents
          /\ events' = Log(o, Entry(type, status[o], "FAILED"))
          /\ task' = [task EXCEPT ![t].pc = "notify", ![t].out = type]
    /\ status' = SetStatus(o, "FAILED")
    /\ retryLogs' = retryLogs \union {RetryRow(t, 4, 0, "EXHAUSTED")}
    /\ UNCHANGED <<item, keys, lock, req, topic, consumer, requests, faults>>

spare_order(t) ==
    /\ task[t].pc = "exhausted"
    /\ RowUnlocked(task[t].order)
    /\ status[task[t].order] \in Spared
    /\ Finish(t)
    /\ UNCHANGED <<tables, lock, req, topic, consumer, requests, faults>>

\* The worker dies, or its except clause raises.  Celery acknowledges a
\* task when it starts, so nobody runs it again; MySQL rolls back.
task_crash(t) ==
    /\ task[t].pc \notin {"free", "queued"}
    /\ Fault("crash")
    /\ lock' = LocksWithout(t)
    /\ Finish(t)
    /\ UNCHANGED <<tables, req, topic, consumer, requests>>

\* The broker delivers a waiting task a second time.
redeliver(t, u) ==
    /\ task[t].pc = "queued"
    /\ task[u] = NoTask
    /\ Fault("redeliver")
    /\ task' = [task EXCEPT ![u] = task[t]]
    /\ UNCHANGED <<tables, lock, req, topic, consumer, requests>>

-----------------------------------------------------------------------------
(* The system *)

Init ==
    /\ status = [o \in Orders |-> None]
    /\ item = [o \in Orders |-> None]
    /\ keys = {}
    /\ events = [o \in Orders |-> <<>>]
    /\ retryLogs = {}
    /\ lock = [o \in Orders |-> None]
    /\ req = [r \in Threads |-> Idle]
    /\ task = [t \in Slots |-> NoTask]
    /\ topic = <<>>
    /\ position = 1
    /\ committed = 1
    /\ wsStatus = [o \in Orders |-> None]
    /\ requests = 0
    /\ faults = 0

Request(r) ==
    \/ create_order(r)
    \/ create_bulk_orders(r)
    \/ \E o \in Orders :
          \/ pay_for_order(r, o)
          \/ cancel_order(r, o)
          \/ update_order(r, o)
          \/ ReadPending(r, o, "retry")
          \/ ReadPending(r, o, "fail")

Respond(r) ==
    \/ retry_payment(r)
    \/ fail_payment(r)
    \/ api_publish(r)
    \/ api_publish_lost(r)

Consume ==
    \/ dispatch_event
    \/ bridge_event
    \/ skip_event

Work(t) ==
    \/ check_key(t)
    \/ lock_order(t)
    \/ skip_order(t)
    \/ process_manual_payment_task(t)
    \/ process_shipping_task(t)
    \/ process_delivery_task(t)
    \/ process_cancellation_task(t)
    \/ process_update_task(t)
    \/ publish(t)
    \/ publish_lost(t)
    \/ IntegrityError(t)
    \/ log_attempt(t)
    \/ retry_task(t)
    \/ give_up(t)
    \/ _mark_order_failed(t)
    \/ spare_order(t)

Break(t) ==
    \/ attempt_fails(t)
    \/ fails_after_commit(t)
    \/ task_crash(t)
    \/ \E u \in Slots : redeliver(t, u)

\* Nothing is queued, running or unread: the system may rest here, and
\* nowhere else.
Quiescent ==
    /\ \A r \in Threads : req[r] = Idle
    /\ \A t \in Slots : task[t] = NoTask
    /\ position > Len(topic)

Rest == Quiescent /\ UNCHANGED vars

Next ==
    \/ \E r \in Threads : Request(r) \/ Respond(r)
    \/ Consume
    \/ api_restart
    \/ \E t \in Slots : Work(t) \/ Break(t)
    \/ Rest

Spec == Init /\ [][Next]_vars

\* The consumer thread polls for ever, a worker that took a task runs it,
\* and a handler that started finishes.  Customers need not call.
Fairness ==
    /\ WF_vars(Consume)
    /\ \A r \in Threads : WF_vars(Respond(r))
    /\ \A t \in Slots : WF_vars(Work(t))

FairSpec == Spec /\ Fairness
=============================================================================
