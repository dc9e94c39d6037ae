------------------------ MODULE OrderWorkflowProofs ------------------------
(***************************************************************************)
(* The inductive invariant of the order pipeline.  Types alone are not     *)
(* inductive: an update that commits needs the order to have a content, so *)
(* nothing may be about an order that does not exist; and what a task does *)
(* after its locking read is only right while what it read stays true.     *)
(***************************************************************************)
EXTENDS OrderTypingProofs

IInv == TypeOK /\ OrdersExist /\ LockedReadsStayTrue

-----------------------------------------------------------------------------
(* Orders, once created, exist. *)

\* The statuses the handlers write are statuses, and None is not one.
LEMMA StatusNames ==
    /\ {"PENDING", "PAID", "SHIPPED", "DELIVERED", "FAILED", "CANCELLED"} \subseteq Statuses
    /\ None \notin Statuses
BY NoneIsFresh DEF Statuses

\* The steps that change the status of an order, and how: a creation, the
\* unlocked UPDATE of /fail, a commit of a task, _mark_order_failed.
LEMMA StatusSteps ==
    ASSUME Next
    PROVE  \/ UNCHANGED <<status, item>>
           \/ \E r \in Threads : create_order(r) \/ create_bulk_orders(r)
           \/ \E r \in Threads : fail_payment(r)
           \/ \E t \in Slots : _mark_order_failed(t)
           \/ \E t \in Slots : \/ process_manual_payment_task(t)
                               \/ process_shipping_task(t)
                               \/ process_delivery_task(t)
                               \/ process_cancellation_task(t)
                               \/ process_update_task(t)
<1>1. CASE UNCHANGED tables
  BY <1>1 DEF tables
<1>2. ASSUME NEW r \in Threads, retry_payment(r)
      PROVE  UNCHANGED <<status, item>>
  BY <1>2 DEF retry_payment
<1>3. ASSUME NEW t \in Slots, log_attempt(t)
      PROVE  UNCHANGED <<status, item>>
  BY <1>3 DEF log_attempt
<1>. QED
  BY TableSteps, <1>1, <1>2, <1>3

\* A task that commits gives its order a status, and leaves the others alone.
LEMMA CommitMoves ==
    ASSUME TypeOK, NEW t \in Slots,
           \/ process_manual_payment_task(t) \/ process_shipping_task(t)
           \/ process_delivery_task(t) \/ process_cancellation_task(t)
           \/ process_update_task(t)
    PROVE  /\ task[t].pc = "locked" /\ task[t].order \in Orders
           /\ status'[task[t].order] # None
           /\ \A o \in Orders \ {task[t].order} : status'[o] = status[o] /\ item'[o] = item[o]
<1> USE DEF TypeOK
<1>1. PICK kind \in Tasks, to \in Statuses, type \in AuditTypes : Commit(t, kind, to, type)
  BY StatusNames, LoggedTypes DEF process_manual_payment_task,
     process_shipping_task, process_delivery_task, process_cancellation_task,
     process_update_task, Tasks
<1>2. task[t].pc = "locked" /\ task[t].order \in Orders
  BY <1>1, TaskWorking DEF Commit, Ready, Working
<1>3. status' = [status EXCEPT ![task[t].order] = to]
  BY <1>1 DEF Commit, SetStatus
<1>4. item' = item \/ item' = [item EXCEPT ![task[t].order] = Edited(@, task[t].edit)]
  BY DEF process_manual_payment_task, process_shipping_task, process_delivery_task,
     process_cancellation_task, process_update_task
<1>. QED
  BY <1>2, <1>3, <1>4, StatusNames DEF TablesTyped

\* Orders are never deleted.
LEMMA OrdersStay ==
    ASSUME TypeOK, Next, NEW o \in Orders, status[o] # None
    PROVE  status'[o] # None
<1> USE DEF TypeOK
<1>1. ASSUME NEW r \in Threads, create_order(r) \/ create_bulk_orders(r)
      PROVE  status'[o] # None
  BY <1>1, StatusNames DEF create_order, create_bulk_orders, Insert
<1>2. ASSUME NEW r \in Threads, fail_payment(r)
      PROVE  status'[o] # None
  BY <1>2, StatusNames DEF fail_payment, SetStatus, TablesTyped
<1>3. ASSUME NEW t \in Slots, _mark_order_failed(t)
      PROVE  status'[o] # None
  BY <1>3, StatusNames DEF _mark_order_failed, SetStatus, TablesTyped
<1>. QED
  BY StatusSteps, CommitMoves, <1>1, <1>2, <1>3

\* What a handler will write or publish is about an order that exists.
LEMMA RequestsKnown ==
    ASSUME TypeOK, OrdersExist, Next
    PROVE  RequestsKnow'
<1> USE DEF TypeOK, OrdersExist
<1>a. \A o \in Orders : status[o] # None => status'[o] # None
  BY OrdersStay
<1>b. \A r \in Threads : /\ req[r].pc \in {"retry", "fail"} => req[r].order \in Orders
                         /\ \A m \in req[r].outbox : m.order \in Orders
  BY DEF RequestsTyped, Handling, Idle, Messages
<1>c. ASSUME NEW r \in Threads, NEW v, req' = [req EXCEPT ![r] = v],
             v.pc \in {"retry", "fail"} => v.order \in Orders /\ status'[v.order] # None,
             \A m \in v.outbox : m.order \in Orders /\ status'[m.order] # None
      PROVE  RequestsKnow'
  BY <1>a, <1>b, <1>c DEF RequestsKnow, RequestsTyped
<1>1. CASE UNCHANGED req
  BY <1>1, <1>a, <1>b DEF RequestsKnow
<1>2. CASE api_restart
  BY <1>2 DEF api_restart, RequestsKnow, Idle
<1>3. ASSUME NEW r \in Threads, create_order(r) \/ create_bulk_orders(r)
      PROVE  RequestsKnow'
  <2>1. PICK os \in SUBSET Orders : Insert(r, os)
    BY <1>3 DEF create_order, create_bulk_orders
  <2>2. \A o \in os : status'[o] # None
    BY <2>1, StatusNames DEF Insert
  <2> DEFINE v == [pc |-> "publish", order |-> None,
                   outbox |-> {Message("order.created", o) : o \in os}]
  <2>3. \A m \in v.outbox : m.order \in os
    BY DEF Message
  <2>4. req' = [req EXCEPT ![r] = v] /\ v.pc = "publish"
    BY <2>1 DEF Insert
  <2> HIDE DEF v
  <2>. QED
    BY <1>c, <2>2, <2>3, <2>4
<1>4. ASSUME NEW r \in Threads, NEW o \in Orders,
             pay_for_order(r, o) \/ cancel_order(r, o) \/ update_order(r, o)
      PROVE  RequestsKnow'
  <2>1. PICK m : /\ m.order = o
                 /\ req' = [req EXCEPT ![r] =
                              [pc |-> "publish", order |-> o, outbox |-> {m}]]
    BY <1>4 DEF pay_for_order, cancel_order, update_order, Submit, Message
  <2>2. status'[o] # None
    BY <1>4, <1>a, StatusNames DEF pay_for_order, cancel_order, update_order, Submit
  <2> DEFINE v == [pc |-> "publish", order |-> o, outbox |-> {m}]
  <2>3. req' = [req EXCEPT ![r] = v] /\ v.pc = "publish" /\ v.outbox = {m}
    BY <2>1
  <2> HIDE DEF v
  <2>. QED
    BY <1>c, <2>1, <2>2, <2>3
<1>5. ASSUME NEW r \in Threads, NEW o \in Orders,
             ReadPending(r, o, "retry") \/ ReadPending(r, o, "fail")
      PROVE  RequestsKnow'
  <2>1. status'[o] # None
    BY <1>5, <1>a, StatusNames DEF ReadPending
  <2>2. PICK pc \in {"retry", "fail"} :
           req' = [req EXCEPT ![r] = [pc |-> pc, order |-> o, outbox |-> {}]]
    BY <1>5 DEF ReadPending
  <2> DEFINE v == [pc |-> pc, order |-> o, outbox |-> {}]
  <2>3. req' = [req EXCEPT ![r] = v] /\ v.order = o /\ v.outbox = {}
    BY <2>2
  <2> HIDE DEF v
  <2>. QED
    BY <1>c, <2>1, <2>3
<1>6. ASSUME NEW r \in Threads, retry_payment(r)
      PROVE  RequestsKnow'
  <2>1. req' = [req EXCEPT ![r] = Idle] /\ Idle.pc = "idle" /\ Idle.outbox = {}
    BY <1>6 DEF retry_payment, Idle
  <2>. QED
    BY <1>c, <2>1
<1>7. ASSUME NEW r \in Threads, fail_payment(r)
      PROVE  RequestsKnow'
  <2> DEFINE v == [pc |-> "publish", order |-> req[r].order,
                   outbox |-> {Message("payment.failed", req[r].order)}]
  <2>1. req' = [req EXCEPT ![r] = v]
    BY <1>7 DEF fail_payment
  <2>2. v.pc = "publish" /\ \A m \in v.outbox : m.order = req[r].order
    BY DEF Message
  <2>3. req[r].order \in Orders /\ status'[req[r].order] # None
    BY <1>7, <1>a, <1>b DEF fail_payment, RequestsKnow
  <2> HIDE DEF v
  <2>. QED
    BY <1>c, <2>1, <2>2, <2>3
<1>8. ASSUME NEW r \in Threads, api_publish(r) \/ api_publish_lost(r)
      PROVE  RequestsKnow'
  <2>1. PICK sent \in SUBSET req[r].outbox :
           sent # {} /\ req' = [req EXCEPT ![r] = AfterPublish(r, sent)]
    BY <1>8 DEF api_publish, api_publish_lost
  <2> DEFINE v == AfterPublish(r, sent)
  <2>2. v.outbox \subseteq req[r].outbox /\ v.pc \notin {"retry", "fail"}
    BY <2>1 DEF AfterPublish, Idle, RequestsTyped, Handling
  <2>3. req' = [req EXCEPT ![r] = v]
    BY <2>1
  <2>4. \A m \in req[r].outbox : m.order \in Orders /\ status'[m.order] # None
    BY <1>a, <1>b DEF RequestsKnow
  <2> HIDE DEF v
  <2>. QED
    BY <1>c, <2>2, <2>3, <2>4
<1>. QED
  BY RequestSteps, <1>1, <1>2, <1>3, <1>4, <1>5, <1>6, <1>7, <1>8 DEF Request, Respond

\* Every message published is about an order that exists.
LEMMA TopicKnown ==
    ASSUME TypeOK, OrdersExist, Next
    PROVE  TopicKnows'
<1> USE DEF TypeOK, OrdersExist
<1>a. \A i \in DOMAIN topic : topic[i].order \in Orders /\ status'[topic[i].order] # None
  BY OrdersStay DEF TopicKnows, BusTyped, Messages
<1>b. ASSUME NEW m \in Messages, status'[m.order] # None, topic' = Append(topic, m)
      PROVE  TopicKnows'
  BY <1>a, <1>b DEF TopicKnows, BusTyped
<1>1. CASE UNCHANGED topic
  BY <1>1, <1>a DEF TopicKnows
<1>2. ASSUME NEW r \in Threads, api_publish(r)
      PROVE  TopicKnows'
  <2>1. PICK m \in req[r].outbox : topic' = Append(topic, m)
    BY <1>2 DEF api_publish
  <2>2. m \in Messages
    BY <2>1 DEF RequestsTyped, Handling, Idle
  <2>3. m.order \in Orders /\ status[m.order] # None
    BY <2>1, <2>2 DEF RequestsKnow, Messages
  <2>. QED
    BY <1>b, <2>1, <2>2, <2>3, OrdersStay
<1>3. ASSUME NEW t \in Slots, publish(t)
      PROVE  TopicKnows'
  <2>1. task[t] \in Working /\ status[task[t].order] # None
    BY <1>3, TaskWorking DEF publish, TasksKnow
  <2>2. task[t].order \in Orders /\ task[t].out \in Announcements
    BY <1>3, <2>1 DEF Working, publish, TasksTyped
  <2>3. task[t].out \in EventTypes \ {"order.update_requested"}
    BY <2>2 DEF EventTypes, Announcements, Announces
  <2>4. Message(task[t].out, task[t].order) \in Messages
        /\ Message(task[t].out, task[t].order).order = task[t].order
    BY <2>2, <2>3, MessageTyped DEF Message
  <2>. QED
    BY <1>3, <1>b, <2>1, <2>2, <2>4, OrdersStay DEF publish
<1>4. Consume \/ api_restart => UNCHANGED topic
  BY DEF Consume, dispatch_event, bridge_event, skip_event, api_restart
<1>. QED
  BY BusSteps, <1>1, <1>2, <1>3, <1>4

-----------------------------------------------------------------------------
(* How a task changes: what becomes of its message, and of its lock. *)

\* What a step of task t's own does: its record becomes v, which is about
\* the same order, and unless it locks its row, it is outside a transaction
\* afterwards, and holds nothing.
Turns(t, v) ==
    /\ task[t].pc # "free"
    /\ task' = [task EXCEPT ![t] = v]
    /\ v.pc # "free" => v.order = task[t].order
    /\ \/ lock' = lock /\ task[t].pc # "locked" /\ v.pc # "locked"
       \/ lock' = LocksWithout(t) /\ v.pc # "locked"
       \/ lock_order(t)

\* Every step of a worker is such a turn ...
LEMMA TurnsWork ==
    ASSUME TasksTyped, NEW t \in Slots, Work(t)
    PROVE  \E v : Turns(t, v)
<1>a. task[t].pc # "free" => task[t] \in Working
  BY TaskWorking
<1>1. CASE lock_order(t)
  <2> DEFINE v == [task[t] EXCEPT !.pc = "locked", !.seen = status[task[t].order]]
  <2>1. v.order = task[t].order /\ task' = [task EXCEPT ![t] = v] /\ task[t].pc # "free"
    BY <1>1, <1>a DEF lock_order, Working
  <2>. QED
    BY <1>1, <2>1 DEF Turns
<1>2. ASSUME Finish(t), task[t].pc \notin {"free", "locked"}, lock' = lock
      PROVE  \E v : Turns(t, v)
  <2>1. NoTask.pc = "free"
    BY DEF NoTask
  <2>. QED
    BY <1>2, <2>1 DEF Turns, Finish
<1>3. ASSUME NEW pc \in {"checked", "retry", "exhausted"}, Goto(t, pc),
             task[t].pc \notin {"free", "locked"}, lock' = lock
      PROVE  \E v : Turns(t, v)
  <2> DEFINE v == [task[t] EXCEPT !.pc = pc]
  <2>1. v.order = task[t].order /\ v.pc = pc /\ task' = [task EXCEPT ![t] = v]
    BY <1>3, <1>a DEF Goto, Working
  <2>. QED
    BY <1>3, <2>1 DEF Turns
<1>4. CASE \/ process_manual_payment_task(t) \/ process_shipping_task(t)
           \/ process_delivery_task(t) \/ process_cancellation_task(t)
           \/ process_update_task(t)
  <2>1. PICK type : task[t].pc = "locked" /\ Committed(t, type)
    BY <1>4 DEF process_manual_payment_task, process_shipping_task,
       process_delivery_task, process_cancellation_task, process_update_task,
       Commit, Ready
  <2> DEFINE v == [task[t] EXCEPT !.pc = "publish", !.seen = None, !.out = type]
  <2>2. /\ v.order = task[t].order /\ v.pc = "publish" /\ task' = [task EXCEPT ![t] = v]
        /\ lock' = LocksWithout(t)
    BY <2>1, <1>a DEF Committed, Working
  <2>. QED
    BY <2>1, <2>2 DEF Turns
<1>5. CASE IntegrityError(t)
  <2> DEFINE v == [task[t] EXCEPT !.pc = "except", !.seen = None, !.out = None]
  <2>1. /\ v.order = task[t].order /\ v.pc = "except" /\ task' = [task EXCEPT ![t] = v]
        /\ lock' = LocksWithout(t) /\ task[t].pc = "locked"
    BY <1>5, <1>a DEF IntegrityError, Rollback, Working
  <2>. QED
    BY <2>1 DEF Turns
<1>6. CASE retry_task(t)
  <2> DEFINE v == Queued(task[t].kind, task[t].order, task[t].edit, task[t].retries + 1)
  <2>1. /\ v.order = task[t].order /\ v.pc = "queued" /\ task' = [task EXCEPT ![t] = v]
        /\ lock' = lock /\ task[t].pc = "retry"
    BY <1>6 DEF retry_task, Queued
  <2>. QED
    BY <2>1 DEF Turns
<1>7. CASE _mark_order_failed(t)
  <2>1. PICK type : task' = [task EXCEPT ![t].pc = "notify", ![t].out = type]
    BY <1>7 DEF _mark_order_failed
  <2>2. lock' = lock /\ task[t].pc = "exhausted"
    BY <1>7 DEF _mark_order_failed
  <2> DEFINE v == [task[t] EXCEPT !.pc = "notify", !.out = type]
  <2>3. v.order = task[t].order /\ v.pc = "notify" /\ task' = [task EXCEPT ![t] = v]
    BY <1>a, <2>1, <2>2 DEF Working
  <2>. QED
    BY <2>2, <2>3 DEF Turns
<1>8. CASE check_key(t) \/ skip_order(t) \/ publish(t) \/ publish_lost(t) \/ log_attempt(t)
           \/ give_up(t) \/ spare_order(t)
  BY <1>8, <1>2, <1>3 DEF check_key, skip_order, publish, publish_lost,
     log_attempt, give_up, spare_order
<1>. QED
  BY <1>1, <1>4, <1>5, <1>6, <1>7, <1>8 DEF Work

\* ... and so is every fault of a task, a redelivery excepted.
LEMMA TurnsBreak ==
    ASSUME TasksTyped, NEW t \in Slots, Break(t)
    PROVE  (\E v : Turns(t, v)) \/ (\E u \in Slots : redeliver(t, u))
<1>1. CASE attempt_fails(t) \/ fails_after_commit(t)
  <2> DEFINE v == [task[t] EXCEPT !.pc = "except", !.seen = None, !.out = None]
  <2>1. task[t].pc # "free" /\ Rollback(t)
    BY <1>1 DEF attempt_fails, fails_after_commit
  <2>2. /\ v.order = task[t].order /\ v.pc = "except" /\ task' = [task EXCEPT ![t] = v]
        /\ lock' = LocksWithout(t)
    BY <2>1, TaskWorking DEF Rollback, Working
  <2>. QED
    BY <2>1, <2>2 DEF Turns
<1>2. CASE task_crash(t)
  <2>1. NoTask.pc = "free"
    BY DEF NoTask
  <2>. QED
    BY <1>2, <2>1 DEF task_crash, Finish, Turns
<1>. QED
  BY <1>1, <1>2 DEF Break

\* All that can happen to the tasks and their locks in a step.
LEMMA TaskChanges ==
    ASSUME TasksTyped, Next
    PROVE  \/ UNCHANGED <<task, lock>>
           \/ dispatch_event
           \/ \E t \in Slots, u \in Slots : redeliver(t, u)
           \/ \E t \in Slots : \E v : Turns(t, v)
BY TaskSteps, TurnsWork, TurnsBreak

\* Every task is about an order that exists.
LEMMA TasksKnown ==
    ASSUME TypeOK, OrdersExist, Next
    PROVE  TasksKnow'
<1> USE DEF TypeOK, OrdersExist
<1>a. \A t \in Slots : task[t].pc # "free" =>
         task[t].order \in Orders /\ status'[task[t].order] # None
  BY TaskWorking, OrdersStay DEF TasksKnow, Working
<1>1. CASE UNCHANGED task
  BY <1>1, <1>a DEF TasksKnow
<1>2. CASE dispatch_event
  <2>1. PICK t \in Slots, kind \in Tasks :
          task' = [task EXCEPT ![t] = Queued(kind, Polled.order, Polled.edit, 0)]
    BY <1>2 DEF dispatch_event
  <2>2. Polled.order \in Orders /\ status[Polled.order] # None
    BY <1>2 DEF dispatch_event, Polled, TopicKnows, BusTyped, Messages
  <2>3. status'[Polled.order] # None
    BY <2>2, OrdersStay
  <2> DEFINE v == Queued(kind, Polled.order, Polled.edit, 0)
  <2>4. task' = [task EXCEPT ![t] = v] /\ v.order = Polled.order
    BY <2>1 DEF Queued
  <2> HIDE DEF v
  <2>. QED
    BY <1>a, <2>3, <2>4 DEF TasksKnow, TasksTyped
<1>3. ASSUME NEW t \in Slots, NEW v, Turns(t, v)
      PROVE  TasksKnow'
  BY <1>a, <1>3 DEF Turns, TasksKnow, TasksTyped
<1>4. ASSUME NEW t \in Slots, NEW u \in Slots, redeliver(t, u)
      PROVE  TasksKnow'
  BY <1>a, <1>4 DEF redeliver, TasksKnow, TasksTyped
<1>. QED
  BY TaskChanges, <1>1, <1>2, <1>3, <1>4

\* No step leaves anything about an order that does not exist.
LEMMA ExistStep ==
    ASSUME TypeOK, OrdersExist, Next
    PROVE  OrdersExist'
BY RequestsKnown, TasksKnown, TopicKnown DEF OrdersExist

-----------------------------------------------------------------------------
(* Locks. *)

\* A task enters its transaction by locking its row, and in no other way.
LEMMA LocksEntered ==
    ASSUME TypeOK, Next, NEW u \in Slots, task'[u].pc = "locked"
    PROVE  task'[u] = task[u] \/ lock_order(u)
<1> USE DEF TypeOK
<1>1. CASE dispatch_event
  BY <1>1 DEF dispatch_event, Queued, TasksTyped
<1>2. ASSUME NEW t \in Slots, NEW v \in Slots, redeliver(t, v)
      PROVE  task'[u] = task[u]
  BY <1>2 DEF redeliver, TasksTyped
<1>3. ASSUME NEW t \in Slots, NEW v, Turns(t, v)
      PROVE  task'[u] = task[u] \/ lock_order(u)
  BY <1>3 DEF Turns, TasksTyped
<1>. QED
  BY TaskChanges, <1>1, <1>2, <1>3

\* Locks are taken and released with the transactions they belong to.
LEMMA RowsStep ==
    ASSUME TypeOK, RowsAreHeld, Next
    PROVE  RowsAreHeld'
<1> USE DEF TypeOK
<1>1. CASE UNCHANGED <<task, lock>>
  BY <1>1 DEF RowsAreHeld
<1>2. CASE dispatch_event
  BY <1>2 DEF dispatch_event, RowsAreHeld, TasksTyped, Queued, NoTask
<1>3. ASSUME NEW t \in Slots, NEW u \in Slots, redeliver(t, u)
      PROVE  RowsAreHeld'
  BY <1>3 DEF redeliver, RowsAreHeld, TasksTyped, NoTask
<1>4. ASSUME NEW t \in Slots, lock_order(t)
      PROVE  RowsAreHeld'
  <2>1. task[t] \in Working /\ task[t].order \in Orders
    BY <1>4, TaskWorking DEF lock_order, Working
  <2>2. /\ lock[task[t].order] = None
        /\ lock' = [lock EXCEPT ![task[t].order] = t]
        /\ task'[t].pc = "locked" /\ task'[t].order = task[t].order
        /\ \A u \in Slots \ {t} : task'[u] = task[u]
    BY <1>4, <2>1 DEF lock_order, RowUnlocked, TasksTyped, Working
  <2>3. None \notin Slots /\ task[t].pc # "locked"
    BY <1>4, ConstantsOK DEF lock_order, ConstantsOK
  <2>. QED
    BY <2>1, <2>2, <2>3 DEF RowsAreHeld, LocksTyped
<1>5. ASSUME NEW t \in Slots, NEW v, Turns(t, v), ~ lock_order(t)
      PROVE  RowsAreHeld'
  <2>1. task'[t] = v /\ \A u \in Slots \ {t} : task'[u] = task[u]
    BY <1>5 DEF Turns, TasksTyped
  <2>2. CASE lock' = lock /\ task[t].pc # "locked" /\ v.pc # "locked"
    BY <2>1, <2>2 DEF RowsAreHeld
  <2>3. CASE lock' = LocksWithout(t) /\ v.pc # "locked"
    <3>1. None \notin Slots
      BY ConstantsOK DEF ConstantsOK
    <3>. QED
      BY <2>1, <2>3, <3>1 DEF RowsAreHeld, LocksWithout
  <2>. QED
    BY <1>5, <2>2, <2>3 DEF Turns
<1>. QED
  BY TaskChanges, <1>1, <1>2, <1>3, <1>4, <1>5

\* While a task holds a row, no other step changes the row.
LEMMA HeldRowsStay ==
    ASSUME IInv, Next, NEW u \in Slots, task[u].pc = "locked", task'[u] = task[u]
    PROVE  LET o == task[u].order IN status'[o] = status[o] /\ item'[o] = item[o]
<1> USE DEF IInv, TypeOK
<1> DEFINE o == task[u].order
<1>a. o \in Orders /\ lock[o] = u /\ u # None /\ status[o] # None
  BY TaskWorking, ConstantsOK
  DEF ConstantsOK, Working, LockedReadsStayTrue, RowsAreHeld, OrdersExist, TasksKnow
<1> SUFFICES status'[o] = status[o] /\ item'[o] = item[o]
  OBVIOUS
<1> HIDE DEF o
<1>1. ASSUME NEW r \in Threads, create_order(r) \/ create_bulk_orders(r)
      PROVE  status'[o] = status[o] /\ item'[o] = item[o]
  BY <1>1, <1>a DEF create_order, create_bulk_orders, Insert
<1>2. ASSUME NEW r \in Threads, fail_payment(r)
      PROVE  status'[o] = status[o] /\ item'[o] = item[o]
  BY <1>2, <1>a DEF fail_payment, RowUnlocked, SetStatus, TablesTyped
<1>3. ASSUME NEW t \in Slots, _mark_order_failed(t)
      PROVE  status'[o] = status[o] /\ item'[o] = item[o]
  BY <1>3, <1>a DEF _mark_order_failed, RowUnlocked, SetStatus, TablesTyped
<1>4. ASSUME NEW t \in Slots,
             \/ process_manual_payment_task(t) \/ process_shipping_task(t)
             \/ process_delivery_task(t) \/ process_cancellation_task(t)
             \/ process_update_task(t)
      PROVE  status'[o] = status[o] /\ item'[o] = item[o]
  <2>1. PICK type : task' = [task EXCEPT ![t].pc = "publish", ![t].seen = None, ![t].out = type]
    BY <1>4 DEF process_manual_payment_task, process_shipping_task,
       process_delivery_task, process_cancellation_task, process_update_task,
       Commit, Committed
  <2>a. task[t] \in Working
    BY <1>4, CommitMoves, TaskWorking
  <2>2. t # u
    BY <2>1, <2>a DEF TasksTyped, Working
  <2>3. task[t].pc = "locked" /\ task[t].order \in Orders
    BY <1>4, CommitMoves
  <2>4. lock[task[t].order] = t
    BY <2>3 DEF LockedReadsStayTrue, RowsAreHeld
  <2>. QED
    BY <1>4, <1>a, <2>2, <2>4, CommitMoves
<1>. QED
  BY StatusSteps, <1>1, <1>2, <1>3, <1>4

\* What a transaction read under its lock stays true until it ends.
LEMMA ReadsStep ==
    ASSUME IInv, Next
    PROVE  LockedReadsStayTrue'
<1> USE DEF IInv, TypeOK
<1>1. RowsAreHeld'
  BY RowsStep DEF LockedReadsStayTrue
<1>2. ASSUME NEW u \in Slots, task'[u].pc = "locked"
      PROVE  task'[u].seen = status'[task'[u].order] /\ Applies(u)'
  <2>1. CASE lock_order(u)
    <3>1. task[u] \in Working
      BY <2>1, TaskWorking DEF lock_order
    <3>2. task'[u] = [task[u] EXCEPT !.pc = "locked", !.seen = status[task[u].order]]
      BY <2>1, <3>1 DEF lock_order, TasksTyped, Working
    <3>3. /\ task'[u].kind = task[u].kind /\ task'[u].order = task[u].order
          /\ task'[u].edit = task[u].edit /\ task'[u].seen = status[task[u].order]
      BY <3>1, <3>2 DEF Working
    <3>4. status' = status /\ item' = item /\ Applies(u)
      BY <2>1 DEF lock_order, tables
    <3>. QED
      BY <3>3, <3>4 DEF Applies
  <2>2. CASE task'[u] = task[u]
    <3>1. task[u].seen = status[task[u].order] /\ Applies(u)
      BY <1>2, <2>2 DEF LockedReadsStayTrue
    <3>2. status'[task[u].order] = status[task[u].order] /\ item'[task[u].order] = item[task[u].order]
      BY <1>2, <2>2, HeldRowsStay
    <3>. QED
      BY <2>2, <3>1, <3>2 DEF Applies
  <2>. QED
    BY <1>2, <2>1, <2>2, LocksEntered
<1>. QED
  BY <1>1, <1>2 DEF LockedReadsStayTrue

-----------------------------------------------------------------------------
(* The invariant and what follows from it. *)

\* The invariant holds initially ...
LEMMA InitIInv == Init => IInv
<1> SUFFICES ASSUME Init
             PROVE  IInv
  OBVIOUS
<1>1. TypeOK
  BY InitTyped
<1>2. OrdersExist
  BY DEF Init, OrdersExist, RequestsKnow, TasksKnow, TopicKnows, Idle, NoTask
<1>3. LockedReadsStayTrue
  BY ConstantsOK DEF ConstantsOK, Init, LockedReadsStayTrue, RowsAreHeld, NoTask
<1>. QED
  BY <1>1, <1>2, <1>3 DEF IInv

\* ... and every step preserves it.
LEMMA StepIInv == IInv /\ [Next]_vars => IInv'
<1> SUFFICES ASSUME IInv, [Next]_vars
             PROVE  IInv'
  OBVIOUS
<1>1. CASE Next
  BY <1>1, TypesStep, ExistStep, ReadsStep DEF IInv
<1>2. CASE UNCHANGED vars
  BY <1>2 DEF vars, tables, consumer, IInv, TypeOK, TablesTyped, LocksTyped,
     RequestsTyped, TasksTyped, BusTyped, CountersTyped, OrdersExist, RequestsKnow,
     TasksKnow, TopicKnows, LockedReadsStayTrue, RowsAreHeld, Applies
<1>. QED
  BY <1>1, <1>2

\* The inductive invariant holds throughout.
THEOREM Invariance == Spec => []IInv
BY InitIInv, StepIInv, PTL DEF Spec

\* Every variable keeps its shape, whatever the handlers, tasks and faults do.
THEOREM TypeCorrect == Spec => []TypeOK
<1>1. IInv => TypeOK
  BY DEF IInv
<1>. QED
  BY <1>1, Invariance, PTL

\* Nothing is ever in progress about an order that was not created.
THEOREM OnlyKnownOrders == Spec => []OrdersExist
<1>1. IInv => OrdersExist
  BY DEF IInv
<1>. QED
  BY <1>1, Invariance, PTL

\* SELECT ... FOR UPDATE does what process_*_task rely on: status and content
\* do not change between the locking read and the commit.
THEOREM LockedReads == Spec => []LockedReadsStayTrue
<1>1. IInv => LockedReadsStayTrue
  BY DEF IInv
<1>. QED
  BY <1>1, Invariance, PTL

\* A task commits only to an order whose status it may leave.
LEMMA CommitsApply ==
    ASSUME IInv, NEW t \in Slots, task[t].pc = "locked"
    PROVE  /\ task[t].order \in Orders
           /\ task[t].seen = status[task[t].order]
           /\ <<task[t].kind, status[task[t].order]>> \in Allowed
BY TaskWorking DEF IInv, TypeOK, LockedReadsStayTrue, Applies, Working

\* No step changes a FAILED order.
LEMMA FailedStays ==
    ASSUME IInv, Next, NEW o \in Orders, status[o] = "FAILED"
    PROVE  status'[o] = "FAILED" /\ item'[o] = item[o]
<1> USE DEF IInv, TypeOK
<1>a. status[o] # None
  BY StatusNames
<1>1. ASSUME NEW r \in Threads, create_order(r) \/ create_bulk_orders(r)
      PROVE  status'[o] = "FAILED" /\ item'[o] = item[o]
  BY <1>1, <1>a DEF create_order, create_bulk_orders, Insert
<1>2. ASSUME NEW r \in Threads, fail_payment(r)
      PROVE  status'[o] = "FAILED" /\ item'[o] = item[o]
  BY <1>2 DEF fail_payment, SetStatus, TablesTyped
<1>3. ASSUME NEW t \in Slots, _mark_order_failed(t)
      PROVE  status'[o] = "FAILED" /\ item'[o] = item[o]
  BY <1>3 DEF _mark_order_failed, SetStatus, TablesTyped
<1>4. ASSUME NEW t \in Slots,
             \/ process_manual_payment_task(t) \/ process_shipping_task(t)
             \/ process_delivery_task(t) \/ process_cancellation_task(t)
             \/ process_update_task(t)
      PROVE  status'[o] = "FAILED" /\ item'[o] = item[o]
  <2>1. task[t].pc = "locked"
    BY <1>4, CommitMoves
  <2>2. status[task[t].order] # "FAILED"
    BY <2>1, CommitsApply DEF Allowed
  <2>. QED
    BY <1>4, <2>2, CommitMoves
<1>. QED
  BY StatusSteps, <1>1, <1>2, <1>3, <1>4

\* FAILED is terminal: no race of tasks, requests and retries revives or
\* edits a failed order.
THEOREM FailedStaysFailed == Spec => FailedIsFinal
<1> DEFINE Final == \A o \in Orders :
                       status[o] = "FAILED" => status'[o] = "FAILED" /\ item'[o] = item[o]
<1>1. IInv /\ Next => Final
  BY FailedStays
<1>2. IInv /\ [Next]_vars => [Final]_vars
  BY <1>1
<1> HIDE DEF Final
<1>3. Spec => [][Final]_vars
  BY <1>2, Invariance, PTL DEF Spec
<1>. QED
  BY <1>3 DEF FailedIsFinal, Final
=============================================================================
