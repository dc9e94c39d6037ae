------------------------- MODULE OrderTypingProofs -------------------------
(***************************************************************************)
(* Every step of the order pipeline keeps the type of every variable, for  *)
(* any number of orders, threads and task slots, any contents and edits,   *)
(* and any bound on requests and faults.  The first lemmas say which       *)
(* actions change which variables; the later proofs rest on them too.      *)
(***************************************************************************)
EXTENDS OrderProperties, FiniteSetTheorems, TLAPS

-----------------------------------------------------------------------------
(* Frames: which actions change which variables.                           *)

\* Only these handlers and task steps write to the database.
LEMMA TableSteps ==
    ASSUME Next
    PROVE  \/ UNCHANGED tables
           \/ \E r \in Threads : \/ create_order(r) \/ create_bulk_orders(r)
                                 \/ retry_payment(r) \/ fail_payment(r)
           \/ \E t \in Slots : \/ process_manual_payment_task(t)
                               \/ process_shipping_task(t)
                               \/ process_delivery_task(t)
                               \/ process_cancellation_task(t)
                               \/ process_update_task(t)
                               \/ log_attempt(t) \/ _mark_order_failed(t)
BY DEF Next, Request, Respond, Consume, Work, Break, Rest, vars, tables,
   pay_for_order, cancel_order, update_order, Submit, ReadPending, api_publish,
   api_publish_lost, dispatch_event, bridge_event, skip_event, api_restart,
   check_key, lock_order, skip_order, publish, publish_lost, IntegrityError,
   retry_task, give_up, spare_order, attempt_fails, fails_after_commit, Rollback,
   task_crash, redeliver

\* Only the API's own steps, and its restart, change the requests.
LEMMA RequestSteps ==
    ASSUME Next
    PROVE  \/ UNCHANGED req
           \/ api_restart
           \/ \E r \in Threads : Request(r) \/ Respond(r)
BY DEF Next, Consume, Work, Break, Rest, vars, dispatch_event, bridge_event,
   skip_event, check_key, lock_order, skip_order, process_manual_payment_task,
   process_shipping_task, process_delivery_task, process_cancellation_task,
   process_update_task, Commit, Committed, publish, publish_lost, IntegrityError,
   log_attempt, retry_task, give_up, _mark_order_failed, spare_order,
   attempt_fails, fails_after_commit, Rollback, task_crash, redeliver

\* Only the consumer and the workers change the tasks and the locks.
LEMMA TaskSteps ==
    ASSUME Next
    PROVE  \/ UNCHANGED <<task, lock>>
           \/ dispatch_event
           \/ \E t \in Slots : Work(t) \/ Break(t)
BY DEF Next, Request, Respond, Consume, Rest, vars, create_order,
   create_bulk_orders, Insert, pay_for_order, cancel_order, update_order, Submit,
   ReadPending, retry_payment, fail_payment, api_publish, api_publish_lost,
   bridge_event, skip_event, api_restart

\* Only publishing adds to the topic, and only the consumer moves.
LEMMA BusSteps ==
    ASSUME Next
    PROVE  \/ UNCHANGED <<topic, consumer>>
           \/ Consume \/ api_restart
           \/ \E r \in Threads : api_publish(r)
           \/ \E t \in Slots : publish(t)
<1> USE DEF consumer
<1>1. ASSUME NEW r \in Threads, Request(r) \/ Respond(r), ~ api_publish(r)
      PROVE  UNCHANGED <<topic, consumer>>
  BY <1>1 DEF Request, Respond, create_order, create_bulk_orders, Insert,
     pay_for_order, cancel_order, update_order, Submit, ReadPending,
     retry_payment, fail_payment, api_publish_lost
<1>2. ASSUME NEW t \in Slots, Work(t), ~ publish(t)
      PROVE  UNCHANGED <<topic, consumer>>
  BY <1>2 DEF Work, check_key, lock_order, skip_order,
     process_manual_payment_task, process_shipping_task, process_delivery_task,
     process_cancellation_task, process_update_task, Commit, Committed,
     publish_lost, IntegrityError, Rollback, log_attempt, retry_task, give_up,
     _mark_order_failed, spare_order
<1>3. ASSUME NEW t \in Slots, Break(t)
      PROVE  UNCHANGED <<topic, consumer>>
  BY <1>3 DEF Break, attempt_fails, fails_after_commit, Rollback, task_crash, redeliver
<1>4. ASSUME Rest
      PROVE  UNCHANGED <<topic, consumer>>
  BY <1>4 DEF Rest, vars
<1>. QED
  BY <1>1, <1>2, <1>3, <1>4 DEF Next

\* The bounds on requests and faults are respected.
LEMMA CountersKept ==
    ASSUME CountersTyped, Next
    PROVE  CountersTyped'
<1> USE ConstantsOK DEF Call, Fault, CountersTyped, ConstantsOK
<1>1. ASSUME NEW r \in Threads, Request(r)
      PROVE  CountersTyped'
  <2>1. CASE create_order(r) \/ create_bulk_orders(r)
    BY <2>1 DEF create_order, create_bulk_orders, Insert
  <2>2. ASSUME NEW o \in Orders, \/ pay_for_order(r, o) \/ cancel_order(r, o)
                                 \/ update_order(r, o)
        PROVE  CountersTyped'
    BY <2>2 DEF pay_for_order, cancel_order, update_order, Submit
  <2>3. ASSUME NEW o \in Orders, \/ ReadPending(r, o, "retry")
                                 \/ ReadPending(r, o, "fail")
        PROVE  CountersTyped'
    BY <2>3 DEF ReadPending
  <2>. QED
    BY <1>1, <2>1, <2>2, <2>3 DEF Request
<1>6. ASSUME NEW r \in Threads, Respond(r)
      PROVE  CountersTyped'
  <2>1. CASE retry_payment(r)
    BY <2>1 DEF retry_payment
  <2>2. CASE fail_payment(r)
    BY <2>2 DEF fail_payment
  <2>3. CASE api_publish(r)
    BY <2>3 DEF api_publish
  <2>4. CASE api_publish_lost(r)
    BY <2>4 DEF api_publish_lost
  <2>. QED
    BY <1>6, <2>1, <2>2, <2>3, <2>4 DEF Respond
<1>2. ASSUME Consume \/ api_restart
      PROVE  CountersTyped'
  BY <1>2 DEF Consume, dispatch_event, bridge_event, skip_event, commit_offset, api_restart
<1>3. ASSUME NEW t \in Slots, Work(t)
      PROVE  CountersTyped'
  BY <1>3 DEF Work, check_key, lock_order, skip_order,
     process_manual_payment_task, process_shipping_task, process_delivery_task,
     process_cancellation_task, process_update_task, Commit, Committed, publish,
     publish_lost, IntegrityError, Rollback, log_attempt, retry_task, give_up,
     _mark_order_failed, spare_order
<1>4. ASSUME NEW t \in Slots, Break(t)
      PROVE  CountersTyped'
  BY <1>4 DEF Break, attempt_fails, fails_after_commit, Rollback, task_crash, redeliver
<1>5. ASSUME Rest
      PROVE  CountersTyped'
  BY <1>5 DEF Rest, vars
<1>. QED
  BY <1>1, <1>2, <1>3, <1>4, <1>5, <1>6 DEF Next

-----------------------------------------------------------------------------
(* Tasks keep their type. *)

\* A function of records stays in its set when one record is replaced.
LEMMA TaskReplaced ==
    ASSUME TasksTyped, NEW t \in Slots, NEW v \in Working \union {NoTask},
           v.kind = "update" => v.edit # None,
           v.pc \in {"publish", "notify"} => v.out # None,
           task' = [task EXCEPT ![t] = v]
    PROVE  TasksTyped'
BY DEF TasksTyped

\* A slot that is not free holds a whole task record.
LEMMA TaskWorking ==
    ASSUME TasksTyped, NEW t \in Slots, task[t].pc # "free"
    PROVE  task[t] \in Working
BY DEF TasksTyped, NoTask

\* A free slot is neither an update nor about to publish.
LEMMA NoTaskTyped ==
    /\ NoTask.kind # "update"
    /\ NoTask.pc \notin {"publish", "notify"}
BY NoneIsFresh DEF NoTask, Tasks

\* A task that only moves on keeps its type.
LEMMA TaskGoes ==
    ASSUME TasksTyped, NEW t \in Slots, task[t].pc # "free",
           NEW pc \in {"queued", "checked", "except", "retry", "exhausted"},
           task' = [task EXCEPT ![t].pc = pc]
    PROVE  TasksTyped'
<1> DEFINE v == [task[t] EXCEPT !.pc = pc]
<1>1. task[t] \in Working
  BY TaskWorking
<1>2. v \in Working /\ v.kind = task[t].kind /\ v.edit = task[t].edit /\ v.pc = pc
  BY <1>1 DEF Working
<1>3. task' = [task EXCEPT ![t] = v]
  OBVIOUS
<1>4. v.kind = "update" => v.edit # None
  BY <1>2 DEF TasksTyped
<1>5. v.pc \notin {"publish", "notify"}
  BY <1>2
<1> HIDE DEF v
<1>. QED
  BY <1>2, <1>3, <1>4, <1>5, TaskReplaced

\* So does one that also changes what it has read and has to publish.
LEMMA TaskTurns ==
    ASSUME TasksTyped, NEW t \in Slots, task[t].pc # "free",
           NEW pc \in {"locked", "publish", "except", "notify"},
           NEW seen \in Statuses \union {None}, NEW out \in Announcements \union {None},
           pc \in {"publish", "notify"} => out # None,
           task' = [task EXCEPT ![t].pc = pc, ![t].seen = seen, ![t].out = out]
    PROVE  TasksTyped'
<1> DEFINE v == [task[t] EXCEPT !.pc = pc, !.seen = seen, !.out = out]
<1>1. task[t] \in Working
  BY TaskWorking
<1>2. v \in Working /\ v.kind = task[t].kind /\ v.edit = task[t].edit /\ v.pc = pc /\ v.out = out
  BY <1>1 DEF Working
<1>3. task' = [task EXCEPT ![t] = v]
  OBVIOUS
<1>4. v.kind = "update" => v.edit # None
  BY <1>2 DEF TasksTyped
<1> HIDE DEF v
<1>. QED
  BY <1>2, <1>3, <1>4, TaskReplaced

\* A message built from typed parts is a task record.
LEMMA QueuedTyped ==
    ASSUME NEW kind \in Tasks, NEW o \in Orders, NEW n \in 0 .. 3,
           NEW edit \in EditRequests \union {None}
    PROVE  /\ Queued(kind, o, edit, n) \in Working
           /\ Queued(kind, o, edit, n).kind = kind
           /\ Queued(kind, o, edit, n).edit = edit
           /\ Queued(kind, o, edit, n).pc = "queued"
BY DEF Queued, Working

\* A task that ends leaves its slot free.
LEMMA TaskEnds ==
    ASSUME TasksTyped, NEW t \in Slots, Finish(t)
    PROVE  TasksTyped'
<1> DEFINE v == NoTask
<1>1. v.kind # "update" /\ v.pc \notin {"publish", "notify"}
  BY NoTaskTyped
<1>2. v \in Working \union {NoTask} /\ task' = [task EXCEPT ![t] = v]
  BY DEF Finish
<1> HIDE DEF v
<1>. QED
  BY <1>1, <1>2, TaskReplaced

\* A transaction that rolls back keeps the type of the tasks ...
LEMMA RolledBack ==
    ASSUME TasksTyped, NEW t \in Slots, task[t].pc # "free", Rollback(t)
    PROVE  TasksTyped'
BY TaskTurns, Zenon DEF Rollback

\* ... and so does one that commits.
LEMMA CommittedTyped ==
    ASSUME TasksTyped, NEW t \in Slots, NEW type \in Announcements,
           task[t].pc = "locked", Committed(t, type)
    PROVE  TasksTyped'
<1>1. type # None
  BY NoneIsFresh DEF NoneIsFresh
<1>. QED
  BY <1>1, TaskTurns DEF Committed

\* The consumer starts updates with an edit and other tasks without.
LEMMA DispatchTyped ==
    ASSUME TasksTyped, BusTyped, dispatch_event
    PROVE  TasksTyped'
<1>1. PICK t \in Slots, kind \in Tasks :
        /\ <<Polled.type, kind>> \in Dispatch
        /\ task' = [task EXCEPT ![t] = Queued(kind, Polled.order, Polled.edit, 0)]
  BY DEF dispatch_event
<1>2. Polled \in Messages
  BY DEF dispatch_event, BusTyped, Polled
<1>3. /\ Polled.order \in Orders /\ Polled.edit \in EditRequests \union {None}
      /\ Polled.type = "order.update_requested" => Polled.edit # None
  BY <1>2, NoneIsFresh DEF Messages
<1>4. kind = "update" => Polled.type = "order.update_requested"
  BY <1>1 DEF Dispatch
<1> DEFINE v == Queued(kind, Polled.order, Polled.edit, 0)
<1>5. v \in Working /\ v.kind = kind /\ v.edit = Polled.edit /\ v.pc = "queued"
  BY <1>3, QueuedTyped
<1>6. task' = [task EXCEPT ![t] = v]
  BY <1>1
<1> HIDE DEF v
<1>. QED
  BY <1>3, <1>4, <1>5, <1>6, TaskReplaced

\* What a worker does with its task keeps the type of the tasks ...
LEMMA TasksWork ==
    ASSUME TablesTyped, TasksTyped, NEW t \in Slots, Work(t)
    PROVE  TasksTyped'
<1>1. CASE check_key(t)
  BY <1>1, TaskEnds, TaskGoes DEF check_key, Goto
<1>2. CASE lock_order(t)
  <2>1. task[t] \in Working /\ task[t].pc # "free"
    BY <1>2, TaskWorking DEF lock_order
  <2>2. task[t].out \in Announcements \union {None}
    BY <2>1 DEF Working
  <2>3. status[task[t].order] \in Statuses \union {None}
    BY <2>1 DEF TablesTyped, Working
  <2>4. task' = [task EXCEPT ![t].pc = "locked", ![t].seen = status[task[t].order],
                             ![t].out = task[t].out]
    BY <1>2, <2>1 DEF lock_order, Working, TasksTyped
  <2>. QED
    BY <2>1, <2>2, <2>3, <2>4, TaskTurns
<1>3. CASE skip_order(t) \/ publish(t) \/ publish_lost(t) \/ spare_order(t)
  BY <1>3, TaskEnds DEF skip_order, publish, publish_lost, spare_order
<1>4. CASE \/ process_manual_payment_task(t) \/ process_shipping_task(t)
           \/ process_delivery_task(t) \/ process_cancellation_task(t)
           \/ process_update_task(t)
  <2>1. PICK type \in Announcements : task[t].pc = "locked" /\ Committed(t, type)
    BY <1>4 DEF process_manual_payment_task, process_shipping_task,
       process_delivery_task, process_cancellation_task, process_update_task,
       Commit, Ready, Announcements, Announces
  <2>. QED
    BY <2>1, CommittedTyped
<1>5. CASE IntegrityError(t)
  BY <1>5, RolledBack DEF IntegrityError
<1>6. CASE log_attempt(t)
  BY <1>6, TaskGoes DEF log_attempt, Goto
<1>7. CASE retry_task(t)
  <2>1. task[t] \in Working
    BY <1>7, TaskWorking DEF retry_task
  <2>2. task[t].retries + 1 \in 0 .. 3
    BY <1>7, <2>1 DEF retry_task, max_retries, Working
  <2> DEFINE v == Queued(task[t].kind, task[t].order, task[t].edit, task[t].retries + 1)
  <2>3. v \in Working /\ v.kind = task[t].kind /\ v.edit = task[t].edit /\ v.pc = "queued"
    BY <2>1, <2>2, QueuedTyped DEF Working
  <2>4. task' = [task EXCEPT ![t] = v]
    BY <1>7 DEF retry_task
  <2>5. v.kind = "update" => v.edit # None
    BY <2>3 DEF TasksTyped
  <2> HIDE DEF v
  <2>. QED
    BY <2>3, <2>4, <2>5, TaskReplaced
<1>8. CASE give_up(t)
  BY <1>8, TaskEnds, TaskGoes DEF give_up, Goto
<1>9. CASE _mark_order_failed(t)
  <2>1. task[t] \in Working /\ task[t].pc # "free"
    BY <1>9, TaskWorking DEF _mark_order_failed
  <2>2. PICK type \in Announcements : task' = [task EXCEPT ![t].pc = "notify", ![t].out = type]
    BY <1>9 DEF _mark_order_failed
  <2>3. task[t].seen \in Statuses \union {None}
    BY <2>1 DEF Working
  <2>4. task' = [task EXCEPT ![t].pc = "notify", ![t].seen = task[t].seen, ![t].out = type]
    BY <2>1, <2>2 DEF Working, TasksTyped
  <2>5. type # None
    BY NoneIsFresh
  <2>. QED
    BY <2>1, <2>3, <2>4, <2>5, TaskTurns
<1>. QED
  BY <1>1, <1>2, <1>3, <1>4, <1>5, <1>6, <1>7, <1>8, <1>9 DEF Work

\* ... as does what goes wrong with it.
LEMMA TasksBreak ==
    ASSUME TasksTyped, NEW t \in Slots, Break(t)
    PROVE  TasksTyped'
<1>1. CASE attempt_fails(t) \/ fails_after_commit(t)
  BY <1>1, RolledBack DEF attempt_fails, fails_after_commit
<1>2. CASE task_crash(t)
  BY <1>2, TaskEnds DEF task_crash
<1>3. ASSUME NEW u \in Slots, redeliver(t, u)
      PROVE  TasksTyped'
  BY <1>3, TaskReplaced DEF redeliver, TasksTyped
<1>. QED
  BY <1>1, <1>2, <1>3 DEF Break

\* No step breaks the type of the tasks.
LEMMA TasksStep ==
    ASSUME TablesTyped, TasksTyped, BusTyped, Next
    PROVE  TasksTyped'
<1>1. CASE UNCHANGED <<task, lock>>
  BY <1>1 DEF TasksTyped
<1>. QED
  BY <1>1, TaskSteps, TasksWork, TasksBreak, DispatchTyped

-----------------------------------------------------------------------------
(* Requests keep their type. *)

\* A function of requests stays in its set when one request is replaced.
LEMMA RequestReplaced ==
    ASSUME RequestsTyped, NEW r \in Threads, NEW v \in Handling \union {Idle},
           req' = [req EXCEPT ![r] = v]
    PROVE  RequestsTyped'
BY DEF RequestsTyped

\* A handler with messages left is in the middle of a request.
LEMMA PublishingTyped ==
    ASSUME NEW o \in Orders \union {None}, NEW outbox \in SUBSET Messages, outbox # {}
    PROVE  [pc |-> "publish", order |-> o, outbox |-> outbox] \in Handling
BY DEF Handling

\* Message builds messages.
LEMMA MessageTyped ==
    ASSUME NEW type \in EventTypes \ {"order.update_requested"}, NEW o \in Orders
    PROVE  Message(type, o) \in Messages
BY DEF Message, Messages

\* The requests the handlers publish, by name.
LEMMA PublishedTypes ==
    {"order.created", "payment.received", "order.cancel_requested", "payment.failed"}
    \subseteq EventTypes \ {"order.update_requested"}
BY DEF EventTypes, Requests, Announcements, Announces

\* What is left after publishing is a request, or the idle thread.
LEMMA AfterPublishTyped ==
    ASSUME RequestsTyped, NEW r \in Threads, req[r].outbox # {}, NEW sent \in SUBSET req[r].outbox
    PROVE  AfterPublish(r, sent) \in Handling \union {Idle}
<1>1. req[r] \in [pc : {"publish"}, order : Orders \union {None},
                  outbox : (SUBSET Messages) \ {{}}]
  BY DEF RequestsTyped, Handling, Idle
<1>2. CASE req[r].outbox # sent
  <2> DEFINE rest == req[r].outbox \ sent
  <2>1. rest # {} /\ rest \in SUBSET Messages
    BY <1>1, <1>2
  <2> HIDE DEF rest
  <2>2. [req[r] EXCEPT !.outbox = rest] \in
           [pc : {"publish"}, order : Orders \union {None}, outbox : (SUBSET Messages) \ {{}}]
    BY <1>1, <2>1
  <2>. QED
    BY <1>2, <2>2 DEF AfterPublish, Handling, rest
<1>. QED
  BY <1>2 DEF AfterPublish

\* A handler that has one message to publish is in a request.
LEMMA SubmitTyped ==
    ASSUME RequestsTyped, NEW r \in Threads, NEW o \in Orders, NEW message \in Messages,
           req' = [req EXCEPT ![r] =
                     [pc |-> "publish", order |-> o, outbox |-> {message}]]
    PROVE  RequestsTyped'
<1>1. {message} \in SUBSET Messages /\ {message} # {}
  OBVIOUS
<1>2. [pc |-> "publish", order |-> o, outbox |-> {message}] \in Handling
  BY <1>1, PublishingTyped
<1>. QED
  BY <1>2, RequestReplaced

\* So is one that has just inserted orders, at least one.
LEMMA InsertTyped ==
    ASSUME RequestsTyped, NEW r \in Threads, NEW os \in SUBSET Orders, os # {}, Insert(r, os)
    PROVE  RequestsTyped'
<1> DEFINE outbox == {Message("order.created", o) : o \in os}
<1>1. outbox \in SUBSET Messages /\ outbox # {}
  BY MessageTyped, PublishedTypes
<1>2. req' = [req EXCEPT ![r] = [pc |-> "publish", order |-> None, outbox |-> outbox]]
  BY DEF Insert
<1> HIDE DEF outbox
<1>3. [pc |-> "publish", order |-> None, outbox |-> outbox] \in Handling
  BY <1>1, PublishingTyped
<1>. QED
  BY <1>2, <1>3, RequestReplaced

\* No step breaks the type of the requests.
LEMMA RequestsStep ==
    ASSUME TypeOK, Next
    PROVE  RequestsTyped'
<1> USE DEF TypeOK
<1>1. CASE UNCHANGED req
  BY <1>1 DEF RequestsTyped
<1>2. CASE api_restart
  BY <1>2 DEF api_restart, RequestsTyped
<1>3. ASSUME NEW r \in Threads, create_order(r) \/ create_bulk_orders(r)
      PROVE  RequestsTyped'
  <2>1. PICK os \in SUBSET Orders : os # {} /\ Insert(r, os)
    <3>1. CASE create_order(r)
      BY <3>1 DEF create_order
    <3>2. CASE create_bulk_orders(r)
      <4>1. PICK os \in SUBSET Orders : Cardinality(os) \in 1 .. MaxBulk /\ Insert(r, os)
        BY <3>2 DEF create_bulk_orders
      <4>2. os # {}
        BY <4>1, FS_EmptySet
      <4>. QED
        BY <4>1, <4>2
    <3>. QED
      BY <1>3, <3>1, <3>2
  <2>. QED
    BY <2>1, InsertTyped
<1>4. ASSUME NEW r \in Threads, NEW o \in Orders,
             pay_for_order(r, o) \/ cancel_order(r, o)
      PROVE  RequestsTyped'
  <2>1. PICK type \in {"payment.received", "order.cancel_requested"} :
           req' = [req EXCEPT ![r] = [pc |-> "publish", order |-> o,
                                      outbox |-> {Message(type, o)}]]
    BY <1>4 DEF pay_for_order, cancel_order, Submit
  <2>. QED
    BY <2>1, MessageTyped, PublishedTypes, SubmitTyped
<1>5. ASSUME NEW r \in Threads, NEW o \in Orders, update_order(r, o)
      PROVE  RequestsTyped'
  <2>1. PICK edit \in Edits :
           req' = [req EXCEPT ![r] =
                     [pc |-> "publish", order |-> o,
                      outbox |-> {[type |-> "order.update_requested",
                                   order |-> o, edit |-> edit]}]]
    BY <1>5 DEF update_order, Submit
  <2>2. [type |-> "order.update_requested", order |-> o, edit |-> edit] \in Messages
    BY ConstantsOK DEF Messages, ConstantsOK
  <2>. QED
    BY <2>1, <2>2, SubmitTyped
<1>6. ASSUME NEW r \in Threads, NEW o \in Orders,
             ReadPending(r, o, "retry") \/ ReadPending(r, o, "fail")
      PROVE  RequestsTyped'
  BY <1>6 DEF ReadPending, RequestsTyped, Handling
<1>7. ASSUME NEW r \in Threads, retry_payment(r)
      PROVE  RequestsTyped'
  BY <1>7 DEF retry_payment, RequestsTyped
<1>8. ASSUME NEW r \in Threads, fail_payment(r)
      PROVE  RequestsTyped'
  <2>1. req[r].order \in Orders
    BY <1>8 DEF fail_payment, RequestsTyped, Handling, Idle
  <2>. QED
    BY <1>8, <2>1, MessageTyped, PublishedTypes, SubmitTyped DEF fail_payment
<1>9. ASSUME NEW r \in Threads, api_publish(r) \/ api_publish_lost(r)
      PROVE  RequestsTyped'
  <2>1. PICK sent \in SUBSET req[r].outbox :
           sent # {} /\ req' = [req EXCEPT ![r] = AfterPublish(r, sent)]
    BY <1>9 DEF api_publish, api_publish_lost
  <2>. QED
    BY <2>1, AfterPublishTyped, RequestReplaced
<1>. QED
  BY RequestSteps, <1>1, <1>2, <1>3, <1>4, <1>5, <1>6, <1>7, <1>8, <1>9
  DEF Request, Respond

-----------------------------------------------------------------------------
(* The tables keep their type. *)

\* Logging a typed entry keeps the type of the timelines.
LEMMA LogTyped ==
    ASSUME events \in [Orders -> Seq(Entries)], NEW o \in Orders, NEW type \in AuditTypes,
           NEW from \in Statuses \union {None}, NEW to \in Statuses
    PROVE  Log(o, Entry(type, from, to)) \in [Orders -> Seq(Entries)]
<1>1. Entry(type, from, to) \in Entries
  BY DEF Entry, Entries
<1> DEFINE entry == Entry(type, from, to)
<1> HIDE DEF entry
<1>2. Append(events[o], entry) \in Seq(Entries)
  BY <1>1 DEF entry
<1>3. Log(o, entry) \in [Orders -> Seq(Entries)]
  BY <1>2 DEF Log
<1>. QED
  BY <1>3 DEF entry

\* The rows of retry_logs are attempts.
LEMMA RowTyped ==
    ASSUME NEW t \in Slots, task[t] \in Working, NEW n \in 1 .. 4,
           NEW wait \in {0} \union {backoff(i) : i \in 0 .. 3},
           NEW result \in {"SUCCEEDED", "RETRYING", "EXHAUSTED"}
    PROVE  RetryRow(t, n, wait, result) \in Attempts
BY DEF RetryRow, Attempts, Working

\* The first failed attempt waits 5 seconds, as every delivery attempt does.
LEMMA ShortestBackoff == 5 = backoff(0)
BY DEF backoff

\* A creation gives each new order its status, content and first entry.
LEMMA InsertTables ==
    ASSUME TablesTyped, NEW r \in Threads, NEW os \in SUBSET Orders, Insert(r, os)
    PROVE  TablesTyped'
<1>1. PICK content \in [os -> Items] :
         item' = [o \in Orders |-> IF o \in os THEN content[o] ELSE item[o]]
  BY DEF Insert
<1>2. \A o \in os : content[o] \in Contents /\ content[o] # None
  BY ConstantsOK, NoneIsFresh DEF ConstantsOK
<1>3. item' \in [Orders -> Contents \union {None}]
  BY <1>1, <1>2 DEF TablesTyped
<1>4. status' \in [Orders -> Statuses \union {None}]
  BY DEF TablesTyped, Insert, Statuses
<1>5. \A o \in Orders : item'[o] = None <=> status'[o] = None
  <2>1. "PENDING" # None
    BY NoneIsFresh DEF Statuses
  <2>. QED
    BY <1>1, <1>2, <2>1 DEF TablesTyped, Insert
<1>6. events' \in [Orders -> Seq(Entries)]
  <2>1. Entry("order.created", None, "PENDING") \in Entries
    BY DEF Entry, Entries, AuditTypes, Announcements, Announces, Statuses
  <2> DEFINE entry == Entry("order.created", None, "PENDING")
  <2>2. events' = [o \in Orders |-> IF o \in os THEN Append(events[o], entry) ELSE events[o]]
    BY DEF Insert
  <2>3. entry \in Entries
    BY <2>1
  <2> HIDE DEF entry
  <2>. QED
    BY <2>2, <2>3 DEF TablesTyped
<1>. QED
  BY <1>3, <1>4, <1>5, <1>6 DEF TablesTyped, Insert

\* The audit entries the actions write, by type.
LEMMA LoggedTypes ==
    /\ Announcements \subseteq AuditTypes
    /\ {"payment.retry", "shipping.retry", "payment.failed"} \subseteq AuditTypes
    /\ {"payment.processed", "order.shipped", "order.delivered", "order.cancelled",
        "order.updated"} \subseteq AuditTypes
BY DEF AuditTypes, Announcements, Announces

\* A commit keeps the type of the tables it writes.
LEMMA CommitTables ==
    ASSUME TablesTyped, TasksTyped, NEW t \in Slots, NEW kind \in Tasks,
           NEW to \in Statuses, NEW type \in AuditTypes, Commit(t, kind, to, type)
    PROVE  /\ status' \in [Orders -> Statuses \union {None}]
           /\ keys' \subseteq KeyRows
           /\ events' \in [Orders -> Seq(Entries)]
<1>1. task[t] \in Working
  BY TaskWorking DEF Commit, Ready
<1>2. task[t].order \in Orders /\ task[t].seen \in Statuses \union {None}
  BY <1>1 DEF Working
<1>3. status' \in [Orders -> Statuses \union {None}]
  BY <1>2 DEF TablesTyped, Commit, SetStatus
<1>4. idempotency_key(t) \in KeyRows
  BY <1>1 DEF idempotency_key, KeyRows, Working
<1>5. events' \in [Orders -> Seq(Entries)]
  BY <1>2, LogTyped DEF TablesTyped, Commit
<1>. QED
  BY <1>3, <1>4, <1>5 DEF TablesTyped, Commit

\* No step breaks the type of the tables; that an order has a content when
\* an update commits is where OrdersExist is needed.
LEMMA TablesStep ==
    ASSUME TypeOK, OrdersExist, Next
    PROVE  TablesTyped'
<1> USE DEF TypeOK
<1>a. {"PENDING", "PAID", "SHIPPED", "DELIVERED", "FAILED", "CANCELLED"} \subseteq Statuses
      /\ None \notin Statuses
  BY NoneIsFresh DEF Statuses
<1>1. CASE UNCHANGED tables
  BY <1>1 DEF tables, TablesTyped
<1>2. ASSUME NEW r \in Threads, create_order(r) \/ create_bulk_orders(r)
      PROVE  TablesTyped'
  BY <1>2, InsertTables DEF create_order, create_bulk_orders
<1>3. ASSUME NEW r \in Threads, retry_payment(r)
      PROVE  TablesTyped'
  <2>1. req[r].order \in Orders
    BY <1>3 DEF retry_payment, RequestsTyped, Handling, Idle
  <2>2. events' \in [Orders -> Seq(Entries)]
    BY <1>a, <1>3, <2>1, LogTyped, LoggedTypes DEF retry_payment, TablesTyped
  <2>. QED
    BY <1>3, <2>2 DEF retry_payment, TablesTyped
<1>4. ASSUME NEW r \in Threads, fail_payment(r)
      PROVE  TablesTyped'
  <2>1. req[r].order \in Orders /\ status[req[r].order] # None
    BY <1>4 DEF fail_payment, RequestsTyped, Handling, Idle,
       OrdersExist, RequestsKnow
  <2>2. events' \in [Orders -> Seq(Entries)]
    BY <1>a, <1>4, <2>1, LogTyped, LoggedTypes DEF fail_payment, TablesTyped
  <2>. QED
    BY <1>a, <1>4, <2>1, <2>2 DEF fail_payment, SetStatus, TablesTyped
<1>5. ASSUME NEW t \in Slots, NEW kind \in Tasks, NEW to \in Statuses,
             NEW type \in AuditTypes, Commit(t, kind, to, type),
             item' = item, retryLogs' \subseteq Attempts
      PROVE  TablesTyped'
  <2>1. task[t].order \in Orders /\ status[task[t].order] # None
    BY <1>5, TaskWorking DEF Commit, Ready, Working, OrdersExist, TasksKnow
  <2>2. \A o \in Orders : item'[o] = None <=> status'[o] = None
    BY <1>a, <1>5, <2>1 DEF Commit, SetStatus, TablesTyped
  <2>3. item' \in [Orders -> Contents \union {None}]
    BY <1>5 DEF TablesTyped
  <2>. QED
    BY <1>5, <2>2, <2>3, CommitTables DEF TablesTyped
<1>6. ASSUME NEW t \in Slots,
             \/ process_manual_payment_task(t) \/ process_delivery_task(t)
             \/ process_cancellation_task(t)
      PROVE  TablesTyped'
  <2>1. item' = item /\ retryLogs' \subseteq Attempts
    BY <1>6 DEF process_manual_payment_task, process_delivery_task,
       process_cancellation_task, TablesTyped
  <2>2. PICK kind \in Tasks, to \in Statuses, type \in AuditTypes : Commit(t, kind, to, type)
    BY <1>a, <1>6, LoggedTypes DEF process_manual_payment_task,
       process_delivery_task, process_cancellation_task, Tasks
  <2>. QED
    BY <1>5, <2>1, <2>2
<1>7. ASSUME NEW t \in Slots, process_shipping_task(t)
      PROVE  TablesTyped'
  <2>1. Commit(t, "shipping", "SHIPPED", "order.shipped") /\ item' = item
    BY <1>7 DEF process_shipping_task
  <2>2. task[t] \in Working
    BY <2>1, TaskWorking DEF Commit, Ready
  <2>3. task[t].retries + 1 \in 1 .. 4
    BY <2>2 DEF Working
  <2>4. retryLogs' \subseteq Attempts
    BY <1>7, <2>2, <2>3, RowTyped DEF process_shipping_task, TablesTyped
  <2>5. "shipping" \in Tasks
    BY DEF Tasks
  <2>. QED
    BY <1>a, <1>5, <2>1, <2>4, <2>5, LoggedTypes
<1>8. ASSUME NEW t \in Slots, process_update_task(t)
      PROVE  TablesTyped'
  <2>1. Commit(t, "update", "PENDING", "order.updated") /\ UNCHANGED retryLogs
    BY <1>8 DEF process_update_task
  <2>2. task[t] \in Working /\ task[t].kind = "update"
    BY <2>1, TaskWorking DEF Commit, Ready
  <2>3. task[t].order \in Orders /\ status[task[t].order] # None
    BY <2>1, <2>2 DEF Commit, Ready, Working, OrdersExist, TasksKnow
  <2>4. item[task[t].order] \in Contents /\ task[t].edit \in EditRequests
    BY <2>2, <2>3 DEF TablesTyped, TasksTyped, Working
  <2>5. Edited(item[task[t].order], task[t].edit) \in Contents
    BY <2>4 DEF Edited, Contents, EditRequests
  <2>6. item' \in [Orders -> Contents \union {None}]
    BY <1>8, <2>3, <2>5 DEF process_update_task, TablesTyped
  <2>7. \A o \in Orders : item'[o] = None <=> status'[o] = None
    <3>1. Edited(item[task[t].order], task[t].edit) # None
      BY <2>5, NoneIsFresh
    <3>. QED
      BY <1>a, <1>8, <2>1, <2>3, <3>1 DEF process_update_task, Commit, SetStatus, TablesTyped
  <2>8. "update" \in Tasks
    BY DEF Tasks
  <2>. QED
    BY <1>a, <2>1, <2>6, <2>7, <2>8, CommitTables, LoggedTypes DEF TablesTyped
<1>9. ASSUME NEW t \in Slots, log_attempt(t)
      PROVE  TablesTyped'
  <2>1. task[t] \in Working
    BY <1>9, TaskWorking DEF log_attempt
  <2>2. task[t].order \in Orders /\ task[t].retries + 1 \in 1 .. 4 /\ task[t].retries \in 0 .. 3
    BY <2>1 DEF Working
  <2>3. Log(task[t].order, Entry("shipping.retry", "PAID", "PAID")) \in [Orders -> Seq(Entries)]
    BY <1>a, <2>2, LogTyped, LoggedTypes DEF TablesTyped
  <2>4. RetryRow(t, task[t].retries + 1, backoff(task[t].retries), "RETRYING") \in Attempts
    BY <2>1, <2>2, RowTyped
  <2>5. RetryRow(t, task[t].retries + 1, 5, "RETRYING") \in Attempts
    <3>1. 5 \in {backoff(i) : i \in 0 .. 3}
      BY ShortestBackoff
    <3>. QED
      BY <2>1, <2>2, <3>1, RowTyped
  <2>. QED
    BY <1>9, <2>3, <2>4, <2>5 DEF log_attempt, TablesTyped
<1>10. ASSUME NEW t \in Slots, _mark_order_failed(t)
       PROVE  TablesTyped'
  <2>1. task[t] \in Working
    BY <1>10, TaskWorking DEF _mark_order_failed
  <2>2. task[t].order \in Orders /\ status[task[t].order] # None
    BY <1>10, <2>1 DEF Working, OrdersExist, TasksKnow, _mark_order_failed
  <2>3. events' \in [Orders -> Seq(Entries)]
    <3>1. PICK type \in Announcements :
             events' = Log(task[t].order, Entry(type, status[task[t].order], "FAILED"))
      BY <1>10 DEF _mark_order_failed
    <3>2. status[task[t].order] \in Statuses
      BY <2>2 DEF TablesTyped
    <3>. QED
      BY <1>a, <2>2, <3>1, <3>2, LogTyped, LoggedTypes DEF TablesTyped
  <2>4. RetryRow(t, 4, 0, "EXHAUSTED") \in Attempts
    BY <2>1, RowTyped
  <2>. QED
    BY <1>a, <1>10, <2>2, <2>3, <2>4 DEF _mark_order_failed, SetStatus, TablesTyped
<1>. QED
  BY TableSteps, <1>1, <1>2, <1>3, <1>4, <1>6, <1>7, <1>8, <1>9, <1>10

-----------------------------------------------------------------------------
(* The topic, the consumer and the row locks keep their type. *)

\* A message published is a message on the topic.
LEMMA PublishTyped ==
    ASSUME BusTyped, NEW m \in Messages, topic' = Append(topic, m), UNCHANGED consumer
    PROVE  BusTyped'
BY DEF BusTyped, consumer

\* No step breaks the type of the topic, the offsets or the pushed status.
LEMMA BusStep ==
    ASSUME TypeOK, Next
    PROVE  BusTyped'
<1> USE DEF TypeOK
<1>1. CASE UNCHANGED <<topic, consumer>>
  BY <1>1 DEF BusTyped, consumer
<1>2. CASE Consume
  <2>1. topic' = topic /\ position' = position + 1
        /\ committed' \in {committed, position + 1}
    BY <1>2 DEF Consume, dispatch_event, bridge_event, skip_event, commit_offset
  <2>2. wsStatus' \in [Orders -> Statuses \union {None}]
    <3> DEFINE announced == CHOOSE s \in Statuses : <<Polled.type, s>> \in Announces
    <3>1. Polled.type \in Announcements => announced \in Statuses
      BY DEF Announcements, Announces, Statuses
    <3>2. \/ wsStatus' = wsStatus
          \/ wsStatus' = [o \in Orders |->
                            IF o = Polled.order /\ Polled.type \in Announcements
                            THEN announced ELSE wsStatus[o]]
      BY <1>2 DEF Consume, dispatch_event, bridge_event, skip_event, _push_to_ws_queue
    <3> HIDE DEF announced
    <3>. QED
      BY <3>1, <3>2 DEF BusTyped
  <2>. QED
    BY <2>1, <2>2 DEF BusTyped
<1>3. CASE api_restart
  BY <1>3 DEF api_restart, BusTyped
<1>4. ASSUME NEW r \in Threads, api_publish(r)
      PROVE  BusTyped'
  <2>1. req[r].outbox \subseteq Messages
    BY DEF RequestsTyped, Handling, Idle
  <2>. QED
    BY <1>4, <2>1, PublishTyped DEF api_publish
<1>5. ASSUME NEW t \in Slots, publish(t)
      PROVE  BusTyped'
  <2>1. task[t] \in Working
    BY <1>5, TaskWorking DEF publish
  <2>2. task[t].order \in Orders /\ task[t].out \in Announcements
    BY <1>5, <2>1 DEF Working, publish, TasksTyped
  <2>3. task[t].out \in EventTypes \ {"order.update_requested"}
    BY <2>2 DEF EventTypes, Announcements, Announces
  <2>. QED
    BY <1>5, <2>2, <2>3, MessageTyped, PublishTyped DEF publish
<1>. QED
  BY BusSteps, <1>1, <1>2, <1>3, <1>4, <1>5

\* No step breaks the type of the locks.
LEMMA LocksStep ==
    ASSUME TypeOK, Next
    PROVE  LocksTyped'
<1> USE DEF TypeOK, LocksTyped
<1>1. ASSUME NEW t \in Slots
      PROVE  LocksWithout(t) \in [Orders -> Slots \union {None}]
  BY DEF LocksWithout
<1>2. ASSUME NEW t \in Slots, Work(t)
      PROVE  LocksTyped'
  BY <1>1, <1>2 DEF Work, check_key, lock_order, skip_order,
     process_manual_payment_task, process_shipping_task, process_delivery_task,
     process_cancellation_task, process_update_task, Commit, Committed, publish,
     publish_lost, IntegrityError, Rollback, log_attempt, retry_task, give_up,
     _mark_order_failed, spare_order
<1>3. ASSUME NEW t \in Slots, Break(t)
      PROVE  LocksTyped'
  BY <1>1, <1>3 DEF Break, attempt_fails, fails_after_commit, Rollback, task_crash, redeliver
<1>. QED
  BY TaskSteps, <1>2, <1>3 DEF dispatch_event

\* Initially nothing exists: every table is empty.
LEMMA InitTyped ==
    ASSUME Init
    PROVE  TypeOK
<1> USE DEF Init
<1>1. TablesTyped
  BY NoneIsFresh DEF TablesTyped
<1>2. LocksTyped /\ RequestsTyped /\ BusTyped
  BY DEF LocksTyped, RequestsTyped, BusTyped
<1>3. TasksTyped
  BY NoTaskTyped DEF TasksTyped
<1>4. CountersTyped
  BY ConstantsOK DEF CountersTyped, ConstantsOK
<1>. QED
  BY <1>1, <1>2, <1>3, <1>4 DEF TypeOK

\* One step of the pipeline keeps every variable's type.
LEMMA TypesStep ==
    ASSUME TypeOK, OrdersExist, Next
    PROVE  TypeOK'
BY TablesStep, LocksStep, RequestsStep, TasksStep, BusStep, CountersKept DEF TypeOK

=============================================================================
