------------------------ MODULE OrderTimelineProofs ------------------------
(***************************************************************************)
(* What the audit timeline agrees with: the events on the topic, the edits *)
(* whose keys are in idempotent_keys, the rows of retry_logs and, while no *)
(* attempt fails, the status of the order.                                 *)
(***************************************************************************)
EXTENDS OrderEffectsProofs

-----------------------------------------------------------------------------
(* The entries of a step. *)

\* Logging one entry gives its order that type, and other orders nothing.
LEMMA LoggedAt ==
    ASSUME IInv, NEW o \in Orders, NEW e \in Entries, events' = Log(o, e),
           NEW p \in Orders, NEW type
    PROVE  Logged(p, type)' <=> Logged(p, type) \/ (p = o /\ e.type = type)
<1>1. events[o] \in Seq(Entries) /\ DOMAIN events = Orders
  BY DEF IInv, TypeOK, TablesTyped
<1>2. CASE p = o
  <2>1. events'[p] = Append(events[p], e)
    BY <1>1, <1>2 DEF Log
  <2>. QED
    BY <1>2, <2>1, LoggedAfter
<1>3. CASE p # o
  <2>1. events'[p] = events[p]
    BY <1>1, <1>3 DEF Log
  <2>. QED
    BY <1>3, <2>1 DEF Logged
<1>. QED
  BY <1>2, <1>3

\* Inserting orders logs their creation and nothing else.
LEMMA LoggedCreated ==
    ASSUME IInv, NEW os \in SUBSET Orders, NEW r \in Threads, Insert(r, os),
           NEW p \in Orders, NEW type
    PROVE  Logged(p, type)' <=> Logged(p, type) \/ (p \in os /\ type = "order.created")
<1> DEFINE e == Entry("order.created", None, "PENDING")
<1>1. e \in Entries /\ e.type = "order.created"
  BY StatusNames DEF Entry, Entries, AuditTypes, Announcements, Announces
<1>2. events' = [o \in Orders |-> IF o \in os THEN Append(events[o], e) ELSE events[o]]
  BY DEF Insert
<1> HIDE DEF e
<1>3. CASE p \in os
  BY <1>1, <1>2, <1>3, LoggedAfter
<1>4. CASE p \notin os
  BY <1>2, <1>4 DEF Logged
<1>. QED
  BY <1>3, <1>4

\* A commit logs one entry, and holds it ready to publish.
LEMMA CommitLogs ==
    ASSUME IInv, NEW t \in Slots, NEW kind, NEW to \in Statuses, NEW type \in AuditTypes,
           Commit(t, kind, to, type)
    PROVE  \E e \in Entries :
              /\ task[t].order \in Orders
              /\ e.type = type /\ e.from = status[task[t].order] /\ e.to = to
              /\ events' = Log(task[t].order, e)
              /\ status' = SetStatus(task[t].order, to)
<1>1. task[t].order \in Orders /\ task[t].seen = status[task[t].order]
  BY CommitsApply DEF Commit, Ready
<1> DEFINE e == Entry(type, task[t].seen, to)
<1>2. e \in Entries
  BY <1>1 DEF Entry, Entries, IInv, TypeOK, TablesTyped
<1>3. e.type = type /\ e.from = task[t].seen /\ e.to = to
  BY DEF Entry
<1>4. events' = Log(task[t].order, e) /\ status' = SetStatus(task[t].order, to)
  BY DEF Commit
<1> HIDE DEF e
<1>. QED
  BY <1>1, <1>2, <1>3, <1>4

\* The exhaustion of a task logs its failure, and holds it ready to publish.
LEMMA ExhaustionLogs ==
    ASSUME IInv, NEW t \in Slots, _mark_order_failed(t)
    PROVE  \E e \in Entries :
              /\ task[t].order \in Orders
              /\ e.type \in Announcements /\ <<task[t].kind, e.type>> \in FailedEvents
              /\ events' = Log(task[t].order, e)
              /\ task' = [task EXCEPT ![t].pc = "notify", ![t].out = e.type]
<1> USE DEF IInv, TypeOK
<1>1. task[t].order \in Orders /\ status[task[t].order] \in Statuses
  BY TaskWorking DEF _mark_order_failed, Working, OrdersExist, TasksKnow, TablesTyped
<1>2. PICK type \in Announcements :
         /\ <<task[t].kind, type>> \in FailedEvents
         /\ events' = Log(task[t].order, Entry(type, status[task[t].order], "FAILED"))
         /\ task' = [task EXCEPT ![t].pc = "notify", ![t].out = type]
  BY DEF _mark_order_failed
<1> DEFINE e == Entry(type, status[task[t].order], "FAILED")
<1>3. e \in Entries /\ e.type = type
  BY <1>1, StatusNames, LoggedTypes DEF Entry, Entries
<1> HIDE DEF e
<1>4. events' = Log(task[t].order, e)
  BY <1>2 DEF e
<1>. QED
  BY <1>1, <1>2, <1>3, <1>4

-----------------------------------------------------------------------------
(* Announcements: whoever is about to publish a status change has it       *)
(* committed, and commits are not undone.                                  *)

RequestsLogged ==
    \A r \in Threads : \A m \in req[r].outbox :
        m.type \in Announcements => Logged(m.order, m.type)
TasksLogged ==
    \A t \in Slots :
        task[t].pc \in {"publish", "notify"} => Logged(task[t].order, task[t].out)
AnnounceInv == IInv /\ RequestsLogged /\ TasksLogged /\ AnnouncedIsCommitted

\* The requests that customers' calls publish announce nothing.
LEMMA RequestsAnnounceNothing ==
    {"payment.received", "order.cancel_requested", "order.update_requested"}
        \cap Announcements = {}
BY DEF Announcements, Announces

\* An API handler has what it is about to announce in the timeline.
LEMMA RequestsLoggedStep ==
    ASSUME IInv, RequestsLogged, Next
    PROVE  RequestsLogged'
<1> USE DEF IInv, TypeOK
<1>a. \A r \in Threads : \A m \in req[r].outbox :
         m.type \in Announcements => Logged(m.order, m.type)'
  <2> SUFFICES ASSUME NEW r \in Threads, NEW m \in req[r].outbox, m.type \in Announcements
               PROVE  Logged(m.order, m.type)'
    OBVIOUS
  <2>1. m.order \in Orders /\ Logged(m.order, m.type)
    BY DEF RequestsLogged, RequestsTyped, Handling, Idle, Messages
  <2>. QED
    BY <2>1, LoggedStays
<1>b. ASSUME NEW r \in Threads, NEW v, req' = [req EXCEPT ![r] = v],
             \A m \in v.outbox : m.type \in Announcements => Logged(m.order, m.type)'
      PROVE  RequestsLogged'
  BY <1>a, <1>b DEF RequestsLogged, RequestsTyped
<1>1. CASE UNCHANGED req
  BY <1>1, <1>a DEF RequestsLogged
<1>2. CASE api_restart
  BY <1>2 DEF api_restart, RequestsLogged, Idle
<1>3. ASSUME NEW r \in Threads, create_order(r) \/ create_bulk_orders(r)
      PROVE  RequestsLogged'
  <2>1. PICK os \in SUBSET Orders : Insert(r, os)
    BY <1>3 DEF create_order, create_bulk_orders
  <2> DEFINE v == [pc |-> "publish", order |-> None,
                   outbox |-> {Message("order.created", o) : o \in os}]
  <2>2. req' = [req EXCEPT ![r] = v]
    BY <2>1 DEF Insert
  <2>3. \A m \in v.outbox : m.order \in os /\ m.type = "order.created"
    BY DEF Message
  <2> HIDE DEF v
  <2>4. \A m \in v.outbox : Logged(m.order, m.type)'
    BY <2>1, <2>3, LoggedCreated
  <2>. QED
    BY <1>b, <2>2, <2>4
<1>4. ASSUME NEW r \in Threads, NEW o \in Orders,
             \/ pay_for_order(r, o) \/ cancel_order(r, o) \/ update_order(r, o)
      PROVE  RequestsLogged'
  <2>1. PICK m : /\ m.type \notin Announcements
                 /\ req' = [req EXCEPT ![r] =
                              [pc |-> "publish", order |-> o, outbox |-> {m}]]
    BY <1>4, RequestsAnnounceNothing
    DEF pay_for_order, cancel_order, update_order, Submit, Message
  <2> DEFINE v == [pc |-> "publish", order |-> o, outbox |-> {m}]
  <2>2. req' = [req EXCEPT ![r] = v] /\ v.outbox = {m}
    BY <2>1
  <2> HIDE DEF v
  <2>. QED
    BY <1>b, <2>1, <2>2
<1>5. ASSUME NEW r \in Threads, NEW o \in Orders,
             ReadPending(r, o, "retry") \/ ReadPending(r, o, "fail")
      PROVE  RequestsLogged'
  <2>1. PICK v : req' = [req EXCEPT ![r] = v] /\ v.outbox = {}
    <3>1. PICK pc : req' = [req EXCEPT ![r] = [pc |-> pc, order |-> o, outbox |-> {}]]
      BY <1>5 DEF ReadPending
    <3> DEFINE w == [pc |-> pc, order |-> o, outbox |-> {}]
    <3>2. req' = [req EXCEPT ![r] = w] /\ w.outbox = {}
      BY <3>1
    <3> HIDE DEF w
    <3>. QED
      BY <3>2
  <2>. QED
    BY <1>b, <2>1
<1>6. ASSUME NEW r \in Threads, retry_payment(r)
      PROVE  RequestsLogged'
  <2>1. req' = [req EXCEPT ![r] = Idle] /\ Idle.outbox = {}
    BY <1>6 DEF retry_payment, Idle
  <2>. QED
    BY <1>b, <2>1
<1>7. ASSUME NEW r \in Threads, fail_payment(r)
      PROVE  RequestsLogged'
  <2>1. PICK o \in Orders : o = req[r].order
    BY <1>7 DEF fail_payment, RequestsTyped, Handling, Idle
  <2> DEFINE e == Entry("payment.failed", "PENDING", "FAILED")
             v == [pc |-> "publish", order |-> o, outbox |-> {Message("payment.failed", o)}]
  <2>2. e \in Entries /\ e.type = "payment.failed"
    BY StatusNames, LoggedTypes DEF Entry, Entries
  <2>3. events' = Log(o, e) /\ req' = [req EXCEPT ![r] = v]
    BY <1>7, <2>1 DEF fail_payment
  <2>4. \A m \in v.outbox : m.order = o /\ m.type = "payment.failed"
    BY DEF Message
  <2> HIDE DEF e, v
  <2>5. Logged(o, "payment.failed")'
    BY <2>2, <2>3, LoggedAt
  <2>. QED
    BY <1>b, <2>3, <2>4, <2>5
<1>8. ASSUME NEW r \in Threads, api_publish(r) \/ api_publish_lost(r)
      PROVE  RequestsLogged'
  <2>1. PICK sent : req' = [req EXCEPT ![r] = AfterPublish(r, sent)]
    BY <1>8 DEF api_publish, api_publish_lost
  <2> DEFINE v == AfterPublish(r, sent)
  <2>2. v.outbox \subseteq req[r].outbox
    BY DEF AfterPublish, Idle, RequestsTyped, Handling
  <2>3. req' = [req EXCEPT ![r] = v]
    BY <2>1
  <2> HIDE DEF v
  <2>. QED
    BY <1>a, <1>b, <2>2, <2>3
<1>. QED
  BY RequestSteps, <1>1, <1>2, <1>3, <1>4, <1>5, <1>6, <1>7, <1>8 DEF Request, Respond

\* A step that leaves a task about to publish either left it so before, or
\* has just logged what the task will publish.
LEMMA TaskAnnounces ==
    ASSUME IInv, Next, NEW t \in Slots, task'[t].pc \in {"publish", "notify"}
    PROVE  \/ task'[t] = task[t]
           \/ /\ task[t].order \in Orders /\ task'[t].order = task[t].order
              /\ \E e \in Entries : events' = Log(task[t].order, e) /\ e.type = task'[t].out
<1> USE DEF IInv, TypeOK
<1>1. CASE UNCHANGED task
  BY <1>1
<1>2. CASE dispatch_event
  BY <1>2 DEF dispatch_event, Queued, TasksTyped
<1>3. ASSUME NEW u \in Slots, NEW v, task' = [task EXCEPT ![u] = v],
             v.pc \notin {"publish", "notify"}
      PROVE  task'[t] = task[t]
  BY <1>3 DEF TasksTyped
<1>4. ASSUME NEW u \in Slots, NEW pc, pc \notin {"publish", "notify"}, Goto(u, pc),
             task[u].pc # "free"
      PROVE  task'[t] = task[t]
  BY <1>4, TaskWorking DEF Goto, TasksTyped, Working
<1>5. ASSUME NEW u \in Slots, Finish(u)
      PROVE  task'[t] = task[t]
  BY <1>5 DEF Finish, NoTask, TasksTyped
<1>6. ASSUME NEW u \in Slots, task[u].pc # "free", Rollback(u)
      PROVE  task'[t] = task[t]
  BY <1>6, TaskWorking DEF Rollback, TasksTyped, Working
<1>7. CASE \E u \in Slots : lock_order(u)
  BY <1>7, TaskWorking DEF lock_order, TasksTyped, Working
<1>8. CASE \E u \in Slots : retry_task(u)
  BY <1>8 DEF retry_task, Queued, TasksTyped
<1>9. CASE \E u, w \in Slots : redeliver(u, w)
  BY <1>9 DEF redeliver, TasksTyped
<1>10. ASSUME NEW u \in Slots,
              \/ process_manual_payment_task(u) \/ process_shipping_task(u)
              \/ process_delivery_task(u) \/ process_cancellation_task(u)
              \/ process_update_task(u)
       PROVE  \/ task'[t] = task[t]
              \/ /\ task[t].order \in Orders /\ task'[t].order = task[t].order
                 /\ \E e \in Entries : events' = Log(task[t].order, e) /\ e.type = task'[t].out
  <2>1. PICK kind \in Tasks, to \in Statuses, type \in AuditTypes : Commit(u, kind, to, type)
    BY <1>10, StatusNames, LoggedTypes DEF process_manual_payment_task,
       process_shipping_task, process_delivery_task, process_cancellation_task,
       process_update_task, Tasks
  <2>2. task[u] \in Working
    BY <2>1, TaskWorking DEF Commit, Ready
  <2>3. task' = [task EXCEPT ![u].pc = "publish", ![u].seen = None, ![u].out = type]
    BY <2>1 DEF Commit, Committed
  <2>4. CASE t # u
    BY <2>3, <2>4 DEF TasksTyped
  <2>5. CASE t = u
    <3>1. task'[t].order = task[t].order /\ task'[t].out = type
      BY <2>2, <2>3, <2>5 DEF TasksTyped, Working
    <3>. QED
      BY <2>1, <2>5, <3>1, CommitLogs
  <2>. QED
    BY <2>4, <2>5
<1>11. ASSUME NEW u \in Slots, _mark_order_failed(u)
       PROVE  \/ task'[t] = task[t]
              \/ /\ task[t].order \in Orders /\ task'[t].order = task[t].order
                 /\ \E e \in Entries : events' = Log(task[t].order, e) /\ e.type = task'[t].out
  <2>1. task[u] \in Working
    BY <1>11, TaskWorking DEF _mark_order_failed
  <2>2. PICK e \in Entries :
          /\ task[u].order \in Orders /\ events' = Log(task[u].order, e)
          /\ task' = [task EXCEPT ![u].pc = "notify", ![u].out = e.type]
    BY <1>11, ExhaustionLogs
  <2>3. CASE t # u
    BY <2>2, <2>3 DEF TasksTyped
  <2>4. CASE t = u
    <3>1. task'[t].order = task[t].order /\ task'[t].out = e.type
      BY <2>1, <2>2, <2>4 DEF TasksTyped, Working
    <3>. QED
      BY <2>2, <2>4, <3>1
  <2>. QED
    BY <2>3, <2>4
<1>12. ASSUME NEW u \in Slots, \/ check_key(u) \/ skip_order(u) \/ publish(u) \/ publish_lost(u)
                               \/ log_attempt(u) \/ give_up(u) \/ spare_order(u)
       PROVE  task'[t] = task[t]
  BY <1>4, <1>5, <1>12 DEF check_key, skip_order, publish, publish_lost, log_attempt,
     give_up, spare_order
<1>13. ASSUME NEW u \in Slots, \/ IntegrityError(u) \/ attempt_fails(u)
                               \/ fails_after_commit(u) \/ task_crash(u)
       PROVE  task'[t] = task[t]
  BY <1>5, <1>6, <1>13 DEF IntegrityError, attempt_fails, fails_after_commit, task_crash
<1>14. ASSUME NEW u \in Slots, Work(u) \/ Break(u)
       PROVE  \/ task'[t] = task[t]
              \/ /\ task[t].order \in Orders /\ task'[t].order = task[t].order
                 /\ \E e \in Entries : events' = Log(task[t].order, e) /\ e.type = task'[t].out
  BY <1>7, <1>8, <1>9, <1>10, <1>11, <1>12, <1>13, <1>14 DEF Work, Break
<1>. QED
  BY TaskSteps, <1>1, <1>2, <1>14

\* So a task has what it is about to publish in the timeline.
LEMMA TasksLoggedStep ==
    ASSUME IInv, TasksLogged, Next
    PROVE  TasksLogged'
<1> SUFFICES ASSUME NEW t \in Slots, task'[t].pc \in {"publish", "notify"}
             PROVE  Logged(task[t].order, task[t].out)'
  BY DEF TasksLogged
<1>1. PICK o, type : o = task'[t].order /\ type = task'[t].out
  OBVIOUS
<1>2. CASE task'[t] = task[t]
  <2>1. o \in Orders /\ Logged(o, type)
    BY <1>1, <1>2, TaskWorking DEF TasksLogged, IInv, TypeOK, Working
  <2>2. Logged(o, type)'
    BY <2>1, LoggedStays
  <2>. QED
    BY <1>1, <2>2 DEF Logged
<1>3. CASE /\ o \in Orders
           /\ \E e \in Entries : events' = Log(o, e) /\ e.type = type
  <2>1. Logged(o, type)'
    BY <1>3, LoggedAt
  <2>. QED
    BY <1>1, <2>1 DEF Logged
<1>. QED
  BY <1>1, <1>2, <1>3, TaskAnnounces

\* And what is published is in the timeline, for good.
LEMMA AnnouncedStep ==
    ASSUME AnnounceInv, Next
    PROVE  AnnouncedIsCommitted'
<1> USE DEF AnnounceInv, IInv, TypeOK
<1>a. \A o, type : type \in Announcements /\ (\E i \in DOMAIN topic :
                      topic[i].order = o /\ topic[i].type = type)
                   => Logged(o, type)'
  <2> SUFFICES ASSUME NEW o, NEW type \in Announcements, NEW i \in DOMAIN topic,
                      topic[i].order = o, topic[i].type = type
               PROVE  Logged(o, type)'
    OBVIOUS
  <2>1. o \in Orders /\ Logged(o, type)
    BY DEF AnnouncedIsCommitted, BusTyped, Messages
  <2>. QED
    BY <2>1, LoggedStays
<1>b. ASSUME NEW m \in Messages, topic' = Append(topic, m), NEW o, NEW type,
             o = m.order, type = m.type, type \in Announcements => Logged(o, type)'
      PROVE  AnnouncedIsCommitted'
  <2> SUFFICES ASSUME NEW i \in DOMAIN topic', topic'[i].type \in Announcements
               PROVE  Logged(topic[i].order, topic[i].type)'
    BY DEF AnnouncedIsCommitted
  <2>1. PICK p, kind : p = topic'[i].order /\ kind = topic'[i].type
    OBVIOUS
  <2>2. \/ topic'[i] = m
        \/ i \in DOMAIN topic /\ topic'[i] = topic[i]
    BY <1>b DEF BusTyped
  <2>3. Logged(p, kind)'
    BY <1>a, <1>b, <2>1, <2>2
  <2>. QED
    BY <2>1, <2>3 DEF Logged
<1>1. CASE UNCHANGED topic
  <2> SUFFICES ASSUME NEW i \in DOMAIN topic', topic'[i].type \in Announcements
               PROVE  Logged(topic[i].order, topic[i].type)'
    BY DEF AnnouncedIsCommitted
  <2>1. PICK p, kind : p = topic'[i].order /\ kind = topic'[i].type
    OBVIOUS
  <2>2. Logged(p, kind)'
    BY <1>a, <1>1, <2>1
  <2>. QED
    BY <2>1, <2>2 DEF Logged
<1>2. ASSUME NEW r \in Threads, api_publish(r)
      PROVE  AnnouncedIsCommitted'
  <2>1. PICK m \in req[r].outbox : topic' = Append(topic, m)
    BY <1>2 DEF api_publish
  <2>2. m \in Messages
    BY <2>1 DEF RequestsTyped, Handling, Idle
  <2>3. m.type \in Announcements => Logged(m.order, m.type)'
    BY <2>1, <2>2, LoggedStays DEF RequestsLogged, Messages
  <2>. QED
    BY <1>b, <2>1, <2>2, <2>3
<1>3. ASSUME NEW t \in Slots, publish(t)
      PROVE  AnnouncedIsCommitted'
  <2>1. PICK o \in Orders, type \in Announcements : o = task[t].order /\ type = task[t].out
    BY <1>3, TaskWorking DEF publish, Working, TasksTyped
  <2>2. type \in EventTypes \ {"order.update_requested"}
    BY <2>1 DEF EventTypes, Announcements, Announces
  <2> DEFINE m == Message(type, o)
  <2>3. m \in Messages /\ m.order = o /\ m.type = type
    BY <2>2, MessageTyped DEF Message
  <2>4. topic' = Append(topic, m)
    BY <1>3, <2>1 DEF publish
  <2> HIDE DEF m
  <2>5. Logged(o, type)'
    BY <1>3, <2>1, LoggedStays DEF publish, TasksLogged
  <2>. QED
    BY <1>b, <2>3, <2>4, <2>5
<1>4. Consume \/ api_restart => UNCHANGED topic
  BY DEF Consume, dispatch_event, bridge_event, skip_event, api_restart
<1>. QED
  BY BusSteps, <1>1, <1>2, <1>3, <1>4

\* Nobody hears of a change that is not committed: whatever is lost, repeated
\* or rolled back, an announcement on the topic is on the timeline already.
THEOREM AnnouncedChangesAreCommitted == Spec => []AnnouncedIsCommitted
<1>1. Init => AnnounceInv
  BY InitIInv DEF Init, AnnounceInv, RequestsLogged, TasksLogged, AnnouncedIsCommitted,
     Idle, NoTask
<1>2. AnnounceInv /\ [Next]_vars => AnnounceInv'
  <2>1. AnnounceInv /\ Next => AnnounceInv'
    BY StepIInv, RequestsLoggedStep, TasksLoggedStep, AnnouncedStep DEF AnnounceInv
  <2>2. AnnounceInv /\ UNCHANGED vars => AnnounceInv'
    BY StepIInv DEF AnnounceInv, RequestsLogged, TasksLogged, AnnouncedIsCommitted,
       Logged, vars, tables
  <2>. QED
    BY <2>1, <2>2
<1>3. AnnounceInv => AnnouncedIsCommitted
  BY DEF AnnounceInv
<1>. QED
  BY <1>1, <1>2, <1>3, PTL DEF Spec

-----------------------------------------------------------------------------
(* Keys, retry rows and entries: what one step writes of each. *)

\* Entries that go with a row of retry_logs, and those that go with neither a
\* row nor an edit.
RowTypes == {"order.shipped", "shipping.retry"} \union {f[2] : f \in FailedEvents}
AsideTypes == AuditTypes \ ({"order.updated"} \union RowTypes)

\* A row that no entry goes with: a failed attempt, but not of shipping.
Aside(row) == row.status = "RETRYING" /\ row.task # "shipping"

NothingWritten == UNCHANGED <<events, keys, retryLogs>>
OrdersWritten ==
    /\ UNCHANGED <<keys, retryLogs>>
    /\ \E r \in Threads, os \in SUBSET Orders : Insert(r, os)
AsideWritten ==
    /\ keys' = keys
    /\ \/ events' = events
       \/ \E o \in Orders, e \in Entries : events' = Log(o, e) /\ e.type \in AsideTypes
    /\ retryLogs' = retryLogs \/ \E row : retryLogs' = retryLogs \union {row} /\ Aside(row)
RetryWritten ==
    /\ keys' = keys
    /\ \E o \in Orders, e \in Entries : \E row :
          /\ events' = Log(o, e) /\ e.type = "shipping.retry"
          /\ retryLogs' = retryLogs \union {row}
          /\ row.order = o /\ row.task = "shipping" /\ row.status = "RETRYING"
CommitWritten ==
    \E t \in Slots, o \in Orders, e \in Entries :
        /\ o = task[t].order
        /\ events' = Log(o, e)
        /\ KeyIsNew(t) /\ keys' = keys \union {idempotency_key(t)}
        /\ task[t].kind = "update" <=> e.type = "order.updated"
        /\ \/ e.type \in AsideTypes \union {"order.updated"} /\ retryLogs' = retryLogs
           \/ /\ e.type = "order.shipped"
              /\ \E row : /\ retryLogs' = retryLogs \union {row}
                          /\ row.order = o /\ row.status = "SUCCEEDED"
FailureWritten ==
    /\ keys' = keys
    /\ \E o \in Orders, e \in Entries : \E row :
          /\ events' = Log(o, e)
          /\ retryLogs' = retryLogs \union {row}
          /\ row.order = o /\ row.status = "EXHAUSTED" /\ <<row.task, e.type>> \in FailedEvents
          /\ status'[o] = "FAILED"

\* The types of the entries that are written aside, by name.
LEMMA AsideNames ==
    /\ {"order.created", "payment.processed", "order.delivered", "order.cancelled",
        "payment.failed", "payment.retry"} \subseteq AsideTypes
    /\ AsideTypes \subseteq AuditTypes
BY DEF AsideTypes, RowTypes, AuditTypes, Announcements, Announces, FailedEvents

\* A commit writes one key and one entry; shipping's writes a row as well.
LEMMA CommitWrites ==
    ASSUME IInv, NEW t \in Slots,
           \/ process_manual_payment_task(t) \/ process_shipping_task(t)
           \/ process_delivery_task(t) \/ process_cancellation_task(t)
           \/ process_update_task(t)
    PROVE  CommitWritten
<1>a. ASSUME NEW kind, NEW to \in Statuses, NEW type \in AuditTypes, Commit(t, kind, to, type)
      PROVE  /\ task[t].kind = kind /\ KeyIsNew(t)
             /\ keys' = keys \union {idempotency_key(t)}
             /\ \E o \in Orders, e \in Entries :
                   o = task[t].order /\ e.type = type /\ events' = Log(o, e)
  BY <1>a, CommitLogs DEF Commit, Ready
<1>1. ASSUME NEW kind \in Tasks \ {"update"}, NEW to \in Statuses, NEW type \in AsideTypes,
             Commit(t, kind, to, type), retryLogs' = retryLogs
      PROVE  CommitWritten
  <2>1. type # "order.updated" /\ type \in AuditTypes
    BY AsideNames DEF AsideTypes
  <2>. QED
    BY <1>1, <1>a, <2>1 DEF CommitWritten
<1>2. CASE process_manual_payment_task(t)
  BY <1>1, <1>2, AsideNames, StatusNames DEF process_manual_payment_task, Tasks
<1>3. CASE process_delivery_task(t)
  BY <1>1, <1>3, AsideNames, StatusNames DEF process_delivery_task, Tasks
<1>4. CASE process_cancellation_task(t)
  BY <1>1, <1>4, AsideNames, StatusNames DEF process_cancellation_task, Tasks
<1>5. CASE process_shipping_task(t)
  <2> DEFINE row == RetryRow(t, task[t].retries + 1, 0, "SUCCEEDED")
  <2>1. row.order = task[t].order /\ row.status = "SUCCEEDED"
    BY DEF RetryRow
  <2>2. Commit(t, "shipping", "SHIPPED", "order.shipped") /\ retryLogs' = retryLogs \union {row}
    BY <1>5 DEF process_shipping_task
  <2> HIDE DEF row
  <2>3. PICK o \in Orders, e \in Entries :
          o = task[t].order /\ e.type = "order.shipped" /\ events' = Log(o, e)
    BY <1>a, <2>2, LoggedTypes, StatusNames
  <2>4. /\ KeyIsNew(t) /\ keys' = keys \union {idempotency_key(t)}
        /\ task[t].kind = "update" <=> e.type = "order.updated"
    BY <1>a, <2>2, <2>3, LoggedTypes, StatusNames
  <2>. QED
    BY <2>1, <2>2, <2>3, <2>4 DEF CommitWritten
<1>6. CASE process_update_task(t)
  <2>1. Commit(t, "update", "PENDING", "order.updated") /\ retryLogs' = retryLogs
    BY <1>6 DEF process_update_task
  <2>2. PICK o \in Orders, e \in Entries :
          o = task[t].order /\ e.type = "order.updated" /\ events' = Log(o, e)
    BY <1>a, <2>1, LoggedTypes, StatusNames
  <2>3. /\ KeyIsNew(t) /\ keys' = keys \union {idempotency_key(t)}
        /\ task[t].kind = "update" <=> e.type = "order.updated"
    BY <1>a, <2>1, <2>2, LoggedTypes, StatusNames
  <2>. QED
    BY <2>1, <2>2, <2>3 DEF CommitWritten
<1>. QED
  BY <1>2, <1>3, <1>4, <1>5, <1>6

\* All that a step can write.
LEMMA Written ==
    ASSUME IInv, Next
    PROVE  \/ NothingWritten \/ OrdersWritten \/ AsideWritten \/ RetryWritten
           \/ CommitWritten \/ FailureWritten
<1> USE DEF IInv, TypeOK
<1>1. CASE UNCHANGED tables
  BY <1>1 DEF tables, NothingWritten
<1>2. ASSUME NEW r \in Threads, create_order(r) \/ create_bulk_orders(r)
      PROVE  OrdersWritten
  <2>1. PICK os \in SUBSET Orders : Insert(r, os)
    BY <1>2 DEF create_order, create_bulk_orders
  <2>. QED
    BY <2>1 DEF OrdersWritten, Insert
<1>a. ASSUME NEW o \in Orders, NEW type \in AsideTypes, NEW from \in Statuses,
             NEW to \in Statuses
      PROVE  \E e \in Entries : e = Entry(type, from, to) /\ e.type \in AsideTypes
  <2>1. Entry(type, from, to) \in Entries /\ Entry(type, from, to).type = type
    BY AsideNames DEF Entry, Entries
  <2>. QED
    BY <2>1
<1>3. ASSUME NEW r \in Threads, retry_payment(r)
      PROVE  AsideWritten
  <2>1. req[r].order \in Orders
    BY <1>3 DEF retry_payment, RequestsTyped, Handling, Idle
  <2>. QED
    BY <1>3, <1>a, <2>1, AsideNames, StatusNames DEF retry_payment, AsideWritten
<1>4. ASSUME NEW r \in Threads, fail_payment(r)
      PROVE  AsideWritten
  <2>1. req[r].order \in Orders
    BY <1>4 DEF fail_payment, RequestsTyped, Handling, Idle
  <2>. QED
    BY <1>4, <1>a, <2>1, AsideNames, StatusNames DEF fail_payment, AsideWritten
<1>5. ASSUME NEW t \in Slots, log_attempt(t)
      PROVE  AsideWritten \/ RetryWritten
  <2>1. task[t].order \in Orders
    BY <1>5, TaskWorking DEF log_attempt, Working
  <2> DEFINE row == RetryRow(t, task[t].retries + 1, backoff(task[t].retries), "RETRYING")
             e == Entry("shipping.retry", "PAID", "PAID")
  <2>2. CASE events' = events
    <3>1. \/ retryLogs' = retryLogs
          \/ \E n, wait : /\ retryLogs' = retryLogs \union {RetryRow(t, n, wait, "RETRYING")}
                          /\ task[t].kind = "delivery"
      <4>1. events[task[t].order] \in Seq(Entries) /\ e \in Entries
        BY <2>1, StatusNames, LoggedTypes DEF Entry, Entries, TablesTyped
      <4>2. events # Log(task[t].order, e)
        <5> HIDE DEF e
        <5>. QED
          BY <2>1, <4>1, Grown DEF Log, TablesTyped
      <4>. QED
        BY <1>5, <2>2, <4>2 DEF log_attempt
    <3>2. \A n, wait : task[t].kind = "delivery" => Aside(RetryRow(t, n, wait, "RETRYING"))
      BY DEF Aside, RetryRow
    <3>3. keys' = keys
      BY <1>5 DEF log_attempt
    <3>. QED
      BY <2>2, <3>1, <3>2, <3>3 DEF AsideWritten
  <2>3. CASE events' # events
    <3>1. /\ task[t].kind = "shipping" /\ keys' = keys
          /\ events' = Log(task[t].order, e) /\ retryLogs' = retryLogs \union {row}
      BY <1>5, <2>3 DEF log_attempt
    <3>2. row.order = task[t].order /\ row.task = task[t].kind /\ row.status = "RETRYING"
      BY DEF RetryRow
    <3>3. e \in Entries /\ e.type = "shipping.retry"
      BY StatusNames, LoggedTypes DEF Entry, Entries
    <3> HIDE DEF row, e
    <3>. QED
      BY <2>1, <3>1, <3>2, <3>3 DEF RetryWritten
  <2>. QED
    BY <2>2, <2>3
<1>6. ASSUME NEW t \in Slots, _mark_order_failed(t)
      PROVE  FailureWritten
  <2> DEFINE row == RetryRow(t, 4, 0, "EXHAUSTED")
  <2>1. row.order = task[t].order /\ row.status = "EXHAUSTED" /\ row.task = task[t].kind
    BY DEF RetryRow
  <2>2. /\ retryLogs' = retryLogs \union {row} /\ keys' = keys
        /\ status' = SetStatus(task[t].order, "FAILED")
    BY <1>6 DEF _mark_order_failed
  <2> HIDE DEF row
  <2>3. PICK e \in Entries :
           /\ task[t].order \in Orders /\ <<task[t].kind, e.type>> \in FailedEvents
           /\ events' = Log(task[t].order, e)
    BY <1>6, ExhaustionLogs
  <2>4. status'[task[t].order] = "FAILED"
    BY <2>2, <2>3 DEF SetStatus, TablesTyped
  <2>. QED
    BY <2>1, <2>2, <2>3, <2>4 DEF FailureWritten
<1>. QED
  BY TableSteps, CommitWrites, <1>1, <1>2, <1>3, <1>4, <1>5, <1>6

-----------------------------------------------------------------------------
(* The retry log and the timeline. *)

Shipped(o) == \E row \in retryLogs : row.order = o /\ row.status = "SUCCEEDED"
Exhausted(o, kind) ==
    \E row \in retryLogs : row.order = o /\ row.task = kind /\ row.status = "EXHAUSTED"
Retried(o) == \E row \in retryLogs : /\ row.order = o /\ row.task = "shipping"
                                      /\ row.status = "RETRYING"

\* The same four facts, with the rows named.
LEMMA RetryLogParts ==
    RetryLogAgrees <=>
        /\ \A o \in Orders : Logged(o, "order.shipped") <=> Shipped(o)
        /\ \A o \in Orders : \A f \in FailedEvents : Logged(o, f[2]) <=> Exhausted(o, f[1])
        /\ \A row \in retryLogs : row.status = "EXHAUSTED" => status[row.order] = "FAILED"
        /\ \A o \in Orders : Logged(o, "shipping.retry") <=> Retried(o)
BY DEF RetryLogAgrees, Shipped, Exhausted, Retried

\* After a step too.
LEMMA RetryLogPartsNext ==
    ASSUME \A o \in Orders : Logged(o, "order.shipped")' <=> Shipped(o)',
           \A o \in Orders : \A f \in FailedEvents : Logged(o, f[2])' <=> Exhausted(o, f[1])',
           \A row \in retryLogs' : row.status = "EXHAUSTED" => status'[row.order] = "FAILED",
           \A o \in Orders : Logged(o, "shipping.retry")' <=> Retried(o)'
    PROVE  RetryLogAgrees'
BY DEF RetryLogAgrees, Shipped, Exhausted, Retried

\* Each task that can be exhausted has a failure event of its own.
LEMMA OwnFailures ==
    \A f, g \in FailedEvents : f[1] = g[1] <=> f[2] = g[2]
BY DEF FailedEvents

\* A shipment, a failed attempt at one, and the exhaustion of a task, are
\* written to both at once.
LEMMA RetryLogStep ==
    ASSUME IInv, RetryLogAgrees, Next
    PROVE  RetryLogAgrees'
<1>a. /\ \A o \in Orders : Logged(o, "order.shipped") <=> Shipped(o)
      /\ \A o \in Orders : \A f \in FailedEvents : Logged(o, f[2]) <=> Exhausted(o, f[1])
      /\ \A o \in Orders : Logged(o, "shipping.retry") <=> Retried(o)
  BY RetryLogParts
<1>b. \A row \in retryLogs : row.status = "EXHAUSTED" => status'[row.order] = "FAILED"
  <2>1. \A row \in retryLogs : row.order \in Orders
    BY DEF IInv, TypeOK, TablesTyped, Attempts
  <2>. QED
    BY <2>1, FailedStays, RetryLogParts
<1>c. ASSUME retryLogs' = retryLogs \/ \E row : retryLogs' = retryLogs \union {row} /\ Aside(row),
             \A o \in Orders, type \in RowTypes : Logged(o, type)' <=> Logged(o, type)
      PROVE  RetryLogAgrees'
  <2>1. /\ \A o \in Orders : Logged(o, "order.shipped")' <=> Logged(o, "order.shipped")
        /\ \A o \in Orders : Logged(o, "shipping.retry")' <=> Logged(o, "shipping.retry")
    BY <1>c DEF RowTypes
  <2>2. \A o \in Orders : \A f \in FailedEvents : Logged(o, f[2])' <=> Logged(o, f[2])
    BY <1>c DEF RowTypes
  <2>3. /\ \A o : Shipped(o)' <=> Shipped(o)
        /\ \A o, kind : Exhausted(o, kind)' <=> Exhausted(o, kind)
        /\ \A o : Retried(o)' <=> Retried(o)
    BY <1>c DEF Shipped, Exhausted, Retried, Aside
  <2>4. \A row \in retryLogs' : row.status = "EXHAUSTED" => status'[row.order] = "FAILED"
    BY <1>b, <1>c DEF Aside
  <2>. QED
    BY <1>a, <2>1, <2>2, <2>3, <2>4, RetryLogPartsNext
<1>d. ASSUME NEW o \in Orders, NEW e \in Entries, events' = Log(o, e), e.type \notin RowTypes
      PROVE  \A p \in Orders, type \in RowTypes : Logged(p, type)' <=> Logged(p, type)
  BY <1>d, LoggedAt
<1>1. CASE NothingWritten
  BY <1>1, <1>c DEF NothingWritten, Logged
<1>2. CASE OrdersWritten
  <2>1. PICK r \in Threads, os \in SUBSET Orders : Insert(r, os)
    BY <1>2 DEF OrdersWritten
  <2>2. "order.created" \notin RowTypes
    BY DEF RowTypes, FailedEvents
  <2>3. \A p \in Orders, type \in RowTypes : Logged(p, type)' <=> Logged(p, type)
    BY <2>1, <2>2, LoggedCreated
  <2>. QED
    BY <1>2, <1>c, <2>3 DEF OrdersWritten
<1>3. CASE AsideWritten
  <2>1. CASE events' = events
    BY <1>3, <1>c, <2>1 DEF AsideWritten, Logged
  <2>2. ASSUME NEW o \in Orders, NEW e \in Entries, events' = Log(o, e), e.type \in AsideTypes
        PROVE  RetryLogAgrees'
    BY <1>3, <1>c, <1>d, <2>2 DEF AsideWritten, AsideTypes
  <2>. QED
    BY <1>3, <2>1, <2>2 DEF AsideWritten
<1>4. ASSUME NEW o \in Orders, NEW e \in Entries, NEW row, events' = Log(o, e),
             e.type = "order.shipped", retryLogs' = retryLogs \union {row},
             row.order = o, row.status = "SUCCEEDED"
      PROVE  RetryLogAgrees'
  <2>1. \A p \in Orders : Logged(p, "order.shipped")' <=> Logged(p, "order.shipped") \/ p = o
    BY <1>4, LoggedAt
  <2>2. /\ \A p \in Orders : \A f \in FailedEvents : Logged(p, f[2])' <=> Logged(p, f[2])
        /\ \A p \in Orders : Logged(p, "shipping.retry")' <=> Logged(p, "shipping.retry")
    <3>1. \A f \in FailedEvents : f[2] # "order.shipped"
      BY DEF FailedEvents
    <3>. QED
      BY <1>4, <3>1, LoggedAt
  <2>3. /\ \A p : Shipped(p)' <=> Shipped(p) \/ p = o
        /\ \A p, kind : Exhausted(p, kind)' <=> Exhausted(p, kind)
        /\ \A p : Retried(p)' <=> Retried(p)
    BY <1>4 DEF Shipped, Exhausted, Retried
  <2>4. \A r \in retryLogs' : r.status = "EXHAUSTED" => status'[r.order] = "FAILED"
    BY <1>b, <1>4
  <2>. QED
    BY <1>a, <2>1, <2>2, <2>3, <2>4, RetryLogPartsNext
<1>5. CASE CommitWritten
  <2>1. PICK o \in Orders, e \in Entries :
           /\ events' = Log(o, e)
           /\ \/ e.type \in AsideTypes \union {"order.updated"} /\ retryLogs' = retryLogs
              \/ /\ e.type = "order.shipped"
                 /\ \E row : /\ retryLogs' = retryLogs \union {row}
                             /\ row.order = o /\ row.status = "SUCCEEDED"
    BY <1>5 DEF CommitWritten
  <2>2. "order.updated" \notin RowTypes
    BY DEF RowTypes, FailedEvents
  <2>. QED
    BY <1>c, <1>d, <1>4, <2>1, <2>2 DEF AsideTypes
<1>6. CASE FailureWritten
  <2>0. PICK o \in Orders, e \in Entries : \E row :
           /\ events' = Log(o, e) /\ retryLogs' = retryLogs \union {row}
           /\ row.order = o /\ row.status = "EXHAUSTED" /\ <<row.task, e.type>> \in FailedEvents
           /\ status'[o] = "FAILED"
    BY <1>6 DEF FailureWritten
  <2>1. PICK row :
           /\ events' = Log(o, e) /\ retryLogs' = retryLogs \union {row}
           /\ row.order = o /\ row.status = "EXHAUSTED" /\ <<row.task, e.type>> \in FailedEvents
           /\ status'[o] = "FAILED"
    BY <2>0
  <2>2. /\ \A p \in Orders : Logged(p, "order.shipped")' <=> Logged(p, "order.shipped")
        /\ \A p \in Orders : Logged(p, "shipping.retry")' <=> Logged(p, "shipping.retry")
    <3>1. e.type \notin {"order.shipped", "shipping.retry"}
      BY <2>1 DEF FailedEvents
    <3>. QED
      BY <2>1, <3>1, LoggedAt
  <2>3. \A p \in Orders : \A f \in FailedEvents :
           Logged(p, f[2])' <=> Logged(p, f[2]) \/ (p = o /\ f[2] = e.type)
    BY <2>1, LoggedAt
  <2>4. \A f \in FailedEvents : f[2] = e.type <=> f[1] = row.task
    BY <2>1, OwnFailures
  <2>5. /\ \A p : Shipped(p)' <=> Shipped(p)
        /\ \A p, kind : Exhausted(p, kind)' <=> Exhausted(p, kind) \/ (p = o /\ kind = row.task)
        /\ \A p : Retried(p)' <=> Retried(p)
    BY <2>1 DEF Shipped, Exhausted, Retried
  <2>6. \A r \in retryLogs' : r.status = "EXHAUSTED" => status'[r.order] = "FAILED"
    BY <1>b, <2>1
  <2>. QED
    BY <1>a, <2>2, <2>3, <2>4, <2>5, <2>6, RetryLogPartsNext
<1>7. CASE RetryWritten
  <2>0. PICK o \in Orders, e \in Entries : \E row :
           /\ events' = Log(o, e) /\ e.type = "shipping.retry"
           /\ retryLogs' = retryLogs \union {row}
           /\ row.order = o /\ row.task = "shipping" /\ row.status = "RETRYING"
    BY <1>7 DEF RetryWritten
  <2>1. /\ \A p \in Orders : Logged(p, "order.shipped")' <=> Logged(p, "order.shipped")
        /\ \A p \in Orders : \A f \in FailedEvents : Logged(p, f[2])' <=> Logged(p, f[2])
        /\ \A p \in Orders :
              Logged(p, "shipping.retry")' <=> Logged(p, "shipping.retry") \/ p = o
    <3>1. \A f \in FailedEvents : f[2] # "shipping.retry"
      BY DEF FailedEvents
    <3>. QED
      BY <2>0, <3>1, LoggedAt
  <2>2. /\ \A p : Shipped(p)' <=> Shipped(p)
        /\ \A p, kind : Exhausted(p, kind)' <=> Exhausted(p, kind)
        /\ \A p : Retried(p)' <=> Retried(p) \/ p = o
    BY <2>0 DEF Shipped, Exhausted, Retried
  <2>3. \A r \in retryLogs' : r.status = "EXHAUSTED" => status'[r.order] = "FAILED"
    BY <1>b, <2>0
  <2>. QED
    BY <1>a, <2>1, <2>2, <2>3, RetryLogPartsNext
<1>. QED
  BY Written, <1>1, <1>2, <1>3, <1>5, <1>6, <1>7

\* retry_logs tells the truth: a shipment is SUCCEEDED, a failed attempt to
\* ship RETRYING and a failed stage EXHAUSTED there exactly if the timeline
\* has it, and an order marked as out of attempts is FAILED and stays so.
THEOREM RetryLogIsTrue == Spec => []RetryLogAgrees
<1>1. Init => RetryLogAgrees
  BY DEF Init, RetryLogAgrees, Logged
<1>2. IInv /\ RetryLogAgrees /\ [Next]_vars => RetryLogAgrees'
  <2>1. IInv /\ RetryLogAgrees /\ UNCHANGED vars => RetryLogAgrees'
    BY DEF RetryLogAgrees, Logged, vars, tables
  <2>. QED
    BY <2>1, RetryLogStep
<1>. QED
  BY <1>1, <1>2, Invariance, PTL DEF Spec

-----------------------------------------------------------------------------
(* Failures: who may fail an order, and after which attempts. *)

\* The calls and tasks under way that may fail an order, and the attempts a
\* delivery under way has behind it: one more than its retries once the
\* except clause has logged the last.
Tries(tk) == tk.retries + (IF tk.pc \in {"retry", "exhausted"} THEN 1 ELSE 0)
FailsAreCalled == \A r \in Threads : req[r].pc = "fail" => "fail" \in Calls
ExhaustedMark ==
    \A t \in Slots : task[t].pc = "exhausted" =>
        MarksFailed(task[t].kind) /\ task[t].retries >= max_retries(task[t].kind)
DeliveriesLogged ==
    \A t \in Slots : task[t].pc # "free" /\ task[t].kind = "delivery" =>
        \A n \in 1 .. Tries(task[t]) : Attempted(task[t].order, "delivery", n)
FailureInv ==
    IInv /\ FailsAreCalled /\ ExhaustedMark /\ DeliveriesLogged /\ FailuresAreEarned

\* Only a call of /fail brings a thread there.
LEMMA FailsAreCalledStep ==
    ASSUME IInv, FailsAreCalled, Next
    PROVE  FailsAreCalled'
<1> USE DEF IInv, TypeOK
<1>a. ASSUME NEW r \in Threads, NEW v, req' = [req EXCEPT ![r] = v],
             v.pc = "fail" => "fail" \in Calls
      PROVE  FailsAreCalled'
  BY <1>a DEF FailsAreCalled, RequestsTyped
<1>1. CASE UNCHANGED req \/ api_restart
  BY <1>1 DEF FailsAreCalled, api_restart, Idle
<1>2. ASSUME NEW r \in Threads, create_order(r) \/ create_bulk_orders(r)
      PROVE  FailsAreCalled'
  <2>1. PICK os \in SUBSET Orders : Insert(r, os)
    BY <1>2 DEF create_order, create_bulk_orders
  <2> DEFINE v == [pc |-> "publish", order |-> None,
                   outbox |-> {Message("order.created", o) : o \in os}]
  <2>2. req' = [req EXCEPT ![r] = v] /\ v.pc = "publish"
    BY <2>1 DEF Insert
  <2> HIDE DEF v
  <2>. QED
    BY <1>a, <2>2
<1>3. ASSUME NEW r \in Threads, NEW o \in Orders,
             \/ pay_for_order(r, o) \/ cancel_order(r, o) \/ update_order(r, o)
      PROVE  FailsAreCalled'
  <2>1. PICK m : req' = [req EXCEPT ![r] =
                           [pc |-> "publish", order |-> o, outbox |-> {m}]]
    BY <1>3 DEF pay_for_order, cancel_order, update_order, Submit
  <2> DEFINE v == [pc |-> "publish", order |-> o, outbox |-> {m}]
  <2>2. req' = [req EXCEPT ![r] = v] /\ v.pc = "publish"
    BY <2>1
  <2> HIDE DEF v
  <2>. QED
    BY <1>a, <2>2
<1>4. ASSUME NEW r \in Threads, NEW o \in Orders, NEW endpoint, ReadPending(r, o, endpoint)
      PROVE  FailsAreCalled'
  <2> DEFINE v == [pc |-> endpoint, order |-> o, outbox |-> {}]
  <2>1. req' = [req EXCEPT ![r] = v] /\ v.pc = endpoint /\ endpoint \in Calls
    BY <1>4 DEF ReadPending, Call
  <2> HIDE DEF v
  <2>. QED
    BY <1>a, <2>1
<1>5. ASSUME NEW r \in Threads, retry_payment(r) \/ fail_payment(r)
      PROVE  FailsAreCalled'
  <2> DEFINE v == [pc |-> "publish", order |-> req[r].order,
                   outbox |-> {Message("payment.failed", req[r].order)}]
  <2>1. \/ req' = [req EXCEPT ![r] = Idle] /\ Idle.pc # "fail"
        \/ req' = [req EXCEPT ![r] = v] /\ v.pc # "fail"
    BY <1>5 DEF retry_payment, fail_payment, Idle
  <2> HIDE DEF v
  <2>. QED
    BY <1>a, <2>1
<1>6. ASSUME NEW r \in Threads, api_publish(r) \/ api_publish_lost(r)
      PROVE  FailsAreCalled'
  <2>1. PICK sent : /\ sent # {} /\ sent \subseteq req[r].outbox
                    /\ req' = [req EXCEPT ![r] = AfterPublish(r, sent)]
    BY <1>6 DEF api_publish, api_publish_lost
  <2>2. req[r].pc = "publish"
    BY <2>1 DEF RequestsTyped, Handling, Idle
  <2>3. AfterPublish(r, sent).pc # "fail"
    BY <2>2 DEF AfterPublish, Idle, RequestsTyped, Handling
  <2>. QED
    BY <1>a, <2>1, <2>3
<1>. QED
  BY RequestSteps, <1>1, <1>2, <1>3, <1>4, <1>5, <1>6 DEF Request, Respond

\* Where a task comes from: an event on the topic, or a task before it, of the
\* same kind and about the same order.
Dispatched(t) ==
    /\ task'[t].pc = "queued" /\ task'[t].retries = 0
    /\ \E i \in DOMAIN topic : /\ <<topic[i].type, task'[t].kind>> \in Dispatch
                               /\ topic[i].order = task'[t].order
Continues(t, u) ==
    /\ task[u].pc # "free"
    /\ task'[t].order = task[u].order /\ task'[t].kind = task[u].kind
    /\ \/ Tries(task'[t]) <= Tries(task[u])
       \/ log_attempt(u) /\ Tries(task'[t]) = task[u].retries + 1
    /\ task'[t].pc = "exhausted" =>
          /\ task'[t].retries = task[u].retries
          /\ \/ task[u].pc = "exhausted"
             \/ MarksFailed(task[u].kind) /\ task[u].retries >= max_retries(task[u].kind)

LEMMA TaskOrigins ==
    ASSUME IInv, Next, NEW t \in Slots, task'[t].pc # "free"
    PROVE  Dispatched(t) \/ \E u \in Slots : Continues(t, u)
<1> USE DEF IInv, TypeOK
<1>a. ASSUME task'[t] = task[t]
      PROVE  \E w \in Slots : Continues(t, w)
  <2>1. Tries(task'[t]) <= Tries(task[t])
    BY <1>a, TaskWorking DEF Tries, Working
  <2>. QED
    BY <1>a, <2>1 DEF Continues
<1>b. ASSUME NEW u \in Slots, NEW v, task' = [task EXCEPT ![u] = v], task[u].pc # "free",
             v.pc # "free" => v.order = task[u].order /\ v.kind = task[u].kind,
             \/ Tries(v) <= Tries(task[u])
             \/ log_attempt(u) /\ Tries(v) = task[u].retries + 1,
             v.pc = "exhausted" => /\ v.retries = task[u].retries
                                   /\ MarksFailed(task[u].kind)
                                   /\ task[u].retries >= max_retries(task[u].kind)
      PROVE  \E w \in Slots : Continues(t, w)
  <2>1. t = u => task'[t] = v
    BY <1>b DEF TasksTyped
  <2>2. t # u => task'[t] = task[t]
    BY <1>b DEF TasksTyped
  <2>. QED
    BY <1>a, <1>b, <2>1, <2>2 DEF Continues
<1>1. CASE UNCHANGED task
  BY <1>1, <1>a
<1>2. CASE dispatch_event
  <2>1. PICK u \in Slots, kind \in Tasks :
          /\ <<Polled.type, kind>> \in Dispatch
          /\ task' = [task EXCEPT ![u] = Queued(kind, Polled.order, Polled.edit, 0)]
    BY <1>2 DEF dispatch_event
  <2>2. position \in DOMAIN topic
    BY <1>2 DEF dispatch_event, BusTyped
  <2>3. CASE t = u
    BY <2>1, <2>2, <2>3 DEF Queued, Polled, Dispatched, TasksTyped
  <2>4. CASE t # u
    BY <1>a, <2>1, <2>4 DEF TasksTyped
  <2>. QED
    BY <2>3, <2>4
<1>3. ASSUME NEW u \in Slots, NEW pc, Goto(u, pc), task[u].pc # "free",
             pc \in {"retry", "exhausted"} => task[u].pc = "retry" \/ log_attempt(u),
             pc = "exhausted" => /\ MarksFailed(task[u].kind)
                                 /\ task[u].retries >= max_retries(task[u].kind)
      PROVE  \E w \in Slots : Continues(t, w)
  <2> DEFINE v == [task[u] EXCEPT !.pc = pc]
  <2>1. /\ v.pc = pc /\ v.order = task[u].order /\ v.kind = task[u].kind
        /\ v.retries = task[u].retries /\ task[u].retries \in Int
        /\ task' = [task EXCEPT ![u] = v]
    BY <1>3, TaskWorking DEF Goto, Working
  <2> HIDE DEF v
  <2>2. \/ Tries(v) <= Tries(task[u])
        \/ log_attempt(u) /\ Tries(v) = task[u].retries + 1
    BY <1>3, <2>1 DEF Tries
  <2>. QED
    BY <1>3, <1>b, <2>1, <2>2
<1>m. ASSUME NEW u \in Slots, NEW v, task[u].pc # "free", v.retries = task[u].retries,
             v.pc \notin {"retry", "exhausted"}
      PROVE  Tries(v) <= Tries(task[u])
  BY <1>m, TaskWorking DEF Tries, Working
<1>4. ASSUME NEW u \in Slots, Finish(u)
      PROVE  \E w \in Slots : Continues(t, w)
  BY <1>4, <1>a DEF Finish, NoTask, TasksTyped
<1>5. ASSUME NEW u \in Slots, NEW pc \in {"locked", "publish", "except", "notify"},
             NEW seen, NEW out, task[u].pc # "free",
             task' = [task EXCEPT ![u].pc = pc, ![u].seen = seen, ![u].out = out]
      PROVE  \E w \in Slots : Continues(t, w)
  <2> DEFINE v == [task[u] EXCEPT !.pc = pc, !.seen = seen, !.out = out]
  <2>1. task[u] \in Working /\ task' = [task EXCEPT ![u] = v]
    BY <1>5, TaskWorking
  <2>2. /\ v.pc = pc /\ v.order = task[u].order /\ v.kind = task[u].kind
        /\ v.retries = task[u].retries
    BY <2>1 DEF Working
  <2> HIDE DEF v
  <2>3. Tries(v) <= Tries(task[u])
    BY <1>5, <1>m, <2>2
  <2>. QED
    BY <1>5, <1>b, <2>1, <2>2, <2>3
<1>6. ASSUME NEW u \in Slots, lock_order(u) \/ _mark_order_failed(u)
      PROVE  \E w \in Slots : Continues(t, w)
  <2>1. task[u].pc # "free" /\ task[u] \in Working
    BY <1>6, TaskWorking DEF lock_order, _mark_order_failed
  <2>2. CASE lock_order(u)
    <3> DEFINE v == [task[u] EXCEPT !.pc = "locked", !.seen = status[task[u].order]]
    <3>1. task' = [task EXCEPT ![u] = v] /\ v.pc = "locked"
          /\ v.order = task[u].order /\ v.kind = task[u].kind /\ v.retries = task[u].retries
      BY <2>1, <2>2 DEF lock_order, Working
    <3> HIDE DEF v
    <3>. QED
      BY <1>b, <1>m, <2>1, <3>1
  <2>3. CASE _mark_order_failed(u)
    <3>1. PICK type : task' = [task EXCEPT ![u].pc = "notify", ![u].out = type]
      BY <2>3 DEF _mark_order_failed
    <3> DEFINE v == [task[u] EXCEPT !.pc = "notify", !.out = type]
    <3>2. task' = [task EXCEPT ![u] = v] /\ v.pc = "notify"
          /\ v.order = task[u].order /\ v.kind = task[u].kind /\ v.retries = task[u].retries
      BY <2>1, <3>1 DEF Working
    <3> HIDE DEF v
    <3>. QED
      BY <1>b, <1>m, <2>1, <3>2
  <2>. QED
    BY <1>6, <2>2, <2>3
<1>7. ASSUME NEW u \in Slots,
             \/ process_manual_payment_task(u) \/ process_shipping_task(u)
             \/ process_delivery_task(u) \/ process_cancellation_task(u)
             \/ process_update_task(u)
      PROVE  \E w \in Slots : Continues(t, w)
  <2>1. PICK type : task[u].pc = "locked" /\ Committed(u, type)
    BY <1>7 DEF process_manual_payment_task, process_shipping_task,
       process_delivery_task, process_cancellation_task, process_update_task,
       Commit, Ready
  <2>. QED
    BY <1>5, <2>1 DEF Committed
<1>8. ASSUME NEW u \in Slots, \/ IntegrityError(u) \/ attempt_fails(u)
                              \/ fails_after_commit(u)
      PROVE  \E w \in Slots : Continues(t, w)
  BY <1>5, <1>8 DEF IntegrityError, attempt_fails, fails_after_commit, Rollback
<1>9. ASSUME NEW u \in Slots, retry_task(u)
      PROVE  \E w \in Slots : Continues(t, w)
  <2> DEFINE v == Queued(task[u].kind, task[u].order, task[u].edit, task[u].retries + 1)
  <2>1. /\ v.order = task[u].order /\ v.kind = task[u].kind /\ v.pc = "queued"
        /\ v.retries = task[u].retries + 1
        /\ task' = [task EXCEPT ![u] = v] /\ task[u].pc = "retry"
    BY <1>9 DEF retry_task, Queued
  <2> HIDE DEF v
  <2>2. Tries(v) <= Tries(task[u])
    BY <2>1, TaskWorking DEF Tries, Working
  <2>. QED
    BY <1>b, <2>1, <2>2
<1>10. ASSUME NEW u \in Slots, NEW w \in Slots, redeliver(u, w)
       PROVE  \E x \in Slots : Continues(t, x)
  <2>1. task'[t] = task[t] \/ (task'[t] = task[u] /\ task[u].pc = "queued")
    BY <1>10 DEF redeliver, TasksTyped
  <2>2. task[u].pc = "queued" => Tries(task[u]) <= Tries(task[u])
    BY <1>m
  <2>. QED
    BY <1>a, <2>1, <2>2, TaskWorking DEF Continues, Tries, Working
<1>11. ASSUME NEW u \in Slots, \/ check_key(u) \/ skip_order(u) \/ publish(u)
                               \/ publish_lost(u) \/ log_attempt(u) \/ give_up(u)
                               \/ spare_order(u) \/ task_crash(u)
       PROVE  \E w \in Slots : Continues(t, w)
  BY <1>3, <1>4, <1>11 DEF check_key, skip_order, publish, publish_lost, log_attempt,
     give_up, spare_order, task_crash
<1>12. ASSUME NEW u \in Slots, Work(u) \/ Break(u)
       PROVE  \E w \in Slots : Continues(t, w)
  BY <1>6, <1>7, <1>8, <1>9, <1>10, <1>11, <1>12 DEF Work, Break
<1>. QED
  BY TaskSteps, <1>1, <1>2, <1>12

\* No row of retry_logs is ever deleted.
LEMMA AttemptsStay ==
    ASSUME IInv, Next, NEW o, NEW kind, NEW n, Attempted(o, kind, n)
    PROVE  Attempted(o, kind, n)'
<1>1. retryLogs \subseteq retryLogs'
  BY Written DEF NothingWritten, OrdersWritten, AsideWritten, RetryWritten,
     CommitWritten, FailureWritten
<1>. QED
  BY <1>1 DEF Attempted

\* A task past its last attempt is one that marks its order, and a delivery
\* has logged the attempts it has behind it, however it was retried or
\* redelivered.
LEMMA FailingTasksStep ==
    ASSUME IInv, ExhaustedMark, DeliveriesLogged, Next
    PROVE  ExhaustedMark' /\ DeliveriesLogged'
<1> USE DEF IInv, TypeOK
<1>1. ExhaustedMark'
  <2> SUFFICES ASSUME NEW t \in Slots, task'[t].pc = "exhausted"
               PROVE  MarksFailed(task'[t].kind)
                      /\ task'[t].retries >= max_retries(task'[t].kind)
    BY DEF ExhaustedMark, MarksFailed
  <2>1. PICK u \in Slots : Continues(t, u)
    BY TaskOrigins DEF Dispatched
  <2>. QED
    BY <2>1 DEF Continues, ExhaustedMark
<1>2. DeliveriesLogged'
  <2> SUFFICES ASSUME NEW t \in Slots, task'[t].pc # "free", task'[t].kind = "delivery",
                      NEW n \in 1 .. Tries(task'[t])
               PROVE  Attempted(task[t].order, "delivery", n)'
    BY DEF DeliveriesLogged, Tries, Attempted
  <2>1. ~ Dispatched(t)
    BY DEF Dispatched, Tries
  <2>2. PICK u \in Slots : Continues(t, u)
    BY <2>1, TaskOrigins
  <2>3. /\ task[u] \in Working /\ task[u].kind = "delivery" /\ task[u].pc # "free"
        /\ task[u].order = task'[t].order /\ Tries(task'[t]) \in Int
    <3>1. task'[t] \in Working
      BY StepIInv DEF TasksTyped, NoTask
    <3>. QED
      BY <2>2, <3>1, TaskWorking DEF Continues, Tries, Working
  <2>4. CASE n <= Tries(task[u])
    <3>1. n \in 1 .. Tries(task[u])
      BY <2>3, <2>4 DEF Tries, Working
    <3>2. Attempted(task[u].order, "delivery", n)
      BY <2>3, <3>1 DEF DeliveriesLogged
    <3>3. PICK o : o = task[u].order
      OBVIOUS
    <3>4. Attempted(o, "delivery", n)'
      BY <3>2, <3>3, AttemptsStay
    <3>. QED
      BY <2>3, <3>3, <3>4 DEF Attempted
  <2>5. CASE ~ (n <= Tries(task[u]))
    <3>1. log_attempt(u) /\ Tries(task'[t]) = task[u].retries + 1
      BY <2>2, <2>3, <2>5 DEF Continues, Tries, Working
    <3>2. n = task[u].retries + 1
      BY <2>3, <2>5, <3>1 DEF Tries, Working, log_attempt
    <3> DEFINE row == RetryRow(u, task[u].retries + 1, 5, "RETRYING")
    <3>3. row \in retryLogs'
      BY <2>3, <3>1 DEF log_attempt
    <3>4. /\ row.order = task[u].order /\ row.task = task[u].kind
          /\ row.attempt = task[u].retries + 1 /\ row.status = "RETRYING"
      BY DEF RetryRow
    <3> HIDE DEF row
    <3>. QED
      BY <2>3, <3>2, <3>3, <3>4 DEF Attempted
  <2>. QED
    BY <2>4, <2>5
<1>. QED
  BY <1>1, <1>2

\* What a step adds to a timeline is a failure with a source, or leaves the
\* order as failed as it was.
LEMMA FailureSteps ==
    ASSUME FailureInv, Next, NEW o \in Orders
    PROVE  \/ events'[o] = events[o] /\ status'[o] = status[o]
           \/ \E e \in Entries :
                 /\ events'[o] = Append(events[o], e)
                 /\ \/ e.type \in FailureTypes /\ Sourced(e.type)
                    \/ /\ e.type \notin FailureTypes
                       /\ status'[o] = "FAILED" => status[o] = "FAILED"
<1> USE DEF FailureInv, IInv, TypeOK
<1>n. {"order.created", "order.updated", "payment.retry", "shipping.retry",
       "payment.processed", "order.shipped", "order.delivered", "order.cancelled"}
          \cap FailureTypes = {}
  BY DEF FailureTypes, FailedEvents
<1>a. ASSUME NEW p \in Orders, NEW e \in Entries, events' = Log(p, e),
             \/ e.type \in FailureTypes /\ Sourced(e.type)
             \/ e.type \notin FailureTypes /\ status'[p] # "FAILED"
             \/ e.type \notin FailureTypes /\ status' = status,
             \A q \in Orders \ {p} : status'[q] = status[q]
      PROVE  \/ events'[o] = events[o] /\ status'[o] = status[o]
             \/ \E d \in Entries :
                   /\ events'[o] = Append(events[o], d)
                   /\ \/ d.type \in FailureTypes /\ Sourced(d.type)
                      \/ /\ d.type \notin FailureTypes
                         /\ status'[o] = "FAILED" => status[o] = "FAILED"
  <2>1. CASE o = p
    BY <1>a, <2>1 DEF Log, TablesTyped
  <2>2. CASE o # p
    BY <1>a, <2>2 DEF Log, TablesTyped
  <2>. QED
    BY <2>1, <2>2
<1> DEFINE Goal ==
      \/ events'[o] = events[o] /\ status'[o] = status[o]
      \/ \E e \in Entries :
            /\ events'[o] = Append(events[o], e)
            /\ \/ e.type \in FailureTypes /\ Sourced(e.type)
               \/ /\ e.type \notin FailureTypes
                  /\ status'[o] = "FAILED" => status[o] = "FAILED"
<1>1. CASE UNCHANGED tables
  BY <1>1 DEF tables
<1>2. ASSUME NEW r \in Threads, create_order(r) \/ create_bulk_orders(r)
      PROVE  Goal
  <2>1. PICK os \in SUBSET Orders : Insert(r, os)
    BY <1>2 DEF create_order, create_bulk_orders
  <2> DEFINE e == Entry("order.created", None, "PENDING")
  <2>2. e \in Entries /\ e.type = "order.created"
    BY StatusNames DEF Entry, Entries, AuditTypes, Announcements, Announces
  <2>3. events' = [p \in Orders |-> IF p \in os THEN Append(events[p], e) ELSE events[p]]
        /\ status' = [p \in Orders |-> IF p \in os THEN "PENDING" ELSE status[p]]
    BY <2>1 DEF Insert
  <2> HIDE DEF e
  <2>. QED
    BY <1>n, <2>2, <2>3
<1>3. ASSUME NEW r \in Threads, retry_payment(r)
      PROVE  Goal
  <2> DEFINE e == Entry("payment.retry", "PENDING", "PENDING")
  <2>1. req[r].order \in Orders
    BY <1>3 DEF retry_payment, RequestsTyped, Handling, Idle
  <2>2. e \in Entries /\ e.type = "payment.retry"
    BY StatusNames, LoggedTypes DEF Entry, Entries
  <2>3. events' = Log(req[r].order, e) /\ status' = status
    BY <1>3 DEF retry_payment
  <2> HIDE DEF e
  <2>. QED
    BY <1>a, <1>n, <2>1, <2>2, <2>3
<1>4. ASSUME NEW r \in Threads, fail_payment(r)
      PROVE  Goal
  <2> DEFINE e == Entry("payment.failed", "PENDING", "FAILED")
  <2>1. req[r].order \in Orders /\ "fail" \in Calls
    BY <1>4 DEF fail_payment, RequestsTyped, Handling, Idle, FailsAreCalled
  <2>2. e \in Entries /\ e.type = "payment.failed"
    BY StatusNames, LoggedTypes DEF Entry, Entries
  <2>3. events' = Log(req[r].order, e) /\ status' = SetStatus(req[r].order, "FAILED")
    BY <1>4 DEF fail_payment
  <2>4. \A q \in Orders \ {req[r].order} : status'[q] = status[q]
    BY <2>3 DEF SetStatus, TablesTyped
  <2> HIDE DEF e
  <2>5. e.type \in FailureTypes /\ Sourced(e.type)
    BY <2>1, <2>2 DEF FailureTypes, Sourced
  <2>. QED
    BY <1>a, <2>1, <2>2, <2>3, <2>4, <2>5
<1>5. ASSUME NEW t \in Slots, log_attempt(t)
      PROVE  Goal
  <2> DEFINE e == Entry("shipping.retry", "PAID", "PAID")
  <2>1. task[t].order \in Orders
    BY <1>5, TaskWorking DEF log_attempt, Working
  <2>2. e \in Entries /\ e.type = "shipping.retry"
    BY StatusNames, LoggedTypes DEF Entry, Entries
  <2>3. events' \in {events, Log(task[t].order, e)} /\ status' = status
    BY <1>5 DEF log_attempt
  <2> HIDE DEF e
  <2>. QED
    BY <1>a, <1>n, <2>1, <2>2, <2>3
<1>6. ASSUME NEW t \in Slots, _mark_order_failed(t)
      PROVE  Goal
  <2> DEFINE p == task[t].order
  <2>1. /\ p \in Orders /\ task[t].pc = "exhausted" /\ task[t].pc # "free"
        /\ status[p] \in Statuses
    BY <1>6, TaskWorking
    DEF _mark_order_failed, Working, OrdersExist, TasksKnow, TablesTyped
  <2>2. PICK type \in Announcements :
           /\ <<task[t].kind, type>> \in FailedEvents
           /\ events' = Log(p, Entry(type, status[p], "FAILED"))
    BY <1>6 DEF _mark_order_failed
  <2>3. \A q \in Orders \ {p} : status'[q] = status[q]
    BY <1>6 DEF _mark_order_failed, SetStatus, TablesTyped
  <2> HIDE DEF p
  <2>5. MarksFailed(task[t].kind)
    BY <2>1 DEF ExhaustedMark
  <2> DEFINE e == Entry(type, status[p], "FAILED")
  <2>6. e \in Entries /\ e.type = type /\ e.from = status[p]
    BY <2>1, <2>2, StatusNames, LoggedTypes DEF Entry, Entries
  <2>7. events' = Log(p, e)
    BY <2>2
  <2> HIDE DEF e
  <2>8. e.type \in FailureTypes
    BY <2>2, <2>6 DEF FailureTypes, FailedEvents
  <2>9. Sourced(e.type)
    <3>1. PICK f \in FailedEvents : f[1] = task[t].kind /\ f[2] = type
      BY <2>2
    <3>. QED
      BY <2>5, <2>6, <3>1 DEF Sourced
  <2>. QED
    BY <1>a, <2>1, <2>3, <2>6, <2>7, <2>8, <2>9
<1>7. ASSUME NEW t \in Slots,
             \/ process_manual_payment_task(t) \/ process_shipping_task(t)
             \/ process_delivery_task(t) \/ process_cancellation_task(t)
             \/ process_update_task(t)
      PROVE  Goal
  <2>1. PICK kind \in Tasks, to \in Statuses \ {"FAILED"}, type \in AuditTypes \ FailureTypes :
          Commit(t, kind, to, type)
    <3>1. {"PENDING", "PAID", "SHIPPED", "DELIVERED", "CANCELLED"}
             \subseteq Statuses \ {"FAILED"}
      BY DEF Statuses
    <3>2. {"order.updated", "payment.processed", "order.shipped", "order.delivered",
           "order.cancelled"} \subseteq AuditTypes \ FailureTypes
      BY <1>n, LoggedTypes
    <3>. QED
      BY <1>7, <3>1, <3>2
      DEF process_manual_payment_task, process_shipping_task,
         process_delivery_task, process_cancellation_task, process_update_task, Tasks
  <2>2. PICK e \in Entries :
          /\ task[t].order \in Orders /\ e.type = type
          /\ events' = Log(task[t].order, e)
          /\ status' = SetStatus(task[t].order, to)
    BY <2>1, CommitLogs
  <2>3. /\ status'[task[t].order] # "FAILED"
        /\ \A q \in Orders \ {task[t].order} : status'[q] = status[q]
    BY <2>1, <2>2 DEF SetStatus, TablesTyped
  <2>. QED
    BY <1>a, <2>1, <2>2, <2>3
<1>. QED
  BY TableSteps, <1>1, <1>2, <1>3, <1>4, <1>5, <1>6, <1>7

\* The timeline has a reason for each failure, old or new, and each reason a
\* source.
LEMMA ReasonsStep ==
    ASSUME FailureInv, Next, NEW o \in Orders
    PROVE  /\ status'[o] = "FAILED" => \E type \in FailureTypes : Logged(o, type)'
           /\ \A type \in FailureTypes : Logged(o, type)' => Sourced(type)
<1> USE DEF FailureInv
<1>a. /\ status[o] = "FAILED" => \E type \in FailureTypes : Logged(o, type)
      /\ \A type \in FailureTypes : Logged(o, type) => Sourced(type)
  BY DEF FailuresAreEarned
<1>1. CASE events'[o] = events[o] /\ status'[o] = status[o]
  <2>1. \A type : Logged(o, type)' <=> Logged(o, type)
    BY <1>1 DEF Logged
  <2>. QED
    BY <1>a, <1>1, <2>1
<1>2. ASSUME NEW e \in Entries, events'[o] = Append(events[o], e),
             \/ e.type \in FailureTypes /\ Sourced(e.type)
             \/ /\ e.type \notin FailureTypes
                /\ status'[o] = "FAILED" => status[o] = "FAILED"
      PROVE  /\ status'[o] = "FAILED" => \E type \in FailureTypes : Logged(o, type)'
             /\ \A type \in FailureTypes : Logged(o, type)' => Sourced(type)
  <2>1. \A type : Logged(o, type)' <=> Logged(o, type) \/ e.type = type
    BY <1>2, LoggedAfter
  <2>. QED
    BY <1>a, <1>2, <2>1
<1>. QED
  BY <1>1, <1>2, FailureSteps

\* Only _mark_order_failed writes a row that says EXHAUSTED.
LEMMA ExhaustionRows ==
    ASSUME IInv, Next, NEW row \in retryLogs', row \notin retryLogs,
           row.status = "EXHAUSTED"
    PROVE  \E t \in Slots : _mark_order_failed(t) /\ row = RetryRow(t, 4, 0, "EXHAUSTED")
<1>1. retryLogs' # retryLogs
  OBVIOUS
<1>2. ASSUME NEW t \in Slots, log_attempt(t) \/ process_shipping_task(t)
      PROVE  FALSE
  <2>1. PICK retries, wait, result :
          /\ result \in {"RETRYING", "SUCCEEDED"}
          /\ retryLogs' = retryLogs \union {RetryRow(t, retries, wait, result)}
    BY <1>1, <1>2 DEF log_attempt, process_shipping_task
  <2>2. row.status = result
    BY <2>1 DEF RetryRow
  <2>. QED
    BY <2>1, <2>2
<1>3. PICK t \in Slots : _mark_order_failed(t)
  BY <1>1, <1>2, TableSteps DEF tables, create_order, create_bulk_orders, Insert,
     retry_payment, fail_payment, process_manual_payment_task,
     process_delivery_task, process_cancellation_task, process_update_task
<1>. QED
  BY <1>3 DEF _mark_order_failed

\* A task past its last attempt has all of them in retry_logs if it delivers.
LEMMA ExhaustionStep ==
    ASSUME FailureInv, Next, NEW row \in retryLogs',
           row.task = "delivery", row.status = "EXHAUSTED"
    PROVE  \A n \in 1 .. row.attempt : Attempted(row.order, "delivery", n)'
<1> USE DEF FailureInv
<1>1. \A n \in 1 .. row.attempt : Attempted(row.order, "delivery", n)
  <2>1. CASE row \in retryLogs
    BY <2>1 DEF FailuresAreEarned
  <2>2. CASE row \notin retryLogs
    <3>1. PICK t \in Slots :
            _mark_order_failed(t) /\ row = RetryRow(t, 4, 0, "EXHAUSTED")
      BY <2>2, ExhaustionRows
    <3>2. row.order = task[t].order /\ row.task = task[t].kind /\ row.attempt = 4
      BY <3>1 DEF RetryRow
    <3>3. /\ task[t] \in Working /\ task[t].pc = "exhausted" /\ task[t].kind = "delivery"
          /\ task[t].pc # "free"
      BY <3>1, <3>2, TaskWorking DEF _mark_order_failed, IInv, TypeOK
    <3>4. task[t].retries >= 3
      BY <3>3 DEF ExhaustedMark, max_retries
    <3>5. \A n \in 1 .. row.attempt : n \in 1 .. Tries(task[t])
      BY <3>2, <3>3, <3>4 DEF Tries, Working
    <3>. QED
      BY <3>2, <3>3, <3>5 DEF DeliveriesLogged
  <2>. QED
    BY <2>1, <2>2
<1>. QED
  BY <1>1, AttemptsStay

\* So what fails an order goes on being earned.
LEMMA FailuresStep ==
    ASSUME FailureInv, Next
    PROVE  FailuresAreEarned'
<1>1. \A o \in Orders : \A type \in FailureTypes : Logged(o, type)' => Sourced(type)
  BY ReasonsStep
<1>2. \A o \in Orders : status'[o] = "FAILED" => \E type \in FailureTypes : Logged(o, type)'
  BY ReasonsStep
<1>3. \A row \in retryLogs' : row.task = "delivery" /\ row.status = "EXHAUSTED" =>
         \A n \in 1 .. row.attempt : Attempted(row.order, "delivery", n)'
  BY ExhaustionStep
<1>. QED
  BY <1>1, <1>2, <1>3 DEF FailuresAreEarned, Sourced, MarksFailed

\* What fails orders: an order that is FAILED has the failure on its timeline,
\* and each failure there is /fail's, or that of a task whose exhaustion marks
\* its order - which, as Celery's retry raises exc, is the delivery alone: the
\* PAID -> FAILED of models.py:38 is then the race of /fail and a payment, and
\* nothing else (main.py:356, workflows.py:66).  And where a delivery is said
\* to be exhausted after 4 attempts, each of the 4 failed and was logged,
\* whatever was redelivered, repeated or restarted between them.
THEOREM FailuresEarned == Spec => []FailuresAreEarned
<1>1. Init => FailureInv
  <2>1. ASSUME Init PROVE IInv
    BY <2>1, InitIInv
  <2>2. ASSUME Init PROVE FailsAreCalled /\ ExhaustedMark /\ DeliveriesLogged
    BY <2>2 DEF Init, FailsAreCalled, ExhaustedMark, DeliveriesLogged, Idle, NoTask
  <2>3. ASSUME Init PROVE FailuresAreEarned
    <3>1. \A o \in Orders : status[o] # "FAILED"
      BY <2>3, NoneIsFresh DEF Init, Statuses
    <3>2. \A o \in Orders : \A type : ~ Logged(o, type)
      BY <2>3 DEF Init, Logged
    <3>3. retryLogs = {}
      BY <2>3 DEF Init
    <3>. QED
      BY <3>1, <3>2, <3>3 DEF FailuresAreEarned
  <2>. QED
    BY <2>1, <2>2, <2>3 DEF FailureInv
<1>2. FailureInv /\ [Next]_vars => FailureInv'
  <2>1. FailureInv /\ Next => FailureInv'
    BY StepIInv, FailsAreCalledStep, FailingTasksStep, FailuresStep DEF FailureInv
  <2>2. ASSUME FailureInv, UNCHANGED vars
        PROVE  FailureInv'
    <3>1. FailsAreCalled' /\ ExhaustedMark' /\ DeliveriesLogged'
      BY <2>2 DEF FailureInv, FailsAreCalled, ExhaustedMark, DeliveriesLogged, Tries,
         Attempted, MarksFailed, vars, tables
    <3>2. FailuresAreEarned'
      BY <2>2 DEF FailureInv, FailuresAreEarned, Attempted, Sourced, MarksFailed,
         Logged, vars, tables
    <3>3. IInv'
      BY <2>2, StepIInv DEF FailureInv
    <3>. QED
      BY <3>1, <3>2, <3>3 DEF FailureInv
  <2>. QED
    BY <2>1, <2>2
<1>3. FailureInv => FailuresAreEarned
  BY DEF FailureInv
<1>. QED
  BY <1>1, <1>2, <1>3, PTL DEF Spec

-----------------------------------------------------------------------------
(* Edits: the entries of a timeline that are edits, and the keys of edits. *)

Edit(s) == {i \in DOMAIN s : s[i].type = "order.updated"}
EditKeys(o) == {k \in keys : k.task = "update" /\ k.order = o}

\* An entry added is one more edit, or none.
LEMMA EditAppended ==
    ASSUME NEW s \in Seq(Entries), NEW e \in Entries
    PROVE  /\ IsFiniteSet(Edit(s))
           /\ Cardinality(Edit(Append(s, e))) =
                 IF e.type = "order.updated" THEN Cardinality(Edit(s)) + 1 ELSE Cardinality(Edit(s))
<1>1. IsFiniteSet(Edit(s))
  <2>1. Edit(s) \subseteq 1 .. Len(s) /\ Len(s) \in Int /\ 1 \in Int
    BY Grown DEF Edit
  <2>. QED
    BY <2>1, FS_Interval, FS_Subset
<1>2. Len(s) + 1 \notin Edit(s)
  BY Grown DEF Edit
<1>3. Edit(Append(s, e)) =
        IF e.type = "order.updated" THEN Edit(s) \union {Len(s) + 1} ELSE Edit(s)
  BY Grown DEF Edit
<1>. QED
  BY <1>1, <1>2, <1>3, FS_AddElement

EditsInv ==
    \A o \in Orders : /\ IsFiniteSet(EditKeys(o))
                      /\ Cardinality(Edit(events[o])) = Cardinality(EditKeys(o))

\* A commit adds an edit to a timeline exactly when it adds an edit's key.
LEMMA EditsStep ==
    ASSUME IInv, EditsInv, Next
    PROVE  EditsInv'
<1> USE DEF IInv, TypeOK
<1> SUFFICES ASSUME NEW p \in Orders
             PROVE  /\ IsFiniteSet(EditKeys(p)')
                    /\ Cardinality(Edit(events'[p])) = Cardinality(EditKeys(p)')
  BY DEF EditsInv
<1>a. /\ IsFiniteSet(EditKeys(p)) /\ Cardinality(Edit(events[p])) = Cardinality(EditKeys(p))
      /\ events[p] \in Seq(Entries)
  BY DEF EditsInv, TablesTyped
<1>b. ASSUME keys' = keys, NEW e \in Entries, e.type # "order.updated",
             events'[p] = events[p] \/ events'[p] = Append(events[p], e)
      PROVE  /\ IsFiniteSet(EditKeys(p)')
             /\ Cardinality(Edit(events'[p])) = Cardinality(EditKeys(p)')
  <2>1. EditKeys(p)' = EditKeys(p)
    BY <1>b DEF EditKeys
  <2>. QED
    BY <1>a, <1>b, <2>1, EditAppended
<1>1. CASE NothingWritten
  <2>1. EditKeys(p)' = EditKeys(p) /\ events'[p] = events[p]
    BY <1>1 DEF NothingWritten, EditKeys
  <2>. QED
    BY <1>a, <2>1
<1>2. CASE OrdersWritten
  <2> DEFINE e == Entry("order.created", None, "PENDING")
  <2>1. e \in Entries /\ e.type # "order.updated"
    BY StatusNames DEF Entry, Entries, AuditTypes, Announcements, Announces
  <2>2. events'[p] = events[p] \/ events'[p] = Append(events[p], e)
    BY <1>2 DEF OrdersWritten, Insert
  <2> HIDE DEF e
  <2>. QED
    BY <1>2, <1>b, <2>1, <2>2 DEF OrdersWritten
<1>3. CASE AsideWritten
  <2>1. CASE events' = events
    <3>1. EditKeys(p)' = EditKeys(p) /\ events'[p] = events[p]
      BY <1>3, <2>1 DEF AsideWritten, EditKeys
    <3>. QED
      BY <1>a, <3>1
  <2>2. ASSUME NEW o \in Orders, NEW e \in Entries, events' = Log(o, e), e.type \in AsideTypes
        PROVE  /\ IsFiniteSet(EditKeys(p)')
               /\ Cardinality(Edit(events'[p])) = Cardinality(EditKeys(p)')
    <3>1. events'[p] = events[p] \/ events'[p] = Append(events[p], e)
      BY <2>2 DEF Log, TablesTyped
    <3>. QED
      BY <1>3, <1>b, <2>2, <3>1 DEF AsideWritten, AsideTypes
  <2>. QED
    BY <1>3, <2>1, <2>2 DEF AsideWritten
<1>4. CASE CommitWritten
  <2>0. PICK t \in Slots, o \in Orders, e \in Entries : \E k :
           /\ k = idempotency_key(t) /\ k.task = task[t].kind /\ k.order = o
           /\ events' = Log(o, e)
           /\ k \notin keys /\ keys' = keys \union {k}
           /\ k.task = "update" <=> e.type = "order.updated"
    BY <1>4 DEF CommitWritten, idempotency_key, KeyIsNew
  <2>1. PICK k :
           /\ k = idempotency_key(t) /\ k.task = task[t].kind /\ k.order = o
           /\ events' = Log(o, e)
           /\ k \notin keys /\ keys' = keys \union {k}
           /\ k.task = "update" <=> e.type = "order.updated"
    BY <2>0
  <2>2. CASE p # o
    <3>1. EditKeys(p)' = EditKeys(p)
      BY <2>1, <2>2 DEF EditKeys
    <3>2. events'[p] = events[p]
      BY <2>1, <2>2 DEF Log, TablesTyped
    <3>. QED
      BY <1>a, <3>1, <3>2
  <2>3. CASE p = o
    <3>1. events'[p] = Append(events[p], e)
      BY <2>1, <2>3 DEF Log, TablesTyped
    <3>2. CASE e.type = "order.updated"
      <4>1. EditKeys(p)' = EditKeys(p) \union {k} /\ k \notin EditKeys(p)
        BY <2>1, <2>3, <3>2 DEF EditKeys
      <4>2. /\ IsFiniteSet(EditKeys(p) \union {k})
            /\ Cardinality(EditKeys(p) \union {k}) = Cardinality(EditKeys(p)) + 1
        BY <1>a, <4>1, FS_AddElement
      <4>. QED
        BY <1>a, <3>1, <3>2, <4>1, <4>2, EditAppended
    <3>3. CASE e.type # "order.updated"
      <4>1. EditKeys(p)' = EditKeys(p)
        BY <2>1, <3>3 DEF EditKeys
      <4>. QED
        BY <1>a, <3>1, <3>3, <4>1, EditAppended
    <3>. QED
      BY <3>2, <3>3
  <2>. QED
    BY <2>2, <2>3
<1>5. CASE FailureWritten
  <2>1. PICK o \in Orders, e \in Entries :
           events' = Log(o, e) /\ e.type # "order.updated" /\ keys' = keys
    BY <1>5 DEF FailureWritten, FailedEvents
  <2>2. events'[p] = events[p] \/ events'[p] = Append(events[p], e)
    BY <2>1 DEF Log, TablesTyped
  <2>. QED
    BY <1>b, <2>1, <2>2
<1>6. CASE RetryWritten
  <2>1. PICK o \in Orders, e \in Entries :
           events' = Log(o, e) /\ e.type # "order.updated" /\ keys' = keys
    BY <1>6 DEF RetryWritten
  <2>2. events'[p] = events[p] \/ events'[p] = Append(events[p], e)
    BY <2>1 DEF Log, TablesTyped
  <2>. QED
    BY <1>b, <2>1, <2>2
<1>. QED
  BY Written, <1>1, <1>2, <1>3, <1>4, <1>5, <1>6

\* An edit is applied once: however often it is redelivered or retried, the
\* timeline has as many edits as idempotent_keys has keys of edits.
THEOREM EditsOnce == Spec => []EditsApplyOnce
<1>1. Init => EditsInv
  <2> SUFFICES ASSUME Init, NEW o \in Orders
               PROVE  IsFiniteSet(EditKeys(o)) /\ Cardinality(Edit(events[o])) = Cardinality(EditKeys(o))
    BY DEF EditsInv
  <2>1. EditKeys(o) = {} /\ Edit(events[o]) = {}
    BY DEF Init, EditKeys, Edit
  <2>. QED
    BY <2>1, FS_EmptySet
<1>2. IInv /\ EditsInv /\ [Next]_vars => EditsInv'
  <2>1. IInv /\ EditsInv /\ UNCHANGED vars => EditsInv'
    BY DEF EditsInv, EditKeys, vars, tables
  <2>. QED
    BY <2>1, EditsStep
<1>3. EditsInv => EditsApplyOnce
  BY DEF EditsInv, EditsApplyOnce, Edit, EditKeys
<1>. QED
  BY <1>1, <1>2, <1>3, Invariance, PTL DEF Spec

-----------------------------------------------------------------------------
(* Replay: while the API does not write past the tasks and no attempt      *)
(* fails, each entry is the transition it describes.                       *)

NoFailures ==
    /\ {"retry", "fail"} \cap Calls = {}
    /\ {"exception", "disconnect"} \cap FaultKinds = {}

\* Without failures only an edit, whose key another task was first to
\* insert, is ever tried again, and it does not write when it fails.
Mild(x) == x.pc # "exhausted" /\ (x.pc \in {"except", "retry"} => x.kind = "update")
OnlyEditsRetry ==
    /\ \A r \in Threads : req[r].pc \notin {"retry", "fail"}
    /\ \A t \in Slots : Mild(task[t])

\* A handler or a task that is not in such an attempt does not get into one.
LEMMA OnlyEditsRetryStep ==
    ASSUME NoFailures, HInv, OnlyEditsRetry, Next
    PROVE  OnlyEditsRetry'
<1> USE DEF HInv, IInv, TypeOK
<1>1. ASSUME NEW r \in Threads
      PROVE  req'[r].pc \notin {"retry", "fail"}
  <2>1. CASE UNCHANGED req \/ api_restart
    BY <2>1 DEF OnlyEditsRetry, api_restart, Idle
  <2>2. ASSUME NEW u \in Threads, NEW v, req' = [req EXCEPT ![u] = v],
               v.pc \notin {"retry", "fail"}
        PROVE  req'[r].pc \notin {"retry", "fail"}
    BY <2>2 DEF OnlyEditsRetry, RequestsTyped
  <2>3. ASSUME NEW u \in Threads, Request(u)
        PROVE  req'[r].pc \notin {"retry", "fail"}
    BY <2>2, <2>3 DEF Request, create_order, create_bulk_orders, Insert, pay_for_order,
       cancel_order, update_order, Submit, ReadPending, Call, NoFailures
  <2>4. ASSUME NEW u \in Threads, Respond(u)
        PROVE  req'[r].pc \notin {"retry", "fail"}
    <3>1. \A sent : AfterPublish(u, sent).pc \notin {"retry", "fail"}
      BY DEF AfterPublish, OnlyEditsRetry, Idle, RequestsTyped, Handling
    <3>. QED
      BY <2>2, <2>4, <3>1 DEF Respond, api_publish, api_publish_lost, retry_payment,
         fail_payment, OnlyEditsRetry
  <2>. QED
    BY RequestSteps, <2>1, <2>3, <2>4
<1>2. ASSUME NEW t \in Slots
      PROVE  Mild(task'[t])
  <2>a. ASSUME NEW u \in Slots, NEW v, task' = [task EXCEPT ![u] = v],
               Mild(v)
        PROVE  Mild(task'[t])
    BY <2>a DEF OnlyEditsRetry, Mild, TasksTyped
  <2>b. ASSUME NEW u \in Slots, NEW pc, task[u].pc # "free", Goto(u, pc),
               pc \in {"except", "retry"} => task[u].kind = "update", pc # "exhausted"
        PROVE  Mild(task'[t])
    BY <2>b, TaskWorking DEF Goto, OnlyEditsRetry, Mild, TasksTyped, Working
  <2>c. ASSUME NEW u \in Slots, Finish(u)
        PROVE  Mild(task'[t])
    <3>1. Mild(NoTask)
      BY DEF NoTask, Mild
    <3>. QED
      BY <2>a, <2>c, <3>1 DEF Finish
  <2>1. CASE UNCHANGED task
    BY <2>1 DEF OnlyEditsRetry
  <2>2. CASE dispatch_event
    BY <2>2, <2>a DEF dispatch_event, Queued, Mild
  <2>3. ASSUME NEW u \in Slots, Break(u)
        PROVE  Mild(task'[t])
    <3>1. CASE task_crash(u)
      BY <2>c, <3>1 DEF task_crash
    <3>2. ASSUME NEW w \in Slots, redeliver(u, w)
          PROVE  Mild(task'[t])
      BY <2>a, <3>2 DEF redeliver, OnlyEditsRetry
    <3>. QED
      BY <2>3, <3>1, <3>2 DEF Break, attempt_fails, fails_after_commit, Fault, NoFailures
  <2>4. ASSUME NEW u \in Slots, \/ process_manual_payment_task(u) \/ process_shipping_task(u)
                                \/ process_delivery_task(u) \/ process_cancellation_task(u)
                                \/ process_update_task(u)
        PROVE  Mild(task'[t])
    <3>1. PICK type : task[u].pc = "locked" /\ Committed(u, type)
      BY <2>4 DEF process_manual_payment_task, process_shipping_task, process_delivery_task,
         process_cancellation_task, process_update_task, Commit, Ready
    <3>. QED
      BY <3>1, TaskWorking DEF Committed, OnlyEditsRetry, Mild, TasksTyped, Working
  <2>5. ASSUME NEW u \in Slots, lock_order(u)
        PROVE  Mild(task'[t])
    BY <2>5, TaskWorking DEF lock_order, OnlyEditsRetry, Mild, TasksTyped, Working
  <2>6. ASSUME NEW u \in Slots, IntegrityError(u)
        PROVE  Mild(task'[t])
    <3>1. task[u].pc = "locked" /\ idempotency_key(u) \in keys
      BY <2>6 DEF IntegrityError, KeyIsNew
    <3>2. <<task[u].kind, status[task[u].order]>> \in Allowed /\ task[u] \in Working
      BY <3>1, CommitsApply, TaskWorking
    <3>3. task[u].kind = "update"
      BY <3>1, <3>2, KeysAreOver DEF KeyedTasksAreOver, idempotency_key
    <3>. QED
      BY <2>6, <3>2, <3>3 DEF IntegrityError, Rollback, OnlyEditsRetry, Mild, TasksTyped, Working
  <2>7. ASSUME NEW u \in Slots, retry_task(u)
        PROVE  Mild(task'[t])
    <3> DEFINE v == Queued(task[u].kind, task[u].order, task[u].edit, task[u].retries + 1)
    <3>1. Mild(v) /\ task' = [task EXCEPT ![u] = v]
      BY <2>7 DEF retry_task, Queued, Mild
    <3> HIDE DEF v
    <3>. QED
      BY <2>a, <3>1
  <2>8. ASSUME NEW u \in Slots, log_attempt(u)
        PROVE  Mild(task'[t])
    BY <2>8, <2>b DEF log_attempt, OnlyEditsRetry, Mild
  <2>9. ASSUME NEW u \in Slots, give_up(u)
        PROVE  Mild(task'[t])
    <3>1. ~ MarksFailed(task[u].kind)
      BY <2>9 DEF give_up, OnlyEditsRetry, Mild, MarksFailed
    <3>. QED
      BY <2>9, <2>c, <3>1 DEF give_up
  <2>10. ASSUME NEW u \in Slots, \/ check_key(u) \/ skip_order(u) \/ publish(u)
                                 \/ publish_lost(u) \/ spare_order(u)
         PROVE  Mild(task'[t])
    BY <2>10, <2>b, <2>c DEF check_key, skip_order, publish, publish_lost, spare_order
  <2>11. ~ \E u \in Slots : _mark_order_failed(u)
    BY DEF _mark_order_failed, OnlyEditsRetry, Mild
  <2>12. ASSUME NEW u \in Slots, Work(u)
         PROVE  Mild(task'[t])
    BY <2>12, <2>4, <2>5, <2>6, <2>7, <2>8, <2>9, <2>10, <2>11 DEF Work
  <2>. QED
    BY TaskSteps, <2>1, <2>2, <2>3, <2>12
<1>. QED
  BY <1>1, <1>2 DEF OnlyEditsRetry

\* Entry e is the transition that order o makes.
Replays(o, e) ==
    /\ events'[o] = Append(events[o], e)
    /\ e.to = status'[o]
    /\ status[o] # None => e.from = status[o]

\* Without failures a status never changes without its entry, nor is an
\* entry written that changes nothing but the timeline.
LEMMA ReplaySteps ==
    ASSUME HInv, OnlyEditsRetry, Next, NEW o \in Orders
    PROVE  \/ events'[o] = events[o] /\ status'[o] = status[o]
           \/ \E e \in Entries : Replays(o, e)
<1> USE DEF HInv, IInv, TypeOK
<1>1. CASE UNCHANGED tables
  BY <1>1 DEF tables
<1>2. ASSUME NEW r \in Threads, create_order(r) \/ create_bulk_orders(r)
      PROVE  \/ events'[o] = events[o] /\ status'[o] = status[o]
             \/ \E e \in Entries : Replays(o, e)
  <2>1. PICK os \in SUBSET Orders : Insert(r, os)
    BY <1>2 DEF create_order, create_bulk_orders
  <2>2. CASE o \notin os
    BY <2>1, <2>2 DEF Insert, TablesTyped
  <2>3. CASE o \in os
    <3> DEFINE e == Entry("order.created", None, "PENDING")
    <3>1. e \in Entries /\ e.to = "PENDING"
      BY StatusNames DEF Entry, Entries, AuditTypes, Announcements, Announces
    <3>2. /\ status[o] = None /\ status'[o] = "PENDING"
          /\ events'[o] = Append(events[o], e)
      BY <2>1, <2>3 DEF Insert
    <3> HIDE DEF e
    <3>. QED
      BY <3>1, <3>2 DEF Replays
  <2>. QED
    BY <2>2, <2>3
<1>3. ~ \E r \in Threads : retry_payment(r) \/ fail_payment(r)
  BY DEF retry_payment, fail_payment, OnlyEditsRetry
<1>4. ~ \E t \in Slots : _mark_order_failed(t)
  BY DEF _mark_order_failed, OnlyEditsRetry, Mild
<1>5. ASSUME NEW t \in Slots, log_attempt(t)
      PROVE  events' = events /\ status' = status
  <2>1. task[t].kind = "update"
    BY <1>5 DEF log_attempt, OnlyEditsRetry, Mild
  <2>. QED
    BY <1>5, <2>1 DEF log_attempt
<1>6. ASSUME NEW t \in Slots, \/ process_manual_payment_task(t) \/ process_shipping_task(t)
                              \/ process_delivery_task(t) \/ process_cancellation_task(t)
                              \/ process_update_task(t)
      PROVE  \/ events'[o] = events[o] /\ status'[o] = status[o]
             \/ \E e \in Entries : Replays(o, e)
  <2>1. PICK kind \in Tasks, to \in Statuses, type \in AuditTypes : Commit(t, kind, to, type)
    BY <1>6, StatusNames, LoggedTypes DEF process_manual_payment_task,
       process_shipping_task, process_delivery_task, process_cancellation_task,
       process_update_task, Tasks
  <2>2. PICK e \in Entries :
           /\ task[t].order \in Orders
           /\ e.from = status[task[t].order] /\ e.to = to
           /\ events' = Log(task[t].order, e)
           /\ status' = SetStatus(task[t].order, to)
    BY <2>1, CommitLogs
  <2>3. CASE task[t].order # o
    BY <2>2, <2>3 DEF Log, SetStatus, TablesTyped
  <2>4. CASE task[t].order = o
    BY <2>2, <2>4 DEF Log, SetStatus, TablesTyped, Replays
  <2>. QED
    BY <2>3, <2>4
<1>. QED
  BY TableSteps, <1>1, <1>2, <1>3, <1>4, <1>5, <1>6

\* An order has a timeline from its creation on.
NoHistoryYet == \A o \in Orders : status[o] = None => events[o] = <<>>

ReplayInv == HInv /\ OnlyEditsRetry /\ NoHistoryYet /\ TimelineReplays

\* A timeline continued where it ended still replays.
LEMMA ReplayContinues ==
    ASSUME HInv, NoHistoryYet, TimelineReplays, NEW o \in Orders, NEW e \in Entries,
           Replays(o, e)
    PROVE  /\ status'[o] # None /\ Len(events'[o]) > 0
           /\ Last(events'[o]).to = status'[o]
           /\ \A i \in 2 .. Len(events'[o]) : events'[o][i].from = events'[o][i - 1].to
<1> DEFINE s == events[o]
<1>1. s \in Seq(Entries)
  BY DEF HInv, IInv, TypeOK, TablesTyped
<1>2. events'[o] = Append(s, e) /\ e.to = status'[o] /\ (status[o] # None => e.from = status[o])
  BY DEF Replays
<1>3. \/ status[o] = None /\ Len(s) = 0
      \/ /\ status[o] # None /\ Len(s) > 0 /\ s[Len(s)].to = status[o]
         /\ \A i \in 2 .. Len(s) : s[i].from = s[i - 1].to
  BY DEF NoHistoryYet, TimelineReplays, Last
<1> HIDE DEF s
<1>4. Len(Append(s, e)) = Len(s) + 1 /\ Append(s, e)[Len(s) + 1] = e
  BY <1>1
<1>5. \A i \in 2 .. Len(s) + 1 : Append(s, e)[i].from = Append(s, e)[i - 1].to
  <2> SUFFICES ASSUME NEW i \in 2 .. Len(s) + 1
               PROVE  Append(s, e)[i].from = Append(s, e)[i - 1].to
    OBVIOUS
  <2>1. CASE i = Len(s) + 1
    <3>1. Append(s, e)[i] = e /\ Len(s) > 0 /\ Append(s, e)[i - 1] = s[Len(s)]
      BY <1>1, <2>1, Grown
    <3>. QED
      BY <1>2, <1>3, <3>1
  <2>2. CASE i # Len(s) + 1
    <3>1. i \in 2 .. Len(s) /\ i \in 1 .. Len(s) /\ i - 1 \in 1 .. Len(s)
      BY <1>1, <2>2
    <3>2. Append(s, e)[i] = s[i] /\ Append(s, e)[i - 1] = s[i - 1]
      BY <1>1, <3>1, Grown
    <3>. QED
      BY <1>3, <3>1, <3>2
  <2>. QED
    BY <2>1, <2>2
<1>6. e.to # None
  BY StatusNames DEF Entries
<1>. QED
  BY <1>1, <1>2, <1>4, <1>5, <1>6 DEF Last

\* So timelines go on replaying.
LEMMA ReplayStep ==
    ASSUME ReplayInv, Next
    PROVE  NoHistoryYet' /\ TimelineReplays'
<1> SUFFICES ASSUME NEW o \in Orders
             PROVE  /\ status'[o] = None => events'[o] = <<>>
                    /\ status'[o] # None =>
                         /\ Len(events'[o]) > 0
                         /\ Last(events'[o]).to = status'[o]
                         /\ \A i \in 2 .. Len(events'[o]) :
                               events'[o][i].from = events'[o][i - 1].to
  BY DEF NoHistoryYet, TimelineReplays, Last
<1>1. CASE events'[o] = events[o] /\ status'[o] = status[o]
  BY <1>1 DEF ReplayInv, NoHistoryYet, TimelineReplays
<1>2. CASE \E e \in Entries : Replays(o, e)
  BY <1>2, ReplayContinues DEF ReplayInv
<1>. QED
  BY <1>1, <1>2, ReplaySteps DEF ReplayInv

\* As long as customers do not call /retry or /fail and no attempt fails,
\* replaying an order's timeline gives its status: duplicates, races, lost
\* events, crashes and restarts leave no gap in it.
THEOREM TimelinesReplay == NoFailures => (Spec => []TimelineReplays)
<1> SUFFICES ASSUME NoFailures
             PROVE  Spec => []TimelineReplays
  OBVIOUS
<1>1. Init => OnlyEditsRetry /\ NoHistoryYet /\ TimelineReplays
  BY DEF Init, OnlyEditsRetry, Mild, Idle, NoTask, NoHistoryYet, TimelineReplays
<1>2. HInv /\ OnlyEditsRetry /\ NoHistoryYet /\ TimelineReplays /\ [Next]_vars
        => OnlyEditsRetry' /\ NoHistoryYet' /\ TimelineReplays'
  <2>1. OnlyEditsRetry /\ NoHistoryYet /\ TimelineReplays /\ UNCHANGED vars
          => OnlyEditsRetry' /\ NoHistoryYet' /\ TimelineReplays'
    BY DEF OnlyEditsRetry, NoHistoryYet, TimelineReplays, Last, vars, tables
  <2>. QED
    BY <2>1, OnlyEditsRetryStep, ReplayStep DEF ReplayInv
<1>. QED
  BY <1>1, <1>2, HistoryInvariance, PTL DEF Spec
=============================================================================
