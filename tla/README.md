# A TLA+ development for the order workflow engine

The engine takes orders over HTTP, moves them through a small state machine
with Celery tasks, and tells browsers about it over WebSockets.  Every step
starts the next one by publishing an event, and nothing holds the whole flow
together but row locks, idempotency keys and the hope that no event gets lost.
At the end a React page mixes what it is told with what it asks for and what it
assumes.  This directory models the flow, the page, and several processes of the
API in one consumer group; it checks them with TLC on small instances, and
proves their main safety properties with TLAPS for instances of any size.

Paths are relative to the repository.

## 1. Inventory

| Component | State | Operations | Modelled by |
|---|---|---|---|
| HTTP endpoints (`app/main.py`) | one database session per request; the event it still has to publish | create, bulk create, update, pay, retry, fail, cancel; four read-only ones | `OrderWorkflow` |
| State machine and tables (`app/db/models.py`) | `orders`, `idempotent_keys`, `order_events`, `retry_logs`, row locks | transactions of the endpoints and tasks | `OrderTypes`, `OrderWorkflow`, `OrderLifecycle` |
| Celery tasks (`app/tasks/workflows.py`) | the attempt in progress, its retry count | payment, shipping, delivery, cancellation, update; `_log_event`, `_mark_order_failed` | `OrderWorkflow` |
| Event bus (`app/core/kafka_manager.py`) | the topic `order-events`, the consumer's position and committed offset, the producer singleton | `publish_event`, `consume_loop`, `_push_to_ws_queue` | `OrderWorkflow` (one process), `ConsumerGroup` (several) |
| Celery and Redis (`app/core/celery_app.py`) | queued messages | delivery, redelivery, retry | `OrderWorkflow`, as external |
| WebSocket bridge (`app/core/ws_manager.py`, `websocket_order` in `app/main.py`) | notification queue, registry of sockets, handler coroutines, broadcast loop | `connect`, `disconnect`, `notify`, `ws_broadcast_loop` | `WsBridge` |
| Lifespan (`app/main.py:50`) | producer and its buffer, consumer thread, broadcast task | start-up, shutdown (event, join, cancel, flush) | `ConsumerGroup`; as one step, `api_restart` of `OrderWorkflow` |
| React client (`frontend/src/App.js`, `index.js`) | the tracked orders, retry counts, the history and its filter, dialogs, spinners, the socket, requests under way | the requests above; pushes, polling, a 30-second timer that calls `/fail` | `OrderApp` with `AppState`, `AppTracker`, `AppHistory` |
| Read-only endpoints (`app/main.py`) | none | get, list, timeline, retries | `OrderApp`, as the answers the page shows |
| Configuration, deployment, `test_ws.py` | none | none that change state | no |

How they interact.  An endpoint reads the order, then either writes and
publishes (create, fail, retry) or only publishes a request (pay, update,
cancel).  The consumer thread of the API process polls the topic, starts the
Celery task that belongs to the event type, puts the event on the notification
queue and commits the offset.  A task checks its idempotency key, locks the
order's row, tests the status, and commits the new status, the key and an audit
entry in one transaction; then it publishes the event that starts the next
task.  The broadcast loop takes notifications off the queue and sends them to
the sockets registered for the order and to those registered for `all`.  The
page updates the rows it tracks and lists from these messages, from the answers
to its own requests and, without a socket, from polling; after three retries it
calls `/fail` for an order that is still unpaid.  Several processes of the API
share one database, one Redis and one consumer group, but each has its own
producer, notification queue and sockets.

What is hard here:

* **Unlocked reads.**  Endpoints decide on a status nobody keeps true for them.
* **Check, then lock.**  Tasks look at the key table before they hold the row.
* **Commit, then publish.**  Two steps, in a process that may die between them,
  and after the row lock is gone.
* **Duplicates.**  Customers click twice, offsets are committed late and
  asynchronously, Redis redelivers, Celery retries what has already committed.
* **Loss.**  `publish_event` swallows exceptions, `consume_loop` skips an event
  whose `delay()` raises, Celery acknowledges early.
* **Exhausted retries.**  Two except clauses deep, on a code path that depends
  on what `Task.retry` raises.
* **A list iterated over across awaits** in `notify`.
* **Partitions that change hands** in the middle of a turn, with commits that
  arrive late or never, and a shutdown in four steps with two time limits.
* **Closures.**  A handler of the page goes on after its await with the batch,
  the filter and the dialog of before, next to functional updates that see the
  present ones.
* **Several writers of one row**: pushes, polls, history answers and an
  optimistic `FAILED`, in any order.

What makes each component correct:

* tasks: what was read under the lock is true at the commit; each effect happens
  once; refunds match charges; a key means its task is over;
* endpoints: whatever they read, an order moves only along its life cycle;
* bus: nothing is announced that was not committed; what was published starts
  what it should, and the whole comes to rest;
* retries: `retry_logs`, the timeline and the status tell the same story;
* bridge: nobody who stays connected misses a notification or gets it twice, and
  nobody who left stays registered;
* group: no event is passed over, the events of an order are first handled in
  their order, and a shutdown leaves nothing behind;
* page: it shows only what has happened, fails an order only when that is
  earned and then once, drops no order, and is always connected or polling.

`PROJECT.json` lists the hazards one by one, each at its line and with the
properties that watch it.

## 2. Modules

| Module | What it is |
|---|---|
| `OrderTypes` | statuses, events, tasks, and the tables the handlers consult |
| `OrderWorkflow` | the pipeline: endpoints, topic and consumer, tasks, faults |
| `OrderLifecycle` | the abstract specification: one atomic step per change of an order and of the customer's money |
| `OrderProperties` | types, invariants, step properties, refinement, liveness |
| `OrderClaims` | statements of the documentation that the code does not keep |
| `MCOrderWorkflow` | definitions for TLC's instances |
| `WsBridge`, `MCWsBridge` | the WebSocket bridge, its properties and its instance |
| `Delivery` | abstract specification of the bridge: one notification after the other, to everyone who waits for it |
| `WsBridgeProofs` | what is kept of a list; clean lists, the place of the broadcast, who has got what; the bridge implements `Delivery` |
| `OrderTypingProofs` | lemmas: what each step changes, and that it keeps the types |
| `OrderWorkflowProofs` | the inductive invariant and its consequences |
| `OrderEffectsProofs` | the timeline's strengthening; effects, keys, refunds; the pipeline implements `OrderLifecycle` |
| `OrderTimelineProofs` | what the timeline agrees with: announcements, retry log, edits, replay |
| `AppState` | the page's state, its requests, and the helpers its handlers share |
| `AppTracker` | handlers around the tracked orders: placing, importing, paying, retrying, failing, polling, dismissing |
| `AppHistory` | handlers around the history: filter, details, edit, cancellation |
| `OrderApp` | the page at work: handlers, user, socket, network and the engine as the page sees it |
| `AppProperties`, `MCOrderApp` | the page's properties; the sessions TLC explores |
| `OrderAppProofs` | the page's types |
| `AppEffectsProofs` | retry counts, reports of failure, connection, tracked rows, what is shown, spinners, prices |
| `ConsumerGroup`, `MCConsumerGroup` | processes of the API, their lifespans and their consumer group, with properties and instance |
| `EventTopic` | abstract specification of the group: logs handled in their order, offsets within what was handled |
| `ConsumerGroupProofs` | turns, positions and offsets; order; nothing lost in a shutdown; somebody is told; the group implements `EventTopic` |

### How `OrderWorkflow` corresponds to the code

One action is what runs without another process being able to see or change
what it uses.

* **Tables.**  `status` and `item` are the columns of `orders` that handlers
  test or write (`None` while there is no row); `keys`, `events` and `retryLogs`
  are the three other tables, `retry_logs` as a set: two rows that agree in all
  that is modelled are one.  `lock[o]` names the task whose `SELECT ... FOR
  UPDATE` holds the row.
* **Endpoints.**  `req[r]` is the request on thread `r`.  `pay_for_order`,
  `cancel_order` and `update_order` are the read of the status and the decision;
  `api_publish` is the publication that follows.  `retry_payment` and
  `fail_payment` have a step of their own for the write (`ReadPending` comes
  first), because the row can change in between; their `UPDATE` waits for the
  row lock but does not test the status again.  Creation inserts and commits in
  one step, then publishes, in bulk one event at a time.  A refused request
  changes nothing and is not a step.
* **Topic.**  `topic` is one log: `order-events` is auto-created with one
  partition.  `position` is the consumer's, `committed` the group's.
  `dispatch_event` is a whole turn of the loop for an event with a task,
  `bridge_event` for one without; both end with the asynchronous offset commit,
  which may be lost.  A message is appended when it reaches the broker; the
  producer's buffer is the time the publisher spends in `"publish"`.
* **Tasks.**  `task[t]` is a Celery message, and `pc` says where its handler is.
  `check_key` is the first query.  `lock_order` is the locking read together
  with the tests made on it; `skip_order` is the early return when they fail.
  The five `process_*_task` actions are the rest of the transaction up to and
  including its commit.  `publish` is what follows it.
  `attempt_fails` and `IntegrityError` are the exceptions before a commit,
  `fails_after_commit` one raised by a commit that did succeed, `log_attempt`
  the except clause with its own session, `retry_task` and `give_up` the two
  outcomes of `self.retry`, `_mark_order_failed` and `spare_order` its end.
* **Money.**  No column holds it.  `Charged` and `Refunded` are read off the
  timeline: `payment.processed`, and `order.cancelled` from a status other than
  `PENDING` (the status for which the task's message promises a refund).
* **Clients.**  `wsStatus[o]` is the last status put on the notification queue.

Left out of the data: time stamps, tracking numbers, error texts, `is_bulk`, and
the sleeps that simulate gateways.  Countdowns are not timed: a queued task may
be picked up at any time.

`RetryReraisesExc` chooses between two behaviours of Celery's `Task.retry` when
the limit is reached and `exc` was given: raising `exc` (what Celery 5 does) or
raising `MaxRetriesExceededError` (what the handlers at `workflows.py:210` and
`:294` expect).  With the first, only the delivery task marks orders `FAILED`.
The proofs hold for both.

### How `WsBridge` corresponds to the code

Coroutines share an event loop, so a step runs from one await to the next.
`accept` and `connect` are the two halves of `ConnectionManager.connect`;
`websocket_order` is the handler leaving its receive loop and disconnecting;
`ws_broadcast_loop`, `send_json` and `notify` are the broadcast.  What matters is
that Python iterates over a list *object*: `connect` appends to the object being
iterated, `disconnect` replaces it.  `loop.shared` says whether the object being
iterated still is the registered one.

`Delivery` has neither lists nor handlers: clients join and leave, a notification
is taken, delivered to those who wait for it (and perhaps to some who have just
joined), and finished when nobody waits.  It allows a client to join in the middle
and get the notification or not, as the code does.

### How `OrderApp` corresponds to the code

JavaScript runs one callback at a time, so a step runs from one await, timer or
event to the next.

* **State.**  Each state hook and ref that a handler reads or writes is a
  variable of the same name.  A tracked order is a row with its status, whether
  its price is a number (`priced`; `null` is the other case), and whether its
  payment time is over (`expired`, the comparison with `now`).  The four
  spinners are `busy`, the four dialogs `dialog`.
* **Requests.**  `fetch[c]` is a request under way: what it is about, the answer
  on its way back, and what its handler captured, the filter and whether the
  batch was empty.  A `setTimeout(fetchHistory, 1500)` is a request at stage
  `"timer"`.  The two GETs of the detail dialog are one request.
* **Handlers** are two steps, up to the await and after it, under the source's
  names (`handlePlaceOrder`, then `order_placed`).  `lose` is the catch and
  finally clauses, when a request or its answer is lost.
* **Effects.**  `trigger_fail` is the effect that calls `/fail`, `poll` a turn of
  the polling interval, `expire` the clock.  An effect runs again whenever what
  it depends on changes, so it is an action that is enabled whenever the
  component's state satisfies its conditions.
* **Rendering.**  `Render` comes with every step that changes what is rendered:
  `toFixed` on a null price throws, and `blank` says that React has unmounted
  the page.
* **Socket.**  `wire` is the set of events on their way: they arrive in any
  order, may get lost, and are gone when the socket closes.  Nothing connects a
  second time.  `ghost` is the first socket of React.StrictMode's double mount.
* **The engine** is small here: it answers each request in one step, as
  `main.py` decides, and otherwise moves orders along their life cycle, where
  `FAILED` may come after anything.  The races inside the engine are
  `OrderWorkflow`'s.  An answer of 500 is not modelled.

Left out of the page: messages, names, layout, `/health`, the timers of history
rows and the search text (the filter stands for it: both make a new
`fetchHistory`).

### How `ConsumerGroup` corresponds to the code

* **Processes.**  `stage[i]` follows `app_lifespan`; `turn[i]` is the consumer
  thread with the message it works on.  A thread that is blocked in `poll()` when
  `shutdown_event` is set may still get a message (`poll` does not look at the
  stage); after a turn it does look (`next_turn`).  `join` blocks the event loop,
  so nothing is broadcast any more.  When a time limit passes (`Fault("timeout")`)
  the shutdown goes on without the thread, or without what is in the buffer.
* **Producer.**  `publish_event` only fills `buffer[i]`, which librdkafka's own
  thread sends in order (`deliver`).  The lifespan calls `get_producer()` before
  any request is accepted, so its lock is never contended and is not modelled.
* **Group.**  `rebalance` shares all partitions out among the member threads and
  sets every position to the committed offset.  A thread in the middle of a turn
  goes on with it, and its commit may be accepted, late, refused or lost.  A
  process that ends leaves its partitions without an owner until the group
  notices.
* **What is remembered.**  Messages are identified by their place, partition and
  offset.  `started` and `skipped` are the places some thread has dispatched, or
  skipped because `delay()` raised.  `told` is what a process's
  clients heard since it started.

Failed publications and tasks are left to `OrderWorkflow`.

`EventTopic` is the group seen from outside: the partitions, the places that were
handled (dispatched, or skipped with an error) and the committed offsets.  It says
that they are first handled one by one in their order and that an offset, also one
that a late commit sets back, has only handled places before it.

## 3. Runs

| Run | Instance | Shows |
|---|---|---|
| `duplicates` | 1 order, 2 threads, 3 task slots, 3 requests (pay, cancel), 2 faults out of restart, lost offset commit, redelivery, crash | effects happen once, refunds match charges, keys end their tasks, locked reads stay true, the timeline replays |
| `endpoints` | 1 order, 2 threads, 2 slots, 3 requests out of all endpoints, 1 fault out of lost event, skipped event, failed attempt, lost outcome | types, locked reads, edits apply once, announced is committed, FAILED is final, the refinement |
| `exhaustion` | 2 orders, bulk creation, 1 payment, 5 faults out of failed attempt and redelivery, `RetryReraisesExc = FALSE` | retry log, timeline and status agree; each failure has a source, and an exhausted delivery its four failed attempts; the refinement with orders that fail |
| `progress` | 1 order, 2 requests (pay, cancel), 2 faults out of failed attempt, restart, lost offset commit, redelivery; fair | paid orders ship, shipped ones arrive, cancellations settle, the pipeline comes to rest |
| `bridge` | 2 orders, 3 sockets (two on one order, one on `all`), 2 notifications; fair | the bridge's invariants, the refinement of `Delivery`, and that closed sockets leave |
| `app` | 2 orders, 13 sessions of one kind each with 1 to 4 clicks, 1 retry, 2 requests at a time, up to 2 moves of the engine, 2 events on their way, 1 loss; fair | the page's invariants, tracked rows stay, polling catches up, expired orders fail |
| `group` | 2 processes, 1 partition, 2 events, 2 starts, 2 faults out of skip, timeout, crash; fair | no event passed over, the refinement of `EventTopic`, nothing left behind, somebody is told of each, and every published event is handled |
| `fail_race`, `exhausted_retries`, `lost_outcome`, `stale_ui`, `edit_and_back` | the smallest instance of each; 2 orders and 8 failed attempts for `exhausted_retries`; the temporal claims (`exhausted_retries`, `lost_outcome`) under `FairSpec` | the five claims of `OrderClaims` are violated (section 6) |

Distinct states (after symmetry where it is used): `duplicates` 1.1 million,
`endpoints` 2.3 million, `exhaustion` 164 thousand, `progress` 39 thousand,
`bridge` 171 thousand, `app` 510 thousand, `group` 329 thousand; with two workers
each takes two minutes or less.

Why these bounds are enough to be interesting.  Three slots let two copies of a
task and a competing one be in progress at once.  Two faults let a duplicate
appear *and* its first copy die.  Five faults are four failed attempts, so a task
with `max_retries=3` runs out, plus a redelivery, so a delivered order can be
failed by the copy.  Three requests let an edit and its opposite race a third
call.  Every action fires in some passing run.  Three notifications would add
nothing to two: the loop handles them one at a time.  Nothing bounds the length
of the topic or the timeline but the number of requests and faults.

In `app` the bounds of a behaviour are drawn at the start (`session`): the run
checks the union of thirteen short sessions, each of the clicks that belong
together, not all mixtures of them.  A session also says for which orders an edit,
the user's or another customer's, may leave the price empty (`emptied`): in three
of them one order's may and the other's may not, so that the page is seen to blank
under the one and must not under the other.  `MaxRetries` is 1 where the page has 3: what
matters is the last retry and the report after it.  With two requests at a time
any answer can overtake another; polling always leaves one slot free.  Two
events on their way can arrive in the wrong order, one loss lets any request
fail, and a report of failure is lost and repeated.  One partition is enough for
`group`'s properties, which speak of one partition at a time; two events let one
be handled, late or twice, before the other; with two processes, two starts and
two faults a partition changes hands in the middle of a turn and a commit is
lost or late, or a process dies and comes back.  More starts only add states
(three make 5.7 million, and the same answers); the invariants are proved for
any number.

Orders, threads and slots are symmetric where no liveness is checked; names and
prices are not, because the edits name them.

Deadlock is checked in every run: the only states allowed to stop are those
where nothing is queued, running or unread (`Quiescent`), the last ones of the
bridge, and those where the page has nothing under way and no timer to run
(`AtRest`).  Only `group` does without: all processes may have stopped for
good.

Each property of a passing run has a mutant: a definition marked "Seeded
mistake" in the module, which stands for a plausible bug (a forgotten
`with_for_update()`, a missing primary key, an in-place removal from a list being
iterated, ...).  Put in place of the code's definition it violates the property.

### Fairness

`FairSpec` assumes weak fairness of the consumer (the thread polls for ever), of
each thread's started request (a handler that started finishes) and of each task
slot (a worker that took a task runs it).  Customers need not call and faults
need not happen.  A lock is held by a task that can always go on, so weak
fairness is enough: in a small instance with finitely many requests nobody can
overtake for ever.  `progress` has no lost event, skipped event, crash or lost
outcome: with any of them an order does stay where it is, since nothing in the
engine looks for stuck orders.  It has no more failed attempts than the task with
the fewest retries absorbs.

`WsBridge` assumes weak fairness of the broadcast loop and of each handler
coroutine, which the event loop schedules.

`OrderApp` assumes weak fairness of each request (the server answers, and the
answer's continuation runs), of the clock, of the effect that reports failures
and of the polling interval.  Nobody need click, no order need move, no event
need arrive; losses are bounded by the session, so a repeated report gets through
in the end.  A report that is *refused* is never repeated, which is right as long
as the refusal means that the order is past `PENDING`.

`ConsumerGroup` assumes weak fairness of each consumer thread, sender thread and
broadcast task, and of the group: a coordinator that sees members come or go
does rebalance.  Nobody need start, stop or publish.  `EventsAreSettled` speaks
of behaviours where processes start and stop only finitely often: a group that
rebalances for ever may handle the same message for ever.

## 4. Proofs

The proofs hold for any sets of orders, threads, slots, names, prices, endpoints,
faults, processes, partitions, events and sessions, and any bounds.  The theorems
of the first four modules are about `Spec` of `OrderWorkflow`.  The assumptions are
`NoneIsFresh` (None is not an order, a name, a status, ...) and `ConstantsOK` (the
constants have their types).  TLC evaluates both in every run of the pipeline.
Those of the page use `AppConstants` besides, those of the group
`GroupConstants`, those of the bridge `BridgeConstants`, which the runs `app`,
`group` and `bridge` evaluate.

| Theorem | Module | Says |
|---|---|---|
| `Invariance` | `OrderWorkflowProofs` | `[]IInv` |
| `TypeCorrect`, `OnlyKnownOrders`, `LockedReads` | | its three parts |
| `FailedStaysFailed` | | no step revives or edits a failed order |
| `HistoryInvariance` | `OrderEffectsProofs` | `[]HInv` |
| `KeysEndTasks` | | a task whose key is in the table never applies again |
| `EffectsOnce` | | payment, shipment, delivery, cancellation: once per order |
| `RefundsFollowCharges` | | a cancellation refunds exactly the charged orders |
| `Refinement` | | `Spec => Lifecycle!Spec` |
| `AnnouncedChangesAreCommitted` | `OrderTimelineProofs` | what the topic announces is on the timeline |
| `RetryLogIsTrue` | | `retry_logs`, the timeline and the status agree |
| `FailuresEarned` | | only `/fail` and a marking task's exhaustion fail orders, an exhausted delivery after four logged attempts |
| `EditsOnce` | | each update key is one applied edit |
| `TimelinesReplay` | | under `NoFailures`, the timeline replays to the status |
| `PageInvariance` | `OrderAppProofs` | `[]PageInv`, for the page |
| `AppTypeCorrect` | | the page's types; no order is tracked twice |
| `CountInvariance` | `AppEffectsProofs` | `[]CountInv` |
| `FailureIsEarned` | | `/fail` is only called when the timeline has all the retries |
| `ReportsAreSingle` | | never two reports of one order under way |
| `NeverLeftAlone` | | LIVE means an open socket; other pages poll |
| `TrackedRowsStay` | | no push, answer or new order drops a tracked one |
| `ShownWasTrue` | | the tracker and the history show only statuses the order has had |
| `SpinnersStop` | | the spinners of placement and import turn exactly while their request is under way; those of the history and the details only while an answer is to come |
| `OnlyEmptiedUnmount` | | a price is anything but a number only where some customer's edit left it empty |
| `GroupInvariance` | `ConsumerGroupProofs` | `[]GroupInv`, for the group |
| `GroupTypeCorrect` | | its types; a thread works on a message there is |
| `NothingIsPassedOver` | | what is committed was handled |
| `FirstsAreInOrder` | | the events of a partition are first handled in order |
| `ShutdownsLoseNothing` | | where nothing fails, what was published is on the log or in a buffer |
| `EventsAreTold` | | where nothing fails and processes only come, somebody's clients are told |
| `TopicRefinement` | | `Spec => Topic!Spec`: the group is one consumer of each partition |
| `BridgeInvariance` | `WsBridgeProofs` | `[]BridgeInv`, for the bridge |
| `BridgeTypeCorrect` | | its types; the list iterated over is the registered one or an old one |
| `RegistryStaysClean` | | rooms list live sockets once, and everyone who stays |
| `ReceivedOnceInOrder` | | no notification twice, out of order or about another order |
| `NobodyWhoStaysIsSkipped` | | who stays gets everything taken since, but for what is under way |
| `BridgeRefinement` | | `Spec => Promise!Spec`: the bridge implements `Delivery` |

The argument about the pipeline has four layers.

1. `IInv == TypeOK /\ OrdersExist /\ LockedReadsStayTrue`.  `TypeOK` alone says
   nothing about what a task in its transaction knows; `LockedReadsStayTrue` does,
   and is inductive only with `RowsAreHeld` (a lock names exactly the task in its
   transaction: else two tasks could both hold the row) and with
   `OrdersExist` (else creating an order would change the status under a task that
   already works on it).  The lemmas of `OrderTypingProofs` say once, for every
   action, what it leaves alone, so that each part of the invariant is only
   argued for the few actions that touch it.
2. `HInv` adds what the timeline tells about the status: an effect on the timeline
   confines the order to the statuses that can come after it (`EffectsLast`), an
   order past `PENDING` was paid (`MoneyLogged`), a key comes with its effect
   (`KeysLogged`).  None of the properties is inductive without it: "once" needs to
   know that the second payment finds the order out of `PENDING`, and `FAILED`
   orders must be covered too, since any status can fail.  Every step is one of
   three kinds (`Effect`, `Remark`, `Creates`), and the properties are argued per
   kind.
3. `OrderTimelineProofs` says what each step writes to `events`, `keys` and
   `retryLogs`.  `AnnouncedIsCommitted` needs that whoever is *about to* publish a
   change already has it on the timeline (`RequestsLogged`, `TasksLogged`);
   `FailuresAreEarned` that a task past its attempts is one that marks its order
   and has used up its retries, that `/fail` was called, and that a delivery under
   way has as many failed attempts in `retry_logs` as `Tries` counts: a copy of it
   starts with those of its original (`Continues`), and no row is deleted.  With
   `RetryReraisesExc`, as deployed, `Sourced` leaves `/fail` and deliveries, so that
   only `/fail`'s race of finding 1 makes a `PAID` order `FAILED`.  The theorem is
   about the orders that are failed; that an exhausted delivery leaves its order
   `SHIPPED` is finding 3.
   `RetryLogAgrees` is inductive by itself: `Written` says of each step which rows
   come with which entry.
   `EditsApplyOnce` needs that the keys are finitely many, so that one more key is one
   more entry.  `TimelinesReplay` has a hypothesis on the constants, `NoFailures`:
   no `/retry`, no `/fail`, no attempt that fails.  The run `duplicates` satisfies
   it.  Its strengthening, `OnlyEditsRetry`, is what is left of failure then: only
   an edit that lost the race for its key is tried again, and it then finds the key.
   Without the hypothesis the property is false: `/retry` and `/fail` write a
   `from_status` they did not read under a lock.
4. The refinement maps `charged` and `refunded` to what the timeline says.  An
   effect is a `Pay`, `Ship`, `Deliver` or `Cancel`; a remark is an `Edit`, a
   `Fail` or a stutter; a creation is a `Create`; all else stutters.

About the page: `PageInv` adds to the types that every tracked order exists and
is tracked once, and that the orders on their way to the tracker (in an answer
to a placement or an import) exist, are not tracked yet and are in one answer
only.  Without the last part nothing forbids that an answer adds an order twice.
`CountInv` adds that the page's retry count *plus the accepted answers it has not
counted yet* is at most what is on the engine's timeline, and that an order whose
report is under way is marked: neither property holds step by step without it,
because the count and the timeline are written by different steps.
`ShownInv` says of the pushes on their way and of the answers not yet read what
`ShownHappened` says of the rows, and that the order of an accepted report is
`FAILED`, which is what lets the page write that itself; `CameThrough` stays true
whatever the order does next.  For the spinners, each step of the page is one of
three (`RequestsStep`): it starts a request in a free place, ends one, or leaves
them all what they are.  `PriceInv` follows a price from the request of an edit,
this page's or another customer's, over the wire to the row that renders it; the
orders it may be missing for are those of `session.emptied`.

About the group: `CommittedIsSettled` is not inductive, since a process may
commit for a partition that has long been another's.  `GroupInv` says what that
process knows (`TurnsFollow`: everything before its message is settled, and its
message, once it is to be committed) and what an owner relies on
(`OwnersFollow`: all it has polled is settled but the message of its turn).
`TopicRefinement` follows: a turn that is the first of its message has everything
before it settled, so it is the next `Handle` of its partition, and a commit is of
a message up to which all is settled; polls, hand-overs, exits and repetitions are
invisible in `EventTopic`.  `FirstInOrder` is a consequence of it, and a part of
`GroupInv`.
`NothingLeftBehind` is inductive with the types; the work is in the three lemmas
about appending to a log and to a buffer and sending from one.
`SomebodyIsNotified` only speaks of quiet states where all that was started still
serves; `HeardInv` says what holds on the way there: whatever started its task is
told or queued at a process that serves, and once the group has met, every
partition has an owner, so that quiet means that all of the log was read.  A
process that goes breaks the hypothesis for good, because there were more starts
than there are processes (`WasUndisturbed`).

About the bridge: `ReceivedInOrder` and `NobodyIsSkipped` say nothing of a
broadcast that is under way, and a step of it keeps neither by itself.  `Unsent`
says that whoever comes after the place the loop is at has not got the
notification yet (else it could get it twice), `Reaching` that whoever must get it
has it or is still to come, in this list or in that of the `all` room (else the
end of the loop could leave somebody out), and `ListIsRight` that the list, though
people may have left it, has nobody twice and nobody of another room.  With
`RegistryIsClean` a broadcast starts with all that, `connect` only adds behind its
place (`BroadcastGoesOn`), and `disconnect` does not touch the list it has.  What
`disconnect` keeps of a list is defined by a recursive function; that the result
has the remaining members, once each (`WithoutKeeps`), is proved by taking the
shortest piece of the list for which it were false, since the library's induction
theorems cannot be used.

`BridgeRefinement` maps a client's presence to its handler and its peer, and what
it awaits to what was taken since it was registered, concerns it and has not
arrived.  Turning to a room's list is a `Take` for the first room and nothing for
the second; a send is a `Deliver`, to somebody present because a socket that takes
it has a running handler (`ListIsRight`); the end of the second list is the
`Finish`, which by `Reaching` leaves nobody waiting.  `ReceivedInOrder` is a
consequence.

Model-checked only: what must come eventually.  Out of the prover's reach:
liveness under fairness, and `ENABLED`.  No module declares a recursive operator.

## 5. Not modelled, and why

* `_push_ws_notification` in `workflows.py` puts on a queue of the worker process
  that nobody reads; `broadcast_all` has no caller.
* `get_producer`'s lock: within a process it is never contended (see
  `ConsumerGroup`).
* The pipeline with several API processes: `OrderWorkflow` has one process and one
  partition (compose starts one broker, which creates the topic with one
  partition, and the README starts one process); `ConsumerGroup` shows what
  several keep true of the consumption, and that is at-least-once and in order,
  as in `OrderWorkflow`.
* The page's texts, layout and search text, and the timers of the history's rows
  (they only hide or show a Pay button).
* Errors 500 of the API and data that violate a column's width (an update's key
  longer than 255 characters): a unit test reaches them.
* Timed behaviour: the countdowns, the back-offs and the consumer's poll
  interval only make orders of events likely or unlikely, not impossible.
* Configuration and deployment have no behaviour of their own.

## 6. Findings

Each is a behaviour of the code that a run shows by a violation; `exhausted_retries`
shows two at once, with an order of its own for each.

1. **`/fail` fails paid orders** (`fail_race`, `main.py:356`).  It reads `PENDING`,
   a payment commits, and its `UPDATE` makes the paid order `FAILED`; nothing
   refunds it.  `models.py:34-38` knows only orders whose payment or shipping
   retries are exhausted.
2. **Exhausted shipping leaves the order `PAID`** (`exhausted_retries`,
   `workflows.py:293`).  `retry(exc=exc)` raises `exc` past the limit, so the
   handler for `MaxRetriesExceededError` never runs.
3. **Exhausted delivery leaves the order `SHIPPED`** (`exhausted_retries`,
   `workflows.py:71`).  Here `_mark_order_failed` is reached (`workflows.py:157`),
   but it spares `SHIPPED`, the only status a delivery task attempts anything for.
   `workflows.py:67` says that it marks the order `FAILED` "when all retries are
   exhausted".
4. **A lost commit outcome stalls the order** (`lost_outcome`, `workflows.py:176`).
   The retry finds the key and returns before it publishes.
5. **Clients are left with an old status** (`stale_ui`, `workflows.py:196`).
   Publishing after releasing the row lets a `PAID` overtake a `CANCELLED`.
6. **Editing back is taken for a duplicate** (`edit_and_back`, `workflows.py:371`).
   The key of an update is made of the new values only.

Smaller differences met while reading, without a run of their own:

* `models.py:29-41` does not list `SHIPPED -> CANCELLED`, which
  `workflows.py:323` allows, nor `DELIVERED -> FAILED`: of two copies of a delivery
  task (`README.md:97` expects such copies) one delivers the order, the attempts of
  the other run out, and the guard of `workflows.py:71` does not spare `DELIVERED`.
  `OrderLifecycle` has both, and `exhaustion` reaches the second.
* `kafka_manager.py:88` says that `order.created` starts a payment task; it starts
  none.
* Payment, cancellation and update attempts leave no rows in `retry_logs`, and a
  delivery's row always has a back-off of 5.
* An edit that leaves the price empty blanks every page that shows the order in
  its tracker, whoever made the edit: `main.py:283-292` publishes it with
  `price: null`, the bridge sends it to the room `all`, where each page listens
  (`App.js:251`), `App.js:274` tests for `undefined` only, and `null.toFixed` at
  `App.js:777` throws while rendering (`Render`; `other_edit` and `request`).
  `OnlyEmptiedPricesBlank` says that nothing else does.
* All processes of the API share one consumer group (`kafka_manager.py:103`), so
  the clients of one never hear of the events another one consumes;
  `README.md:98` expects each to consume and notify.  `SomebodyIsNotified` is
  what remains true.
* A process that stops forgets what is on its notification queue, although the
  offsets are committed: nobody is told of those events.
* The page goes back: a late poll or history answer overwrites a newer push, also
  with `PENDING` over `PAID` or a finished status.  `ShownHappened` says that what
  it shows was true at some time.
* An event for an order that is placed but not tracked yet is dropped, and the
  order's row starts as `PENDING`; without polling nothing corrects it.
* An order whose placement's answer is lost exists and is not tracked.
* Placing an order while the batch is dismissed leaves the index where it was
  (`App.js:410`): the tracker may point past the end and show nothing.
* The delayed fetch after an edit or a cancellation has the filter of the click
  (`App.js:432`), and a pushed status does not remove a row from a filtered list.
* Any answer stops the spinner of its kind, though another may be to come
  (`App.js:241`, `:604`), and the delayed fetch of the history shows none.
  `SpinnersAreBacked` is exact for placement and import only.
* The answer for one detail dialog fills the next one (`App.js:593`); the answer
  to an edit or a cancellation closes whichever dialog of that kind is open
  (`App.js:513`).
* A double click on Retry passes the limit of three (`App.js:457`).
* Pay All reports success without looking at the answers.
* Dismissing or importing drops the timers of orders that are still `PENDING`;
  nobody reports those as failed.
* In a development build the first socket's close event may set POLLING while the
  second socket is open.
* A `/fail` that is refused is not repeated, whatever the reason.
* Shown edits are requested, not committed: `order.update_requested` carries the
  new price to the page before the task has decided.

## 7. Plan

Done: the pipeline, the bridge, the page, the lifespan and the consumer group
are modelled and checked, the pipeline, the bridge and the group with an abstract
specification each.  Proved are the types, locks, effects, keys, refunds,
announcements, retry log, failures, edits, replay and the refinement of the
pipeline; all safety properties of the page, of the group and of the bridge; and
that these two implement their abstract specifications.

Left: a pipeline with several API processes would compose `OrderWorkflow` with
`ConsumerGroup`.  What `EventTopic` says of the consumption (in order, nothing left
out, perhaps repeated) is what `OrderWorkflow`'s own consumer does with its one
partition.
