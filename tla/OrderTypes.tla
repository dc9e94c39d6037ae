----------------------------- MODULE OrderTypes -----------------------------
(***************************************************************************)
(* The vocabulary of the order workflow engine, shared by every module     *)
(* about it: the statuses of an order, the events on the 'order-events'    *)
(* topic, the Celery tasks, and the tables the handlers consult (which     *)
(* event starts which task, which task may leave which status, how often a *)
(* task is retried).  Prices, names and identifiers are opaque values.     *)
(***************************************************************************)
EXTENDS Integers

CONSTANTS Orders,   \* order ids (UUIDs in the code)
          Names,    \* values of Order.item_name
          Prices,   \* values of Order.price
          None      \* Python's None: no row, no field, no lock holder

Statuses == {"PENDING", "PAID", "SHIPPED", "DELIVERED", "FAILED", "CANCELLED"}

\* A row of `orders` carries a name and a price; an edit may leave either out.
Contents == [item_name : Names, price : Prices]
EditRequests == [item_name : Names \union {None}, price : Prices \union {None}]

\* The Celery tasks of app/tasks/workflows.py.
Tasks == {"manual_payment", "shipping", "delivery", "cancellation", "update"}

\* Requests published by the API, carrying no status.
Requests == {"payment.received", "order.cancel_requested",
             "order.update_requested"}

\* Events published after a commit, with the status their payload announces.
Announces ==
  { <<"order.created", "PENDING">>,    <<"order.updated", "PENDING">>,
    <<"payment.processed", "PAID">>,   <<"order.shipped", "SHIPPED">>,
    <<"order.delivered", "DELIVERED">>, <<"order.cancelled", "CANCELLED">>,
    <<"payment.failed", "FAILED">>,    <<"manual_payment.failed", "FAILED">>,
    <<"shipping.failed", "FAILED">>,   <<"delivery.failed", "FAILED">> }

Announcements == {a[1] : a \in Announces}

ASSUME NoneIsFresh ==
    None \notin Orders \union Names \union Prices \union Statuses \union Tasks
                \union Announcements \union Contents \union EditRequests

EventTypes == Requests \union Announcements

\* Rows of the audit timeline that are never published.
AuditTypes == Announcements \union {"payment.retry", "shipping.retry"}

\* Only an update request carries an edit.
Messages ==
    [type : EventTypes \ {"order.update_requested"}, order : Orders, edit : {None}]
    \union [type : {"order.update_requested"}, order : Orders, edit : EditRequests]

\* consume_loop: the task each event type starts; other events start none.
Dispatch ==
  { <<"payment.received", "manual_payment">>,
    <<"payment.processed", "shipping">>,
    <<"order.shipped", "delivery">>,
    <<"order.cancel_requested", "cancellation">>,
    <<"order.update_requested", "update">> }

\* Seeded mistake: tasks that revive a failed order.
AllowedFromFailed ==
  { <<"manual_payment", "PENDING">>, <<"manual_payment", "FAILED">>,
    <<"shipping", "PAID">>, <<"delivery", "SHIPPED">>, <<"update", "PENDING">>,
    <<"cancellation", "PENDING">>, <<"cancellation", "FAILED">> }

\* The status test each task makes once it holds the order's row lock.
Allowed ==
  { <<"manual_payment", "PENDING">>, <<"shipping", "PAID">>,
    <<"delivery", "SHIPPED">>,       <<"update", "PENDING">>,
    <<"cancellation", "PENDING">>,   <<"cancellation", "PAID">>,
    <<"cancellation", "SHIPPED">> }

\* The `{stage}.failed` event _mark_order_failed writes for each stage.
FailedEvents ==
  { <<"manual_payment", "manual_payment.failed">>,
    <<"shipping", "shipping.failed">>, <<"delivery", "delivery.failed">> }

\* Seeded mistake: every task is retried once.
one_retry(kind) == 1

\* @celery_app.task(bind=True, max_retries=...)
max_retries(kind) == IF kind \in {"cancellation", "update"} THEN 2 ELSE 3

\* The seconds a failed attempt waits: doubling from 5.
backoff(retries) == 5 * 2 ^ retries

\* process_update_task: the content of an order after an edit.
Edited(content, edit) ==
  [item_name |-> IF edit.item_name = None THEN content.item_name
                                          ELSE edit.item_name,
   price     |-> IF edit.price = None THEN content.price ELSE edit.price]
=============================================================================
