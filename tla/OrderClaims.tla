---------------------------- MODULE OrderClaims ----------------------------
(***************************************************************************)
(* What the documentation and the comments of the engine say of it, where  *)
(* the code does something else.  Each claim is refuted by a run.          *)
(***************************************************************************)
EXTENDS OrderProperties

\* An order whose payment was processed fails only because its shipping was
\* exhausted ("PAID -> FAILED (shipping retries exhausted)", "PENDING ->
\* FAILED (payment retries exhausted)", app/db/models.py:34-38).  /fail reads
\* PENDING, a payment commits, and /fail's UPDATE fails the paid order.
PaidOrdersFailInShipping ==
    \A o \in Orders :
        status[o] = "FAILED" /\ Logged(o, "payment.processed")
            => Logged(o, "shipping.failed")

\* retry_logs has the last failed attempt that this task is allowed.
RanOut(o, kind) ==
    \E row \in retryLogs :
        /\ row.order = o /\ row.task = kind
        /\ row.attempt > max_retries(kind) /\ row.status = "RETRYING"

\* Exhausted attempts fail orders ("Mark an order as FAILED when all retries
\* are exhausted", app/tasks/workflows.py:67): once some order's shipping and
\* some order's delivery have run out of attempts, at least one order is
\* FAILED in the end.  None need be.  Shipping's retry(exc=exc) raises exc, the
\* handler for MaxRetriesExceededError does not run, and the order stays PAID;
\* the delivery does call _mark_order_failed (workflows.py:157), which spares
\* SHIPPED, the only status an order under delivery has, and it stays SHIPPED.
ExhaustionFailsOrders ==
    (\A kind \in {"shipping", "delivery"} : \E o \in Orders : RanOut(o, kind))
        ~> \E o \in Orders : status[o] = "FAILED"

\* A processed payment is announced ("Upon completion, the worker publishes a
\* new event back to Kafka", README.md:13).  When commit() raises although
\* the transaction is durable, the retry finds the key and returns before it
\* publishes: the order is PAID and nothing ever ships it.
CompletionIsPublished ==
    \A o \in Orders :
        Logged(o, "payment.processed") ~>
            \E i \in DOMAIN topic : topic[i] = Message("payment.processed", o)

\* When all is handled, the status last pushed to the clients is the order's
\* ("a fully dynamic, reactive UI requiring no manual polling or page
\* refreshes", README.md:14).  Tasks publish after they release the row, so
\* a cancellation can be pushed before the payment it cancelled.
UiShowsTheStatus ==
    Quiescent => \A o \in Orders : wsStatus[o] \in {None, status[o]}

\* When all is handled, an order still PENDING has the content of the last
\* update published for it ("Update an order's item_name and/or price while
\* still PENDING", app/tasks/workflows.py:369).  The key is made of the new
\* values alone, so going back to an earlier content is taken for a duplicate.
LastEditApplies ==
    \A o \in Orders : \A i \in DOMAIN topic :
        /\ Quiescent /\ status[o] = "PENDING"
        /\ topic[i].order = o /\ topic[i].type = "order.update_requested"
        /\ \A j \in i + 1 .. Len(topic) :
              topic[j].order = o => topic[j].type # "order.update_requested"
        => Edited(item[o], topic[i].edit) = item[o]
=============================================================================
