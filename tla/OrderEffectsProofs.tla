------------------------- MODULE OrderEffectsProofs -------------------------
(***************************************************************************)
(* What the audit timeline says about an order's status, and what follows: *)
(* effects happen once, refunds match charges, a task whose key is in the  *)
(* table has nothing left to do, and the pipeline implements the atomic    *)
(* life cycle of OrderLifecycle.                                           *)
(***************************************************************************)
EXTENDS OrderWorkflowProofs

-----------------------------------------------------------------------------
(* One step, as the timeline of one order sees it. *)

\* The task that has each effect, and the statuses an order may be in once
\* the effect is on its timeline.
EffectOf == { <<"manual_payment", "payment.processed">>, <<"shipping", "order.shipped">>,
              <<"delivery", "order.delivered">>, <<"cancellation", "order.cancelled">> }
Later(type) ==
    CASE type = "payment.processed" -> {"PAID", "SHIPPED", "DELIVERED", "CANCELLED", "FAILED"}
      [] type = "order.shipped"     -> {"SHIPPED", "DELIVERED", "CANCELLED", "FAILED"}
      [] type = "order.delivered"   -> {"DELIVERED", "FAILED"}
      [] type = "order.cancelled"   -> {"CANCELLED", "FAILED"}

\* The transitions that have an effect.
Effects == { <<"PENDING", "payment.processed", "PAID">>,
             <<"PAID", "order.shipped", "SHIPPED">>,
             <<"SHIPPED", "order.delivered", "DELIVERED">>,
             <<"PENDING", "order.cancelled", "CANCELLED">>,
             <<"PAID", "order.cancelled", "CANCELLED">>,
             <<"SHIPPED", "order.cancelled", "CANCELLED">> }

\* Order o alone changes, and its timeline grows by entry e.
Effect(o, e) ==
    /\ <<status[o], e.type, status'[o]>> \in Effects
    /\ e.from = status[o]
    /\ item'[o] = item[o]
Remark(o, e) ==
    /\ e.type \notin OneTimeEffects
    /\ status[o] # None
    /\ \/ status'[o] \in {status[o], "FAILED"} /\ item'[o] = item[o]
       \/ status[o] = "PENDING" /\ status'[o] = "PENDING" /\ item'[o] \in Contents
Changes(o, e) ==
    /\ events' = Log(o, e)
    /\ \A p \in Orders \ {o} : status'[p] = status[p] /\ item'[p] = item[p]
    /\ Effect(o, e) \/ Remark(o, e)

Creates(os) ==
    /\ \A o \in os : status[o] = None
    /\ status' = [o \in Orders |-> IF o \in os THEN "PENDING" ELSE status[o]]
    /\ \A o \in Orders \ os : item'[o] = item[o]
    /\ events' = [o \in Orders |->
                    IF o \in os
                    THEN Append(events[o], Entry("order.created", None, "PENDING"))
                    ELSE events[o]]

\* The kinds of entries that are no effects.
LEMMA RemarkTypes ==
    {"order.created", "order.updated", "payment.retry", "shipping.retry", "payment.failed",
     "manual_payment.failed", "shipping.failed", "delivery.failed"} \cap OneTimeEffects = {}
BY DEF OneTimeEffects

\* Every commit is one of the transitions of Effects, or an edit.
LEMMA CommitHistory ==
    ASSUME IInv, NEW t \in Slots,
           \/ process_manual_payment_task(t) \/ process_shipping_task(t)
           \/ process_delivery_task(t) \/ process_cancellation_task(t)
           \/ process_update_task(t)
    PROVE  \E e \in Entries :
              /\ Changes(task[t].order, e)
              /\ keys' = keys \union {idempotency_key(t)}
              /\ task[t].kind = "update" \/ <<task[t].kind, e.type>> \in EffectOf
<1> USE DEF IInv, TypeOK
<1> DEFINE o == task[t].order
<1>1. /\ task[t].pc = "locked" /\ o \in Orders
      /\ \A p \in Orders \ {o} : status'[p] = status[p] /\ item'[p] = item[p]
  BY CommitMoves
<1>2. /\ task[t].seen = status[o] /\ status[o] \in Statuses
      /\ <<task[t].kind, status[o]>> \in Allowed
  BY <1>1, CommitsApply, StatusNames DEF Allowed
<1> HIDE DEF o
<1>3. ASSUME NEW kind, NEW to \in Statuses, NEW type \in AuditTypes, Commit(t, kind, to, type)
      PROVE  /\ task[t].kind = kind /\ status'[o] = to
             /\ keys' = keys \union {idempotency_key(t)}
             /\ Entry(type, status[o], to) \in Entries
             /\ events' = Log(o, Entry(type, status[o], to))
  BY <1>1, <1>2, <1>3 DEF Commit, Ready, SetStatus, TablesTyped, Entry, Entries, o
<1>4. ASSUME NEW kind, NEW to \in Statuses, NEW type \in AuditTypes, Commit(t, kind, to, type),
             item' = item, <<kind, type>> \in EffectOf, <<status[o], type, to>> \in Effects
      PROVE  \E e \in Entries :
                /\ Changes(o, e)
                /\ keys' = keys \union {idempotency_key(t)}
                /\ <<task[t].kind, e.type>> \in EffectOf
  <2> DEFINE e == Entry(type, status[o], to)
  <2>1. e.type = type /\ e.from = status[o]
    BY DEF Entry
  <2>2. e \in Entries /\ events' = Log(o, e) /\ task[t].kind = kind /\ status'[o] = to
        /\ keys' = keys \union {idempotency_key(t)}
    BY <1>3, <1>4
  <2> HIDE DEF e
  <2>3. Effect(o, e)
    BY <1>4, <2>1, <2>2 DEF Effect
  <2>. QED
    BY <1>1, <1>4, <2>1, <2>2, <2>3 DEF Changes
<1>5. CASE process_manual_payment_task(t)
  <2>1. Commit(t, "manual_payment", "PAID", "payment.processed") /\ item' = item
    BY <1>5 DEF process_manual_payment_task
  <2>2. status[o] = "PENDING"
    BY <1>2, <2>1 DEF Commit, Ready, Allowed
  <2>. QED
    BY <1>4, <2>1, <2>2, StatusNames, LoggedTypes DEF EffectOf, Effects, o
<1>6. CASE process_shipping_task(t)
  <2>1. Commit(t, "shipping", "SHIPPED", "order.shipped") /\ item' = item
    BY <1>6 DEF process_shipping_task
  <2>2. status[o] = "PAID"
    BY <1>2, <2>1 DEF Commit, Ready, Allowed
  <2>. QED
    BY <1>4, <2>1, <2>2, StatusNames, LoggedTypes DEF EffectOf, Effects, o
<1>7. CASE process_delivery_task(t)
  <2>1. Commit(t, "delivery", "DELIVERED", "order.delivered") /\ item' = item
    BY <1>7 DEF process_delivery_task
  <2>2. status[o] = "SHIPPED"
    BY <1>2, <2>1 DEF Commit, Ready, Allowed
  <2>. QED
    BY <1>4, <2>1, <2>2, StatusNames, LoggedTypes DEF EffectOf, Effects, o
<1>8. CASE process_cancellation_task(t)
  <2>1. Commit(t, "cancellation", "CANCELLED", "order.cancelled") /\ item' = item
    BY <1>8 DEF process_cancellation_task
  <2>2. status[o] \in {"PENDING", "PAID", "SHIPPED"}
    BY <1>2, <2>1 DEF Commit, Ready, Allowed
  <2>. QED
    BY <1>4, <2>1, <2>2, StatusNames, LoggedTypes DEF EffectOf, Effects, o
<1>9. CASE process_update_task(t)
  <2>1. Commit(t, "update", "PENDING", "order.updated")
    BY <1>9 DEF process_update_task
  <2>2. status[o] = "PENDING" /\ task[t].kind = "update"
    BY <1>2, <2>1 DEF Commit, Ready, Allowed
  <2>3. item'[o] \in Contents
    <3>1. task[t] \in Working /\ item[o] \in Contents /\ task[t].edit \in EditRequests
      BY <1>1, <2>2, TaskWorking, StatusNames DEF TablesTyped, TasksTyped, Working
    <3>2. Edited(item[o], task[t].edit) \in Contents
      BY <3>1 DEF Edited, Contents, EditRequests
    <3>. QED
      BY <1>1, <1>9, <3>2 DEF process_update_task, TablesTyped, o
  <2> DEFINE e == Entry("order.updated", status[o], "PENDING")
  <2>4. e.type = "order.updated"
    BY DEF Entry
  <2>5. e \in Entries /\ events' = Log(o, e) /\ status'[o] = "PENDING"
        /\ keys' = keys \union {idempotency_key(t)}
    BY <1>3, <2>1, StatusNames, LoggedTypes
  <2> HIDE DEF e
  <2>6. Remark(o, e)
    BY <2>2, <2>3, <2>4, <2>5, RemarkTypes, StatusNames DEF Remark
  <2>7. Changes(o, e)
    BY <1>1, <2>5, <2>6 DEF Changes
  <2>. QED
    BY <2>2, <2>5, <2>7 DEF o
<1>. QED
  BY <1>5, <1>6, <1>7, <1>8, <1>9

\* All that a step can do to the timelines, the statuses and the contents.
LEMMA HistorySteps ==
    ASSUME IInv, Next
    PROVE  \/ UNCHANGED <<status, item, events>> /\ keys' = keys
           \/ (\E os \in SUBSET Orders : Creates(os)) /\ keys' = keys
           \/ (\E o \in Orders, e \in Entries : Changes(o, e)) /\ keys' = keys
           \/ \E t \in Slots, e \in Entries :
                 /\ task[t].order \in Orders
                 /\ Changes(task[t].order, e)
                 /\ keys' = keys \union {idempotency_key(t)}
                 /\ task[t].kind = "update" \/ <<task[t].kind, e.type>> \in EffectOf
<1> USE DEF IInv, TypeOK
<1>a. ASSUME NEW o \in Orders, NEW type, NEW from, NEW to,
             type \notin OneTimeEffects, Entry(type, from, to) \in Entries,
             events' = Log(o, Entry(type, from, to)), item' = item, status[o] # None,
             status' = status \/ status' = SetStatus(o, "FAILED")
      PROVE  Changes(o, Entry(type, from, to))
  <2> DEFINE e == Entry(type, from, to)
  <2>1. e.type = type
    BY DEF Entry
  <2> HIDE DEF e
  <2>2. Remark(o, e)
    BY <1>a, <2>1 DEF Remark, SetStatus, TablesTyped
  <2>3. events' = Log(o, e)
    BY <1>a DEF e
  <2>4. \A p \in Orders \ {o} : status'[p] = status[p] /\ item'[p] = item[p]
    BY <1>a DEF SetStatus, TablesTyped
  <2>. QED
    BY <2>2, <2>3, <2>4 DEF Changes, e
<1>1. CASE UNCHANGED tables
  BY <1>1 DEF tables
<1>2. ASSUME NEW r \in Threads, create_order(r) \/ create_bulk_orders(r)
      PROVE  (\E os \in SUBSET Orders : Creates(os)) /\ keys' = keys
  <2>1. PICK os \in SUBSET Orders : Insert(r, os)
    BY <1>2 DEF create_order, create_bulk_orders
  <2>2. \A o \in Orders \ os : item'[o] = item[o]
    BY <2>1 DEF Insert
  <2>. QED
    BY <2>1, <2>2 DEF Insert, Creates
<1>3. ASSUME NEW r \in Threads, retry_payment(r)
      PROVE  (\E o \in Orders, e \in Entries : Changes(o, e)) /\ keys' = keys
  <2>1. req[r].order \in Orders /\ status[req[r].order] # None
    BY <1>3 DEF retry_payment, RequestsTyped, Handling, Idle, OrdersExist, RequestsKnow
  <2>2. Entry("payment.retry", "PENDING", "PENDING") \in Entries
    BY StatusNames, LoggedTypes DEF Entry, Entries
  <2>. QED
    BY <1>3, <1>a, <2>1, <2>2, RemarkTypes DEF retry_payment
<1>4. ASSUME NEW r \in Threads, fail_payment(r)
      PROVE  (\E o \in Orders, e \in Entries : Changes(o, e)) /\ keys' = keys
  <2>1. req[r].order \in Orders /\ status[req[r].order] # None
    BY <1>4 DEF fail_payment, RequestsTyped, Handling, Idle, OrdersExist, RequestsKnow
  <2>2. Entry("payment.failed", "PENDING", "FAILED") \in Entries
    BY StatusNames, LoggedTypes DEF Entry, Entries
  <2>. QED
    BY <1>4, <1>a, <2>1, <2>2, RemarkTypes DEF fail_payment
<1>5. ASSUME NEW t \in Slots, log_attempt(t)
      PROVE  \/ UNCHANGED <<status, item, events>> /\ keys' = keys
             \/ (\E o \in Orders, e \in Entries : Changes(o, e)) /\ keys' = keys
  <2>1. task[t].order \in Orders /\ status[task[t].order] # None
    BY <1>5, TaskWorking DEF log_attempt, Working, OrdersExist, TasksKnow
  <2>2. Entry("shipping.retry", "PAID", "PAID") \in Entries
    BY StatusNames, LoggedTypes DEF Entry, Entries
  <2>3. /\ UNCHANGED <<status, item, keys>>
        /\ events' \in {events, Log(task[t].order, Entry("shipping.retry", "PAID", "PAID"))}
    BY <1>5 DEF log_attempt
  <2>. QED
    BY <1>a, <2>1, <2>2, <2>3, RemarkTypes
<1>6. ASSUME NEW t \in Slots, _mark_order_failed(t)
      PROVE  (\E o \in Orders, e \in Entries : Changes(o, e)) /\ keys' = keys
  <2>1. task[t].order \in Orders /\ status[task[t].order] # None
    BY <1>6, TaskWorking DEF _mark_order_failed, Working, OrdersExist, TasksKnow
  <2>2. PICK type \in Announcements :
           /\ <<task[t].kind, type>> \in FailedEvents
           /\ events' = Log(task[t].order, Entry(type, status[task[t].order], "FAILED"))
    BY <1>6 DEF _mark_order_failed
  <2>3. type \notin OneTimeEffects
    BY <2>2 DEF FailedEvents, OneTimeEffects
  <2>4. Entry(type, status[task[t].order], "FAILED") \in Entries
    BY <2>1, <2>2, StatusNames, LoggedTypes DEF Entry, Entries, TablesTyped
  <2>5. UNCHANGED <<item, keys>> /\ status' = SetStatus(task[t].order, "FAILED")
    BY <1>6 DEF _mark_order_failed
  <2>. QED
    BY <1>a, <2>1, <2>2, <2>3, <2>4, <2>5
<1>7. ASSUME NEW t \in Slots,
             \/ process_manual_payment_task(t) \/ process_shipping_task(t)
             \/ process_delivery_task(t) \/ process_cancellation_task(t)
             \/ process_update_task(t)
      PROVE  \E e \in Entries :
                /\ task[t].order \in Orders
                /\ Changes(task[t].order, e)
                /\ keys' = keys \union {idempotency_key(t)}
                /\ task[t].kind = "update" \/ <<task[t].kind, e.type>> \in EffectOf
  BY <1>7, CommitHistory, CommitMoves
<1>. QED
  BY TableSteps, <1>1, <1>2, <1>3, <1>4, <1>5, <1>6, <1>7

\* The entry with which order o begins.
Begins(o, e) == status[o] = None /\ status'[o] = "PENDING" /\ e.type \notin OneTimeEffects

\* What a step does to one order: nothing, or its timeline grows by one entry.
LEMMA OrderSteps ==
    ASSUME IInv, [Next]_vars, NEW o \in Orders
    PROVE  \/ status'[o] = status[o] /\ item'[o] = item[o] /\ events'[o] = events[o]
           \/ \E e \in Entries : /\ events'[o] = Append(events[o], e)
                                 /\ Effect(o, e) \/ Remark(o, e) \/ Begins(o, e)
<1> USE DEF IInv, TypeOK
<1>1. CASE UNCHANGED <<status, item, events>>
  BY <1>1
<1>2. ASSUME NEW os \in SUBSET Orders, Creates(os), o \in os
      PROVE  \E e \in Entries : events'[o] = Append(events[o], e) /\ Begins(o, e)
  <2> DEFINE e == Entry("order.created", None, "PENDING")
  <2>1. e \in Entries /\ e.type \notin OneTimeEffects
    BY RemarkTypes, StatusNames DEF Entry, Entries, AuditTypes, Announcements, Announces
  <2>2. events'[o] = Append(events[o], e) /\ status[o] = None /\ status'[o] = "PENDING"
    BY <1>2 DEF Creates
  <2> HIDE DEF e
  <2>. QED
    BY <2>1, <2>2 DEF Begins
<1>3. ASSUME NEW os \in SUBSET Orders, Creates(os), o \notin os
      PROVE  status'[o] = status[o] /\ item'[o] = item[o] /\ events'[o] = events[o]
  BY <1>3 DEF Creates
<1>4. ASSUME NEW p \in Orders, NEW e \in Entries, Changes(p, e)
      PROVE  \/ status'[o] = status[o] /\ item'[o] = item[o] /\ events'[o] = events[o]
             \/ events'[o] = Append(events[o], e) /\ (Effect(o, e) \/ Remark(o, e))
  BY <1>4 DEF Changes, Log, TablesTyped
<1>5. CASE UNCHANGED vars
  BY <1>5 DEF vars, tables
<1>. QED
  BY <1>1, <1>2, <1>3, <1>4, <1>5, HistorySteps

\* A timeline that grows by one entry has what it had, and that entry.
LEMMA Grown ==
    ASSUME NEW s \in Seq(Entries), NEW e \in Entries
    PROVE  /\ DOMAIN s = 1 .. Len(s) /\ Len(s) \in Nat
           /\ DOMAIN Append(s, e) = 1 .. Len(s) + 1
           /\ Append(s, e)[Len(s) + 1] = e
           /\ \A i \in 1 .. Len(s) : Append(s, e)[i] = s[i]
OBVIOUS

\* After an entry is added, the logged types are the old ones and its own.
LEMMA LoggedAfter ==
    ASSUME IInv, NEW o \in Orders, NEW e \in Entries, events'[o] = Append(events[o], e),
           NEW type
    PROVE  Logged(o, type)' <=> Logged(o, type) \/ e.type = type
<1> DEFINE s == events[o]
<1>1. s \in Seq(Entries)
  BY DEF IInv, TypeOK, TablesTyped
<1> HIDE DEF s
<1>2. events'[o] = Append(s, e) /\ events[o] = s
  BY DEF s
<1>3. Len(s) + 1 \in 1 .. Len(s) + 1 /\ 1 .. Len(s) + 1 = (1 .. Len(s)) \union {Len(s) + 1}
  BY <1>1, Grown
<1>. QED
  BY <1>1, <1>2, <1>3, Grown DEF Logged

-----------------------------------------------------------------------------
(* The invariant of the timelines. *)

\* An effect, once logged, is not undone: the order stays in later statuses.
EffectsLast ==
    \A o \in Orders, type \in OneTimeEffects : Logged(o, type) => status[o] \in Later(type)

\* An order got past PENDING by being paid.
MoneyLogged ==
    \A o \in Orders : status[o] \in {"PAID", "SHIPPED", "DELIVERED"} =>
        Logged(o, "payment.processed")

\* A key is in the table only with the effect of its task on the timeline.
KeysLogged ==
    \A k \in keys : k.task = "update" \/
        \E type \in OneTimeEffects : <<k.task, type>> \in EffectOf /\ Logged(k.order, type)

HInv == IInv /\ EffectsLast /\ MoneyLogged /\ KeysLogged

\* No effect is on the timeline of an order that could still have it.
LEMMA EffectIsNew ==
    ASSUME EffectsLast, NEW o \in Orders, NEW e, Effect(o, e)
    PROVE  e.type \in OneTimeEffects /\ ~ Logged(o, e.type)
<1>1. e.type \in OneTimeEffects /\ status[o] \notin Later(e.type)
  BY DEF Effect, Effects, Later, OneTimeEffects
<1>. QED
  BY <1>1 DEF EffectsLast

\* No step takes an order back to before an effect on its timeline.
LEMMA EffectsLastStep ==
    ASSUME IInv, EffectsLast, [Next]_vars
    PROVE  EffectsLast'
<1> SUFFICES ASSUME NEW o \in Orders, NEW type \in OneTimeEffects, Logged(o, type)'
             PROVE  status'[o] \in Later(type)
  BY DEF EffectsLast
<1>a. None \notin Later(type) /\ "FAILED" \in Later(type)
  BY NoneIsFresh DEF Later, OneTimeEffects, Statuses
<1>1. CASE status'[o] = status[o] /\ events'[o] = events[o]
  BY <1>1 DEF EffectsLast, Logged
<1>2. ASSUME NEW e \in Entries, events'[o] = Append(events[o], e),
             Effect(o, e) \/ Remark(o, e) \/ Begins(o, e)
      PROVE  status'[o] \in Later(type)
  <2>1. Logged(o, type) \/ e.type = type
    BY <1>2, LoggedAfter
  <2>2. CASE Effect(o, e) /\ e.type = type
    BY <2>2 DEF Effect, Effects, Later
  <2>3. CASE Effect(o, e) /\ e.type # type
    <3>1. status[o] \in Later(type)
      BY <2>1, <2>3 DEF EffectsLast
    <3>. QED
      BY <2>3, <3>1 DEF Effect, Effects, Later, OneTimeEffects
  <2>4. CASE Remark(o, e)
    <3>1. status[o] \in Later(type)
      BY <2>1, <2>4 DEF EffectsLast, Remark
    <3>. QED
      BY <2>4, <3>1, <1>a DEF Remark
  <2>5. CASE Begins(o, e)
    BY <2>1, <2>5, <1>a DEF EffectsLast, Begins
  <2>. QED
    BY <1>2, <2>2, <2>3, <2>4, <2>5
<1>. QED
  BY <1>1, <1>2, OrderSteps

\* Only a payment leads to PAID, and SHIPPED and DELIVERED follow PAID.
LEMMA MoneyLoggedStep ==
    ASSUME IInv, MoneyLogged, [Next]_vars
    PROVE  MoneyLogged'
<1> SUFFICES ASSUME NEW o \in Orders, status'[o] \in {"PAID", "SHIPPED", "DELIVERED"}
             PROVE  Logged(o, "payment.processed")'
  BY DEF MoneyLogged
<1>1. CASE status'[o] = status[o] /\ events'[o] = events[o]
  BY <1>1 DEF MoneyLogged, Logged
<1>2. ASSUME NEW e \in Entries, events'[o] = Append(events[o], e),
             Effect(o, e) \/ Remark(o, e) \/ Begins(o, e)
      PROVE  Logged(o, "payment.processed")'
  <2>1. \/ status[o] \in {"PAID", "SHIPPED", "DELIVERED"}
        \/ e.type = "payment.processed"
    BY <1>2 DEF Effect, Effects, Remark, Begins
  <2>. QED
    BY <1>2, <2>1, LoggedAfter DEF MoneyLogged
<1>. QED
  BY <1>1, <1>2, OrderSteps

\* The timeline is append-only.
LEMMA LoggedStays ==
    ASSUME IInv, [Next]_vars, NEW o \in Orders, NEW type, Logged(o, type)
    PROVE  Logged(o, type)'
<1>1. CASE events'[o] = events[o]
  BY <1>1 DEF Logged
<1>. QED
  BY <1>1, OrderSteps, LoggedAfter

\* A commit adds the key and the effect together, and both stay.
LEMMA KeysLoggedStep ==
    ASSUME IInv, KeysLogged, [Next]_vars
    PROVE  KeysLogged'
<1> USE DEF IInv, TypeOK
<1>1. \A k \in keys : k.task = "update" \/
         \E type \in OneTimeEffects : <<k.task, type>> \in EffectOf /\ Logged(k.order, type)'
  BY LoggedStays DEF KeysLogged, TablesTyped, KeyRows
<1>2. CASE keys' = keys
  BY <1>1, <1>2 DEF KeysLogged
<1>3. ASSUME NEW t \in Slots, NEW e \in Entries, task[t].order \in Orders,
             Changes(task[t].order, e), keys' = keys \union {idempotency_key(t)},
             task[t].kind = "update" \/ <<task[t].kind, e.type>> \in EffectOf
      PROVE  KeysLogged'
  <2>1. PICK o \in Orders : o = task[t].order
    BY <1>3
  <2>2. events'[o] = Append(events[o], e)
    BY <1>3, <2>1 DEF Changes, Log, TablesTyped
  <2>3. Logged(o, e.type)'
    BY <2>2, LoggedAfter
  <2>4. <<task[t].kind, e.type>> \in EffectOf => e.type \in OneTimeEffects
    BY DEF EffectOf, OneTimeEffects
  <2>5. \A k \in keys' : k \in keys \/ (k.task = task[t].kind /\ k.order = o)
    BY <1>3, <2>1 DEF idempotency_key
  <2>. QED
    BY <1>1, <1>3, <2>3, <2>4, <2>5 DEF KeysLogged
<1>4. CASE UNCHANGED vars
  BY <1>2, <1>4 DEF vars, tables
<1>. QED
  BY <1>2, <1>3, <1>4, HistorySteps

\* The strengthened invariant holds throughout.
THEOREM HistoryInvariance == Spec => []HInv
<1>1. Init => HInv
  BY InitIInv, NoneIsFresh
  DEF Init, HInv, EffectsLast, MoneyLogged, KeysLogged, Logged, Statuses
<1>2. HInv /\ [Next]_vars => HInv'
  BY StepIInv, EffectsLastStep, MoneyLoggedStep, KeysLoggedStep DEF HInv
<1>. QED
  BY <1>1, <1>2, PTL DEF Spec

\* A key comes with an effect, and the effect leads past the task's statuses.
LEMMA KeysAreOver == HInv => KeyedTasksAreOver
<1> SUFFICES ASSUME HInv, NEW k \in keys, k.task # "update"
             PROVE  <<k.task, status[k.order]>> \notin Allowed
  BY DEF KeyedTasksAreOver
<1>1. PICK type \in OneTimeEffects : <<k.task, type>> \in EffectOf /\ Logged(k.order, type)
  BY DEF HInv, KeysLogged
<1>2. k.order \in Orders
  BY DEF HInv, IInv, TypeOK, TablesTyped, KeyRows
<1>3. status[k.order] \in Later(type)
  BY <1>1, <1>2 DEF HInv, EffectsLast
<1>. QED
  BY <1>1, <1>3 DEF EffectOf, Later, Allowed

\* A task whose idempotency key is in the table has nothing left to do, for
\* good: its order is past the statuses the task may leave.
THEOREM KeysEndTasks == Spec => []KeyedTasksAreOver
BY KeysAreOver, HistoryInvariance, PTL

-----------------------------------------------------------------------------
(* Effects happen once, and refunds match charges. *)

\* An effect that is already on the timeline is not added again.
LEMMA OnceStep ==
    ASSUME HInv, EffectsHappenOnce, [Next]_vars
    PROVE  EffectsHappenOnce'
<1> SUFFICES ASSUME NEW o \in Orders, NEW i \in DOMAIN events'[o], NEW j \in DOMAIN events'[o],
                    events'[o][i].type \in OneTimeEffects,
                    events'[o][i].type = events'[o][j].type
             PROVE  i = j
  BY DEF EffectsHappenOnce
<1>1. CASE events'[o] = events[o]
  BY <1>1 DEF EffectsHappenOnce
<1>2. ASSUME NEW e \in Entries, events'[o] = Append(events[o], e),
             Effect(o, e) \/ Remark(o, e) \/ Begins(o, e)
      PROVE  i = j
  <2>1. e.type \notin OneTimeEffects \/ ~ Logged(o, e.type)
    BY <1>2, EffectIsNew DEF HInv, Remark, Begins
  <2> DEFINE s == events[o]
  <2>2. s \in Seq(Entries)
    BY DEF HInv, IInv, TypeOK, TablesTyped
  <2>3. \A n \in DOMAIN s : s[n].type = e.type => e.type \notin OneTimeEffects
    BY <2>1 DEF Logged
  <2>4. \A m, n \in DOMAIN s :
           s[m].type \in OneTimeEffects /\ s[m].type = s[n].type => m = n
    BY DEF EffectsHappenOnce
  <2>5. events'[o] = Append(s, e)
    BY <1>2
  <2> HIDE DEF s
  <2>6. \A n \in DOMAIN events'[o] :
           \/ n \in DOMAIN s /\ events'[o][n] = s[n]
           \/ n = Len(s) + 1 /\ events'[o][n] = e
    BY <2>2, <2>5, Grown
  <2>. QED
    BY <2>3, <2>4, <2>6
<1>. QED
  BY <1>1, <1>2, OrderSteps DEF HInv

\* The payment, the shipment, the delivery and the cancellation of an order
\* happen at most once each, whatever is duplicated, retried or restarted.
THEOREM EffectsOnce == Spec => []EffectsHappenOnce
<1>1. Init => EffectsHappenOnce
  BY DEF Init, EffectsHappenOnce
<1>2. HInv /\ EffectsHappenOnce /\ [Next]_vars => EffectsHappenOnce'
  BY OnceStep
<1>. QED
  BY <1>1, <1>2, HistoryInvariance, PTL DEF Spec

\* A cancellation reads under its lock whether the payment was processed,
\* and no payment is processed after it.
LEMMA RefundsStep ==
    ASSUME HInv, RefundsMatchCharges, [Next]_vars
    PROVE  RefundsMatchCharges'
<1> SUFFICES ASSUME NEW o \in Orders, NEW i \in DOMAIN events'[o],
                    events'[o][i].type = "order.cancelled"
             PROVE  events'[o][i].from # "PENDING" <=> Logged(o, "payment.processed")'
  BY DEF RefundsMatchCharges
<1>1. CASE events'[o] = events[o]
  BY <1>1 DEF RefundsMatchCharges, Logged
<1>2. ASSUME NEW e \in Entries, events'[o] = Append(events[o], e),
             Effect(o, e) \/ Remark(o, e) \/ Begins(o, e)
      PROVE  events'[o][i].from # "PENDING" <=> Logged(o, "payment.processed")'
  <2>1. Logged(o, "payment.processed")' <=>
           Logged(o, "payment.processed") \/ e.type = "payment.processed"
    BY <1>2, LoggedAfter DEF HInv
  <2> DEFINE s == events[o]
  <2>2. s \in Seq(Entries)
    BY DEF HInv, IInv, TypeOK, TablesTyped
  <2>3. \/ i \in DOMAIN s /\ events'[o][i] = s[i]
        \/ i = Len(s) + 1 /\ events'[o][i] = e
    <3>1. events'[o] = Append(s, e)
      BY <1>2
    <3> HIDE DEF s
    <3>. QED
      BY <2>2, <3>1, Grown
  <2>4. CASE i \in DOMAIN s /\ events'[o][i] = s[i]
    <3>1. Logged(o, "order.cancelled")
      BY <2>4 DEF Logged
    <3>2. status[o] \in {"CANCELLED", "FAILED"}
      BY <3>1 DEF HInv, EffectsLast, OneTimeEffects, Later
    <3>3. e.type # "payment.processed"
      BY <1>2, <3>2 DEF Effect, Effects, Remark, Begins, OneTimeEffects
    <3>. QED
      BY <2>1, <2>4, <3>3 DEF RefundsMatchCharges
  <2>5. CASE events'[o][i] = e
    <3>1. Effect(o, e) /\ e.type = "order.cancelled"
      BY <1>2, <2>5 DEF Remark, Begins, OneTimeEffects
    <3>2. e.from = status[o] /\ status[o] \in {"PENDING", "PAID", "SHIPPED"}
      BY <3>1 DEF Effect, Effects
    <3>3. status[o] = "PENDING" => ~ Logged(o, "payment.processed")
      BY DEF HInv, EffectsLast, OneTimeEffects, Later
    <3>4. status[o] # "PENDING" => Logged(o, "payment.processed")
      BY <3>2 DEF HInv, MoneyLogged
    <3>. QED
      BY <2>1, <2>5, <3>1, <3>2, <3>3, <3>4
  <2>. QED
    BY <2>3, <2>4, <2>5
<1>. QED
  BY <1>1, <1>2, OrderSteps DEF HInv

\* A cancellation refunds exactly the orders that were charged.
THEOREM RefundsFollowCharges == Spec => []RefundsMatchCharges
<1>1. Init => RefundsMatchCharges
  BY DEF Init, RefundsMatchCharges
<1>2. HInv /\ RefundsMatchCharges /\ [Next]_vars => RefundsMatchCharges'
  BY RefundsStep
<1>. QED
  BY <1>1, <1>2, HistoryInvariance, PTL DEF Spec

-----------------------------------------------------------------------------

\* The pipeline implements the atomic life cycle: seen through the status, the
\* content and the money read off the timeline, each of its steps is a step of
\* OrderLifecycle or no step at all.

\* What order o's timeline says it was refunded.
RefundLogged(o) ==
    \E i \in DOMAIN events[o] :
        /\ events[o][i].type = "order.cancelled"
        /\ events[o][i].from # "PENDING"

\* An added entry is a refund if it cancels an order that was not PENDING.
LEMMA RefundLoggedAfter ==
    ASSUME IInv, NEW o \in Orders, NEW e \in Entries, events'[o] = Append(events[o], e)
    PROVE  RefundLogged(o)' <=>
              RefundLogged(o) \/ (e.type = "order.cancelled" /\ e.from # "PENDING")
<1> DEFINE s == events[o]
<1>1. s \in Seq(Entries)
  BY DEF IInv, TypeOK, TablesTyped
<1> HIDE DEF s
<1>2. events'[o] = Append(s, e) /\ events[o] = s
  BY DEF s
<1>3. Len(s) + 1 \in 1 .. Len(s) + 1 /\ 1 .. Len(s) + 1 = (1 .. Len(s)) \union {Len(s) + 1}
  BY <1>1, Grown
<1>. QED
  BY <1>1, <1>2, <1>3, Grown DEF RefundLogged

\* The money of the other orders is not touched, and that of order o only by
\* a payment or the cancellation of a paid order.
LEMMA MoneyMoves ==
    ASSUME IInv, NEW o \in Orders, NEW e \in Entries, Changes(o, e)
    PROVE  /\ Charged' = Charged \union {p \in {o} : e.type = "payment.processed"}
           /\ Refunded' = Refunded \union
                 {p \in {o} : e.type = "order.cancelled" /\ e.from # "PENDING"}
<1>1. events'[o] = Append(events[o], e) /\ \A p \in Orders \ {o} : events'[p] = events[p]
  BY DEF Changes, Log, IInv, TypeOK, TablesTyped
<1>2. \A p \in Orders \ {o} : /\ Logged(p, "payment.processed")' <=> Logged(p, "payment.processed")
                              /\ RefundLogged(p)' <=> RefundLogged(p)
  BY <1>1 DEF Logged, RefundLogged
<1>3. /\ Logged(o, "payment.processed")' <=>
            Logged(o, "payment.processed") \/ e.type = "payment.processed"
      /\ RefundLogged(o)' <=>
            RefundLogged(o) \/ (e.type = "order.cancelled" /\ e.from # "PENDING")
  BY <1>1, LoggedAfter, RefundLoggedAfter
<1>4. Charged = {p \in Orders : Logged(p, "payment.processed")}
      /\ Refunded = {p \in Orders : RefundLogged(p)}
  BY DEF Charged, Refunded, RefundLogged
<1>5. Charged' = {p \in Orders : Logged(p, "payment.processed")'}
      /\ Refunded' = {p \in Orders : RefundLogged(p)'}
  BY DEF Charged, Refunded, RefundLogged
<1>. QED
  BY <1>2, <1>3, <1>4, <1>5

\* A step with an effect is the life cycle's Pay, Ship, Deliver or Cancel.
LEMMA EffectRefines ==
    ASSUME HInv, NEW o \in Orders, NEW e \in Entries, Changes(o, e), Effect(o, e),
           status' \in [Orders -> Statuses \union {None}],
           item' \in [Orders -> Contents \union {None}]
    PROVE  Lifecycle!Next
<1> USE DEF HInv, IInv, TypeOK
<1>1. status' = [status EXCEPT ![o] = status'[o]] /\ item' = item
  BY DEF Changes, Effect, TablesTyped
<1>2. /\ Charged' = Charged \union {p \in {o} : e.type = "payment.processed"}
      /\ Refunded' = Refunded \union
            {p \in {o} : e.type = "order.cancelled" /\ e.from # "PENDING"}
  BY MoneyMoves
<1>3. CASE e.type = "payment.processed"
  BY <1>1, <1>2, <1>3 DEF Effect, Effects, Lifecycle!Next, Lifecycle!Pay, Lifecycle!Move
<1>4. CASE e.type = "order.shipped"
  BY <1>1, <1>2, <1>4 DEF Effect, Effects, Lifecycle!Next, Lifecycle!Ship, Lifecycle!Move
<1>5. CASE e.type = "order.delivered"
  BY <1>1, <1>2, <1>5 DEF Effect, Effects, Lifecycle!Next, Lifecycle!Deliver, Lifecycle!Move
<1>6. CASE e.type = "order.cancelled"
  <2>1. status[o] \in {"PENDING", "PAID", "SHIPPED"} /\ status'[o] = "CANCELLED"
        /\ e.from = status[o]
    BY <1>6 DEF Effect, Effects
  <2>2. o \in Charged <=> status[o] # "PENDING"
    BY <2>1 DEF Charged, EffectsLast, MoneyLogged, OneTimeEffects, Later
  <2>3. Refunded' = Refunded \union (Charged \intersect {o}) /\ Charged' = Charged
    BY <1>2, <1>6, <2>1, <2>2
  <2>. QED
    BY <1>1, <2>1, <2>3 DEF Lifecycle!Next, Lifecycle!Cancel, Lifecycle!Move
<1>. QED
  BY <1>3, <1>4, <1>5, <1>6 DEF Effect, Effects

\* A step that logs no effect fails the order, edits it, or changes nothing.
LEMMA RemarkRefines ==
    ASSUME HInv, NEW o \in Orders, NEW e \in Entries, Changes(o, e), Remark(o, e),
           status' \in [Orders -> Statuses \union {None}],
           item' \in [Orders -> Contents \union {None}]
    PROVE  Lifecycle!Next \/ UNCHANGED <<status, item, Charged, Refunded>>
<1> USE DEF HInv, IInv, TypeOK
<1>1. status' = [status EXCEPT ![o] = status'[o]] /\ item' = [item EXCEPT ![o] = item'[o]]
  BY DEF Changes, TablesTyped
<1>2. Charged' = Charged /\ Refunded' = Refunded
  BY MoneyMoves DEF Remark, OneTimeEffects
<1>3. CASE status'[o] = status[o] /\ item'[o] = item[o]
  BY <1>1, <1>2, <1>3 DEF TablesTyped
<1>4. CASE status'[o] = "FAILED" /\ item'[o] = item[o]
  <2>1. status[o] \in Statuses /\ item' = item
    BY <1>1, <1>4 DEF Remark, TablesTyped
  <2>2. Lifecycle!Fail(o)
    BY <1>1, <1>2, <1>4, <2>1 DEF Lifecycle!Fail, Lifecycle!Move, Lifecycle!Statuses, Statuses
  <2>. QED
    BY <2>2 DEF Lifecycle!Next
<1>5. CASE status[o] = "PENDING" /\ status'[o] = "PENDING" /\ item'[o] \in Contents
  <2>1. status' = status
    BY <1>1, <1>5 DEF TablesTyped
  <2>2. Lifecycle!Edit(o)
    BY <1>1, <1>2, <1>5, <2>1 DEF Lifecycle!Edit, Lifecycle!Contents, Contents
  <2>. QED
    BY <2>2 DEF Lifecycle!Next
<1>. QED
  BY <1>3, <1>4, <1>5 DEF Remark

\* Inserting a batch is the life cycle's Create.
LEMMA CreateRefines ==
    ASSUME HInv, NEW os \in SUBSET Orders, Creates(os),
           item' \in [Orders -> Contents \union {None}]
    PROVE  Lifecycle!Next
<1>1. Charged' = Charged /\ Refunded' = Refunded
  <2>1. \A o \in Orders : /\ Logged(o, "payment.processed")' <=> Logged(o, "payment.processed")
                          /\ RefundLogged(o)' <=> RefundLogged(o)
    <3> SUFFICES ASSUME NEW o \in Orders
                 PROVE  /\ Logged(o, "payment.processed")' <=> Logged(o, "payment.processed")
                        /\ RefundLogged(o)' <=> RefundLogged(o)
      OBVIOUS
    <3>1. CASE o \notin os
      BY <3>1 DEF Creates, Logged, RefundLogged
    <3>2. CASE o \in os
      <4> DEFINE e == Entry("order.created", None, "PENDING")
      <4>1. e \in Entries /\ e.type = "order.created"
        BY StatusNames DEF Entry, Entries, AuditTypes, Announcements, Announces
      <4>2. events'[o] = Append(events[o], e)
        BY <3>2 DEF Creates
      <4> HIDE DEF e
      <4>. QED
        BY <4>1, <4>2, LoggedAfter, RefundLoggedAfter DEF HInv
    <3>. QED
      BY <3>1, <3>2
  <2>. QED
    BY <2>1 DEF Charged, Refunded, RefundLogged
<1>2. Lifecycle!Create(os)
  BY <1>1 DEF Creates, Lifecycle!Create, Lifecycle!Contents, Contents
<1>. QED
  BY <1>2 DEF Lifecycle!Next

\* Whatever the handlers, tasks, retries and faults do, an order goes only
\* through the steps of the atomic life cycle, its money included.
THEOREM Refinement == Spec => ImplementsLifecycle
<1>1. Init => Lifecycle!Init
  BY DEF Init, Lifecycle!Init, Charged, Refunded, Logged
<1>2. HInv /\ HInv' /\ [Next]_vars => [Lifecycle!Next]_(Lifecycle!vars)
  <2> SUFFICES ASSUME HInv, HInv', [Next]_vars
               PROVE  [Lifecycle!Next]_(Lifecycle!vars)
    OBVIOUS
  <2>1. status' \in [Orders -> Statuses \union {None}]
        /\ item' \in [Orders -> Contents \union {None}]
    BY DEF HInv, IInv, TypeOK, TablesTyped
  <2>2. CASE UNCHANGED <<status, item, events>>
    BY <2>2 DEF Lifecycle!vars, Charged, Refunded, Logged
  <2>3. ASSUME NEW o \in Orders, NEW e \in Entries, Changes(o, e)
        PROVE  [Lifecycle!Next]_(Lifecycle!vars)
    BY <2>1, <2>3, EffectRefines, RemarkRefines DEF Changes, Lifecycle!vars
  <2>4. ASSUME NEW os \in SUBSET Orders, Creates(os)
        PROVE  [Lifecycle!Next]_(Lifecycle!vars)
    BY <2>1, <2>4, CreateRefines
  <2>5. CASE UNCHANGED vars
    BY <2>2, <2>5 DEF vars, tables
  <2>. QED
    BY <2>2, <2>3, <2>4, <2>5, HistorySteps DEF HInv
<1>. QED
  BY <1>1, <1>2, HistoryInvariance, PTL DEF Spec, ImplementsLifecycle, Lifecycle!Spec
=============================================================================
