-------------------------- MODULE AppEffectsProofs --------------------------
(***************************************************************************)
(* What the page's steps keep true of the retries it counts, the failures  *)
(* it reports, its connection, its tracked orders and what it shows of     *)
(* them, its spinners and its prices, for every session.                   *)
(* OrderAppProofs has the page's invariant and, per step, what it does to  *)
(* the requests under way; here those facts are put to use.                *)
(***************************************************************************)
EXTENDS OrderAppProofs, WellFoundedInduction

\* The retries of o that the engine accepted and the page has not counted.
Accepted(o) ==
    {c \in UnderWay("retry") : fetch[c].stage = "ok" /\ Of(c) = o}

\* The page's count and those answers are all from the order's timeline.
Counted ==
    \A o \in Orders : retryCounts[o] + Cardinality(Accepted(o)) <= retried[o]

\* A report under way is of an order marked as reported, with its retries.
Marked ==
    \A c \in UnderWay("fail") :
        /\ Of(c) \in Orders /\ Of(c) \in failTriggered
        /\ retried[Of(c)] >= MaxRetries

CountInv == PageInv /\ Counted /\ Marked /\ OneFailAtATime

LEMMA AcceptedFinite ==
    ASSUME NEW o
    PROVE  IsFiniteSet(Accepted(o)) /\ Cardinality(Accepted(o)) \in Nat
<1>1. IsFiniteSet(Fetches)
  BY FS_Interval, AppConstants DEF Fetches
<1>2. Accepted(o) \in SUBSET Fetches
  BY DEF Accepted, UnderWay
<1> QED
  BY <1>1, <1>2, FS_Subset, FS_CardinalityType

\* Slots that are even accept no retry and report nothing.
LEMMA AcceptedShrinks ==
    ASSUME NEW o, \A d \in Fetches : EvenSlot(d)
    PROVE  Accepted(o)' \subseteq Accepted(o)
BY DEF Accepted, UnderWay, EvenSlot, Of

\* Answers that come to nothing leave the count right.
LEMMA CountKept ==
    ASSUME PageInv, Counted, TypeOK',
           \A o \in Orders : retryCounts'[o] = retryCounts[o],
           \A o \in Orders : retried'[o] >= retried[o],
           \A o \in Orders : Accepted(o)' \subseteq Accepted(o)
    PROVE  Counted'
<1> SUFFICES ASSUME NEW o \in Orders
             PROVE  retryCounts'[o] + Cardinality(Accepted(o)') <= retried'[o]
  BY DEF Counted
<1>1. Cardinality(Accepted(o)') <= Cardinality(Accepted(o))
  BY AcceptedFinite, FS_Subset
<1>2. Cardinality(Accepted(o)) \in Nat /\ Cardinality(Accepted(o)') \in Nat
  <2>1. Accepted(o)' \in SUBSET Accepted(o)
    OBVIOUS
  <2> QED
    BY <2>1, AcceptedFinite, FS_Subset, FS_CardinalityType
<1>3. /\ retryCounts[o] \in Nat /\ retried[o] \in Nat
      /\ retryCounts'[o] \in Nat /\ retried'[o] \in Nat
  BY DEF PageInv, TypeOK
<1>4. retryCounts[o] + Cardinality(Accepted(o)) <= retried[o]
  BY DEF Counted
<1> QED
  BY <1>1, <1>2, <1>3, <1>4

\* Where nothing is reported, the reports under way stay marked and apart.
LEMMA ReportsKept ==
    ASSUME PageInv, Marked, OneFailAtATime, TypeOK',
           \A d \in Fetches : EvenSlot(d),
           UNCHANGED failTriggered,
           \A o \in Orders : retried'[o] >= retried[o]
    PROVE  Marked' /\ OneFailAtATime'
<1>1. \A d \in UnderWay("fail")' : d \in UnderWay("fail") /\ Of(d)' = Of(d)
  BY DEF UnderWay, EvenSlot, Of
<1>2. \A o \in Orders : retried[o] \in Nat /\ retried'[o] \in Nat
  BY DEF PageInv, TypeOK
<1>3. MaxRetries \in Nat
  BY AppConstants
<1>4. Marked'
  <2> SUFFICES ASSUME NEW d \in UnderWay("fail")'
               PROVE  /\ Of(d)' \in Orders /\ Of(d)' \in failTriggered'
                      /\ retried'[Of(d)'] >= MaxRetries
    BY DEF Marked
  <2>1. /\ Of(d)' = Of(d) /\ Of(d) \in Orders /\ Of(d) \in failTriggered
        /\ retried[Of(d)] >= MaxRetries
    BY <1>1 DEF Marked
  <2>2. retried'[Of(d)] >= retried[Of(d)]
    BY <2>1
  <2> QED
    BY <1>2, <1>3, <2>1, <2>2
<1>5. OneFailAtATime'
  BY <1>1 DEF OneFailAtATime
<1> QED
  BY <1>4, <1>5

LEMMA EvenKeeps ==
    ASSUME CountInv, TypeOK', Even
    PROVE  Counted' /\ Marked' /\ OneFailAtATime'
<1>1. /\ \A o \in Orders : retryCounts'[o] = retryCounts[o]
      /\ \A o \in Orders : retried'[o] >= retried[o]
      /\ UNCHANGED failTriggered /\ \A d \in Fetches : EvenSlot(d)
  BY DEF Even, CountInv, PageInv, TypeOK
<1> QED
  BY <1>1, AcceptedShrinks, CountKept, ReportsKept DEF CountInv

\* An accepted retry is on the timeline before the page can count it.
LEMMA RetryPaidCounts ==
    ASSUME CountInv, NEW c \in Fetches, retry_payment(c)
    PROVE  Counted' /\ Marked' /\ OneFailAtATime'
<1>1. /\ TypeOK' /\ UNCHANGED <<retryCounts, failTriggered>>
      /\ fetch[c].op = "retry" /\ Of(c) \in Orders
      /\ fetch'[c].op = "retry" /\ fetch'[c].ids = fetch[c].ids
      /\ \A d \in Fetches \ {c} : fetch'[d] = fetch[d]
      /\ Even \/ retried' = [retried EXCEPT ![Of(c)] = @ + 1]
  BY RetryPaid DEF CountInv
<1>2. CASE Even
  BY <1>1, <1>2, EvenKeeps
<1>3. CASE retried' = [retried EXCEPT ![Of(c)] = @ + 1]
  <2>1. /\ retried \in [Orders -> Nat] /\ retryCounts \in [Orders -> Nat]
        /\ retryCounts' = retryCounts
    BY <1>1 DEF CountInv, PageInv, TypeOK
  <2>2. /\ retried'[Of(c)] = retried[Of(c)] + 1
        /\ \A o \in Orders \ {Of(c)} : retried'[o] = retried[o]
    BY <1>1, <1>3, <2>1
  <2>3. Of(c)' = Of(c) /\ \A d \in Fetches \ {c} : Of(d)' = Of(d)
    BY <1>1 DEF Of
  <2>4. \A o \in Orders : o # Of(c) => Accepted(o)' \subseteq Accepted(o)
    BY <1>1, <2>3 DEF Accepted, UnderWay
  <2>5. Accepted(Of(c))' \subseteq Accepted(Of(c)) \union {c}
    BY <1>1, <2>3 DEF Accepted, UnderWay
  <2>6. Counted'
    <3> SUFFICES ASSUME NEW o \in Orders
                 PROVE  retryCounts'[o] + Cardinality(Accepted(o)')
                           <= retried'[o]
      BY DEF Counted
    <3>1. /\ IsFiniteSet(Accepted(o)) /\ Cardinality(Accepted(o)) \in Nat
          /\ retryCounts[o] + Cardinality(Accepted(o)) <= retried[o]
      BY AcceptedFinite DEF CountInv, Counted
    <3>2. CASE o # Of(c)
      <4>1. Accepted(o)' \in SUBSET Accepted(o)
        BY <2>4, <3>2
      <4>2. /\ Cardinality(Accepted(o)') <= Cardinality(Accepted(o))
            /\ Cardinality(Accepted(o)') \in Nat
        BY <3>1, <4>1, FS_Subset, FS_CardinalityType
      <4> QED
        BY <2>1, <2>2, <3>1, <3>2, <4>2
    <3>3. CASE o = Of(c)
      <4>1. /\ IsFiniteSet(Accepted(o) \union {c})
            /\ Cardinality(Accepted(o) \union {c})
                  = IF c \in Accepted(o) THEN Cardinality(Accepted(o))
                                         ELSE Cardinality(Accepted(o)) + 1
        BY <3>1, FS_AddElement
      <4>2. Accepted(o)' \in SUBSET (Accepted(o) \union {c})
        BY <2>3, <2>5, <3>3
      <4>3. /\ Cardinality(Accepted(o)') <= Cardinality(Accepted(o) \union {c})
            /\ Cardinality(Accepted(o)') \in Nat
        BY <4>1, <4>2, FS_Subset, FS_CardinalityType
      <4> QED
        BY <2>1, <2>2, <3>1, <3>3, <4>1, <4>3
    <3> QED
      BY <3>2, <3>3
  <2>7. \A o \in Orders : retried'[o] >= retried[o]
    BY <2>1, <2>2
  <2>8. UnderWay("fail")' = UnderWay("fail")
    BY <1>1 DEF UnderWay
  <2>9. \A d \in UnderWay("fail") : d \in Fetches \ {c}
    BY <1>1 DEF UnderWay
  <2>10. Marked'
    <3> SUFFICES ASSUME NEW d \in UnderWay("fail")
                 PROVE  /\ Of(d)' \in Orders /\ Of(d)' \in failTriggered'
                        /\ retried'[Of(d)'] >= MaxRetries
      BY <2>8 DEF Marked
    <3>1. /\ Of(d)' = Of(d) /\ Of(d) \in Orders /\ Of(d) \in failTriggered
          /\ retried[Of(d)] >= MaxRetries
      BY <2>3, <2>9 DEF CountInv, Marked
    <3>2. /\ retried'[Of(d)] >= retried[Of(d)] /\ retried[Of(d)] \in Nat
          /\ retried'[Of(d)] \in Nat /\ MaxRetries \in Nat
      BY <1>1, <2>1, <2>7, <3>1, AppConstants DEF TypeOK
    <3> QED
      BY <1>1, <3>1, <3>2
  <2>11. OneFailAtATime'
    BY <2>3, <2>8, <2>9 DEF CountInv, OneFailAtATime
  <2> QED
    BY <2>6, <2>10, <2>11
<1> QED
  BY <1>1, <1>2, <1>3

\* The page counts an answer once, for the answer is then gone.
LEMMA RetryAnsweredCounts ==
    ASSUME CountInv, NEW c \in Fetches, retry_answered(c)
    PROVE  Counted' /\ Marked' /\ OneFailAtATime'
<1>1. /\ TypeOK' /\ UNCHANGED <<retried, failTriggered>>
      /\ \A d \in Fetches : EvenSlot(d)
      /\ Of(c) \in Orders
      /\ \/ UNCHANGED retryCounts
         \/ /\ fetch[c].op = "retry" /\ fetch[c].stage = "ok"
            /\ fetch'[c] = Idle
            /\ retryCounts' = [retryCounts EXCEPT ![Of(c)] = @ + 1]
  BY RetryAnswered DEF CountInv
<1>2. /\ retried \in [Orders -> Nat] /\ retryCounts \in [Orders -> Nat]
      /\ \A o \in Orders : retried'[o] >= retried[o]
  BY <1>1 DEF CountInv, PageInv, TypeOK
<1>3. \A o \in Orders : Accepted(o)' \subseteq Accepted(o)
  BY <1>1, AcceptedShrinks
<1>4. Marked' /\ OneFailAtATime'
  BY <1>1, <1>2, ReportsKept DEF CountInv
<1>5. CASE UNCHANGED retryCounts
  BY <1>1, <1>2, <1>3, <1>4, <1>5, CountKept DEF CountInv
<1>6. CASE /\ fetch[c].op = "retry" /\ fetch[c].stage = "ok"
           /\ fetch'[c] = Idle
           /\ retryCounts' = [retryCounts EXCEPT ![Of(c)] = @ + 1]
  <2>1. c \in Accepted(Of(c))
    BY <1>6 DEF Accepted, UnderWay
  <2>2. \A o : c \notin Accepted(o)'
    BY <1>6 DEF Accepted, UnderWay, Idle
  <2> SUFFICES ASSUME NEW o \in Orders
               PROVE  retryCounts'[o] + Cardinality(Accepted(o)') <= retried'[o]
    BY <1>4 DEF Counted
  <2>3. /\ IsFiniteSet(Accepted(o)) /\ Cardinality(Accepted(o)) \in Nat
        /\ retryCounts[o] + Cardinality(Accepted(o)) <= retried[o]
    BY AcceptedFinite DEF CountInv, Counted
  <2>4. /\ Cardinality(Accepted(o)') <= Cardinality(Accepted(o))
        /\ Cardinality(Accepted(o)') \in Nat
    <3>1. Accepted(o)' \in SUBSET Accepted(o)
      BY <1>3
    <3> QED
      BY <2>3, <3>1, FS_Subset, FS_CardinalityType
  <2>5. CASE o # Of(c)
    <3>1. retryCounts'[o] = retryCounts[o]
      BY <1>2, <1>6, <2>5
    <3> QED
      BY <1>1, <1>2, <2>3, <2>4, <3>1
  <2>6. CASE o = Of(c)
    <3>1. retryCounts'[o] = retryCounts[o] + 1
      BY <1>2, <1>6, <2>6
    <3>2. Accepted(o)' \in SUBSET (Accepted(o) \ {c})
      BY <1>3, <2>2
    <3>3. /\ IsFiniteSet(Accepted(o) \ {c})
          /\ Cardinality(Accepted(o) \ {c}) = Cardinality(Accepted(o)) - 1
      BY <2>1, <2>3, <2>6, FS_RemoveElement
    <3>4. Cardinality(Accepted(o)') <= Cardinality(Accepted(o)) - 1
      BY <3>2, <3>3, FS_Subset
    <3> QED
      BY <1>1, <1>2, <2>3, <2>4, <3>1, <3>4
  <2> QED
    BY <2>5, <2>6
<1> QED
  BY <1>1, <1>5, <1>6

\* A new report is of an order that has its retries and no report yet.
LEMMA TriggeredMarks ==
    ASSUME CountInv, NEW o \in Orders, trigger_fail(o)
    PROVE  Counted' /\ Marked' /\ OneFailAtATime'
<1>1. /\ TypeOK' /\ UNCHANGED <<retryCounts, retried>>
      /\ o \notin failTriggered
      /\ failTriggered' = failTriggered \union {o}
      /\ retryCounts[o] >= MaxRetries
  BY Triggered DEF CountInv
<1>2. PICK c \in Fetches :
         /\ fetch'[c].op = "fail" => Of(c)' = o
         /\ EvenSlot(c) \/ fetch'[c].op = "fail"
         /\ \A d \in Fetches \ {c} : fetch'[d] = fetch[d]
  BY Triggered DEF CountInv
<1>3. \A p \in Orders : Accepted(p)' \subseteq Accepted(p)
  BY <1>2 DEF Accepted, UnderWay, EvenSlot, Of
<1>4. Counted'
  <2>1. /\ \A p \in Orders : retryCounts'[p] = retryCounts[p]
        /\ \A p \in Orders : retried'[p] >= retried[p]
    BY <1>1 DEF CountInv, PageInv, TypeOK
  <2> QED
    BY <1>1, <1>3, <2>1, CountKept DEF CountInv
<1>5. retried[o] >= MaxRetries
  <2>1. /\ retryCounts[o] \in Nat /\ retried[o] \in Nat /\ MaxRetries \in Nat
        /\ Cardinality(Accepted(o)) \in Nat
    BY AcceptedFinite, AppConstants DEF CountInv, PageInv, TypeOK
  <2>2. retryCounts[o] + Cardinality(Accepted(o)) <= retried[o]
    BY DEF CountInv, Counted
  <2> QED
    BY <1>1, <2>1, <2>2
<1>6. \A d \in UnderWay("fail")' :
         \/ d = c /\ Of(d)' = o
         \/ d \in UnderWay("fail") /\ Of(d)' = Of(d)
  BY <1>2 DEF UnderWay, Of
<1>7. Marked'
  BY <1>1, <1>5, <1>6 DEF CountInv, Marked
<1>8. \A d \in UnderWay("fail") : Of(d) # o
  BY <1>1 DEF CountInv, Marked
<1>9. OneFailAtATime'
  BY <1>6, <1>8 DEF CountInv, OneFailAtATime
<1> QED
  BY <1>4, <1>7, <1>9

\* A lost report takes back its own mark and no other's.
LEMMA LostUnmarks ==
    ASSUME CountInv, NEW c \in Fetches, lose(c)
    PROVE  Counted' /\ Marked' /\ OneFailAtATime'
<1>1. /\ TypeOK' /\ UNCHANGED <<retryCounts, retried>>
      /\ failTriggered' = ref_reset(c)
      /\ fetch'[c] = Idle
      /\ \A d \in Fetches \ {c} : fetch'[d] = fetch[d]
      /\ \A d \in Fetches : EvenSlot(d)
  BY Lost DEF CountInv
<1>2. Counted'
  <2>1. /\ \A o \in Orders : retryCounts'[o] = retryCounts[o]
        /\ \A o \in Orders : retried'[o] >= retried[o]
    BY <1>1 DEF CountInv, PageInv, TypeOK
  <2> QED
    BY <1>1, <2>1, AcceptedShrinks, CountKept DEF CountInv
<1>3. \A d \in UnderWay("fail")' :
         d # c /\ d \in UnderWay("fail") /\ Of(d)' = Of(d)
  BY <1>1 DEF UnderWay, Idle, Of
<1>4. \A d \in UnderWay("fail") \ {c} :
         Of(d) \in failTriggered => Of(d) \in failTriggered'
  <2>1. CASE fetch[c].op = "fail"
    <3>1. c \in UnderWay("fail")
      BY <2>1 DEF UnderWay
    <3>2. \A d \in UnderWay("fail") \ {c} : Of(d) # Of(c)
      BY <3>1 DEF CountInv, OneFailAtATime
    <3> QED
      BY <1>1, <3>2 DEF ref_reset
  <2>2. CASE fetch[c].op # "fail"
    BY <1>1, <2>2 DEF ref_reset
  <2> QED
    BY <2>1, <2>2
<1>5. Marked'
  BY <1>1, <1>3, <1>4 DEF CountInv, Marked
<1>6. OneFailAtATime'
  BY <1>3 DEF CountInv, OneFailAtATime
<1> QED
  BY <1>2, <1>5, <1>6

-----------------------------------------------------------------------------

LEMMA CountInit ==
    ASSUME Init
    PROVE  CountInv
<1>1. PageInv
  BY PageInit
<1>2. \A c \in Fetches : fetch[c].op \in {"history", "none"}
  BY DEF Init, Idle
<1>3. \A o : Accepted(o) = {}
  BY <1>2 DEF Accepted, UnderWay
<1>4. Counted
  <2>1. \A o \in Orders : retryCounts[o] = 0 /\ retried[o] = 0
    BY DEF Init
  <2> SUFFICES ASSUME NEW o \in Orders
               PROVE  retryCounts[o] + Cardinality(Accepted(o)) <= retried[o]
    BY DEF Counted
  <2>2. Accepted(o) = {}
    BY <1>3
  <2>3. Cardinality(Accepted(o)) = 0
    BY <2>2, FS_EmptySet
  <2> QED
    BY <2>1, <2>3
<1>5. Marked /\ OneFailAtATime
  BY <1>2 DEF Marked, OneFailAtATime, UnderWay
<1> QED
  BY <1>1, <1>4, <1>5 DEF CountInv

\* The steps that count retries or mark orders, and all others.
LEMMA EvenSteps ==
    ASSUME PageInv, [Next]_vars
    PROVE  \/ Even
           \/ \E o \in Orders : trigger_fail(o)
           \/ \E c \in Fetches :
                 retry_payment(c) \/ retry_answered(c) \/ lose(c)
<1>1. CASE UNCHANGED vars
  BY <1>1 DEF Even, EvenSlot, vars, engine, tracker
<1>2. CASE \E c \in Fetches : \/ create(c) \/ read(c)
                              \/ order_placed(c) \/ orders_imported(c)
  BY <1>2, Created, WasRead, Placed, Imported
<1>3. CASE CalmStep
  <2>1. CASE \E o \in Orders : Customers(o)
    BY <2>1, CustomerSteps DEF Ordinary
  <2>2. CASE \E c \in Fetches : request(c) \/ fail_payment(c)
    BY <2>2, RequestSteps DEF Ordinary
  <2>3. CASE \E c \in Fetches : fail_answered(c) \/ poll_answered(c)
    BY <2>3, FailAnswered, PollAnswered DEF Ordinary
  <2>4. CASE \E c \in Fetches :
                \/ payment_submitted(c) \/ history_fetched(c)
                \/ detail_loaded(c) \/ refetch(c)
                \/ update_queued(c) \/ cancellation_queued(c)
    BY <2>4, AnswerSteps DEF Ordinary
  <2>5. CASE \E i \in DOMAIN activeBatch : expire(i)
    BY <2>5, ExpireStep DEF Ordinary
  <2>6. CASE User \/ poll
    BY <2>6, UserSteps, PollStep DEF Ordinary
  <2>7. CASE Socket
    BY <2>7, LinkSteps, PushArrives DEF Socket, Ordinary
  <2> QED
    BY <1>3, <2>1, <2>2, <2>3, <2>4, <2>5, <2>6, <2>7 DEF CalmStep
<1> QED
  BY <1>1, <1>2, <1>3, StepsAre

LEMMA CountStep ==
    ASSUME CountInv, [Next]_vars
    PROVE  CountInv'
<1>1. PageInv /\ PageInv' /\ TypeOK'
  BY PageStep DEF CountInv, PageInv
<1>2. CASE Even
  BY <1>1, <1>2, EvenKeeps DEF CountInv
<1>3. CASE \E o \in Orders : trigger_fail(o)
  BY <1>1, <1>3, TriggeredMarks DEF CountInv
<1>4. CASE \E c \in Fetches : retry_payment(c)
  BY <1>1, <1>4, RetryPaidCounts DEF CountInv
<1>5. CASE \E c \in Fetches : retry_answered(c)
  BY <1>1, <1>5, RetryAnsweredCounts DEF CountInv
<1>6. CASE \E c \in Fetches : lose(c)
  BY <1>1, <1>6, LostUnmarks DEF CountInv
<1> QED
  BY <1>1, <1>2, <1>3, <1>4, <1>5, <1>6, EvenSteps

\* The page's retry count, the answers still to be counted and the reports
\* under way never run ahead of the engine's timeline.
THEOREM CountInvariance == Spec => []CountInv
<1>1. Init => CountInv
  BY CountInit
<1>2. CountInv /\ [Next]_vars => CountInv'
  BY CountStep
<1> QED
  BY <1>1, <1>2, PTL DEF Spec

\* The page reports an order as failed (App.js:356) only when the engine's
\* own timeline has all the retries, whatever answers are lost or late.
THEOREM FailureIsEarned == Spec => []FailIsEarned
<1>1. CountInv => FailIsEarned
  <2> SUFFICES ASSUME CountInv
               PROVE  FailIsEarned
    OBVIOUS
  <2>1. \A o \in Orders : retryCounts[o] <= retried[o]
    <3> SUFFICES ASSUME NEW o \in Orders
                 PROVE  retryCounts[o] <= retried[o]
      OBVIOUS
    <3>1. /\ retryCounts[o] \in Nat /\ retried[o] \in Nat
          /\ Cardinality(Accepted(o)) \in Nat
      BY AcceptedFinite DEF CountInv, PageInv, TypeOK
    <3>2. retryCounts[o] + Cardinality(Accepted(o)) <= retried[o]
      BY DEF CountInv, Counted
    <3> QED
      BY <3>1, <3>2
  <2> QED
    BY <2>1 DEF CountInv, Marked, FailIsEarned
<1> QED
  BY <1>1, CountInvariance, PTL

\* Two reports of one order are never under way at once (App.js:347), though
\* a lost one is repeated.
THEOREM ReportsAreSingle == Spec => []OneFailAtATime
<1>1. CountInv => OneFailAtATime
  BY DEF CountInv
<1> QED
  BY <1>1, CountInvariance, PTL

-----------------------------------------------------------------------------

\* Only the socket's own events touch the connection and its indicator.
LEMMA LinkStep ==
    ASSUME PageInv, NotLeftAlone, [Next]_vars
    PROVE  NotLeftAlone'
<1>1. CASE UNCHANGED <<wsConnected, socket>>
  BY <1>1 DEF NotLeftAlone
<1>2. CASE onopen \/ onclose \/ first_socket_closes
  BY <1>2 DEF onopen, onclose, first_socket_closes, disconnected, NotLeftAlone
<1>3. CASE UNCHANGED vars
  BY <1>1, <1>3 DEF vars, link
<1>4. CASE \E c \in Fetches : \/ create(c) \/ read(c)
                              \/ order_placed(c) \/ orders_imported(c)
  BY <1>1, <1>4, Created, WasRead, Placed, Imported
<1>5. CASE CalmStep
  <2>1. CASE \E o \in Orders : Customers(o) \/ trigger_fail(o)
    BY <1>1, <2>1, CustomerSteps, Triggered DEF Ordinary
  <2>2. CASE \E c \in Fetches :
                \/ request(c) \/ fail_payment(c) \/ retry_payment(c) \/ lose(c)
    BY <1>1, <2>2, RequestSteps, RetryPaid, Lost DEF Ordinary
  <2>3. CASE \E c \in Fetches :
                retry_answered(c) \/ fail_answered(c) \/ poll_answered(c)
    BY <1>1, <2>3, RetryAnswered, FailAnswered, PollAnswered DEF Ordinary
  <2>4. CASE \E c \in Fetches :
                \/ payment_submitted(c) \/ history_fetched(c)
                \/ detail_loaded(c) \/ refetch(c)
                \/ update_queued(c) \/ cancellation_queued(c)
    BY <1>1, <2>4, AnswerSteps DEF Ordinary
  <2>5. CASE \E i \in DOMAIN activeBatch : expire(i)
    BY <1>1, <2>5, ExpireStep DEF Ordinary
  <2>6. CASE User \/ poll
    BY <1>1, <2>6, UserSteps, PollStep DEF Ordinary
  <2>7. CASE Socket
    BY <1>1, <1>2, <2>7, PushArrives DEF Socket, Ordinary
  <2> QED
    BY <1>5, <2>1, <2>2, <2>3, <2>4, <2>5, <2>6, <2>7 DEF CalmStep
<1> QED
  BY <1>3, <1>4, <1>5, StepsAre

\* Whatever order the sockets of both mounts open, fail and close in, a page
\* without a live socket polls (App.js:77, 312).
THEOREM NeverLeftAlone == Spec => []NotLeftAlone
<1>1. Init => NotLeftAlone
  BY DEF Init, NotLeftAlone
<1>2. PageInv /\ NotLeftAlone /\ [Next]_vars => NotLeftAlone'
  BY LinkStep
<1> QED
  BY <1>1, <1>2, PageInvariance, PTL DEF Spec

-----------------------------------------------------------------------------

LEMMA SameRowsTracked ==
    ASSUME SameRows
    PROVE  Tracked \subseteq Tracked'
BY DEF SameRows, Tracked

LEMMA RowsStep ==
    ASSUME PageInv, [Next]_vars, activeBatch' # activeBatch
    PROVE  \/ Tracked \subseteq Tracked'
           \/ /\ activeBatch' = <<>>
              /\ HasActive /\ ActiveOrder.status \in TERMINAL_STATES
           \/ \E c \in UnderWay("bulk") :
                 fetch[c].stage = "ok" /\ c \notin UnderWay("bulk")'
<1>1. CASE UNCHANGED vars
  BY <1>1 DEF vars, tracker
<1>2. CASE \E c \in Fetches : create(c) \/ read(c)
  BY <1>2, Created, WasRead
<1>3. CASE \E c \in Fetches : order_placed(c)
  BY <1>3, Placed
<1>4. CASE \E c \in Fetches : orders_imported(c)
  BY <1>4, Imported
<1>5. CASE \E c \in Fetches :
              \/ request(c) \/ retry_payment(c) \/ fail_payment(c) \/ lose(c)
              \/ payment_submitted(c) \/ history_fetched(c) \/ detail_loaded(c)
              \/ refetch(c) \/ update_queued(c) \/ cancellation_queued(c)
  BY <1>5 DEF request, retry_payment, fail_payment, lose, payment_submitted,
              history_fetched, detail_loaded, refetch, update_queued,
              cancellation_queued, queued, page, tracker
<1>6. CASE \E c \in Fetches :
              retry_answered(c) \/ fail_answered(c) \/ poll_answered(c)
  BY <1>6, RetryAnswered, FailAnswered, PollAnswered, SameRowsTracked
<1>7. CASE \E i \in DOMAIN activeBatch : expire(i)
  BY <1>7, ExpireStep, SameRowsTracked
<1>8. CASE \E o \in Orders : Customers(o) \/ trigger_fail(o)
  BY <1>8 DEF Customers, order_moves, order_edited, other_order, other_edit, trigger_fail,
              page, tracker
<1>9. CASE User
  <2>1. CASE dismiss
    BY <2>1 DEF dismiss, dismissable
  <2>2. CASE User /\ ~dismiss
    BY <2>2 DEF User, handlePlaceOrder, open_bulk, handleBulkSubmit,
       handlePayAll, handleRetryOrder, turn, refresh, close_dialog,
       handleCancelOrder, handlePayOrder, openDetailDialog, open_dialog,
       setStatusFilter, handleUpdateOrder, tracker
  <2> QED
    BY <1>9, <2>1, <2>2
<1>10. CASE poll
  BY <1>10 DEF poll, tracker
<1>11. CASE Socket
  <2>1. CASE \E push \in wire : onmessage(push)
    BY <2>1, PushArrives, SameRowsTracked
  <2>2. CASE onopen \/ onclose \/ first_socket_closes
    BY <2>2 DEF onopen, onclose, first_socket_closes, tracker
  <2> QED
    BY <1>11, <2>1, <2>2 DEF Socket
<1> QED
  BY <1>1, <1>2, <1>3, <1>4, <1>5, <1>6, <1>7, <1>8, <1>9, <1>10, <1>11,
     StepsAre DEF CalmStep

\* The user keeps sight of every tracked order but by an import or by the
\* button that dismisses a batch (App.js:219, 768).
THEOREM TrackedRowsStay == Spec => RowsStay
<1>1. PageInv /\ [Next]_vars =>
         [ \/ Tracked \subseteq Tracked'
           \/ /\ activeBatch' = <<>>
              /\ HasActive /\ ActiveOrder.status \in TERMINAL_STATES
           \/ \E c \in UnderWay("bulk") :
                 fetch[c].stage = "ok" /\ c \notin UnderWay("bulk")'
         ]_activeBatch
  BY RowsStep
<1> QED
  BY <1>1, PageInvariance, PTL DEF Spec, RowsStay
-----------------------------------------------------------------------------
(* What is shown was true: so was what is on its way to the page.          *)

\* If s is a status at all, o has it now or had it before.
Told(o, s) == s # None => CameThrough(status[o], s)

HeardTrue == \A push \in wire : Told(push.id, push.status)
AnswersTrue ==
    \A c \in Fetches : fetch[c] # Idle =>
        \A o \in Orders : Told(o, fetch[c].reply[o])
FailuresTrue ==
    \A c \in UnderWay("fail") :
        fetch[c].stage = "ok" => status[Of(c)] = "FAILED"

ShownInv ==
    PageInv /\ ShownHappened /\ HeardTrue /\ AnswersTrue /\ FailuresTrue

\* Orders only move along their life cycle.
Forward ==
    \A o \in Orders : \/ status'[o] = status[o] \/ status[o] = None
                      \/ <<status[o], status'[o]>> \in Moves

\* A request holds what was told, and the acceptance of a report is true.
ToldSlot(d) ==
    fetch'[d] # Idle =>
        /\ \A o \in Orders : Told(o, fetch'[d].reply[o])
        /\ fetch'[d].op = "fail" /\ fetch'[d].stage = "ok" =>
              status'[fetch'[d].ids[1]] = "FAILED"

RowsTold ==
    /\ \A i \in DOMAIN activeBatch' :
          Told(activeBatch'[i].id, activeBatch'[i].status)
    /\ \A o \in Orders : Told(o, ordersHistory'[o])

\* A step shows and sends what was told before it, or what it makes true.
StepTold ==
    /\ Forward /\ RowsTold
    /\ \A push \in wire' : \/ Told(push.id, push.status)
                           \/ push.status = status'[push.id]
    /\ \A d \in Fetches : ToldSlot(d)

\* What an order came through, it came through whatever it does next.
LEMMA ToldStays ==
    ASSUME status \in Listings, status' \in Listings, Forward,
           NEW o \in Orders, NEW s, Told(o, s)
    PROVE  Told(o, s)'
<1>1. None \notin Statuses
  BY NoneIsFresh
<1>2. status[o] \in Statuses \union {None} /\ status'[o] \in Statuses \union {None}
  BY DEF Listings
<1>3. CASE status'[o] = status[o]
  BY <1>3 DEF Told
<1>4. CASE status[o] = None
  BY <1>1, <1>4 DEF Told, CameThrough, Statuses
<1>5. CASE <<status[o], status'[o]>> \in Moves
  BY <1>1, <1>2, <1>5 DEF Told, CameThrough, Moves, Statuses
<1> QED
  BY <1>3, <1>4, <1>5 DEF Forward

LEMMA FailedStaysShown ==
    ASSUME Forward, NEW o \in Orders, status[o] = "FAILED"
    PROVE  status'[o] = "FAILED"
<1>1. "FAILED" # None
  BY NoneIsFresh DEF Statuses
<1> QED
  BY <1>1 DEF Forward, Moves

LEMMA ReportsAreAboutOrders ==
    ASSUME PageInv, NEW c \in Fetches, fetch[c].op \in OnOne
    PROVE  Of(c) \in Orders /\ fetch[c] \in Requesting
<1>1. fetch[c] \in Requesting /\ fetch[c].ids # <<>>
  BY DEF PageInv, TypeOK, RequestsFit, Idle, OnOne
<1>2. fetch[c].ids \in Seq(Orders)
  BY <1>1 DEF Requesting
<1> QED
  BY <1>1, <1>2 DEF Of

\* Such a step keeps the invariant.
LEMMA ToldKeeps ==
    ASSUME ShownInv, PageInv', StepTold
    PROVE  ShownInv'
<1>1. /\ status \in Listings /\ status' \in Listings /\ Forward
      /\ wire' \subseteq Pushes /\ ordersHistory' \in Listings
      /\ activeBatch' \in Seq(Rows)
  BY DEF ShownInv, PageInv, TypeOK, StepTold
<1>2. \A o \in Orders : \A s : Told(o, s) => Told(o, s)'
  BY <1>1, ToldStays
<1>3. HeardTrue'
  <2> SUFFICES ASSUME NEW push \in wire'
               PROVE  Told(push.id, push.status)'
    BY DEF HeardTrue
  <2>1. push.id \in Orders
    BY <1>1 DEF Pushes
  <2>2. CASE Told(push.id, push.status)
    BY <1>2, <2>1, <2>2
  <2>3. CASE push.status = status'[push.id]
    BY <2>3 DEF Told, CameThrough
  <2> QED
    BY <2>2, <2>3 DEF StepTold
<1>4. AnswersTrue'
  <2> SUFFICES ASSUME NEW c \in Fetches, fetch'[c] # Idle, NEW o \in Orders
               PROVE  Told(o, fetch[c].reply[o])'
    BY DEF AnswersTrue, Idle
  <2>1. Told(o, fetch'[c].reply[o])
    BY DEF StepTold, ToldSlot
  <2>2. PICK s : s = fetch'[c].reply[o]
    OBVIOUS
  <2>3. Told(o, s)'
    BY <1>2, <2>1, <2>2
  <2> QED
    BY <2>2, <2>3 DEF Told
<1>5. FailuresTrue'
  BY DEF StepTold, ToldSlot, FailuresTrue, UnderWay, Of, Idle
<1>6. ShownHappened'
  <2>1. ASSUME NEW i \in DOMAIN activeBatch'
        PROVE  CameThrough(status'[activeBatch'[i].id], activeBatch'[i].status)
    <3>0. activeBatch'[i] \in Rows
      BY <1>1, <2>1
    <3>1. activeBatch'[i].id \in Orders /\ activeBatch'[i].status \in Statuses
      BY <3>0 DEF Rows
    <3>2. PICK o \in Orders, s \in Statuses :
             o = activeBatch'[i].id /\ s = activeBatch'[i].status
      BY <3>1
    <3>3. Told(o, s)'
      BY <1>2, <3>2 DEF StepTold, RowsTold
    <3>4. s # None
      BY NoneIsFresh
    <3> QED
      BY <3>2, <3>3, <3>4 DEF Told
  <2>2. ASSUME NEW o \in Orders, ordersHistory'[o] # None
        PROVE  CameThrough(status'[o], ordersHistory'[o])
    <3>1. PICK s : s = ordersHistory'[o]
      OBVIOUS
    <3>2. Told(o, s)'
      BY <1>2, <3>1 DEF StepTold, RowsTold
    <3> QED
      BY <2>2, <3>1, <3>2 DEF Told
  <2> QED
    BY <2>1, <2>2 DEF ShownHappened
<1> QED
  BY <1>3, <1>4, <1>5, <1>6 DEF ShownInv

\* Requests that stay as they are, stay true.
LEMMA SameSlot ==
    ASSUME ShownInv, Forward, NEW d \in Fetches, fetch'[d] = fetch[d]
    PROVE  ToldSlot(d)
<1> SUFFICES ASSUME fetch[d] # Idle
             PROVE  /\ \A o \in Orders : Told(o, fetch[d].reply[o])
                    /\ fetch[d].op = "fail" /\ fetch[d].stage = "ok" =>
                          status'[Of(d)] = "FAILED"
  BY DEF ToldSlot, Of
<1>1. \A o \in Orders : Told(o, fetch[d].reply[o])
  BY DEF ShownInv, AnswersTrue
<1>2. ASSUME fetch[d].op = "fail", fetch[d].stage = "ok"
      PROVE  status'[Of(d)] = "FAILED"
  <2>1. Of(d) \in Orders
    BY <1>2, ReportsAreAboutOrders DEF ShownInv, OnOne
  <2>2. status[Of(d)] = "FAILED"
    BY <1>2 DEF ShownInv, FailuresTrue, UnderWay
  <2> QED
    BY <2>1, <2>2, FailedStaysShown
<1> QED
  BY <1>1, <1>2

\* A request that is new or over holds no answer.
LEMMA BlankSlot ==
    ASSUME NEW d \in Fetches,
           \/ fetch'[d] = Idle
           \/ fetch'[d].reply = Nothing /\ fetch'[d].stage # "ok"
    PROVE  ToldSlot(d)
BY DEF ToldSlot, Nothing, Told

\* One that only changes its stage holds what it held.
LEMMA StageSlot ==
    ASSUME ShownInv, NEW c \in Fetches, fetch[c] # Idle,
           NEW to \in {"sent", "ok", "refused"},
           fetch' = [fetch EXCEPT ![c].stage = to], Forward,
           fetch[c].op = "fail" /\ to = "ok" => status'[Of(c)] = "FAILED"
    PROVE  \A d \in Fetches : ToldSlot(d)
<1>1. fetch \in AnyFetch
  BY DEF ShownInv, PageInv, TypeOK, AnyFetch
<1>2. /\ fetch'[c].op = fetch[c].op /\ fetch'[c].ids = fetch[c].ids
      /\ fetch'[c].reply = fetch[c].reply /\ fetch'[c].stage = to
      /\ \A d \in Fetches \ {c} : fetch'[d] = fetch[d]
  BY <1>1, StageChanges
<1>3. ToldSlot(c)
  BY <1>2 DEF ToldSlot, Of, ShownInv, AnswersTrue
<1> QED
  BY <1>2, <1>3, SameSlot

\* What the page does to its requests while no answer comes in.
LEMMA PageSlots ==
    ASSUME ShownInv, UNCHANGED status,
           \/ UNCHANGED fetch
           \/ \E r : Send(r) /\ r.reply = Nothing /\ r.stage = "sent"
           \/ \E c \in Fetches :
                 /\ fetch[c] # Idle
                 /\ Done(c) \/ ThenHistory(c, "sent") \/ ThenHistory(c, "timer")
    PROVE  Forward /\ \A d \in Fetches : ToldSlot(d)
<1>1. fetch \in AnyFetch
  BY DEF ShownInv, PageInv, TypeOK, AnyFetch
<1>2. Forward
  BY DEF Forward
<1>3. CASE UNCHANGED fetch
  BY <1>2, <1>3, SameSlot
<1>4. ASSUME NEW r, Send(r), r.reply = Nothing, r.stage = "sent"
      PROVE  \A d \in Fetches : ToldSlot(d)
  <2>1. \A d \in Fetches : fetch'[d] \in {fetch[d], r}
    BY <1>1, <1>4 DEF AnyFetch, Send
  <2> QED
    BY <1>2, <1>4, <2>1, SameSlot, BlankSlot
<1>5. ASSUME NEW c \in Fetches, fetch[c] # Idle,
             Done(c) \/ ThenHistory(c, "sent") \/ ThenHistory(c, "timer")
      PROVE  \A d \in Fetches : ToldSlot(d)
  <2>1. CASE Done(c)
    BY <1>1, <1>2, <2>1, DoneEmpties, SameSlot, BlankSlot
  <2>2. CASE ThenHistory(c, "sent") \/ ThenHistory(c, "timer")
    <3>1. /\ fetch'[c].reply = Nothing /\ fetch'[c].stage \in {"sent", "timer"}
          /\ \A d \in Fetches \ {c} : fetch'[d] = fetch[d]
      BY <1>1, <1>5, <2>2, HistoryFollows
    <3> QED
      BY <1>2, <3>1, SameSlot, BlankSlot
  <2> QED
    BY <1>5, <2>1, <2>2
<1> QED
  BY <1>2, <1>3, <1>4, <1>5

\* Rows that nobody touches show what they showed.
LEMMA SameRowsTold ==
    ASSUME ShownInv, UNCHANGED <<activeBatch, ordersHistory>>
    PROVE  RowsTold
BY DEF ShownInv, ShownHappened, RowsTold, Told

\* A row that is updated with a status that was told shows one that was.
LEMMA UpdateTold ==
    ASSUME ShownInv, NEW o \in Orders, NEW change \in [Rows -> Rows],
           \A row \in Rows : change[row].id = row.id,
           \A row \in Rows : \/ change[row].status = row.status
                             \/ Told(o, change[row].status),
           UpdateRow(o, change)
    PROVE  \A i \in DOMAIN activeBatch' :
              Told(activeBatch'[i].id, activeBatch'[i].status)
<1>1. activeBatch \in Seq(Rows)
  BY DEF ShownInv, PageInv, TypeOK
<1>2. \A i \in DOMAIN activeBatch : activeBatch[i] \in Rows
  BY <1>1
<1> SUFFICES ASSUME NEW i \in DOMAIN activeBatch
             PROVE  Told(activeBatch'[i].id, activeBatch'[i].status)
  BY DEF UpdateRow
<1>3. Told(activeBatch[i].id, activeBatch[i].status)
  BY DEF ShownInv, ShownHappened, Told
<1>4. CASE activeBatch[i].id # o
  <2>1. activeBatch'[i] = activeBatch[i]
    BY <1>4 DEF UpdateRow
  <2> QED
    BY <1>3, <2>1
<1>5. CASE activeBatch[i].id = o
  <2>1. activeBatch'[i] = change[activeBatch[i]]
    BY <1>5 DEF UpdateRow
  <2>2. change[activeBatch[i]].id = activeBatch[i].id
    BY <1>2
  <2>3. CASE change[activeBatch[i]].status = activeBatch[i].status
    BY <1>3, <2>1, <2>2, <2>3
  <2>4. CASE Told(o, change[activeBatch[i]].status)
    BY <1>5, <2>1, <2>2, <2>4
  <2> QED
    BY <1>2, <2>3, <2>4
<1> QED
  BY <1>4, <1>5

-----------------------------------------------------------------------------

\* The page's steps that take in no status.
LEMMA PlainPage ==
    ASSUME ShownInv, \E c \in Fetches :
              \/ User \/ poll \/ onopen \/ onclose \/ first_socket_closes
              \/ \E o \in Orders : trigger_fail(o)
              \/ payment_submitted(c) \/ detail_loaded(c) \/ lose(c)
              \/ update_queued(c) \/ cancellation_queued(c),
           ~dismiss
    PROVE  StepTold
<1>1. UNCHANGED <<status, activeBatch, ordersHistory>> /\ wire' \subseteq wire
  <2>1. CASE User
    BY <2>1 DEF User, handlePlaceOrder, open_bulk, handleBulkSubmit,
       handlePayAll, handleRetryOrder, turn, refresh, close_dialog,
       handleCancelOrder, handlePayOrder, openDetailDialog, open_dialog,
       setStatusFilter, handleUpdateOrder, tracker, engine, history
  <2>2. CASE poll \/ onopen \/ onclose \/ first_socket_closes
    BY <2>2 DEF poll, onopen, onclose, first_socket_closes, tracker, engine,
                history
  <2>3. CASE \E o \in Orders : trigger_fail(o)
    BY <2>3 DEF trigger_fail, engine, history
  <2>4. CASE \E c \in Fetches :
                \/ payment_submitted(c) \/ detail_loaded(c) \/ lose(c)
                \/ update_queued(c) \/ cancellation_queued(c)
    BY <2>4 DEF payment_submitted, detail_loaded, lose, update_queued,
                cancellation_queued, queued, tracker, engine, history
  <2> QED
    BY <2>1, <2>2, <2>3, <2>4
<1>2. \A op, ids, filter :
         /\ Asks(op, ids, filter).reply = Nothing
         /\ Asks(op, ids, filter).stage = "sent"
         /\ \A null : /\ [Asks(op, ids, filter) EXCEPT !.null = null].reply = Nothing
                      /\ [Asks(op, ids, filter) EXCEPT !.null = null].stage = "sent"
  BY DEF Asks
<1>3. \/ UNCHANGED fetch
      \/ \E r : Send(r) /\ r.reply = Nothing /\ r.stage = "sent"
      \/ \E c \in Fetches : fetch[c] # Idle /\ (Done(c) \/ ThenHistory(c, "timer"))
  <2>0. ASSUME NEW op, NEW ids, NEW filter, NEW null,
               \/ Send(Asks(op, ids, filter))
               \/ Send([Asks(op, ids, filter) EXCEPT !.null = null])
        PROVE  \E r : Send(r) /\ r.reply = Nothing /\ r.stage = "sent"
    <3> DEFINE r == Asks(op, ids, filter)
               q == [Asks(op, ids, filter) EXCEPT !.null = null]
    <3>1. /\ r.reply = Nothing /\ r.stage = "sent"
          /\ q.reply = Nothing /\ q.stage = "sent"
      BY <1>2
    <3>2. Send(r) \/ Send(q)
      BY <2>0
    <3> QED
      BY <3>1, <3>2
  <2>1. CASE User
    <3>1. CASE \/ open_bulk \/ close_dialog \/ turn(1) \/ turn(-1)
               \/ \E o \in Orders :
                     open_dialog("edit", o) \/ open_dialog("cancel", o)
      BY <3>1 DEF open_bulk, close_dialog, turn, open_dialog
    <3>2. CASE handlePlaceOrder \/ handleBulkSubmit \/ handlePayAll
      BY <2>0, <3>2 DEF handlePlaceOrder, handleBulkSubmit, handlePayAll
    <3>3. CASE handleRetryOrder \/ handleCancelOrder \/ refresh
      BY <2>0, <3>3 DEF handleRetryOrder, handleCancelOrder, refresh
    <3>4. CASE \E o \in Orders : handlePayOrder(o) \/ openDetailDialog(o)
      BY <2>0, <3>4 DEF handlePayOrder, openDetailDialog
    <3>5. CASE \E filter \in Filters : setStatusFilter(filter)
      BY <2>0, <3>5 DEF setStatusFilter
    <3>6. CASE \E null \in BOOLEAN : handleUpdateOrder(null)
      BY <2>0, <3>6 DEF handleUpdateOrder
    <3> QED
      BY <2>1, <3>1, <3>2, <3>3, <3>4, <3>5, <3>6 DEF User
  <2>2. CASE poll \/ onopen \/ onclose \/ first_socket_closes
    BY <1>2, <2>2 DEF poll, onopen, onclose, first_socket_closes
  <2>3. CASE \E o \in Orders : trigger_fail(o)
    BY <1>2, <2>3 DEF trigger_fail
  <2>4. CASE \E c \in Fetches :
                \/ payment_submitted(c) \/ detail_loaded(c) \/ lose(c)
                \/ update_queued(c) \/ cancellation_queued(c)
    BY <2>4 DEF payment_submitted, detail_loaded, lose, update_queued,
                cancellation_queued, queued, At, Idle
  <2> QED
    BY <2>1, <2>2, <2>3, <2>4
<1>4. Forward /\ \A d \in Fetches : ToldSlot(d)
  BY <1>1, <1>3, PageSlots
<1>5. RowsTold
  BY <1>1, SameRowsTold
<1>6. \A push \in wire' : Told(push.id, push.status)
  BY <1>1 DEF ShownInv, HeardTrue
<1> QED
  BY <1>4, <1>5, <1>6 DEF StepTold

\* The page's steps that change rows but no status on them.
LEMMA PlainRows ==
    ASSUME ShownInv,
           \/ dismiss \/ \E i \in DOMAIN activeBatch : expire(i)
           \/ \E c \in Fetches :
                 order_placed(c) \/ orders_imported(c) \/ retry_answered(c)
    PROVE  StepTold
<1>1. PageInv /\ activeBatch \in Seq(Rows)
  BY DEF ShownInv, PageInv, TypeOK
<1>2. \A i \in DOMAIN activeBatch : activeBatch[i] \in Rows
  BY <1>1
<1>3. \A i \in DOMAIN activeBatch :
         Told(activeBatch[i].id, activeBatch[i].status)
  BY DEF ShownInv, ShownHappened, Told
<1>4. \A o \in Orders : status[o] # None => Told(o, NewRow(o).status)
  BY DEF NewRow, Told, CameThrough
<1>5. UNCHANGED <<status, wire, ordersHistory>>
  BY DEF dismiss, expire, order_placed, orders_imported, retry_answered,
         engine, history
<1>6. \/ UNCHANGED fetch
      \/ \E c \in Fetches : fetch[c] # Idle /\ (Done(c) \/ ThenHistory(c, "sent"))
  <2>1. CASE dismiss \/ \E i \in DOMAIN activeBatch : expire(i)
    BY <2>1 DEF dismiss, expire
  <2>2. ASSUME NEW c \in Fetches,
               order_placed(c) \/ orders_imported(c) \/ retry_answered(c)
        PROVE  fetch[c] # Idle /\ (Done(c) \/ ThenHistory(c, "sent"))
    <3>1. fetch[c].op \in Ops
      BY <2>2 DEF order_placed, orders_imported, retry_answered, At, Ops, OnOne
    <3> QED
      BY <2>2, <3>1 DEF order_placed, orders_imported, retry_answered, Idle, Ops,
                        OnOne
  <2> QED
    BY <2>1, <2>2
<1>7. \A i \in DOMAIN activeBatch' :
         Told(activeBatch'[i].id, activeBatch'[i].status)
  <2>1. CASE dismiss
    BY <2>1 DEF dismiss
  <2>2. ASSUME NEW j \in DOMAIN activeBatch, expire(j)
        PROVE  \A i \in DOMAIN activeBatch' :
                  /\ i \in DOMAIN activeBatch
                  /\ activeBatch'[i].id = activeBatch[i].id
                  /\ activeBatch'[i].status = activeBatch[i].status
    <3>1. activeBatch' = [activeBatch EXCEPT ![j].expired = TRUE]
      BY <2>2 DEF expire
    <3>2. \A row \in Rows : /\ [row EXCEPT !.expired = TRUE].id = row.id
                            /\ [row EXCEPT !.expired = TRUE].status = row.status
      BY DEF Rows
    <3> QED
      BY <1>1, <1>2, <3>1, <3>2
  <2>3. ASSUME NEW c \in Fetches, order_placed(c)
        PROVE  \A i \in DOMAIN activeBatch' :
                  Told(activeBatch'[i].id, activeBatch'[i].status)
    <3>1. Creates(c)
      BY <2>3 DEF order_placed, At, Creates
    <3>2. Of(c) \in Orders /\ status[Of(c)] # None
      BY <1>1, <3>1, CreatedIsNew DEF Of
    <3>3. activeBatch' = Append(activeBatch, NewRow(Of(c)))
      BY <2>3 DEF order_placed, appended
    <3>4. \A i \in DOMAIN activeBatch' :
             \/ i \in DOMAIN activeBatch /\ activeBatch'[i] = activeBatch[i]
             \/ activeBatch'[i] = NewRow(Of(c))
      <4> DEFINE row == NewRow(Of(c))
      <4>1. row \in Rows
        BY <3>2 DEF NewRow, Rows, Statuses
      <4> HIDE DEF row
      <4> QED
        BY <1>1, <3>3, <4>1 DEF row
    <3>5. NewRow(Of(c)).id = Of(c)
      BY DEF NewRow
    <3> QED
      BY <1>3, <1>4, <3>2, <3>4, <3>5
  <2>4. ASSUME NEW c \in Fetches, orders_imported(c)
        PROVE  \A i \in DOMAIN activeBatch' :
                  Told(activeBatch'[i].id, activeBatch'[i].status)
    <3>1. Creates(c)
      BY <2>4 DEF orders_imported, At, Creates
    <3>2. activeBatch' = [i \in DOMAIN fetch[c].ids |-> NewRow(fetch[c].ids[i])]
      BY <2>4 DEF orders_imported
    <3>3. \A i \in DOMAIN fetch[c].ids :
             fetch[c].ids[i] \in Orders /\ status[fetch[c].ids[i]] # None
      BY <1>1, <3>1, CreatedIsNew
    <3>4. \A o : NewRow(o).id = o
      BY DEF NewRow
    <3> QED
      BY <1>4, <3>2, <3>3, <3>4
  <2>5. ASSUME NEW c \in Fetches, retry_answered(c)
        PROVE  \A i \in DOMAIN activeBatch' :
                  Told(activeBatch'[i].id, activeBatch'[i].status)
    <3> DEFINE change == [row \in Rows |-> [row EXCEPT !.expired = FALSE]]
    <3>1. CASE UpdateRow(Of(c), change)
      <4>1. \A row \in Rows : /\ [row EXCEPT !.expired = FALSE] \in Rows
                              /\ [row EXCEPT !.expired = FALSE].id = row.id
                              /\ [row EXCEPT !.expired = FALSE].status = row.status
        BY DEF Rows
      <4>2. /\ change \in [Rows -> Rows]
            /\ \A row \in Rows : /\ change[row].id = row.id
                                 /\ change[row].status = row.status
        BY <4>1
      <4>3. Of(c) \in Orders
        BY <1>1, <2>5, RetryAnswered
      <4> HIDE DEF change
      <4> QED
        BY <3>1, <4>2, <4>3, UpdateTold
    <3>2. CASE UNCHANGED activeBatch
      BY <1>3, <3>2
    <3> QED
      BY <2>5, <3>1, <3>2 DEF retry_answered
  <2> QED
    BY <1>3, <2>1, <2>2, <2>3, <2>4, <2>5
<1>8. Forward /\ \A d \in Fetches : ToldSlot(d)
  BY <1>5, <1>6, PageSlots
<1>9. \A o \in Orders : Told(o, ordersHistory'[o])
  BY <1>5 DEF ShownInv, ShownHappened, Told
<1>10. \A push \in wire' : Told(push.id, push.status)
  BY <1>5 DEF ShownInv, HeardTrue
<1> QED
  BY <1>7, <1>8, <1>9, <1>10 DEF StepTold, RowsTold

\* What the page writes on its rows was told by an answer, ...
LEMMA AnswersTell ==
    ASSUME ShownInv, NEW c \in Fetches,
           \/ fail_answered(c) \/ poll_answered(c) \/ history_fetched(c)
           \/ refetch(c)
    PROVE  StepTold
<1>1. /\ fetch[c] # Idle /\ UNCHANGED <<status, wire>>
      /\ \/ Done(c) \/ ThenHistory(c, "sent")
         \/ fetch[c].op = "history" /\ fetch' = [fetch EXCEPT ![c].stage = "sent"]
  <2>1. fetch[c].op \in {"fail", "poll", "history"}
    BY DEF fail_answered, poll_answered, history_fetched, refetch, At
  <2>2. UNCHANGED <<status, wire>>
    BY DEF fail_answered, poll_answered, history_fetched, refetch, engine
  <2>3. CASE fail_answered(c) \/ poll_answered(c) \/ history_fetched(c)
    <3>1. fetch[c] # Idle
      BY <2>1 DEF Idle
    <3>2. fail_answered(c) => Done(c)
      BY DEF fail_answered
    <3>3. poll_answered(c) => Done(c) \/ ThenHistory(c, "sent")
      BY DEF poll_answered
    <3>4. history_fetched(c) => Done(c)
      BY DEF history_fetched
    <3> QED
      BY <2>2, <2>3, <3>1, <3>2, <3>3, <3>4
  <2>4. CASE refetch(c)
    BY <2>1, <2>2, <2>4 DEF refetch, At, Idle
  <2> QED
    BY <2>3, <2>4
<1>2. Forward
  BY <1>1 DEF Forward
<1>3. \A d \in Fetches : ToldSlot(d)
  BY <1>1, <1>2, PageSlots, StageSlot
<1>4. \A push \in wire' : Told(push.id, push.status)
  BY <1>1 DEF ShownInv, HeardTrue
<1>5. RowsTold
  <2>1. CASE fail_answered(c)
    <3>1. PICK stage \in {"ok", "refused"} :
             /\ At(c, "fail", stage)
             /\ UpdateRow(Of(c), [row \in Rows |-> failed(row, stage)])
      BY <2>1 DEF fail_answered
    <3> DEFINE change == [row \in Rows |-> failed(row, stage)]
    <3>2. Of(c) \in Orders
      BY <3>1, ReportsAreAboutOrders DEF ShownInv, At, OnOne
    <3>3. stage = "ok" => Told(Of(c), "FAILED")
      BY <3>1 DEF At, ShownInv, FailuresTrue, UnderWay, Told, CameThrough
    <3>4. \A row \in Rows :
             /\ failed(row, stage) \in Rows /\ failed(row, stage).id = row.id
             /\ \/ failed(row, stage).status = row.status
                \/ Told(Of(c), failed(row, stage).status)
      BY <3>3 DEF failed, Rows, Statuses
    <3>5. /\ change \in [Rows -> Rows]
          /\ \A row \in Rows : change[row] = failed(row, stage)
      BY <3>4
    <3>6. UpdateRow(Of(c), change)
      BY <3>1
    <3> HIDE DEF change
    <3>7. \A i \in DOMAIN activeBatch' :
             Told(activeBatch'[i].id, activeBatch'[i].status)
      BY <3>2, <3>4, <3>5, <3>6, UpdateTold
    <3> QED
      BY <2>1, <3>7 DEF fail_answered, history, RowsTold, ShownInv,
                        ShownHappened, Told
  <2>2. CASE poll_answered(c)
    <3> DEFINE now == fetch[c].reply[Of(c)]
               change == [row \in Rows |-> [row EXCEPT !.status = now,
                                                       !.priced = TRUE]]
    <3>1. At(c, "poll", "ok") /\ UpdateRow(Of(c), change)
      BY <2>2 DEF poll_answered
    <3>2. Of(c) \in Orders /\ fetch[c] \in Requesting
      BY <3>1, ReportsAreAboutOrders DEF ShownInv, At, OnOne
    <3>3. now \in Statuses
      <4>1. fetch[c].reply \in Listings
        BY <3>2 DEF Requesting
      <4> QED
        BY <3>1, <3>2, <4>1 DEF At, ShownInv, PageInv, RequestsFit, Listings
    <3>4. Told(Of(c), now)
      BY <1>1, <3>2 DEF ShownInv, AnswersTrue
    <3> HIDE DEF now
    <3>5. \A row \in Rows :
             LET new == [row EXCEPT !.status = now, !.priced = TRUE]
             IN  new \in Rows /\ new.id = row.id /\ new.status = now
      BY <3>3 DEF Rows
    <3>6. /\ change \in [Rows -> Rows]
          /\ \A row \in Rows : change[row].id = row.id /\ change[row].status = now
      BY <3>5
    <3> HIDE DEF change
    <3>7. \A i \in DOMAIN activeBatch' :
             Told(activeBatch'[i].id, activeBatch'[i].status)
      BY <3>1, <3>2, <3>4, <3>6, UpdateTold
    <3> QED
      BY <2>2, <3>7 DEF poll_answered, history, RowsTold, ShownInv,
                        ShownHappened, Told
  <2>3. CASE history_fetched(c)
    <3>1. UNCHANGED activeBatch /\ ordersHistory' = fetch[c].reply
      BY <2>3 DEF history_fetched, tracker
    <3>2. \A o \in Orders : Told(o, fetch[c].reply[o])
      BY <1>1 DEF ShownInv, AnswersTrue
    <3> QED
      BY <3>1, <3>2 DEF RowsTold, ShownInv, ShownHappened, Told
  <2>4. CASE refetch(c)
    BY <2>4, SameRowsTold DEF refetch, tracker, history
  <2> QED
    BY <2>1, <2>2, <2>3, <2>4
<1> QED
  BY <1>2, <1>3, <1>4, <1>5 DEF StepTold

\* ... or by a push.
LEMMA PushesTell ==
    ASSUME ShownInv, NEW push \in wire, onmessage(push)
    PROVE  StepTold
<1> DEFINE change == [row \in Rows |-> updated(row, push)]
<1>1. push \in Pushes /\ push.id \in Orders
  BY DEF ShownInv, PageInv, TypeOK, Pushes
<1>2. Told(push.id, push.status)
  BY DEF ShownInv, HeardTrue
<1>3. \A row \in Rows :
         /\ updated(row, push) \in Rows /\ updated(row, push).id = row.id
         /\ \/ updated(row, push).status = row.status
            \/ Told(push.id, updated(row, push).status)
  BY <1>1, <1>2 DEF updated, Rows, Pushes
<1>4. /\ change \in [Rows -> Rows]
      /\ \A row \in Rows : change[row] = updated(row, push)
  BY <1>3
<1>5. UpdateRow(push.id, change)
  BY DEF onmessage
<1> HIDE DEF change
<1>6. \A i \in DOMAIN activeBatch' :
         Told(activeBatch'[i].id, activeBatch'[i].status)
  BY <1>1, <1>3, <1>4, <1>5, UpdateTold
<1>7. UNCHANGED <<status, fetch>> /\ wire' \subseteq wire
  BY DEF onmessage
<1>8. \A o \in Orders : Told(o, ordersHistory'[o])
  <2>1. \A o \in Orders : Told(o, ordersHistory[o])
    BY DEF ShownInv, ShownHappened, Told
  <2>2. ordersHistory \in Listings
    BY DEF ShownInv, PageInv, TypeOK
  <2>3. \/ ordersHistory' = ordersHistory
        \/ ordersHistory' = [ordersHistory EXCEPT ![push.id] = push.status]
    BY DEF onmessage
  <2> QED
    BY <1>2, <2>1, <2>2, <2>3 DEF Listings
<1>9. Forward /\ \A d \in Fetches : ToldSlot(d)
  BY <1>7, PageSlots
<1> QED
  BY <1>6, <1>7, <1>8, <1>9 DEF StepTold, RowsTold, ShownInv, HeardTrue

-----------------------------------------------------------------------------

\* A step of the engine leaves the page alone and tells what it does.
LEMMA EngineTells ==
    ASSUME ShownInv, UNCHANGED page, Forward,
           \A push \in wire' : \/ push \in wire \/ push.status = None
                               \/ push.status = status'[push.id],
           \A d \in Fetches : ToldSlot(d)
    PROVE  StepTold
<1>1. RowsTold
  BY SameRowsTold DEF page, tracker, history
<1>2. \A push \in wire' : \/ Told(push.id, push.status)
                          \/ push.status = status'[push.id]
  BY DEF ShownInv, HeardTrue, Told
<1> QED
  BY <1>1, <1>2 DEF StepTold

\* Only what is published gets on the wire.
LEMMA Published ==
    ASSUME NEW pushes, Publish(pushes)
    PROVE  \A push \in wire' : push \in wire \/ push \in pushes
BY DEF Publish

LEMMA CustomersTell ==
    ASSUME ShownInv, NEW o \in Orders, Customers(o)
    PROVE  StepTold
<1>1. UNCHANGED <<page, fetch>>
  BY DEF Customers, order_moves, order_edited, other_order, other_edit
<1>2. PICK to, told, price :
         /\ status' = [status EXCEPT ![o] = to]
         /\ status[o] = None \/ status[o] = to \/ <<status[o], to>> \in Moves
         /\ told \in {to, None} /\ Publish({Push(o, told, price)})
  <2>0. status = [status EXCEPT ![o] = status[o]]
    BY DEF ShownInv, PageInv, TypeOK, Listings
  <2>1. CASE order_moves(o)
    BY <2>1 DEF order_moves
  <2>2. CASE other_order(o)
    BY <2>2 DEF other_order
  <2>3. CASE order_edited(o)
    BY <2>0, <2>3 DEF order_edited
  <2>4. CASE other_edit(o)
    <3>1. PICK price : Publish({Push(o, None, price)})
      BY <2>4 DEF other_edit
    <3> QED
      BY <2>0, <2>4, <3>1 DEF other_edit
  <2> QED
    BY <2>1, <2>2, <2>3, <2>4 DEF Customers
<1>3. status'[o] = to /\ \A p \in Orders \ {o} : status'[p] = status[p]
  BY <1>2 DEF ShownInv, PageInv, TypeOK, Listings
<1>4. Forward
  BY <1>2, <1>3 DEF Forward
<1>5. \A push \in wire' : \/ push \in wire \/ push.status = None
                           \/ push.status = status'[push.id]
  BY <1>2, <1>3, Published DEF Push
<1> QED
  BY <1>1, <1>4, <1>5, SameSlot, EngineTells

\* POST /fail answers ok only once it has failed the order.
LEMMA RequestsTell ==
    ASSUME ShownInv, NEW c \in Fetches,
           request(c) \/ retry_payment(c) \/ fail_payment(c)
    PROVE  StepTold
<1>1. fetch[c].op \in {"pay", "pay_all", "edit", "cancel", "retry", "fail"}
  BY DEF request, retry_payment, fail_payment, Arrived
<1>2. fetch[c] # Idle /\ UNCHANGED page
  BY <1>1 DEF Idle, request, retry_payment, fail_payment
<1>3. CASE fail_payment(c) /\ status[Of(c)] = "PENDING"
  <2>1. /\ status' = [status EXCEPT ![Of(c)] = "FAILED"] /\ Accept(c)
        /\ Publish({Push(Of(c), "FAILED", "absent")})
    BY <1>3 DEF fail_payment
  <2>2. Of(c) \in Orders
    BY <1>3, ReportsAreAboutOrders DEF ShownInv, fail_payment, Arrived, OnOne
  <2>3. /\ status'[Of(c)] = "FAILED"
        /\ \A p \in Orders \ {Of(c)} : status'[p] = status[p]
    BY <2>1, <2>2 DEF ShownInv, PageInv, TypeOK, Listings
  <2>4. Forward
    BY <1>3, <2>2, <2>3 DEF Forward, Moves, Statuses
  <2>5. \A push \in wire' : push \in wire \/ push.status = status'[push.id]
    BY <2>1, <2>3, Published DEF Push
  <2>6. \A d \in Fetches : ToldSlot(d)
    BY <1>2, <2>1, <2>3, <2>4, StageSlot DEF Accept
  <2> QED
    BY <1>2, <2>4, <2>5, <2>6, EngineTells
<1>4. CASE ~(fail_payment(c) /\ status[Of(c)] = "PENDING")
  <2>1. UNCHANGED status
    BY <1>4 DEF request, retry_payment, fail_payment
  <2>2. PICK to \in {"ok", "refused"} :
           /\ fetch' = [fetch EXCEPT ![c].stage = to]
           /\ fetch[c].op = "fail" => to # "ok"
    <3>1. CASE request(c)
      <4>1. fetch[c].op # "fail" /\ (Accept(c) \/ Refuse(c))
        BY <3>1 DEF request, Arrived
      <4> QED
        BY <4>1 DEF Accept, Refuse
    <3>2. CASE retry_payment(c)
      <4>1. fetch[c].op # "fail" /\ (Accept(c) \/ Refuse(c))
        BY <3>2 DEF retry_payment, Arrived
      <4> QED
        BY <4>1 DEF Accept, Refuse
    <3>3. CASE fail_payment(c)
      BY <1>4, <3>3 DEF fail_payment, Refuse
    <3> QED
      BY <3>1, <3>2, <3>3
  <2>3. Forward
    BY <2>1 DEF Forward
  <2>4. \A d \in Fetches : ToldSlot(d)
    BY <1>2, <2>2, <2>3, StageSlot
  <2>5. \A push \in wire' : push \in wire \/ push.status = None
    <3>1. CASE request(c)
      <4>1. \/ UNCHANGED wire
            \/ \E price : Publish({Push(Of(c), None, price)})
        BY <3>1 DEF request
      <4>2. ASSUME NEW price, Publish({Push(Of(c), None, price)})
            PROVE  \A push \in wire' : push \in wire \/ push.status = None
        BY <4>2, Published DEF Push
      <4> QED
        BY <4>1, <4>2
    <3>2. CASE retry_payment(c)
      BY <3>2 DEF retry_payment
    <3>3. CASE fail_payment(c)
      BY <1>4, <3>3 DEF fail_payment
    <3> QED
      BY <3>1, <3>2, <3>3
  <2> QED
    BY <1>2, <2>3, <2>4, <2>5, EngineTells
<1> QED
  BY <1>3, <1>4

LEMMA CreationsTell ==
    ASSUME ShownInv, NEW c \in Fetches, create(c)
    PROVE  StepTold
<1>1. fetch[c].op \in {"place", "bulk"} /\ UNCHANGED page
  BY DEF create, Arrived
<1>2. PICK ids \in [1..Ordered(c) -> Unused] :
         LET new == {ids[i] : i \in DOMAIN ids}
         IN  /\ status' = [o \in Orders |-> IF o \in new THEN "PENDING"
                                                         ELSE status[o]]
             /\ Publish({Push(o, "PENDING", "absent") : o \in new})
             /\ fetch' = [fetch EXCEPT ![c].ids = ids, ![c].stage = "ok"]
  BY DEF create
<1> DEFINE new == {ids[i] : i \in DOMAIN ids}
<1>3. /\ status' = [o \in Orders |-> IF o \in new THEN "PENDING" ELSE status[o]]
      /\ Publish({Push(o, "PENDING", "absent") : o \in new})
  BY <1>2
<1>4. \A o \in new : o \in Orders /\ status[o] = None
  BY DEF Unused
<1> HIDE DEF new
<1>5. Forward
  BY <1>3, <1>4 DEF Forward
<1>6. \A push \in wire' : push \in wire \/ push.status = status'[push.id]
  <2>1. \A push \in wire' :
           push \in wire \/ push \in {Push(o, "PENDING", "absent") : o \in new}
    BY <1>3, Published
  <2>2. \A o \in new : /\ Push(o, "PENDING", "absent").id = o
                       /\ Push(o, "PENDING", "absent").status = "PENDING"
    BY DEF Push
  <2> QED
    BY <1>3, <1>4, <2>1, <2>2
<1>7. \A d \in Fetches : ToldSlot(d)
  <2>1. fetch[c] # Idle /\ fetch \in AnyFetch /\ fetch[c] \in Requesting
    BY <1>1 DEF Idle, AnyFetch, ShownInv, PageInv, TypeOK
  <2>2. \A d \in Fetches \ {c} : fetch'[d] = fetch[d]
    BY <1>2 DEF ShownInv, PageInv, TypeOK
  <2>3. fetch'[c] = [[fetch[c] EXCEPT !.ids = ids] EXCEPT !.stage = "ok"]
    BY <1>2, <2>1 DEF AnyFetch
  <2>4. fetch'[c].op = fetch[c].op /\ fetch'[c].reply = fetch[c].reply
    BY <2>1, <2>3 DEF Requesting
  <2>5. ToldSlot(c)
    BY <1>1, <2>1, <2>4 DEF ToldSlot, ShownInv, AnswersTrue
  <2> QED
    BY <1>5, <2>2, <2>5, SameSlot
<1> QED
  BY <1>1, <1>5, <1>6, <1>7, EngineTells

\* What is read is the status of the moment.
LEMMA ReadsTell ==
    ASSUME ShownInv, NEW c \in Fetches, read(c)
    PROVE  StepTold
<1>1. /\ fetch[c].op \in {"history", "poll", "detail"}
      /\ UNCHANGED page /\ UNCHANGED <<status, wire>>
  BY DEF read, Arrived, engine
<1>2. fetch[c] # Idle /\ fetch \in AnyFetch /\ fetch[c] \in Requesting
  BY <1>1 DEF Idle, AnyFetch, ShownInv, PageInv, TypeOK
<1>3. PICK reply :
         /\ fetch' = [fetch EXCEPT ![c].reply = reply, ![c].stage = "ok"]
         /\ \A o \in Orders : reply[o] \in {None, status[o]}
  <2>1. CASE fetch[c].op = "history"
    <3> DEFINE now == [o \in Orders |-> IF fetch[c].filter \in {"ALL", status[o]}
                                        THEN status[o] ELSE None]
    <3>1. \A o \in Orders : now[o] \in {None, status[o]}
      OBVIOUS
    <3>2. fetch' = [fetch EXCEPT ![c].reply = now, ![c].stage = "ok"]
      BY <2>1 DEF read
    <3> HIDE DEF now
    <3> QED
      BY <3>1, <3>2
  <2>2. CASE fetch[c].op = "poll"
    <3>1. \A o \in Orders : OnlyRow(Of(c))[o] \in {None, status[o]}
      BY DEF OnlyRow, Nothing
    <3>2. fetch' = [fetch EXCEPT ![c].reply = OnlyRow(Of(c)), ![c].stage = "ok"]
      BY <2>2 DEF read
    <3> QED
      BY <3>1, <3>2
  <2>3. CASE fetch[c].op = "detail"
    <3>1. \A o \in Orders : Nothing[o] \in {None, status[o]}
      BY DEF Nothing
    <3>2. fetch' = [fetch EXCEPT ![c].reply = Nothing, ![c].stage = "ok"]
      BY <2>3 DEF read
    <3> QED
      BY <3>1, <3>2
  <2> QED
    BY <1>1, <2>1, <2>2, <2>3
<1>4. fetch'[c] = [[fetch[c] EXCEPT !.reply = reply] EXCEPT !.stage = "ok"]
  BY <1>2, <1>3 DEF AnyFetch
<1>5. fetch'[c].op = fetch[c].op /\ fetch'[c].reply = reply
  BY <1>2, <1>4 DEF Requesting
<1>6. \A d \in Fetches \ {c} : fetch'[d] = fetch[d]
  BY <1>2, <1>3 DEF AnyFetch
<1>7. ToldSlot(c)
  BY <1>1, <1>3, <1>5 DEF ToldSlot, Told, CameThrough
<1>8. Forward
  BY <1>1 DEF Forward
<1> QED
  BY <1>1, <1>6, <1>7, <1>8, SameSlot, EngineTells

-----------------------------------------------------------------------------

LEMMA ShownInit ==
    ASSUME Init
    PROVE  ShownInv
<1>1. \A c \in Fetches : fetch[c] # Idle => fetch[c].reply = Nothing
  BY DEF Init
<1>2. \A c \in Fetches : fetch[c].op \in {"history", "none"}
  BY DEF Init, Idle
<1>3. AnswersTrue
  BY <1>1 DEF AnswersTrue, Told, Nothing
<1>4. FailuresTrue
  BY <1>2 DEF FailuresTrue, UnderWay
<1>5. ShownHappened /\ HeardTrue
  BY DEF Init, ShownHappened, HeardTrue, Nothing
<1> QED
  BY <1>3, <1>4, <1>5, PageInit DEF ShownInv

LEMMA ShownStep ==
    ASSUME ShownInv, [Next]_vars
    PROVE  ShownInv'
<1>1. PageInv /\ PageInv'
  BY PageStep DEF ShownInv
<1>2. CASE StepTold
  BY <1>1, <1>2, ToldKeeps
<1>3. CASE UNCHANGED vars
  <2>1. StepTold
    BY <1>3, EngineTells, SameSlot
       DEF vars, page, engine, tracker, history, dialogs, link, still, Forward
  <2> QED
    BY <1>2, <2>1
<1>4. CASE \E c \in Fetches : create(c) \/ read(c)
  BY <1>2, <1>4, CreationsTell, ReadsTell
<1>5. CASE \E c \in Fetches :
              order_placed(c) \/ orders_imported(c) \/ retry_answered(c)
  BY <1>2, <1>5, PlainRows
<1>6. CASE \E i \in DOMAIN activeBatch : expire(i)
  BY <1>2, <1>6, PlainRows
<1>7. CASE \E o \in Orders : Customers(o) \/ trigger_fail(o)
  <2>1. CASE \E o \in Orders : Customers(o)
    BY <1>2, <2>1, CustomersTell
  <2>2. CASE dismiss
    BY <1>2, <2>2, PlainRows
  <2>3. CASE (\E o \in Orders : trigger_fail(o)) /\ ~dismiss
    BY <1>2, <2>3, PlainPage, AppConstants DEF Fetches
  <2> QED
    BY <1>7, <2>1, <2>2, <2>3
<1>8. CASE \E c \in Fetches : request(c) \/ retry_payment(c) \/ fail_payment(c)
  BY <1>2, <1>8, RequestsTell
<1>9. CASE \E c \in Fetches :
              fail_answered(c) \/ poll_answered(c) \/ history_fetched(c) \/ refetch(c)
  BY <1>2, <1>9, AnswersTell
<1>10. CASE dismiss
  BY <1>2, <1>10, PlainRows
<1>11. CASE \E c \in Fetches :
               \/ payment_submitted(c) \/ detail_loaded(c) \/ lose(c)
               \/ update_queued(c) \/ cancellation_queued(c)
  BY <1>2, <1>10, <1>11, PlainPage
<1>12. CASE User \/ poll \/ onopen \/ onclose \/ first_socket_closes
  <2>1. 1 \in Fetches
    BY AppConstants DEF Fetches
  <2> QED
    BY <1>2, <1>10, <1>12, <2>1, PlainPage
<1>13. CASE \E push \in wire : onmessage(push)
  BY <1>2, <1>13, PushesTell
<1> QED
  BY <1>3, <1>4, <1>5, <1>6, <1>7, <1>8, <1>9, <1>11, <1>12, <1>13, StepsAre
     DEF CalmStep, Socket

\* The tracker and the history lag, but never show a status the order has not
\* had, whatever pushes, polls, late answers and the page's own FAILED
\* (App.js:360) overtake one another.
THEOREM ShownWasTrue == Spec => []ShownHappened
<1>1. Init => ShownInv
  BY ShownInit
<1>2. ShownInv /\ [Next]_vars => ShownInv'
  BY ShownStep
<1>3. ShownInv => ShownHappened
  BY DEF ShownInv
<1> QED
  BY <1>1, <1>2, <1>3, PTL DEF Spec
-----------------------------------------------------------------------------
(* The places of the requests: which are taken, freed and passed on, and   *)
(* the spinners that turn for them.                                        *)

Spinners == {"place", "bulk", "detail"}

\* A request that leaves a price empty is an edit the session knows of.
Known(r) == r.op = "edit" => (r.null => r.ids[1] \in session.emptied)

SameOps(ds) ==
    \A d \in ds : /\ fetch'[d].op = fetch[d].op
                  /\ Known(fetch[d]) => Known(fetch'[d])

\* A request is sent from a free place, and its spinner, if any, starts.
Starts ==
    \E c \in Fetches, op \in Ops :
        /\ fetch[c] = Idle /\ fetch'[c].op = op /\ SameOps(Fetches \ {c})
        /\ busy' = busy \union ({op} \cap Spinners)
        /\ op \in {"place", "bulk"} => op \notin busy
        /\ Known(fetch'[c])

\* A request ends, or a fetch of the history takes its place; its spinner stops.
Ends ==
    \E c \in Fetches :
        /\ fetch[c] # Idle /\ SameOps(Fetches \ {c})
        /\ fetch'[c].op \in {"none", "history"}
        /\ fetch[c].op = "history" => fetch'[c] = Idle
        /\ busy' = busy \ {fetch[c].op}

GoesOn == SameOps(Fetches) /\ UNCHANGED busy

\* There is a first free place if there is a free place.
LEMMA FirstFreeIsFree ==
    ASSUME Free # {}
    PROVE  FirstFree \in Free
<1>1. Free \subseteq Nat
  BY AppConstants DEF Free, Fetches
<1> DEFINE Less == {ss \in Nat \X Nat : ss[1] < ss[2]}
<1>2. IsWellFoundedOn(Less, Nat)
  BY NatLessThanWellFounded, Zenon DEF OpToRel
<1>3. PICK c \in Free : \A d \in Free : ~(<<d, c>> \in Less)
  <2> HIDE DEF Less
  <2> QED
    BY <1>1, <1>2, WFMin
<1>4. \A d \in Free : c <= d
  <2> SUFFICES ASSUME NEW d \in Free, ~(c <= d)
               PROVE  FALSE
    OBVIOUS
  <2>1. c \in Nat /\ d \in Nat
    BY <1>1
  <2>2. d < c
    BY <2>1
  <2>3. <<d, c>> \in Less
    BY <2>1, <2>2
  <2> QED
    BY <1>3, <2>3
<1> QED
  BY <1>4 DEF FirstFree

\* Sending takes a free place.
LEMMA SendTakes ==
    ASSUME PageInv, NEW r, Send(r)
    PROVE  \E c \in Fetches : /\ fetch[c] = Idle /\ fetch'[c] = r
                              /\ \A d \in Fetches \ {c} : fetch'[d] = fetch[d]
<1>1. fetch \in AnyFetch
  BY DEF PageInv, TypeOK, AnyFetch
<1>2. FirstFree \in Fetches /\ fetch[FirstFree] = Idle
  BY FirstFreeIsFree DEF Send, Free
<1>3. fetch' = [fetch EXCEPT ![FirstFree] = r]
  BY DEF Send
<1> QED
  BY <1>1, <1>2, <1>3 DEF AnyFetch

LEMMA StartsBy ==
    ASSUME PageInv, NEW op \in Ops, NEW r, Send(r), r.op = op,
           busy' = busy \union ({op} \cap Spinners),
           op \in {"place", "bulk"} => op \notin busy,
           Known(r)
    PROVE  Starts
<1>1. PICK c \in Fetches : /\ fetch[c] = Idle /\ fetch'[c] = r
                           /\ \A d \in Fetches \ {c} : fetch'[d] = fetch[d]
  BY SendTakes
<1> QED
  BY <1>1 DEF Starts, SameOps

LEMMA EndsBy ==
    ASSUME PageInv, NEW c \in Fetches, fetch[c] # Idle,
           \/ Done(c)
           \/ /\ fetch[c].op # "history"
              /\ ThenHistory(c, "sent") \/ ThenHistory(c, "timer"),
           busy' = busy \ {fetch[c].op}
    PROVE  Ends
<1>1. fetch \in AnyFetch
  BY DEF PageInv, TypeOK, AnyFetch
<1>2. CASE Done(c)
  BY <1>1, <1>2, DoneEmpties DEF Ends, SameOps, Idle
<1>3. CASE /\ fetch[c].op # "history"
           /\ ThenHistory(c, "sent") \/ ThenHistory(c, "timer")
  <2>1. /\ fetch'[c].op = "history"
        /\ \A d \in Fetches \ {c} : fetch'[d] = fetch[d]
    BY <1>1, <1>3, HistoryFollows
  <2> QED
    BY <1>3, <2>1 DEF Ends, SameOps
<1> QED
  BY <1>2, <1>3

\* The user's requests and those of the page's own timers.
LEMMA StartSteps ==
    ASSUME PageInv,
           \/ handlePlaceOrder \/ handleBulkSubmit \/ handlePayAll
           \/ handleRetryOrder \/ handleCancelOrder \/ refresh \/ poll
           \/ \E o \in Orders :
                 handlePayOrder(o) \/ openDetailDialog(o) \/ trigger_fail(o)
           \/ \E filter \in Filters : setStatusFilter(filter)
           \/ \E null \in BOOLEAN : handleUpdateOrder(null)
    PROVE  Starts
<1>1. \A op, ids, filter :
         /\ Asks(op, ids, filter).op = op /\ Asks(op, ids, filter).null = FALSE
         /\ \A null : LET r == [Asks(op, ids, filter) EXCEPT !.null = null]
                      IN  r.op = op /\ r.null = null /\ r.ids = ids
  BY DEF Asks
<1>2. ASSUME NEW op \in Ops, NEW ids, NEW filter, NEW null,
             \/ Send(Asks(op, ids, filter))
             \/ Send([Asks(op, ids, filter) EXCEPT !.null = null]),
             busy' = busy \union ({op} \cap Spinners),
             op \in {"place", "bulk"} => op \notin busy,
             op # "edit" \/ (null => ids[1] \in session.emptied)
      PROVE  Starts
  <2> DEFINE r == Asks(op, ids, filter)
             q == [Asks(op, ids, filter) EXCEPT !.null = null]
  <2>1. /\ r.op = op /\ r.null = FALSE
        /\ q.op = op /\ q.null = null /\ q.ids = ids
    BY <1>1
  <2> HIDE DEF r, q
  <2>2. Send(r) \/ Send(q)
    BY <1>2 DEF r, q
  <2>3. Known(r) /\ Known(q)
    BY <1>2, <2>1 DEF Known
  <2> QED
    BY <1>2, <2>1, <2>2, <2>3, StartsBy
<1>3. {"place", "bulk", "detail", "pay", "pay_all", "retry", "cancel", "edit",
       "history", "poll", "fail"} \subseteq Ops
  BY DEF Ops, OnOne
<1>4. \A op : op \notin Spinners /\ UNCHANGED busy =>
                 busy' = busy \union ({op} \cap Spinners)
  OBVIOUS
<1>5. CASE handlePlaceOrder
  <2>1. /\ Send(Asks("place", <<>>, statusFilter)) /\ "place" \notin busy
        /\ busy' = busy \union ({"place"} \cap Spinners)
    BY <1>5 DEF handlePlaceOrder, PlaceOffered, Spinners
  <2> QED
    BY <1>2, <1>3, <2>1
<1>6. CASE handleBulkSubmit
  <2>1. /\ Send(Asks("bulk", <<>>, statusFilter)) /\ "bulk" \notin busy
        /\ busy' = busy \union ({"bulk"} \cap Spinners)
    BY <1>6 DEF handleBulkSubmit, ImportOffered, Spinners
  <2> QED
    BY <1>2, <1>3, <2>1
<1>7. ASSUME NEW o \in Orders, openDetailDialog(o)
      PROVE  Starts
  <2>1. /\ Send(Asks("detail", <<o>>, statusFilter))
        /\ busy' = busy \union ({"detail"} \cap Spinners)
    BY <1>7 DEF openDetailDialog, Spinners
  <2> QED
    BY <1>2, <1>3, <2>1
<1>8. ASSUME NEW null \in BOOLEAN, handleUpdateOrder(null)
      PROVE  Starts
  <2> DEFINE ids == <<dialog.order>>
  <2>1. UNCHANGED busy /\ (null => dialog.order \in session.emptied)
    BY <1>8 DEF handleUpdateOrder
  <2>2. Send([Asks("edit", ids, statusFilter) EXCEPT !.null = null])
    BY <1>8 DEF handleUpdateOrder
  <2>3. ids[1] = dialog.order
    OBVIOUS
  <2>4. "edit" \in Ops /\ "edit" \notin Spinners /\ "edit" \notin {"place", "bulk"}
    BY <1>3 DEF Spinners
  <2>5. busy' = busy \union ({"edit"} \cap Spinners)
    BY <1>4, <2>1, <2>4
  <2> HIDE DEF ids
  <2> QED
    BY <1>2, <2>1, <2>2, <2>3, <2>4, <2>5
<1>9. ASSUME NEW op \in {"pay", "pay_all", "retry", "cancel", "history", "poll",
                         "fail"},
             NEW ids, NEW filter, Send(Asks(op, ids, filter)), UNCHANGED busy
      PROVE  Starts
  <2>1. op \in Ops /\ op \notin Spinners /\ op \notin {"place", "bulk", "edit"}
    BY <1>3 DEF Spinners
  <2> QED
    BY <1>2, <1>4, <1>9, <2>1
<1>10. CASE handlePayAll \/ handleRetryOrder \/ handleCancelOrder \/ refresh
  <2>1. \E op \in {"pay_all", "retry", "cancel", "history"} : \E ids, filter :
           Send(Asks(op, ids, filter)) /\ UNCHANGED busy
    BY <1>10 DEF handlePayAll, handleRetryOrder, handleCancelOrder, refresh
  <2> QED
    BY <1>9, <2>1
<1>11. CASE poll
  BY <1>9, <1>11 DEF poll
<1>12. ASSUME NEW o \in Orders, handlePayOrder(o) \/ trigger_fail(o)
       PROVE  Starts
  BY <1>9, <1>12 DEF handlePayOrder, trigger_fail
<1>13. ASSUME NEW filter \in Filters, setStatusFilter(filter)
       PROVE  Starts
  BY <1>9, <1>13 DEF setStatusFilter
<1> QED
  BY <1>5, <1>6, <1>7, <1>8, <1>10, <1>11, <1>12, <1>13

\* The answers and the failures that end a request.
LEMMA EndSteps ==
    ASSUME PageInv, NEW c \in Fetches,
           \/ order_placed(c) \/ orders_imported(c) \/ payment_submitted(c)
           \/ retry_answered(c) \/ fail_answered(c) \/ poll_answered(c)
           \/ history_fetched(c) \/ detail_loaded(c) \/ lose(c)
           \/ update_queued(c) \/ cancellation_queued(c)
    PROVE  Ends
<1>1. busy \subseteq {"history", "place", "bulk", "detail"}
  BY DEF PageInv, TypeOK
<1>2. "none" \notin Ops
  BY DEF Ops, OnOne
<1>3. ASSUME NEW op \in Ops, fetch[c].op = op,
             \/ Done(c)
             \/ op # "history" /\ (ThenHistory(c, "sent") \/ ThenHistory(c, "timer")),
             busy' = busy \ {op} \/ (UNCHANGED busy /\ op \notin busy)
      PROVE  Ends
  <2>1. fetch[c] # Idle
    BY <1>2, <1>3 DEF Idle
  <2>2. busy' = busy \ {fetch[c].op}
    BY <1>3
  <2> QED
    BY <1>3, <2>1, <2>2, EndsBy
<1>4. {"place", "bulk", "detail", "pay", "pay_all", "retry", "cancel", "edit",
       "history", "poll", "fail"} \subseteq Ops
  BY DEF Ops, OnOne
<1>5. {"pay", "pay_all", "retry", "cancel", "edit", "poll", "fail"} \cap busy = {}
  BY <1>1
<1>6. CASE order_placed(c)
  BY <1>3, <1>4, <1>6 DEF order_placed, At, finally
<1>7. CASE orders_imported(c)
  BY <1>3, <1>4, <1>7 DEF orders_imported, At, finally
<1>8. CASE payment_submitted(c)
  <2>1. /\ fetch[c].op \in {"pay", "pay_all"}
        /\ Done(c) /\ UNCHANGED busy
    BY <1>8 DEF payment_submitted, At
  <2> QED
    BY <1>3, <1>4, <1>5, <2>1
<1>9. CASE retry_answered(c)
  BY <1>3, <1>4, <1>5, <1>9 DEF retry_answered, At
<1>10. CASE fail_answered(c)
  BY <1>3, <1>4, <1>5, <1>10 DEF fail_answered, At
<1>11. CASE poll_answered(c)
  <2>1. fetch[c].op = "poll" /\ UNCHANGED busy
    BY <1>11 DEF poll_answered, At
  <2>2. Done(c) \/ ThenHistory(c, "sent")
    BY <1>11 DEF poll_answered
  <2> QED
    BY <1>3, <1>4, <1>5, <2>1, <2>2
<1>12. CASE history_fetched(c)
  BY <1>3, <1>4, <1>12 DEF history_fetched, At
<1>13. CASE detail_loaded(c)
  BY <1>3, <1>4, <1>13 DEF detail_loaded, At
<1>14. CASE lose(c)
  BY <1>14, EndsBy DEF lose
<1>15. CASE update_queued(c) \/ cancellation_queued(c)
  <2>1. /\ fetch[c].op \in {"edit", "cancel"} /\ UNCHANGED busy
        /\ Done(c) \/ ThenHistory(c, "timer")
    BY <1>15 DEF update_queued, cancellation_queued, queued, At
  <2> QED
    BY <1>3, <1>4, <1>5, <2>1
<1> QED
  BY <1>6, <1>7, <1>8, <1>9, <1>10, <1>11, <1>12, <1>13, <1>14, <1>15

\* All other steps leave every request what it is.
LEMMA OtherSteps ==
    ASSUME PageInv,
           \/ open_bulk \/ close_dialog \/ turn(1) \/ turn(-1) \/ dismiss
           \/ onopen \/ onclose \/ first_socket_closes \/ UNCHANGED vars
           \/ \E o \in Orders :
                 Customers(o) \/ open_dialog("edit", o) \/ open_dialog("cancel", o)
           \/ \E i \in DOMAIN activeBatch : expire(i)
           \/ \E push \in wire : onmessage(push)
           \/ \E c \in Fetches : Serve(c) \/ refetch(c)
    PROVE  GoesOn
<1>1. fetch \in AnyFetch
  BY DEF PageInv, TypeOK, AnyFetch
<1>2. CASE UNCHANGED <<fetch, busy>>
  BY <1>2 DEF GoesOn, SameOps
<1>3. CASE \/ open_bulk \/ close_dialog \/ turn(1) \/ turn(-1) \/ dismiss
           \/ onopen \/ onclose \/ first_socket_closes
           \/ \E o \in Orders : open_dialog("edit", o) \/ open_dialog("cancel", o)
           \/ \E i \in DOMAIN activeBatch : expire(i)
           \/ \E push \in wire : onmessage(push)
  BY <1>2, <1>3 DEF open_bulk, close_dialog, turn, dismiss, onopen, onclose,
                    first_socket_closes, open_dialog, expire, onmessage
<1>4. CASE UNCHANGED vars
  BY <1>2, <1>4 DEF vars
<1>5. CASE \E o \in Orders : Customers(o)
  BY <1>2, <1>5 DEF Customers, order_moves, order_edited, other_order, other_edit, page
<1>6. ASSUME NEW c \in Fetches, NEW to \in {"sent", "ok", "refused"},
             fetch[c] # Idle, fetch' = [fetch EXCEPT ![c].stage = to],
             UNCHANGED busy
      PROVE  GoesOn
  <2>1. /\ fetch'[c] = [fetch[c] EXCEPT !.stage = to] /\ fetch[c] \in Requesting
        /\ fetch'[c].op = fetch[c].op /\ fetch'[c].ids = fetch[c].ids
        /\ \A d \in Fetches \ {c} : fetch'[d] = fetch[d]
    BY <1>1, <1>6, StageChanges DEF AnyFetch
  <2>2. fetch'[c].null = fetch[c].null
    BY <2>1 DEF Requesting
  <2> QED
    BY <1>6, <2>1, <2>2 DEF GoesOn, SameOps, Known
<1>7. ASSUME NEW c \in Fetches, refetch(c)
      PROVE  GoesOn
  <2>1. /\ fetch[c].op = "history" /\ UNCHANGED busy
        /\ fetch' = [fetch EXCEPT ![c].stage = "sent"]
    BY <1>7 DEF refetch, At
  <2>2. fetch[c] # Idle
    BY <2>1 DEF Idle
  <2> QED
    BY <1>6, <2>1, <2>2
<1>8. ASSUME NEW c \in Fetches, Serve(c)
      PROVE  GoesOn
  <2>1. fetch[c].stage = "sent" /\ fetch[c].op \in Ops /\ UNCHANGED busy
    BY <1>8 DEF Serve, create, read, request, retry_payment, fail_payment,
                Arrived, Ops, OnOne, page
  <2>2. fetch[c] # Idle /\ fetch[c] \in Requesting
    BY <1>1, <2>1 DEF Idle, Ops, OnOne, AnyFetch
  <2>3. CASE request(c) \/ retry_payment(c) \/ fail_payment(c)
    <3>1. Accept(c) \/ Refuse(c)
      BY <2>3 DEF request, retry_payment, fail_payment
    <3> QED
      BY <1>6, <2>1, <2>2, <3>1 DEF Accept, Refuse
  <2>4. CASE create(c)
    <3>1. PICK ids : fetch' = [fetch EXCEPT ![c].ids = ids, ![c].stage = "ok"]
      BY <2>4 DEF create
    <3>2. /\ fetch'[c] = [[fetch[c] EXCEPT !.ids = ids] EXCEPT !.stage = "ok"]
          /\ \A d \in Fetches \ {c} : fetch'[d] = fetch[d]
      BY <1>1, <3>1 DEF AnyFetch
    <3>3. fetch'[c].op = fetch[c].op
      BY <2>2, <3>2 DEF Requesting
    <3>4. fetch[c].op # "edit"
      BY <2>4 DEF create, Arrived
    <3> QED
      BY <2>1, <3>2, <3>3, <3>4 DEF GoesOn, SameOps, Known
  <2>5. CASE read(c)
    <3>1. PICK reply :
             fetch' = [fetch EXCEPT ![c].reply = reply, ![c].stage = "ok"]
      BY <2>5 DEF read
    <3>2. /\ fetch'[c] = [[fetch[c] EXCEPT !.reply = reply] EXCEPT !.stage = "ok"]
          /\ \A d \in Fetches \ {c} : fetch'[d] = fetch[d]
      BY <1>1, <3>1 DEF AnyFetch
    <3>3. fetch'[c].op = fetch[c].op
      BY <2>2, <3>2 DEF Requesting
    <3>4. fetch[c].op # "edit"
      BY <2>5 DEF read, Arrived
    <3> QED
      BY <2>1, <3>2, <3>3, <3>4 DEF GoesOn, SameOps, Known
  <2> QED
    BY <1>8, <2>3, <2>4, <2>5 DEF Serve
<1> QED
  BY <1>3, <1>4, <1>5, <1>7, <1>8

\* So a step starts a request, ends one, or neither.
LEMMA RequestsStep ==
    ASSUME PageInv, [Next]_vars
    PROVE  Starts \/ Ends \/ GoesOn
<1>1. CASE User
  BY <1>1, StartSteps, OtherSteps DEF User
<1>2. CASE poll \/ \E o \in Orders : trigger_fail(o)
  BY <1>2, StartSteps
<1>3. CASE \E c \in Fetches : Continue(c) \/ lose(c)
  BY <1>3, EndSteps, OtherSteps DEF Continue
<1>4. CASE Socket \/ \E o \in Orders : Customers(o)
  BY <1>4, OtherSteps DEF Socket
<1>5. CASE \/ \E c \in Fetches : Serve(c)
           \/ \E i \in DOMAIN activeBatch : expire(i)
           \/ UNCHANGED vars
  BY <1>5, OtherSteps
<1> QED
  BY <1>1, <1>2, <1>3, <1>4, <1>5 DEF Next, Step, Rest

\* What SpinnersAreBacked says of one kind of request; "single" says without
\* Cardinality that there is one at most.
Exact(op) ==
    /\ op \in busy <=> UnderWay(op) # {}
    /\ \A c, d \in UnderWay(op) : c = d
Covered(op) == op \in busy => UnderWay(op) # {}

Backed == Exact("place") /\ Exact("bulk") /\ Covered("history") /\ Covered("detail")
SpinInv == PageInv /\ Backed

\* A request that starts was the only one of its kind, if it has to be.
LEMMA StartsBacked ==
    ASSUME Backed, Starts
    PROVE  Backed'
<1>1. PICK c \in Fetches, new \in Ops :
         /\ fetch[c] = Idle /\ fetch'[c].op = new /\ SameOps(Fetches \ {c})
         /\ busy' = busy \union ({new} \cap Spinners)
         /\ new \in {"place", "bulk"} => new \notin busy
  BY DEF Starts
<1>2. fetch[c].op = "none"
  BY <1>1 DEF Idle
<1>3. ASSUME NEW op \in {"place", "bulk", "history", "detail"}
      PROVE  UnderWay(op)' = IF op = new THEN UnderWay(op) \union {c}
                                         ELSE UnderWay(op)
  BY <1>1, <1>2 DEF UnderWay, SameOps
<1>4. ASSUME NEW op \in {"place", "bulk"}, Exact(op)
      PROVE  Exact(op)'
  <2>1. CASE op = new
    <3>1. UnderWay(op) = {} /\ UnderWay(op)' = {c} /\ op \in busy'
      BY <1>1, <1>3, <1>4, <2>1 DEF Exact, Spinners
    <3> QED
      BY <3>1 DEF Exact
  <2>2. CASE op # new
    <3>1. UnderWay(op)' = UnderWay(op) /\ (op \in busy' <=> op \in busy)
      BY <1>1, <1>3, <2>2
    <3> QED
      BY <1>4, <3>1 DEF Exact
  <2> QED
    BY <2>1, <2>2
<1>5. ASSUME NEW op \in {"history", "detail"}, Covered(op)
      PROVE  Covered(op)'
  BY <1>1, <1>3, <1>5 DEF Covered
<1> QED
  BY <1>4, <1>5 DEF Backed

\* One that ends was the only one of its kind, or its spinner stops for all.
LEMMA EndsBacked ==
    ASSUME Backed, Ends
    PROVE  Backed'
<1>1. PICK c \in Fetches :
         /\ fetch[c] # Idle /\ SameOps(Fetches \ {c})
         /\ fetch'[c].op \in {"none", "history"}
         /\ fetch[c].op = "history" => fetch'[c] = Idle
         /\ busy' = busy \ {fetch[c].op}
  BY DEF Ends
<1>2. ASSUME NEW op \in {"place", "bulk", "detail"}
      PROVE  UnderWay(op)' = UnderWay(op) \ {c}
  BY <1>1, <1>2 DEF UnderWay, SameOps
<1>3. ASSUME NEW op \in {"place", "bulk"}, Exact(op)
      PROVE  Exact(op)'
  <2>1. CASE fetch[c].op = op
    <3>1. c \in UnderWay(op)
      BY <2>1 DEF UnderWay
    <3>2. UnderWay(op)' = {} /\ op \notin busy'
      BY <1>1, <1>2, <1>3, <2>1, <3>1 DEF Exact
    <3> QED
      BY <3>2 DEF Exact
  <2>2. CASE fetch[c].op # op
    <3>1. c \notin UnderWay(op)
      BY <2>2 DEF UnderWay
    <3>2. UnderWay(op)' = UnderWay(op) /\ (op \in busy' <=> op \in busy)
      BY <1>1, <1>2, <2>2, <3>1
    <3> QED
      BY <1>3, <3>2 DEF Exact
  <2> QED
    BY <2>1, <2>2
<1>4. Covered("detail") => Covered("detail")'
  <2>1. CASE fetch[c].op = "detail"
    BY <1>1, <2>1 DEF Covered
  <2>2. CASE fetch[c].op # "detail"
    <3>1. c \notin UnderWay("detail")
      BY <2>2 DEF UnderWay
    <3>2. UnderWay("detail")' = UnderWay("detail")
      BY <1>2, <3>1
    <3> QED
      BY <1>1, <3>2 DEF Covered
  <2> QED
    BY <2>1, <2>2
<1>5. Covered("history") => Covered("history")'
  <2>1. CASE fetch[c].op = "history"
    BY <1>1, <2>1 DEF Covered
  <2>2. CASE fetch[c].op # "history"
    <3>1. UnderWay("history") \subseteq UnderWay("history")'
      BY <1>1, <2>2 DEF UnderWay, SameOps
    <3> QED
      BY <1>1, <3>1 DEF Covered
  <2> QED
    BY <2>1, <2>2
<1> QED
  BY <1>3, <1>4, <1>5 DEF Backed

LEMMA BackedStep ==
    ASSUME SpinInv, [Next]_vars
    PROVE  SpinInv'
<1>1. PageInv /\ Backed
  BY DEF SpinInv
<1>2. PageInv'
  BY <1>1, PageStep
<1>3. CASE GoesOn
  <2>1. \A op : UnderWay(op)' = UnderWay(op)
    BY <1>3 DEF GoesOn, SameOps, UnderWay
  <2> QED
    BY <1>1, <1>2, <1>3, <2>1 DEF GoesOn, SpinInv, Backed, Exact, Covered
<1> QED
  BY <1>1, <1>2, <1>3, RequestsStep, StartsBacked, EndsBacked DEF SpinInv

LEMMA BackedInit ==
    ASSUME Init
    PROVE  SpinInv
<1>1. PageInv
  BY PageInit
<1>2. \A c \in Fetches : fetch[c].op \in {"none", "history"}
  BY DEF Init, Idle
<1>3. 1 \in Fetches /\ fetch[1].op = "history"
  BY AppConstants DEF Init, Fetches, mounts
<1>4. busy = {"history"}
  BY DEF Init
<1> QED
  BY <1>1, <1>2, <1>3, <1>4 DEF SpinInv, Backed, Exact, Covered, UnderWay

\* The clean-up in every finally clause (App.js:240, 417, 575, 603) and for
\* lost answers is complete.  For placing and importing it is also timely: the
\* button is disabled exactly while such a request is under way, and there is
\* at most one.  The history's and the dialog's spinner turn only while an
\* answer is still to come; that they turn all that time is not claimed, and is
\* not so (App.js:241, 604 stop them at the first answer of several).
THEOREM SpinnersStop == Spec => []SpinnersAreBacked
<1>1. Init => SpinInv
  BY BackedInit
<1>2. SpinInv /\ [Next]_vars => SpinInv'
  BY BackedStep
<1>3. SpinInv => SpinnersAreBacked
  <2>1. ASSUME NEW op, Exact(op)
        PROVE  Cardinality(UnderWay(op)) <= 1
    <3>1. CASE UnderWay(op) = {}
      BY <3>1, FS_EmptySet
    <3>2. ASSUME NEW c \in UnderWay(op)
          PROVE  Cardinality(UnderWay(op)) <= 1
      <4>1. UnderWay(op) = {c}
        BY <2>1, <3>2 DEF Exact
      <4>2. Cardinality({c}) = 1
        BY FS_Singleton
      <4> QED
        BY <4>1, <4>2
    <3> QED
      BY <3>1, <3>2
  <2> QED
    BY <2>1 DEF SpinInv, Backed, Exact, Covered, SpinnersAreBacked
<1> QED
  BY <1>1, <1>2, <1>3, PTL DEF Spec
-----------------------------------------------------------------------------
(* Prices: only an edit sends null, and only null makes rendering throw.   *)

Emptied(o) == o \in session.emptied

\* Every null, in a request, on the wire or in a row, is one an edit of that
\* order left empty; and the page is gone exactly when it could not render.
Traced ==
    /\ blank => ~Renders
    /\ \A i \in DOMAIN activeBatch :
          activeBatch[i].priced \/ Emptied(activeBatch[i].id)
    /\ \A push \in wire : push.price = "null" => Emptied(push.id)
    /\ \A c \in Fetches : Known(fetch[c])

PriceInv == PageInv /\ Traced

Rendered(row) == row.priced \/ Emptied(row.id)

\* An update of one order's row that takes no price away, or only an emptied one.
LEMMA UpdateTraced ==
    ASSUME PageInv, Traced, NEW o, NEW change \in [Rows -> Rows],
           \A row \in Rows : row.id = o /\ Rendered(row) => Rendered(change[row]),
           UpdateRow(o, change)
    PROVE  \A i \in DOMAIN activeBatch' : Rendered(activeBatch'[i])
<1>1. \A i \in DOMAIN activeBatch : activeBatch[i] \in Rows
  BY DEF PageInv, TypeOK
<1> QED
  BY <1>1 DEF Traced, Rendered, UpdateRow

\* The steps that change what the tracker renders lose no other price.
LEMMA RenderedTraced ==
    ASSUME PageInv, Traced,
           \/ dismiss \/ turn(1) \/ turn(-1)
           \/ \E i \in DOMAIN activeBatch : expire(i)
           \/ \E push \in wire : onmessage(push)
           \/ \E c \in Fetches :
                 \/ order_placed(c) \/ orders_imported(c) \/ retry_answered(c)
                 \/ fail_answered(c) \/ poll_answered(c)
    PROVE  /\ \A i \in DOMAIN activeBatch' : Rendered(activeBatch'[i])
           /\ Render /\ ~blank
<1>1. /\ activeBatch \in Seq(Rows)
      /\ \A i \in DOMAIN activeBatch : activeBatch[i] \in Rows
  BY DEF PageInv, TypeOK
<1>0. ~blank
  BY DEF dismiss, turn, Page, Click, expire, onmessage, order_placed,
         orders_imported, retry_answered, fail_answered, poll_answered, At
<1>2. \A o : Rendered(NewRow(o))
  BY DEF NewRow, Rendered
<1>3. CASE dismiss \/ turn(1) \/ turn(-1)
  <2>1. Render /\ (activeBatch' = <<>> \/ UNCHANGED activeBatch)
    BY <1>3 DEF dismiss, turn
  <2>2. \A i \in DOMAIN activeBatch : Rendered(activeBatch[i])
    BY DEF Traced, Rendered
  <2>3. CASE activeBatch' = <<>>
    BY <1>0, <2>1, <2>3
  <2>4. CASE UNCHANGED activeBatch
    BY <1>0, <2>1, <2>2, <2>4
  <2> QED
    BY <2>1, <2>3, <2>4
<1>4. ASSUME NEW j \in DOMAIN activeBatch, expire(j)
      PROVE  Render /\ \A i \in DOMAIN activeBatch' : Rendered(activeBatch'[i])
  <2>1. \A row \in Rows : /\ [row EXCEPT !.expired = TRUE].priced = row.priced
                          /\ [row EXCEPT !.expired = TRUE].id = row.id
    BY DEF Rows
  <2> QED
    BY <1>1, <1>4, <2>1 DEF expire, Traced, Rendered
<1>5. ASSUME NEW push \in wire, onmessage(push)
      PROVE  Render /\ \A i \in DOMAIN activeBatch' : Rendered(activeBatch'[i])
  <2> DEFINE change == [row \in Rows |-> updated(row, push)]
  <2>1. push \in Pushes /\ (push.price = "null" => Emptied(push.id))
    BY <1>5 DEF PageInv, TypeOK, Traced
  <2>2. \A row \in Rows : updated(row, push) \in Rows
    BY <2>1 DEF updated, Rows, Pushes
  <2>3. \A row \in Rows :
           row.id = push.id /\ Rendered(row) => Rendered(updated(row, push))
    BY <2>1 DEF updated, Rows, Pushes, Rendered
  <2>4. /\ change \in [Rows -> Rows]
        /\ \A row \in Rows :
              row.id = push.id /\ Rendered(row) => Rendered(change[row])
    BY <2>2, <2>3
  <2>5. UpdateRow(push.id, change) /\ Render
    BY <1>5 DEF onmessage
  <2> HIDE DEF change
  <2> QED
    BY <2>4, <2>5, UpdateTraced
<1>6. ASSUME NEW c \in Fetches, order_placed(c)
      PROVE  Render /\ \A i \in DOMAIN activeBatch' : Rendered(activeBatch'[i])
  <2>1. activeBatch' = Append(activeBatch, NewRow(Of(c))) /\ Render
    BY <1>6 DEF order_placed, appended
  <2> DEFINE row == NewRow(Of(c))
  <2>2. Rendered(row)
    BY <1>2
  <2>3. activeBatch' = Append(activeBatch, row)
    BY <2>1
  <2> HIDE DEF row
  <2>4. \A i \in DOMAIN activeBatch' :
           \/ i \in DOMAIN activeBatch /\ activeBatch'[i] = activeBatch[i]
           \/ activeBatch'[i] = row
    BY <1>1, <2>3
  <2> QED
    BY <2>1, <2>2, <2>4 DEF Traced, Rendered
<1>7. ASSUME NEW c \in Fetches, orders_imported(c)
      PROVE  Render /\ \A i \in DOMAIN activeBatch' : Rendered(activeBatch'[i])
  BY <1>2, <1>7 DEF orders_imported
<1>8. ASSUME NEW c \in Fetches, retry_answered(c)
      PROVE  Render /\ \A i \in DOMAIN activeBatch' : Rendered(activeBatch'[i])
  <2> DEFINE change == [row \in Rows |-> [row EXCEPT !.expired = FALSE]]
  <2>1. \A row \in Rows : /\ [row EXCEPT !.expired = FALSE] \in Rows
                          /\ [row EXCEPT !.expired = FALSE].priced = row.priced
                          /\ [row EXCEPT !.expired = FALSE].id = row.id
    BY DEF Rows
  <2>2. /\ change \in [Rows -> Rows]
        /\ \A row \in Rows : Rendered(row) => Rendered(change[row])
    BY <2>1 DEF Rendered
  <2>3. Render /\ (UpdateRow(Of(c), change) \/ UNCHANGED activeBatch)
    BY <1>8 DEF retry_answered
  <2> HIDE DEF change
  <2> QED
    BY <2>2, <2>3, UpdateTraced DEF Traced, Rendered
<1>9. ASSUME NEW c \in Fetches, fail_answered(c)
      PROVE  Render /\ \A i \in DOMAIN activeBatch' : Rendered(activeBatch'[i])
  <2>1. PICK stage \in {"ok", "refused"} :
           UpdateRow(Of(c), [row \in Rows |-> failed(row, stage)])
    BY <1>9 DEF fail_answered
  <2> DEFINE change == [row \in Rows |-> failed(row, stage)]
  <2>2. \A row \in Rows : /\ failed(row, stage) \in Rows
                          /\ failed(row, stage).priced = row.priced
                          /\ failed(row, stage).id = row.id
    BY DEF failed, Rows, Statuses
  <2>3. /\ change \in [Rows -> Rows]
        /\ \A row \in Rows : Rendered(row) => Rendered(change[row])
    BY <2>2 DEF Rendered
  <2>4. Render /\ UpdateRow(Of(c), change)
    BY <1>9, <2>1 DEF fail_answered
  <2> HIDE DEF change
  <2> QED
    BY <2>3, <2>4, UpdateTraced
<1>10. ASSUME NEW c \in Fetches, poll_answered(c)
       PROVE  Render /\ \A i \in DOMAIN activeBatch' : Rendered(activeBatch'[i])
  <2> DEFINE now == fetch[c].reply[Of(c)]
  <2>1. \A row \in Rows : [row EXCEPT !.status = now, !.priced = TRUE].priced
    BY DEF Rows
  <2>2. /\ activeBatch' = [i \in DOMAIN activeBatch |->
              IF activeBatch[i].id = Of(c)
              THEN [row \in Rows |-> [row EXCEPT !.status = now, !.priced = TRUE]]
                      [activeBatch[i]]
              ELSE activeBatch[i]]
        /\ Render
    BY <1>10 DEF poll_answered, UpdateRow
  <2> HIDE DEF now
  <2> QED
    BY <1>1, <2>1, <2>2 DEF Traced, Rendered
<1> QED
  BY <1>0, <1>3, <1>4, <1>5, <1>6, <1>7, <1>8, <1>9, <1>10

\* Every other step renders what was rendered.
LEMMA OtherwiseRendered ==
    ASSUME \/ \E c \in Fetches :
                 \/ Serve(c) \/ payment_submitted(c) \/ history_fetched(c)
                 \/ detail_loaded(c) \/ refetch(c) \/ update_queued(c)
                 \/ cancellation_queued(c) \/ lose(c)
           \/ \E o \in Orders : Customers(o) \/ trigger_fail(o)
           \/ (User /\ ~dismiss /\ ~turn(1) /\ ~turn(-1)) \/ poll
           \/ onopen \/ onclose \/ first_socket_closes \/ UNCHANGED vars
    PROVE  UNCHANGED <<activeBatch, activeBatchIndex, blank, session>>
<1>1. CASE \E c \in Fetches : Serve(c)
  BY <1>1 DEF Serve, create, read, request, retry_payment, fail_payment, page,
              tracker, still
<1>2. CASE \E c \in Fetches :
              \/ payment_submitted(c) \/ history_fetched(c) \/ detail_loaded(c)
              \/ refetch(c) \/ update_queued(c) \/ cancellation_queued(c)
              \/ lose(c)
  BY <1>2 DEF payment_submitted, history_fetched, detail_loaded, refetch,
              update_queued, cancellation_queued, queued, lose, tracker, still
<1>3. CASE \E o \in Orders : Customers(o) \/ trigger_fail(o)
  BY <1>3 DEF Customers, order_moves, order_edited, other_order, other_edit, trigger_fail,
              page, tracker, still
<1>4. CASE User /\ ~dismiss /\ ~turn(1) /\ ~turn(-1)
  BY <1>4 DEF User, handlePlaceOrder, open_bulk, handleBulkSubmit, handlePayAll,
              handleRetryOrder, refresh, close_dialog, handleCancelOrder,
              handlePayOrder, openDetailDialog, open_dialog, setStatusFilter,
              handleUpdateOrder, tracker, still
<1>5. CASE poll \/ onopen \/ onclose \/ first_socket_closes
  BY <1>5 DEF poll, onopen, onclose, first_socket_closes, tracker, still
<1>6. CASE UNCHANGED vars
  BY <1>6 DEF vars, tracker
<1> QED
  BY <1>1, <1>2, <1>3, <1>4, <1>5, <1>6

\* What an edit left empty, here or at another customer's, is on the wire.
LEMMA NullsTraced ==
    ASSUME PageInv, Traced, [Next]_vars
    PROVE  \A push \in wire' : push.price = "null" => Emptied(push.id)
<1>1. \A o, to, price : /\ Push(o, to, price).price = price
                        /\ Push(o, to, price).id = o
  BY DEF Push
<1>a. ASSUME NEW o, NEW to, NEW price, Publish({Push(o, to, price)}),
             price = "null" => Emptied(o)
      PROVE  \A push \in wire' : push.price = "null" => Emptied(push.id)
  <2> DEFINE p == Push(o, to, price)
  <2>1. p.price = price /\ p.id = o
    BY <1>1
  <2> HIDE DEF p
  <2>2. \A push \in wire' : push \in wire \/ push = p
    BY <1>a DEF Publish, p
  <2> QED
    BY <1>a, <2>1, <2>2 DEF Traced
<1>2. ASSUME NEW pushes, Publish(pushes),
             \A push \in pushes : push.price = "null" => Emptied(push.id)
      PROVE  \A push \in wire' : push.price = "null" => Emptied(push.id)
  BY <1>2 DEF Publish, Traced
<1>3. CASE wire' \subseteq wire
  BY <1>3 DEF Traced
<1>4. ASSUME NEW o \in Orders, Customers(o)
      PROVE  \A push \in wire' : push.price = "null" => Emptied(push.id)
  <2>1. CASE order_moves(o) \/ other_order(o) \/ order_edited(o)
    <3>1. PICK to :
             Publish({Push(o, to, "absent")}) \/ Publish({Push(o, to, "number")})
      BY <2>1 DEF order_moves, order_edited, other_order
    <3>2. "absent" # "null" /\ "number" # "null"
      OBVIOUS
    <3>3. CASE Publish({Push(o, to, "absent")})
      BY <1>a, <3>2, <3>3, Zenon
    <3>4. CASE Publish({Push(o, to, "number")})
      BY <1>a, <3>2, <3>4, Zenon
    <3> QED
      BY <3>1, <3>3, <3>4
  <2>2. CASE other_edit(o)
    BY <1>a, <2>2 DEF other_edit, Emptied
  <2> QED
    BY <1>4, <2>1, <2>2 DEF Customers
<1>5. ASSUME NEW c \in Fetches, Serve(c)
      PROVE  \A push \in wire' : push.price = "null" => Emptied(push.id)
  <2>1. CASE create(c)
    BY <1>1, <1>2, <2>1 DEF create
  <2>2. CASE read(c) \/ retry_payment(c)
    BY <1>3, <2>2 DEF read, retry_payment, engine
  <2>3. CASE request(c)
    <3>1. CASE UNCHANGED wire
      BY <1>3, <3>1
    <3>2. CASE ~UNCHANGED wire
      <4>1. /\ fetch[c].op = "edit"
            /\ Publish({Push(Of(c), None, IF fetch[c].null THEN "null"
                                                           ELSE "number")})
        BY <2>3, <3>2 DEF request
      <4>2. fetch[c].null => Emptied(Of(c))
        BY <4>1 DEF Traced, Known, Emptied, Of
      <4> QED
        BY <1>1, <1>2, <4>1, <4>2
    <3> QED
      BY <3>1, <3>2
  <2>4. CASE fail_payment(c)
    BY <1>1, <1>2, <1>3, <2>4 DEF fail_payment
  <2> QED
    BY <1>5, <2>1, <2>2, <2>3, <2>4 DEF Serve
<1>6. CASE User
  BY <1>3, <1>6 DEF User, handlePlaceOrder, open_bulk, handleBulkSubmit,
     handlePayAll, handleRetryOrder, refresh, close_dialog, handleCancelOrder,
     handlePayOrder, openDetailDialog, open_dialog, setStatusFilter,
     handleUpdateOrder, dismiss, turn, engine
<1>7. CASE \E c \in Fetches : Continue(c) \/ lose(c)
  BY <1>3, <1>7 DEF Continue, order_placed, orders_imported, payment_submitted,
     retry_answered, fail_answered, poll_answered, history_fetched,
     detail_loaded, refetch, update_queued, cancellation_queued, queued, lose,
     engine
<1>8. CASE poll \/ Socket \/ (\E o \in Orders : trigger_fail(o))
           \/ (\E i \in DOMAIN activeBatch : expire(i))
  BY <1>3, <1>8 DEF poll, Socket, onopen, onclose, first_socket_closes,
     onmessage, trigger_fail, expire, engine
<1>9. CASE UNCHANGED vars
  BY <1>3, <1>9 DEF vars, engine
<1> QED
  BY <1>4, <1>5, <1>6, <1>7, <1>8, <1>9 DEF Next, Step, Rest

LEMMA PriceStep ==
    ASSUME PriceInv, [Next]_vars
    PROVE  PriceInv'
<1>1. PageInv /\ PageInv' /\ Traced
  BY PageStep DEF PriceInv
<1>2. \/ /\ \A i \in DOMAIN activeBatch' : Rendered(activeBatch'[i])
         /\ Render /\ ~blank
      \/ UNCHANGED <<activeBatch, activeBatchIndex, blank, session>>
  BY <1>1, RenderedTraced, OtherwiseRendered
     DEF Next, Step, Rest, Continue, User, Socket
<1>3. UNCHANGED session
  BY <1>2 DEF Render
<1>4. \A i \in DOMAIN activeBatch' :
         activeBatch'[i].priced \/ Emptied(activeBatch'[i].id)
  BY <1>1, <1>2 DEF Traced, Rendered
<1>5. (blank => ~Renders)'
  BY <1>1, <1>2 DEF Render, Renders, HasActive, ActiveOrder, Traced
<1>6. \A push \in wire' : push.price = "null" => Emptied(push.id)
  BY <1>1, NullsTraced
<1>7. \A c \in Fetches : Known(fetch'[c])
  <2>1. \A c \in Fetches : Known(fetch[c])
    BY <1>1 DEF Traced
  <2>2. \A r : r.op \in {"none", "history"} => Known(r)
    BY DEF Known
  <2> QED
    BY <1>1, <2>1, <2>2, RequestsStep DEF Starts, Ends, GoesOn, SameOps
<1> QED
  BY <1>1, <1>3, <1>4, <1>5, <1>6, <1>7 DEF PriceInv, Traced, Emptied, Known

\* Whatever events, polls, imports and late answers do to the tracked rows, in
\* whatever order: a row without a price, and the end of the page at
\* App.js:777, go back to an edit of that order whose price was left empty
\* (App.js:505, main.py:290), here or at another customer's.
THEOREM OnlyEmptiedUnmount == Spec => []OnlyEmptiedPricesBlank
<1>1. Init => PriceInv
  <2>1. Init => PageInv
    BY PageInit
  <2>2. Init => Traced
    <3>1. Known(Idle)
      BY DEF Known, Idle
    <3>2. \A filter :
             Known([op |-> "history", ids |-> <<>>, filter |-> filter,
                    fresh |-> FALSE, null |-> FALSE, stage |-> "sent",
                    reply |-> Nothing])
      BY DEF Known
    <3> QED
      BY <3>1, <3>2 DEF Init, Traced
  <2> QED
    BY <2>1, <2>2 DEF PriceInv
<1>2. PriceInv /\ [Next]_vars => PriceInv'
  BY PriceStep
<1>3. PriceInv => OnlyEmptiedPricesBlank
  <2> SUFFICES ASSUME PriceInv
               PROVE  OnlyEmptiedPricesBlank
    OBVIOUS
  <2>1. activeBatch \in Seq(Rows) /\ activeBatchIndex \in Nat
    BY DEF PriceInv, PageInv, TypeOK
  <2>2. HasActive => activeBatchIndex + 1 \in DOMAIN activeBatch
    BY <2>1 DEF HasActive
  <2> QED
    BY <2>2 DEF PriceInv, Traced, Emptied, OnlyEmptiedPricesBlank, Renders,
                ActiveOrder
<1> QED
  BY <1>1, <1>2, <1>3, PTL DEF Spec
=============================================================================
