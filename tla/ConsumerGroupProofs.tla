------------------------- MODULE ConsumerGroupProofs -------------------------
(***************************************************************************)
(* What the consumer group keeps true for any number of processes,         *)
(* partitions, events, faults and starts.                                  *)
(*                                                                         *)
(* CommittedIsSettled is not inductive: the commit of a process that lost  *)
(* its partition in the middle of a turn must be known to be of a handled  *)
(* message (TurnsFollow), and a new owner must start where everything      *)
(* before is handled and keep it so (OwnersFollow).                        *)
(* SomebodyIsNotified needs to know where the events are on the way to the *)
(* clients (Heard), and who can have gone (Counted).                       *)
(***************************************************************************)
EXTENDS ConsumerGroup, FiniteSetTheorems, TLAPS

\* Everything before a message somebody works on is settled, and so is the
\* message once it waits for its commit.
TurnsFollow ==
    \A i \in Instances :
        /\ turn[i].pc \in {"turn", "commit"} =>
              \A m \in 1..(turn[i].at - 1) : <<turn[i].of, m>> \in Settled
        /\ turn[i].pc = "commit" => Place(i) \in Settled

\* What an owner has polled is settled, but for the message of its turn.
OwnersFollow ==
    \A p \in Partitions : \A i \in Instances : owner[p] = i =>
        \A m \in 1..position[p] :
            \/ <<p, m>> \in Settled
            \/ turn[i].pc = "turn" /\ Place(i) = <<p, m>>

\* Settled places exist, and a process that is off works on nothing.
Sensible ==
    /\ \A p \in Partitions, n \in Nat :
          <<p, n>> \in Settled => n \in 1..Len(log[p])
    /\ \A i \in Instances : stage[i] = "off" => turn[i].pc = "none"

GroupInv ==
    /\ TypeOK /\ Sensible /\ TurnsFollow /\ OwnersFollow
    /\ CommittedIsSettled /\ FirstInOrder

LEMMA InitGroup ==
    ASSUME Init
    PROVE  GroupInv
<1>1. NoThread \in Turns
  BY DEF NoThread, At, Turns
<1>2. Settled = {}
  BY DEF Init, Settled
<1>3. TypeOK
  BY <1>1, <1>2 DEF Init, TypeOK, NoThread, At
<1>4. TurnsFollow
  BY DEF Init, TurnsFollow, NoThread, At
<1>5. OwnersFollow /\ CommittedIsSettled
  BY DEF Init, OwnersFollow, CommittedIsSettled
<1>6. FirstInOrder
  BY <1>2 DEF FirstInOrder
<1>7. Sensible
  BY <1>2 DEF Sensible, Init, NoThread, At
<1> QED
  BY <1>3, <1>4, <1>5, <1>6, <1>7 DEF GroupInv

-----------------------------------------------------------------------------

\* The log only grows at its end.
LogGrows ==
    \A p \in Partitions :
        /\ Len(log'[p]) >= Len(log[p])
        /\ \A n \in 1..Len(log[p]) : log'[p][n] = log[p][n]

LEMMA Appending ==
    ASSUME GroupInv, NEW e \in Events, ToLog(e)
    PROVE  log' \in [Partitions -> Seq(Events)] /\ LogGrows
<1>1. log \in [Partitions -> Seq(Events)] /\ partition[e] \in Partitions
  BY GroupConstants DEF GroupInv, TypeOK
<1>2. log' = [log EXCEPT ![partition[e]] = Append(@, e)]
  BY DEF ToLog
<1>3. \A s \in Seq(Events) :
         /\ Append(s, e) \in Seq(Events) /\ Len(Append(s, e)) = Len(s) + 1
         /\ \A n \in 1..Len(s) : Append(s, e)[n] = s[n]
  OBVIOUS
<1>4. \A p \in Partitions : Len(log[p]) \in Nat
  BY <1>1
<1> QED
  BY <1>1, <1>2, <1>3, <1>4 DEF LogGrows

\* What is said of places and turns survives growth, and so where nothing
\* of it changes at all.
LEMMA GrowingKeeps ==
    ASSUME GroupInv, LogGrows, log' \in [Partitions -> Seq(Events)],
           UNCHANGED <<turn, group, started, skipped>>,
           \A i \in Instances : stage'[i] = "off" => stage[i] = "off",
           stage' \in [Instances -> {"off", "serving", "stopping", "flushing"}],
           queue' \in [Instances -> Seq(Events)],
           buffer' \in [Instances -> Seq(Events)],
           told' \in [Instances -> SUBSET Events],
           accepted' \subseteq Events, starts' \in Nat, faults' \in Nat
    PROVE  GroupInv'
<1>1. \A p \in Partitions : Len(log[p]) \in Nat /\ Len(log'[p]) \in Nat
  BY DEF GroupInv, TypeOK
<1>2. Settled' = Settled
  BY DEF Settled
<1>3. \A i \in Instances : turn'[i].pc \in {"turn", "commit"} =>
         turn'[i].of \in Partitions /\ turn'[i].at \in 1..Len(log'[turn'[i].of])
  BY <1>1 DEF GroupInv, TypeOK, LogGrows
<1>4. \A p \in Partitions :
         position'[p] <= Len(log'[p]) /\ committed'[p] <= Len(log'[p])
  BY <1>1 DEF GroupInv, TypeOK, LogGrows, group
<1>5. TypeOK'
  BY <1>2, <1>3, <1>4 DEF GroupInv, TypeOK, group
<1>6. TurnsFollow' /\ OwnersFollow' /\ CommittedIsSettled'
  BY DEF GroupInv, TurnsFollow, OwnersFollow, CommittedIsSettled, Settled,
         Place, group
<1>7. Sensible'
  BY <1>1, <1>2 DEF GroupInv, Sensible, LogGrows
<1>8. FirstInOrder'
  <2> SUFFICES ASSUME NEW p \in Partitions, NEW m \in 1..Len(log'[p]),
                      NEW n \in 1..Len(log'[p]), m < n, <<p, n>> \in Settled
               PROVE  <<p, m>> \in Settled
    BY <1>2 DEF FirstInOrder
  <2>1. n \in 1..Len(log[p])
    BY <1>1 DEF GroupInv, Sensible
  <2>2. m \in 1..Len(log[p])
    BY <1>1, <2>1
  <2> QED
    BY <2>1, <2>2 DEF GroupInv, FirstInOrder
<1> QED
  BY <1>5, <1>6, <1>7, <1>8 DEF GroupInv

LEMMA SameLogGrows ==
    ASSUME GroupInv, UNCHANGED log
    PROVE  LogGrows /\ log' \in [Partitions -> Seq(Events)]
<1>1. \A p \in Partitions : Len(log[p]) \in Nat
  BY DEF GroupInv, TypeOK
<1> QED
  BY <1>1 DEF GroupInv, TypeOK, LogGrows

LEMMA Queues ==
    ASSUME NEW s \in Seq(Events), NEW e \in Events
    PROVE  /\ Append(s, e) \in Seq(Events)
           /\ s # <<>> => Head(s) \in Events /\ Tail(s) \in Seq(Events)
OBVIOUS

\* Publication, the lifespan's steps on a process that stays, the broadcast.
LEMMA QuietSteps ==
    ASSUME GroupInv, NEW i \in Instances,
           \/ \E e \in Events : publish_event(i, e) \/ worker_publishes(e)
           \/ deliver(i) \/ shutdown(i) \/ join(i) \/ broadcast(i)
    PROVE  GroupInv'
<1>1. /\ UNCHANGED <<turn, group, started, skipped>>
      /\ starts' \in Nat
  BY DEF publish_event, worker_publishes, deliver, shutdown, join, broadcast,
         process, ghosts, GroupInv, TypeOK
<1>2. LogGrows /\ log' \in [Partitions -> Seq(Events)]
  <2>1. CASE UNCHANGED log
    BY <2>1, SameLogGrows
  <2>2. CASE \E e \in Events : worker_publishes(e)
    BY <2>2, Appending DEF worker_publishes
  <2>3. CASE deliver(i)
    <3>1. Head(buffer[i]) \in Events /\ ToLog(Head(buffer[i]))
      BY <2>3, Queues DEF deliver, GroupInv, TypeOK
    <3> QED
      BY <3>1, Appending
  <2> QED
    BY <2>1, <2>2, <2>3 DEF publish_event, shutdown, join, broadcast
<1>3. buffer' \in [Instances -> Seq(Events)]
  <2>1. CASE \E e \in Events : publish_event(i, e)
    BY <2>1, Queues DEF publish_event, GroupInv, TypeOK
  <2>2. CASE deliver(i)
    BY <2>2, Queues DEF deliver, GroupInv, TypeOK
  <2> QED
    BY <2>1, <2>2 DEF worker_publishes, shutdown, join, broadcast, process,
                      GroupInv, TypeOK
<1>4. /\ queue' \in [Instances -> Seq(Events)]
      /\ told' \in [Instances -> SUBSET Events]
  <2>1. CASE broadcast(i)
    BY <2>1, Queues DEF broadcast, GroupInv, TypeOK
  <2>2. CASE join(i)
    <3>1. <<>> \in Seq(Events)
      OBVIOUS
    <3> QED
      BY <2>2, <3>1 DEF join, GroupInv, TypeOK
  <2> QED
    BY <2>1, <2>2 DEF publish_event, worker_publishes, deliver, shutdown,
                      process, GroupInv, TypeOK
<1>5. /\ stage' \in [Instances -> {"off", "serving", "stopping", "flushing"}]
      /\ \A j \in Instances : stage'[j] = "off" => stage[j] = "off"
  BY DEF publish_event, worker_publishes, deliver, shutdown, join, broadcast,
         process, GroupInv, TypeOK
<1>6. accepted' \subseteq Events /\ faults' \in Nat
  BY DEF publish_event, worker_publishes, deliver, shutdown, join, broadcast,
         process, ghosts, Fault, GroupInv, TypeOK
<1> QED
  BY <1>1, <1>2, <1>3, <1>4, <1>5, <1>6, GrowingKeeps

-----------------------------------------------------------------------------

\* A thread starts where there was none.
LEMMA Starting ==
    ASSUME GroupInv, NEW i \in Instances, startup(i)
    PROVE  GroupInv'
<1>1. /\ turn' = [turn EXCEPT ![i] = Polling]
      /\ stage' = [stage EXCEPT ![i] = "serving"]
      /\ UNCHANGED <<queue, buffer, log, owner, members, position, committed,
                     accepted, started, skipped, faults>>
      /\ told' = [told EXCEPT ![i] = {}]
      /\ starts' \in Nat
  BY DEF startup, group, GroupInv, TypeOK
<1>2. Settled' = Settled
  BY <1>1 DEF Settled
<1>3. Polling \in Turns /\ Polling.pc = "poll"
  BY DEF Polling, At, Turns
<1>4. turn[i].pc = "none"
  BY DEF startup, GroupInv, Sensible
<1>5. turn'[i] = Polling /\ \A j \in Instances \ {i} : turn'[j] = turn[j]
  BY <1>1 DEF GroupInv, TypeOK
<1>6. TypeOK'
  <2>1. \A j \in Instances : turn'[j].pc \in {"turn", "commit"} =>
           /\ turn'[j].of \in Partitions
           /\ turn'[j].at \in 1..Len(log'[turn'[j].of])
    BY <1>1, <1>3, <1>5 DEF GroupInv, TypeOK
  <2> QED
    BY <1>1, <1>2, <1>3, <2>1 DEF GroupInv, TypeOK
<1>7. Sensible'
  BY <1>1, <1>2, <1>5 DEF GroupInv, Sensible, TypeOK
<1>8. TurnsFollow'
  BY <1>2, <1>3, <1>5 DEF GroupInv, TurnsFollow, Place
<1>9. OwnersFollow'
  BY <1>1, <1>2, <1>4, <1>5 DEF GroupInv, OwnersFollow, Place
<1>10. CommittedIsSettled' /\ FirstInOrder'
  BY <1>1, <1>2 DEF GroupInv, CommittedIsSettled, FirstInOrder
<1> QED
  BY <1>6, <1>7, <1>8, <1>9, <1>10 DEF GroupInv

\* A thread that goes leaves its partitions without an owner.
LEMMA Leaving ==
    ASSUME GroupInv, NEW i \in Instances,
           turn' = [turn EXCEPT ![i] = NoThread],
           owner' = [p \in Partitions |-> IF owner[p] = i THEN None
                                                          ELSE owner[p]],
           members' = members \ {i},
           UNCHANGED <<log, position, committed, ghosts, told, starts>>,
           \A j \in Instances \ {i} : stage'[j] = stage[j],
           stage' \in [Instances -> {"off", "serving", "stopping", "flushing"}],
           queue' \in [Instances -> Seq(Events)],
           buffer' \in [Instances -> Seq(Events)], faults' \in Nat
    PROVE  GroupInv'
<1>1. Settled' = Settled
  BY DEF Settled, ghosts
<1>2. NoThread \in Turns /\ NoThread.pc = "none"
  BY DEF NoThread, At, Turns
<1>3. turn'[i] = NoThread /\ \A j \in Instances \ {i} : turn'[j] = turn[j]
  BY DEF GroupInv, TypeOK
<1>4. \A p \in Partitions : owner'[p] # i /\ owner'[p] \in {None, owner[p]}
  BY GroupConstants
<1>5. TypeOK'
  <2>1. \A j \in Instances : turn'[j].pc \in {"turn", "commit"} =>
           /\ turn'[j].of \in Partitions
           /\ turn'[j].at \in 1..Len(log'[turn'[j].of])
    BY <1>2, <1>3 DEF GroupInv, TypeOK
  <2>2. /\ turn' \in [Instances -> Turns]
        /\ owner' \in [Partitions -> Instances \union {None}]
    BY <1>2 DEF GroupInv, TypeOK
  <2> QED
    BY <1>1, <2>1, <2>2 DEF GroupInv, TypeOK, ghosts
<1>6. Sensible'
  BY <1>1, <1>2, <1>3 DEF GroupInv, Sensible
<1>7. TurnsFollow'
  BY <1>1, <1>2, <1>3 DEF GroupInv, TurnsFollow, Place
<1>8. OwnersFollow'
  <2>1. \A p \in Partitions, j \in Instances : owner'[p] = j =>
           j # i /\ owner[p] = j /\ turn'[j] = turn[j]
    BY <1>3, <1>4, GroupConstants
  <2>2. \A p \in Partitions, j \in Instances : owner'[p] = j =>
           \A m \in 1..position[p] :
              \/ <<p, m>> \in Settled
              \/ turn'[j].pc = "turn" /\ Place(j)' = <<p, m>>
    <3> SUFFICES ASSUME NEW p \in Partitions, NEW j \in Instances,
                        owner'[p] = j, NEW m \in 1..position[p]
                 PROVE  \/ <<p, m>> \in Settled
                        \/ turn'[j].pc = "turn" /\ Place(j)' = <<p, m>>
      OBVIOUS
    <3>1. owner[p] = j /\ turn'[j] = turn[j]
      BY <2>1
    <3>2. Place(j)' = Place(j)
      BY <3>1 DEF Place
    <3>3. \/ <<p, m>> \in Settled
          \/ turn[j].pc = "turn" /\ Place(j) = <<p, m>>
      BY <3>1 DEF GroupInv, OwnersFollow
    <3> QED
      BY <3>1, <3>2, <3>3
  <2>3. position' = position
    OBVIOUS
  <2> QED
    BY <1>1, <2>2, <2>3, Zenon DEF OwnersFollow
<1>9. CommittedIsSettled' /\ FirstInOrder'
  BY <1>1 DEF GroupInv, CommittedIsSettled, FirstInOrder
<1> QED
  BY <1>5, <1>6, <1>7, <1>8, <1>9 DEF GroupInv

LEMMA LeavingSteps ==
    ASSUME GroupInv, NEW i \in Instances, flush(i) \/ crash(i) \/ close(i)
    PROVE  GroupInv'
<1>1. <<>> \in Seq(Events)
  OBVIOUS
<1>2. CASE flush(i) \/ crash(i)
  <2>1. /\ Exit(i)
        /\ UNCHANGED <<told, log, position, committed, ghosts, starts>>
        /\ faults' \in Nat
    BY <1>2 DEF flush, crash, Fault, GroupInv, TypeOK
  <2>2. /\ \A j \in Instances \ {i} : stage'[j] = stage[j]
        /\ stage' \in [Instances -> {"off", "serving", "stopping", "flushing"}]
        /\ queue' \in [Instances -> Seq(Events)]
        /\ buffer' \in [Instances -> Seq(Events)]
    BY <1>1, <2>1 DEF Exit, GroupInv, TypeOK
  <2> QED
    BY <2>1, <2>2, Leaving DEF Exit
<1>3. CASE close(i)
  BY <1>3, Leaving DEF close, GroupInv, TypeOK
<1> QED
  BY <1>2, <1>3

\* New owners start from committed offsets, whose messages are settled.
LEMMA Rebalancing ==
    ASSUME GroupInv, rebalance
    PROVE  GroupInv'
<1>1. /\ owner' \in [Partitions -> Live] /\ members' = Live
      /\ position' = committed
      /\ UNCHANGED <<process, log, committed, ghosts, starts, faults>>
  BY DEF rebalance, reset_position
<1>2. Settled' = Settled /\ Live \subseteq Instances
  BY <1>1 DEF Settled, ghosts, Live
<1>3. TypeOK'
  BY <1>1, <1>2 DEF GroupInv, TypeOK, process, ghosts
<1>4. Sensible' /\ TurnsFollow' /\ CommittedIsSettled' /\ FirstInOrder'
  BY <1>1, <1>2 DEF GroupInv, Sensible, TurnsFollow, CommittedIsSettled,
                    FirstInOrder, Place, process
<1>5. OwnersFollow'
  BY <1>1, <1>2 DEF GroupInv, OwnersFollow, CommittedIsSettled
<1> QED
  BY <1>3, <1>4, <1>5 DEF GroupInv

-----------------------------------------------------------------------------
(* The turn of a thread.                                                   *)

LEMMA Polls ==
    ASSUME GroupInv, NEW i \in Instances, poll(i)
    PROVE  GroupInv'
<1>1. PICK p \in Partitions :
         /\ owner[p] = i /\ position[p] < Len(log[p])
         /\ turn' = [turn EXCEPT ![i] = At("turn", p, position[p] + 1)]
         /\ position' = [position EXCEPT ![p] = @ + 1]
         /\ committed' = committed
  BY DEF poll, on_poll
<1>2. /\ turn[i].pc = "poll"
      /\ UNCHANGED <<stage, queue, told, buffer, log, owner, members, ghosts,
                     starts, faults>>
  BY DEF poll
<1>3. Settled' = Settled
  BY <1>2 DEF Settled, ghosts
<1>4. position[p] \in Nat /\ Len(log[p]) \in Nat
  BY DEF GroupInv, TypeOK
<1>5. position[p] + 1 \in 1..Len(log[p])
  BY <1>1, <1>4
<1>6. /\ turn'[i] \in Turns
      /\ turn'[i].pc = "turn" /\ turn'[i].of = p
      /\ turn'[i].at = position[p] + 1
  BY <1>1, <1>4 DEF At, Turns, GroupInv, TypeOK
<1>7. \A j \in Instances \ {i} : turn'[j] = turn[j]
  BY <1>1 DEF GroupInv, TypeOK
<1>8. /\ position'[p] = position[p] + 1
      /\ \A q \in Partitions \ {p} : position'[q] = position[q]
  BY <1>1 DEF GroupInv, TypeOK
<1>9. \A q \in Partitions : owner[q] = i =>
         \A m \in 1..position[q] : <<q, m>> \in Settled
  BY <1>2 DEF GroupInv, OwnersFollow
<1>10. TypeOK'
  <2>1. \A j \in Instances : turn'[j].pc \in {"turn", "commit"} =>
           /\ turn'[j].of \in Partitions
           /\ turn'[j].at \in 1..Len(log'[turn'[j].of])
    BY <1>2, <1>5, <1>6, <1>7 DEF GroupInv, TypeOK
  <2>2. turn' \in [Instances -> Turns]
    BY <1>1, <1>6, <1>7 DEF GroupInv, TypeOK
  <2>3. /\ position' \in [Partitions -> Nat]
        /\ \A q \in Partitions : position'[q] <= Len(log'[q])
    BY <1>1, <1>2, <1>4, <1>5, <1>8 DEF GroupInv, TypeOK
  <2> QED
    BY <1>1, <1>2, <1>3, <2>1, <2>2, <2>3 DEF GroupInv, TypeOK, ghosts
<1>11. Sensible'
  BY <1>2, <1>3, <1>6, <1>7 DEF GroupInv, Sensible
<1>12. TurnsFollow'
  <2>1. \A m \in 1..(turn'[i].at - 1) : <<turn'[i].of, m>> \in Settled
    BY <1>1, <1>4, <1>6, <1>9
  <2> QED
    BY <1>3, <1>6, <1>7, <2>1 DEF GroupInv, TurnsFollow, Place
<1>13. OwnersFollow'
  <2> SUFFICES ASSUME NEW q \in Partitions, NEW j \in Instances, owner[q] = j,
                      NEW m \in 1..position'[q]
               PROVE  \/ <<q, m>> \in Settled
                      \/ turn'[j].pc = "turn"
                         /\ <<turn'[j].of, turn'[j].at>> = <<q, m>>
    BY <1>2, <1>3 DEF OwnersFollow, Place
  <2>1. CASE j # i
    BY <1>1, <1>7, <1>8, <2>1 DEF GroupInv, OwnersFollow, Place
  <2>2. CASE j = i /\ q # p
    BY <1>8, <1>9, <2>2
  <2>3. CASE j = i /\ q = p
    <3>1. m \in 1..position[p] \/ m = position[p] + 1
      BY <1>4, <1>8, <2>3
    <3> QED
      BY <1>6, <1>9, <2>3, <3>1
  <2> QED
    BY <2>1, <2>2, <2>3
<1>14. CommittedIsSettled' /\ FirstInOrder'
  BY <1>1, <1>2, <1>3 DEF GroupInv, CommittedIsSettled, FirstInOrder
<1> QED
  BY <1>10, <1>11, <1>12, <1>13, <1>14 DEF GroupInv

LEMMA NextTurns ==
    ASSUME NEW i \in Instances
    PROVE  next_turn(i) \in Turns /\ next_turn(i).pc \in {"poll", "close"}
BY DEF next_turn, Polling, Closing, At, Turns

\* The message of a turn is settled, and the thread goes on.
LEMMA Settling ==
    ASSUME GroupInv, NEW i \in Instances, turn[i].pc = "turn",
           Settled' = Settled \union {Place(i)},
           turn'[i] \in Turns,
           \/ turn'[i].pc \in {"poll", "close"}
           \/ /\ turn'[i].pc = "commit"
              /\ turn'[i].of = turn[i].of /\ turn'[i].at = turn[i].at,
           turn' = [turn EXCEPT ![i] = turn'[i]],
           UNCHANGED <<stage, told, buffer, log, group, accepted, starts>>,
           queue' \in [Instances -> Seq(Events)], faults' \in Nat
    PROVE  GroupInv'
<1>1. turn[i].of \in Partitions /\ turn[i].at \in 1..Len(log[turn[i].of])
  BY DEF GroupInv, TypeOK
<1>2. \A j \in Instances \ {i} : turn'[j] = turn[j]
  BY DEF GroupInv, TypeOK
<1>3. \A p \in Partitions : Len(log[p]) \in Nat
  BY DEF GroupInv, TypeOK
<1>4. \A m \in 1..(turn[i].at - 1) : <<turn[i].of, m>> \in Settled
  BY DEF GroupInv, TurnsFollow
<1>5. TypeOK'
  <2>1. \A j \in Instances : turn'[j].pc \in {"turn", "commit"} =>
           /\ turn'[j].of \in Partitions
           /\ turn'[j].at \in 1..Len(log'[turn'[j].of])
    BY <1>1, <1>2 DEF GroupInv, TypeOK
  <2>2. turn' \in [Instances -> Turns]
    BY DEF GroupInv, TypeOK
  <2>3. Settled' \subseteq Partitions \X Nat
    BY <1>1, <1>3 DEF GroupInv, TypeOK, Place
  <2> QED
    BY <2>1, <2>2, <2>3 DEF GroupInv, TypeOK, group
<1>6. Sensible'
  BY <1>1, <1>2 DEF GroupInv, Sensible, Place
<1>7. TurnsFollow'
  BY <1>2, <1>4 DEF GroupInv, TurnsFollow, Place
<1>8. OwnersFollow'
  <2> SUFFICES ASSUME NEW p \in Partitions, NEW j \in Instances, owner[p] = j,
                      NEW m \in 1..position[p]
               PROVE  \/ <<p, m>> \in Settled'
                      \/ turn'[j].pc = "turn" /\ Place(j)' = <<p, m>>
    BY DEF OwnersFollow, group
  <2>1. \/ <<p, m>> \in Settled
        \/ turn[j].pc = "turn" /\ Place(j) = <<p, m>>
    BY DEF GroupInv, OwnersFollow
  <2> QED
    BY <1>2, <2>1 DEF Place
<1>9. CommittedIsSettled'
  BY DEF GroupInv, CommittedIsSettled, group
<1>10. FirstInOrder'
  <2> SUFFICES ASSUME NEW p \in Partitions, NEW m \in 1..Len(log[p]),
                      NEW n \in 1..Len(log[p]), m < n, <<p, n>> \in Settled'
               PROVE  <<p, m>> \in Settled'
    BY DEF FirstInOrder
  <2>1. CASE <<p, n>> \in Settled
    BY <2>1 DEF GroupInv, FirstInOrder
  <2>2. CASE <<p, n>> = Place(i)
    BY <1>3, <1>4, <2>2 DEF Place
  <2> QED
    BY <2>1, <2>2
<1> QED
  BY <1>5, <1>6, <1>7, <1>8, <1>9, <1>10 DEF GroupInv

LEMMA Turning ==
    ASSUME GroupInv, NEW i \in Instances, dispatch(i) \/ skip(i)
    PROVE  GroupInv'
<1>1. turn[i].pc = "turn" /\ turn[i] \in Turns
  BY DEF dispatch, skip, GroupInv, TypeOK
<1>2. Polled(i) \in Events
  BY <1>1 DEF Polled, GroupInv, TypeOK
<1>3. Settled' = Settled \union {Place(i)}
  BY DEF dispatch, skip, Settled
<1>4. /\ turn'[i] \in Turns /\ turn' = [turn EXCEPT ![i] = turn'[i]]
      /\ \/ turn'[i].pc \in {"poll", "close"}
         \/ /\ turn'[i].pc = "commit"
            /\ turn'[i].of = turn[i].of /\ turn'[i].at = turn[i].at
  <2>1. CASE dispatch(i)
    <3>1. turn' = [turn EXCEPT ![i] = [turn[i] EXCEPT !.pc = "commit"]]
      BY <2>1 DEF dispatch
    <3>2. /\ [turn[i] EXCEPT !.pc = "commit"] \in Turns
          /\ [turn[i] EXCEPT !.pc = "commit"].pc = "commit"
          /\ [turn[i] EXCEPT !.pc = "commit"].of = turn[i].of
          /\ [turn[i] EXCEPT !.pc = "commit"].at = turn[i].at
      BY <1>1 DEF Turns
    <3>3. turn'[i] = [turn[i] EXCEPT !.pc = "commit"]
      BY <3>1 DEF GroupInv, TypeOK
    <3> QED
      BY <3>1, <3>2, <3>3
  <2>2. CASE skip(i)
    <3>1. turn' = [turn EXCEPT ![i] = next_turn(i)]
      BY <2>2 DEF skip
    <3>2. next_turn(i) \in Turns /\ next_turn(i).pc \in {"poll", "close"}
      BY NextTurns
    <3>3. turn'[i] = next_turn(i)
      BY <3>1 DEF GroupInv, TypeOK
    <3>4. turn' = [turn EXCEPT ![i] = turn'[i]]
      BY <3>1, <3>3
    <3>5. turn'[i] \in Turns /\ turn'[i].pc \in {"poll", "close"}
      BY <3>2, <3>3
    <3> QED
      BY <3>4, <3>5
  <2> QED
    BY <2>1, <2>2
<1>5. /\ UNCHANGED <<stage, told, buffer, log, group, accepted, starts>>
      /\ faults' \in Nat
  BY DEF dispatch, skip, Fault, GroupInv, TypeOK
<1>6. queue' \in [Instances -> Seq(Events)]
  <2>1. queue \in [Instances -> Seq(Events)]
    BY DEF GroupInv, TypeOK
  <2>2. CASE dispatch(i)
    BY <1>2, <2>1, <2>2, Queues DEF dispatch
  <2>3. CASE skip(i)
    BY <2>1, <2>3 DEF skip
  <2> QED
    BY <2>2, <2>3
<1> QED
  BY <1>1, <1>3, <1>4, <1>5, <1>6, Settling

\* Whoever commits, and whatever the offset was, what it commits is settled.
LEMMA Committing ==
    ASSUME GroupInv, NEW i \in Instances, commit(i)
    PROVE  GroupInv'
<1>1. /\ turn[i].pc = "commit" /\ turn' = [turn EXCEPT ![i] = next_turn(i)]
      /\ UNCHANGED <<stage, queue, told, buffer, log, owner, members, position,
                     ghosts, starts, faults>>
      /\ \/ committed' = [committed EXCEPT ![turn[i].of] = turn[i].at]
         \/ UNCHANGED committed
  BY DEF commit, message_committed
<1>2. Settled' = Settled
  BY <1>1 DEF Settled, ghosts
<1>3. next_turn(i) \in Turns /\ next_turn(i).pc \in {"poll", "close"}
  BY NextTurns
<1>4. /\ turn'[i] = next_turn(i)
      /\ \A j \in Instances \ {i} : turn'[j] = turn[j]
  BY <1>1 DEF GroupInv, TypeOK
<1>5. turn[i].of \in Partitions /\ turn[i].at \in 1..Len(log[turn[i].of])
  BY <1>1 DEF GroupInv, TypeOK
<1>6. \A m \in 1..turn[i].at : <<turn[i].of, m>> \in Settled
  <2>1. \A m \in 1..(turn[i].at - 1) : <<turn[i].of, m>> \in Settled
    BY <1>1 DEF GroupInv, TurnsFollow
  <2>2. <<turn[i].of, turn[i].at>> \in Settled
    BY <1>1 DEF GroupInv, TurnsFollow, Place
  <2>3. Len(log[turn[i].of]) \in Nat
    BY <1>5 DEF GroupInv, TypeOK
  <2> QED
    BY <1>5, <2>1, <2>2, <2>3
<1>7. \A p \in Partitions :
         \/ committed'[p] = committed[p]
         \/ p = turn[i].of /\ committed'[p] = turn[i].at
  BY <1>1, <1>5 DEF GroupInv, TypeOK
<1>8. TypeOK'
  <2>1. \A j \in Instances : turn'[j].pc \in {"turn", "commit"} =>
           /\ turn'[j].of \in Partitions
           /\ turn'[j].at \in 1..Len(log'[turn'[j].of])
    BY <1>1, <1>3, <1>4 DEF GroupInv, TypeOK
  <2>2. Len(log[turn[i].of]) \in Nat
    BY <1>5 DEF GroupInv, TypeOK
  <2>3. /\ committed' \in [Partitions -> Nat]
        /\ \A p \in Partitions : committed'[p] <= Len(log'[p])
    <3>1. /\ committed \in [Partitions -> Nat]
          /\ \A p \in Partitions : committed[p] <= Len(log[p])
      BY DEF GroupInv, TypeOK
    <3>2. turn[i].at \in Nat /\ turn[i].at <= Len(log[turn[i].of])
      BY <1>5, <2>2
    <3>3. committed' \in [Partitions -> Nat]
      BY <1>1, <3>1, <3>2
    <3>4. \A p \in Partitions : committed'[p] <= Len(log[p])
      BY <1>7, <3>1, <3>2
    <3> QED
      BY <1>1, <3>3, <3>4
  <2>4. turn' \in [Instances -> Turns]
    BY <1>1, <1>3 DEF GroupInv, TypeOK
  <2>5. /\ UNCHANGED <<stage, queue, told, buffer, log, owner, members,
                       position, accepted, starts, faults>>
        /\ Settled' = Settled
    BY <1>1, <1>2 DEF ghosts
  <2> QED
    BY <2>1, <2>3, <2>4, <2>5 DEF GroupInv, TypeOK
<1>9. Sensible'
  <2>1. stage[i] # "off"
    BY <1>1 DEF GroupInv, Sensible
  <2> QED
    BY <1>1, <1>2, <1>4, <2>1 DEF GroupInv, Sensible
<1>10. TurnsFollow'
  BY <1>2, <1>3, <1>4 DEF GroupInv, TurnsFollow, Place
<1>11. OwnersFollow'
  BY <1>1, <1>2, <1>4 DEF GroupInv, OwnersFollow, Place
<1>12. CommittedIsSettled'
  BY <1>2, <1>6, <1>7, <1>1 DEF GroupInv, CommittedIsSettled
<1>13. FirstInOrder'
  BY <1>1, <1>2 DEF GroupInv, FirstInOrder
<1> QED
  BY <1>8, <1>9, <1>10, <1>11, <1>12, <1>13 DEF GroupInv

-----------------------------------------------------------------------------

LEMMA GroupStep ==
    ASSUME GroupInv, [Next]_vars
    PROVE  GroupInv'
<1>1. CASE \E i \in Instances :
              \/ \E e \in Events : publish_event(i, e)
              \/ deliver(i) \/ shutdown(i) \/ join(i) \/ broadcast(i)
  BY <1>1, QuietSteps
<1>2. CASE \E e \in Events : worker_publishes(e)
  <2>1. CASE Instances = {}
    <3>1. LogGrows /\ log' \in [Partitions -> Seq(Events)]
      BY <1>2, Appending DEF worker_publishes
    <3> QED
      BY <1>2, <2>1, <3>1, GrowingKeeps
         DEF worker_publishes, process, GroupInv, TypeOK
  <2>2. CASE Instances # {}
    BY <1>2, <2>2, QuietSteps
  <2> QED
    BY <2>1, <2>2
<1>3. CASE \E i \in Instances : startup(i)
  BY <1>3, Starting
<1>4. CASE \E i \in Instances : flush(i) \/ crash(i) \/ close(i)
  BY <1>4, LeavingSteps
<1>5. CASE \E i \in Instances : poll(i)
  BY <1>5, Polls
<1>6. CASE \E i \in Instances : dispatch(i) \/ skip(i)
  BY <1>6, Turning
<1>7. CASE \E i \in Instances : commit(i)
  BY <1>7, Committing
<1>8. CASE rebalance
  BY <1>8, Rebalancing
<1>9. CASE UNCHANGED vars
  <2>1. LogGrows /\ log' \in [Partitions -> Seq(Events)]
    BY <1>9, SameLogGrows DEF vars
  <2> QED
    BY <1>9, <2>1, GrowingKeeps DEF vars, process, ghosts, GroupInv, TypeOK
<1> QED
  BY <1>1, <1>2, <1>3, <1>4, <1>5, <1>6, <1>7, <1>8, <1>9
     DEF Next, Consume, Stop

-----------------------------------------------------------------------------
(* What a producer was given is on the log or still in its buffer.         *)

\* An event on the log is on it in the partition of its order.
LEMMA Logged ==
    ASSUME TypeOK, NEW e \in Events, ToLog(e)
    PROVE  Published' = Published \union {e}
<1>1. log' = [log EXCEPT ![partition[e]] = Append(@, e)]
  BY DEF ToLog
<1>2. log \in [Partitions -> Seq(Events)]
  BY DEF TypeOK
<1>3. \A f \in Events : partition[f] \in Partitions
  BY GroupConstants
<1>4. \A s \in Seq(Events) :
         /\ Len(Append(s, e)) = Len(s) + 1 /\ Len(s) \in Nat
         /\ \A n \in 1..Len(s) : Append(s, e)[n] = s[n]
         /\ Append(s, e)[Len(s) + 1] = e
  OBVIOUS
<1>5. ASSUME NEW f \in Events
      PROVE  f \in Published' <=> f \in Published \/ f = e
  <2>1. log[partition[f]] \in Seq(Events)
    BY <1>2, <1>3
  <2>2. CASE partition[f] # partition[e]
    <3>1. log'[partition[f]] = log[partition[f]]
      BY <1>1, <1>2, <1>3, <2>2
    <3> QED
      BY <2>2, <3>1 DEF Published
  <2>3. CASE partition[f] = partition[e]
    <3>1. log'[partition[f]] = Append(log[partition[f]], e)
      BY <1>1, <1>2, <1>3, <2>3
    <3>2. /\ Len(log'[partition[f]]) = Len(log[partition[f]]) + 1
          /\ Len(log[partition[f]]) \in Nat
          /\ \A n \in 1..Len(log[partition[f]]) :
                log'[partition[f]][n] = log[partition[f]][n]
          /\ log'[partition[f]][Len(log[partition[f]]) + 1] = e
      BY <1>4, <2>1, <3>1
    <3> DEFINE old == log[partition[f]]
               new == log'[partition[f]]
    <3>3. (\E n \in 1..Len(new) : new[n] = f)
             <=> (\E n \in 1..Len(old) : old[n] = f) \/ f = e
      <4>1. ASSUME NEW n \in 1..Len(new), new[n] = f, f # e
            PROVE  n \in 1..Len(old) /\ old[n] = f
        BY <3>2, <4>1
      <4>2. ASSUME NEW n \in 1..Len(old), old[n] = f
            PROVE  n \in 1..Len(new) /\ new[n] = f
        BY <3>2, <4>2
      <4>3. Len(old) + 1 \in 1..Len(new) /\ new[Len(old) + 1] = e
        BY <3>2
      <4> HIDE DEF old, new
      <4> QED
        BY <4>1, <4>2, <4>3
    <3> QED
      BY <3>3 DEF Published
  <2> QED
    BY <2>2, <2>3
<1> QED
  BY <1>5 DEF Published

LEMMA AppendedBuffer ==
    ASSUME TypeOK, NEW i \in Instances, NEW e \in Events,
           buffer' = [buffer EXCEPT ![i] = Append(@, e)]
    PROVE  Buffered' = Buffered \union {e}
<1>1. \A s \in Seq(Events) :
         /\ Len(Append(s, e)) = Len(s) + 1 /\ Len(s) \in Nat
         /\ \A n \in 1..Len(s) : Append(s, e)[n] = s[n]
         /\ Append(s, e)[Len(s) + 1] = e
  OBVIOUS
<1>2. \A j \in Instances : buffer[j] \in Seq(Events)
  BY DEF TypeOK
<1>3. /\ buffer'[i] = Append(buffer[i], e)
      /\ \A j \in Instances \ {i} : buffer'[j] = buffer[j]
  BY DEF TypeOK
<1>4. /\ Len(buffer'[i]) = Len(buffer[i]) + 1 /\ Len(buffer[i]) \in Nat
      /\ \A n \in 1..Len(buffer[i]) : buffer'[i][n] = buffer[i][n]
      /\ buffer'[i][Len(buffer[i]) + 1] = e
  BY <1>1, <1>2, <1>3
<1>5. e \in Buffered'
  BY <1>4 DEF Buffered
<1>6. ASSUME NEW f \in Buffered
      PROVE  f \in Buffered'
  <2>1. PICK j \in Instances : \E n \in 1..Len(buffer[j]) : buffer[j][n] = f
    BY DEF Buffered
  <2> QED
    BY <1>3, <1>4, <2>1 DEF Buffered
<1>7. ASSUME NEW f \in Buffered', f # e
      PROVE  f \in Buffered
  <2>1. PICK j \in Instances : \E n \in 1..Len(buffer'[j]) : buffer'[j][n] = f
    BY DEF Buffered
  <2> QED
    BY <1>3, <1>4, <1>7, <2>1 DEF Buffered
<1> QED
  BY <1>5, <1>6, <1>7

LEMMA SentBuffer ==
    ASSUME TypeOK, NEW i \in Instances, buffer[i] # <<>>,
           buffer' = [buffer EXCEPT ![i] = Tail(@)]
    PROVE  Buffered' \union {Head(buffer[i])} = Buffered
<1>1. \A s \in Seq(Events) : s # <<>> =>
         /\ Len(Tail(s)) = Len(s) - 1 /\ Len(s) \in Nat /\ Len(s) > 0
         /\ \A n \in 1..Len(Tail(s)) : Tail(s)[n] = s[n + 1]
         /\ Head(s) = s[1] /\ Head(s) \in Events
  OBVIOUS
<1>2. \A j \in Instances : buffer[j] \in Seq(Events)
  BY DEF TypeOK
<1>3. /\ buffer'[i] = Tail(buffer[i])
      /\ \A j \in Instances \ {i} : buffer'[j] = buffer[j]
  BY DEF TypeOK
<1>4. /\ Len(buffer'[i]) = Len(buffer[i]) - 1
      /\ Len(buffer[i]) \in Nat /\ Len(buffer[i]) > 0
      /\ \A n \in 1..Len(buffer'[i]) : buffer'[i][n] = buffer[i][n + 1]
      /\ Head(buffer[i]) = buffer[i][1] /\ Head(buffer[i]) \in Events
  <2>1. buffer[i] \in Seq(Events) /\ buffer[i] # <<>>
    BY <1>2
  <2>2. /\ Len(Tail(buffer[i])) = Len(buffer[i]) - 1
        /\ Len(buffer[i]) \in Nat /\ Len(buffer[i]) > 0
        /\ \A n \in 1..Len(Tail(buffer[i])) :
              Tail(buffer[i])[n] = buffer[i][n + 1]
        /\ Head(buffer[i]) = buffer[i][1] /\ Head(buffer[i]) \in Events
    BY <1>1, <2>1, Zenon
  <2> QED
    BY <1>3, <2>2, Zenon
<1>5. Head(buffer[i]) \in Buffered
  BY <1>4 DEF Buffered
<1>6. ASSUME NEW f \in Buffered'
      PROVE  f \in Buffered
  <2>1. PICK j \in Instances : \E n \in 1..Len(buffer'[j]) : buffer'[j][n] = f
    BY DEF Buffered
  <2>2. CASE j = i
    <3>1. PICK n \in 1..Len(buffer'[i]) : buffer'[i][n] = f
      BY <2>1, <2>2
    <3>2. n + 1 \in 1..Len(buffer[i]) /\ buffer[i][n + 1] = f
      BY <1>4, <3>1
    <3> QED
      BY <3>2 DEF Buffered
  <2> QED
    BY <1>3, <2>1, <2>2 DEF Buffered
<1>7. ASSUME NEW f \in Buffered, f # Head(buffer[i])
      PROVE  f \in Buffered'
  <2>1. PICK j \in Instances : \E n \in 1..Len(buffer[j]) : buffer[j][n] = f
    BY DEF Buffered
  <2>2. CASE j = i
    <3>1. PICK n \in 1..Len(buffer[i]) : buffer[i][n] = f
      BY <2>1, <2>2
    <3>2. n - 1 \in 1..Len(buffer'[i]) /\ (n - 1) + 1 = n
      BY <1>4, <1>7, <3>1
    <3>3. buffer'[i][n - 1] = f
      BY <1>4, <3>1, <3>2
    <3> QED
      BY <3>2, <3>3 DEF Buffered
  <2> QED
    BY <1>3, <2>1, <2>2 DEF Buffered
<1> QED
  BY <1>5, <1>6, <1>7

\* A step that gives up on something is not one where nothing fails; a
\* process that exits otherwise has an empty buffer.
LEMMA BehindStep ==
    ASSUME TypeOK, NothingLeftBehind, [Next]_vars
    PROVE  NothingLeftBehind'
<1> SUFFICES ASSUME faults' = 0
             PROVE  accepted' = Published' \union Buffered'
  BY DEF NothingLeftBehind
<1>1. \A kind : ~Fault(kind)
  BY DEF Fault, TypeOK
<1>2. ASSUME UNCHANGED faults
      PROVE  accepted = Published \union Buffered
  BY <1>2 DEF NothingLeftBehind
<1>3. ASSUME UNCHANGED <<accepted, log, buffer, faults>>
      PROVE  accepted' = Published' \union Buffered'
  BY <1>2, <1>3 DEF Published, Buffered
<1>4. ASSUME NEW i \in Instances, NEW e \in Events, publish_event(i, e)
      PROVE  accepted' = Published' \union Buffered'
  <2>1. /\ accepted' = accepted \union {e} /\ UNCHANGED <<log, faults>>
        /\ buffer' = [buffer EXCEPT ![i] = Append(@, e)]
    BY <1>4 DEF publish_event
  <2>2. Buffered' = Buffered \union {e} /\ Published' = Published
    BY <2>1, AppendedBuffer DEF Published
  <2> QED
    BY <1>2, <2>1, <2>2
<1>5. ASSUME NEW i \in Instances, deliver(i)
      PROVE  accepted' = Published' \union Buffered'
  <2>1. /\ ToLog(Head(buffer[i])) /\ UNCHANGED <<accepted, faults>>
        /\ buffer[i] # <<>> /\ buffer' = [buffer EXCEPT ![i] = Tail(@)]
    BY <1>5 DEF deliver, ghosts
  <2>2. Head(buffer[i]) \in Events
    BY <2>1, Queues DEF TypeOK
  <2>3. Published' = Published \union {Head(buffer[i])}
    BY <2>1, <2>2, Logged
  <2>4. Buffered' \union {Head(buffer[i])} = Buffered
    BY <2>1, SentBuffer
  <2> QED
    BY <1>2, <2>1, <2>3, <2>4
<1>6. ASSUME NEW e \in Events, worker_publishes(e)
      PROVE  accepted' = Published' \union Buffered'
  <2>1. /\ accepted' = accepted \union {e} /\ ToLog(e)
        /\ UNCHANGED <<buffer, faults>>
    BY <1>6 DEF worker_publishes, process
  <2>2. Published' = Published \union {e} /\ Buffered' = Buffered
    BY <2>1, Logged DEF Buffered
  <2> QED
    BY <1>2, <2>1, <2>2
<1>7. ASSUME NEW i \in Instances, flush(i)
      PROVE  accepted' = Published' \union Buffered'
  <2>1. buffer[i] = <<>> /\ UNCHANGED <<accepted, log, faults>>
    BY <1>1, <1>7 DEF flush, flushed, ghosts
  <2>2. buffer' = buffer
    BY <1>7, <2>1 DEF flush, Exit, TypeOK
  <2> QED
    BY <1>3, <2>1, <2>2
<1>8. ASSUME NEW i \in Instances,
             \/ startup(i) \/ shutdown(i) \/ join(i) \/ broadcast(i)
             \/ Consume(i)
      PROVE  accepted' = Published' \union Buffered'
  BY <1>1, <1>3, <1>8 DEF startup, shutdown, join, broadcast, Consume, poll,
                          dispatch, commit, close, ghosts
<1>9. ASSUME NEW i \in Instances, crash(i) \/ skip(i)
      PROVE  FALSE
  BY <1>1, <1>9 DEF crash, skip
<1>10. ASSUME rebalance \/ UNCHANGED vars
       PROVE  accepted' = Published' \union Buffered'
  BY <1>3, <1>10 DEF rebalance, process, ghosts, vars
<1> QED
  BY <1>4, <1>5, <1>6, <1>7, <1>8, <1>9, <1>10 DEF Next, Stop

-----------------------------------------------------------------------------
(* Where nothing fails and no process has gone, the clients of some process *)
(* are told.                                                               *)

Running == {i \in Instances : stage[i] # "off"}
InQueue(i, e) == \E n \in 1..Len(queue[i]) : queue[i][n] = e
Reaches(i, e) == e \in told[i] \/ InQueue(i, e)

\* Processes run that were started; one that serves has its thread.
Counted ==
    /\ IsFiniteSet(Running) /\ Cardinality(Running) <= starts
    /\ \A i \in Serving : turn[i].pc # "none"

\* Nothing failed, and what was started still serves.
Undisturbed == faults = 0 /\ starts = Cardinality(Serving)

\* Then nobody loses a partition for long, and every message that started its
\* task is told or waits to be.
Heard ==
    Undisturbed =>
        /\ skipped = {}
        /\ members # {} => \A p \in Partitions : owner[p] # None
        /\ \A p \in Partitions : \A n \in 1..Len(log[p]) :
              <<p, n>> \in started => \E i \in Serving : Reaches(i, log[p][n])

HeardInv == GroupInv /\ Counted /\ Heard

\* A part of a finite set that has no fewer members is all of it.
LEMMA WholeSet ==
    ASSUME NEW S, IsFiniteSet(S), NEW T \in SUBSET S,
           NEW n \in Nat, Cardinality(S) <= n, n = Cardinality(T)
    PROVE  T = S
<1>1. /\ IsFiniteSet(T) /\ Cardinality(T) <= Cardinality(S)
      /\ Cardinality(S) = Cardinality(T) => S = T
  BY FS_Subset
<1>2. Cardinality(S) \in Nat /\ Cardinality(T) \in Nat
  BY <1>1, FS_CardinalityType
<1> QED
  BY <1>1, <1>2

LEMMA AllServe ==
    ASSUME TypeOK, Counted, Undisturbed
    PROVE  Serving = Running
<1>1. Serving \in SUBSET Running /\ starts \in Nat
  BY DEF Serving, Running, TypeOK
<1> QED
  BY <1>1, WholeSet DEF Counted, Undisturbed

\* What a step does to the set of processes.
LEMMA CountedStep ==
    ASSUME GroupInv, Counted, [Next]_vars
    PROVE  Counted'
<1>1. CASE /\ UNCHANGED starts /\ Running' = Running
           /\ \A i \in Serving' : i \in Serving
           /\ \A i \in Serving : turn[i].pc # "none" => turn'[i].pc # "none"
  BY <1>1 DEF Counted
<1>2. stage \in [Instances -> {"off", "serving", "stopping", "flushing"}]
      /\ turn \in [Instances -> Turns]
  BY DEF GroupInv, TypeOK
<1>3. CASE UNCHANGED <<stage, turn, starts>>
  BY <1>1, <1>3 DEF Running, Serving
<1>4. ASSUME NEW i \in Instances, startup(i)
      PROVE  Counted'
  <2>1. /\ stage[i] = "off" /\ stage' = [stage EXCEPT ![i] = "serving"]
        /\ turn' = [turn EXCEPT ![i] = Polling] /\ starts' = starts + 1
    BY <1>4 DEF startup
  <2>2. Running' = Running \union {i} /\ i \notin Running
    BY <1>2, <2>1 DEF Running
  <2>3. /\ IsFiniteSet(Running') /\ Cardinality(Running') = Cardinality(Running) + 1
        /\ Cardinality(Running) \in Nat
    BY <2>2, FS_AddElement, FS_CardinalityType DEF Counted
  <2>4. \A j \in Serving' : turn'[j].pc # "none"
    BY <1>2, <2>1 DEF Serving, Counted, Polling, At
  <2>5. starts \in Nat
    BY DEF GroupInv, TypeOK
  <2> QED
    BY <2>1, <2>3, <2>4, <2>5 DEF Counted
<1>5. ASSUME NEW i \in Instances, flush(i) \/ crash(i)
      PROVE  Counted'
  <2>1. /\ Exit(i) /\ UNCHANGED starts /\ stage[i] # "off"
    BY <1>5 DEF flush, crash
  <2>2. Running' = Running \ {i} /\ i \in Running
    BY <1>2, <2>1 DEF Running, Exit
  <2>3. /\ IsFiniteSet(Running') /\ Cardinality(Running') = Cardinality(Running) - 1
        /\ Cardinality(Running) \in Nat
    BY <2>2, FS_RemoveElement, FS_CardinalityType DEF Counted
  <2>4. \A j \in Serving' : turn'[j].pc # "none"
    BY <1>2, <2>1 DEF Serving, Counted, Exit
  <2>5. starts \in Nat
    BY DEF GroupInv, TypeOK
  <2> QED
    BY <2>1, <2>3, <2>4, <2>5 DEF Counted
<1>6. ASSUME NEW i \in Instances, shutdown(i) \/ join(i)
      PROVE  Counted'
  BY <1>1, <1>2, <1>6 DEF shutdown, join, Running, Serving
<1>7. ASSUME NEW i \in Instances, poll(i) \/ dispatch(i) \/ commit(i) \/ skip(i)
      PROVE  Counted'
  <2>1. turn'[i].pc # "none" /\ \A j \in Instances \ {i} : turn'[j] = turn[j]
    BY <1>2, <1>7, NextTurns DEF poll, dispatch, commit, skip, At, Turns
  <2>2. UNCHANGED <<stage, starts>>
    BY <1>7 DEF poll, dispatch, commit, skip
  <2> QED
    BY <1>1, <2>1, <2>2 DEF Running, Serving
<1>8. ASSUME NEW i \in Instances, close(i)
      PROVE  Counted'
  <2>1. /\ i \notin Serving /\ UNCHANGED <<stage, starts>>
        /\ turn' = [turn EXCEPT ![i] = NoThread]
    BY <1>8 DEF close, Serving
  <2> QED
    BY <1>1, <1>2, <2>1 DEF Running, Serving
<1>9. CASE \E i \in Instances : \/ deliver(i) \/ broadcast(i)
                                \/ \E e \in Events : publish_event(i, e)
  BY <1>3, <1>9 DEF deliver, broadcast, publish_event
<1>10. CASE rebalance \/ UNCHANGED vars \/ \E e \in Events : worker_publishes(e)
  BY <1>3, <1>10 DEF rebalance, worker_publishes, vars, process
<1> QED
  BY <1>4, <1>5, <1>6, <1>7, <1>8, <1>9, <1>10 DEF Next, Consume, Stop

\* Nothing was disturbed before, either, but for a process that joined.
LEMMA WasUndisturbed ==
    ASSUME GroupInv, Counted, Counted', [Next]_vars, Undisturbed'
    PROVE  /\ Undisturbed /\ Serving \subseteq Serving'
           /\ \A kind : ~Fault(kind)
           /\ \A i \in Instances : ~shutdown(i) /\ ~join(i) /\ ~flush(i)
                                   /\ ~crash(i) /\ ~skip(i) /\ ~close(i)
<1>1. Serving' = Running'
  <2>1. Serving' \in SUBSET Running' /\ starts' \in Nat
    BY GroupStep DEF Serving, Running, GroupInv, TypeOK
  <2> QED
    BY <2>1, WholeSet DEF Counted, Undisturbed
<1>2. stage \in [Instances -> {"off", "serving", "stopping", "flushing"}]
      /\ faults \in Nat /\ starts \in Nat
  BY DEF GroupInv, TypeOK
<1>3. \A kind : ~Fault(kind)
  BY <1>2 DEF Fault, Undisturbed
<1>4. ASSUME NEW i \in Instances
      PROVE  ~shutdown(i) /\ ~join(i) /\ ~crash(i) /\ ~skip(i)
  BY <1>1, <1>2, <1>3 DEF shutdown, join, crash, skip, Serving, Running
<1>5. ASSUME NEW i \in Instances, close(i)
      PROVE  FALSE
  <2>1. stage[i] # "off" /\ stage[i] # "serving" /\ UNCHANGED stage
    BY <1>5 DEF close, GroupInv, Sensible
  <2> QED
    BY <1>1, <2>1 DEF Serving, Running
<1>6. ASSUME NEW i \in Instances, flush(i)
      PROVE  FALSE
  <2>1. /\ Exit(i) /\ UNCHANGED starts /\ stage[i] = "flushing"
    BY <1>6 DEF flush
  <2>2. Running' = Running \ {i} /\ i \in Running
    BY <1>2, <2>1 DEF Running, Exit
  <2>3. /\ Cardinality(Running') = Cardinality(Running) - 1
        /\ Cardinality(Running) \in Nat
    BY <2>2, FS_RemoveElement, FS_CardinalityType DEF Counted
  <2> QED
    BY <1>1, <1>2, <2>1, <2>3 DEF Counted, Undisturbed
<1>7. ASSUME UNCHANGED <<stage, starts, faults>>
      PROVE  Undisturbed /\ Serving \subseteq Serving'
  <2>1. Serving' = Serving
    BY <1>7 DEF Serving
  <2> QED
    BY <1>7, <2>1 DEF Undisturbed
<1>8. ASSUME NEW i \in Instances, startup(i)
      PROVE  Undisturbed /\ Serving \subseteq Serving'
  <2>1. /\ stage[i] = "off" /\ stage' = [stage EXCEPT ![i] = "serving"]
        /\ starts' = starts + 1 /\ UNCHANGED faults
    BY <1>8 DEF startup
  <2>2. Serving' = Serving \union {i} /\ i \notin Serving
    BY <1>2, <2>1 DEF Serving
  <2>3. IsFiniteSet(Serving) /\ Serving \in SUBSET Running
    <3>1. Serving \in SUBSET Running
      BY DEF Serving, Running
    <3> QED
      BY <3>1, FS_Subset DEF Counted
  <2>4. /\ Cardinality(Serving') = Cardinality(Serving) + 1
        /\ Cardinality(Serving) \in Nat
    BY <2>2, <2>3, FS_AddElement, FS_CardinalityType
  <2>5. faults' = 0 /\ starts' = Cardinality(Serving')
    BY DEF Undisturbed
  <2>6. faults = 0 /\ starts = Cardinality(Serving)
    BY <1>2, <2>1, <2>4, <2>5
  <2> QED
    BY <2>2, <2>6 DEF Undisturbed
<1>9. \/ UNCHANGED <<stage, starts, faults>>
      \/ \E i \in Instances : startup(i)
  <2>1. CASE \E i \in Instances :
                \/ poll(i) \/ dispatch(i) \/ commit(i) \/ deliver(i) \/ broadcast(i)
                \/ \E e \in Events : publish_event(i, e)
    BY <2>1 DEF poll, dispatch, commit, deliver, broadcast, publish_event
  <2>2. CASE rebalance \/ UNCHANGED vars \/ \E e \in Events : worker_publishes(e)
    BY <2>2 DEF rebalance, worker_publishes, vars, process
  <2> QED
    BY <1>4, <1>5, <1>6, <2>1, <2>2 DEF Next, Consume, Stop
<1> QED
  BY <1>3, <1>4, <1>5, <1>6, <1>7, <1>8, <1>9

LEMMA GrowsAlways ==
    ASSUME GroupInv, [Next]_vars
    PROVE  LogGrows
<1>1. CASE UNCHANGED log
  BY <1>1, SameLogGrows
<1>2. ASSUME NEW i \in Instances, deliver(i)
      PROVE  LogGrows
  <2>1. Head(buffer[i]) \in Events /\ ToLog(Head(buffer[i]))
    BY <1>2, Queues DEF deliver, GroupInv, TypeOK
  <2> QED
    BY <2>1, Appending
<1>3. CASE \E e \in Events : worker_publishes(e)
  BY <1>3, Appending DEF worker_publishes
<1> QED
  BY <1>1, <1>2, <1>3 DEF Next, Consume, Stop, startup, shutdown, join, flush,
     crash, poll, dispatch, commit, close, skip, broadcast, publish_event,
     rebalance, vars

\* Who can be told of an event stays so: a broadcast tells what it takes.
LEMMA ReachesStays ==
    ASSUME GroupInv, Counted, Counted', [Next]_vars, Undisturbed',
           NEW i \in Serving, NEW e \in Events, Reaches(i, e)
    PROVE  Reaches(i, e)'
<1>1. /\ i \in Instances /\ stage[i] # "off"
      /\ queue[i] \in Seq(Events) /\ told[i] \subseteq Events
  BY DEF Serving, GroupInv, TypeOK
<1>2. CASE queue'[i] = queue[i] /\ told'[i] = told[i]
  BY <1>2 DEF Reaches, InQueue
<1>3. ASSUME NEW j \in Instances, dispatch(j)
      PROVE  Reaches(i, e)'
  <2>1. Polled(j) \in Events
    BY <1>3 DEF dispatch, Polled, GroupInv, TypeOK
  <2>2. UNCHANGED told /\ queue' = [queue EXCEPT ![j] = Append(@, Polled(j))]
    BY <1>3 DEF dispatch
  <2>3. queue'[i] \in {queue[i], Append(queue[i], Polled(j))}
    BY <1>1, <2>2 DEF GroupInv, TypeOK
  <2>4. InQueue(i, e) => InQueue(i, e)'
    <3> SUFFICES ASSUME NEW n \in 1..Len(queue[i]), queue[i][n] = e
                 PROVE  n \in 1..Len(queue'[i]) /\ queue'[i][n] = e
      BY DEF InQueue
    <3> DEFINE old == queue[i]
               new == queue'[i]
               x == Polled(j)
    <3>1. old \in Seq(Events) /\ x \in Events /\ new \in {old, Append(old, x)}
      BY <1>1, <2>1, <2>3
    <3> HIDE DEF old, new, x
    <3>2. n \in 1..Len(old) => n \in 1..Len(new) /\ new[n] = old[n]
      BY <3>1
    <3> QED
      BY <3>2 DEF old, new
  <2> QED
    BY <2>2, <2>4 DEF Reaches
<1>4. ASSUME NEW j \in Instances, broadcast(j)
      PROVE  Reaches(i, e)'
  <2>1. CASE j # i
    BY <1>1, <1>2, <1>4, <2>1 DEF broadcast, GroupInv, TypeOK
  <2>2. CASE j = i
    <3>1. /\ queue[i] # <<>> /\ queue'[i] = Tail(queue[i])
          /\ told'[i] = told[i] \union {Head(queue[i])}
      BY <1>1, <1>4, <2>2 DEF broadcast, GroupInv, TypeOK
    <3>2. ASSUME NEW n \in 1..Len(queue[i]), queue[i][n] = e, n # 1
          PROVE  InQueue(i, e)'
      <4> DEFINE old == queue[i]
      <4>1. old \in Seq(Events) /\ old # <<>>
        BY <1>1, <3>1
      <4> HIDE DEF old
      <4>2. n \in 1..Len(old) =>
               n - 1 \in 1..Len(Tail(old)) /\ Tail(old)[n - 1] = old[n]
        BY <3>2, <4>1
      <4>3. n - 1 \in 1..Len(queue'[i]) /\ queue'[i][n - 1] = e
        BY <3>1, <3>2, <4>2 DEF old
      <4> QED
        BY <4>3 DEF InQueue
    <3>3. CASE InQueue(i, e)
      <4>1. PICK n \in 1..Len(queue[i]) : queue[i][n] = e
        BY <3>3 DEF InQueue
      <4>2. CASE n = 1
        <5>1. Head(queue[i]) = e
          BY <1>1, <4>1, <4>2
        <5> QED
          BY <3>1, <5>1 DEF Reaches
      <4> QED
        BY <3>2, <4>1, <4>2 DEF Reaches
    <3> QED
      BY <3>1, <3>3 DEF Reaches
  <2> QED
    BY <2>1, <2>2
<1>5. ASSUME NEW j \in Instances, startup(j)
      PROVE  Reaches(i, e)'
  <2>1. j # i
    BY <1>1, <1>5 DEF startup
  <2> QED
    BY <1>1, <1>2, <1>5, <2>1 DEF startup, GroupInv, TypeOK
<1>6. CASE \/ \E j \in Instances : \/ poll(j) \/ commit(j) \/ deliver(j)
                                   \/ \E f \in Events : publish_event(j, f)
           \/ \E f \in Events : worker_publishes(f)
           \/ rebalance \/ UNCHANGED vars
  BY <1>2, <1>6 DEF poll, commit, deliver, publish_event, worker_publishes,
                    rebalance, vars, process
<1> QED
  BY <1>3, <1>4, <1>5, <1>6, WasUndisturbed DEF Next, Consume, Stop

LEMMA HeardStep ==
    ASSUME HeardInv, [Next]_vars
    PROVE  HeardInv'
<1>1. GroupInv /\ GroupInv' /\ Counted /\ Counted'
  BY GroupStep, CountedStep DEF HeardInv
<1> SUFFICES ASSUME Undisturbed'
             PROVE  /\ skipped' = {}
                    /\ members' # {} => \A p \in Partitions : owner'[p] # None
                    /\ \A p \in Partitions : \A n \in 1..Len(log'[p]) :
                          <<p, n>> \in started' =>
                             \E i \in Serving' : Reaches(i, log[p][n])'
  BY <1>1 DEF HeardInv, Heard
<1>2. /\ Undisturbed /\ Serving \subseteq Serving'
      /\ \A i \in Instances : ~shutdown(i) /\ ~join(i) /\ ~flush(i)
                              /\ ~crash(i) /\ ~skip(i) /\ ~close(i)
  BY <1>1, WasUndisturbed
<1>3. /\ skipped = {}
      /\ members # {} => \A p \in Partitions : owner[p] # None
      /\ \A p \in Partitions : \A n \in 1..Len(log[p]) :
            <<p, n>> \in started => \E i \in Serving : Reaches(i, log[p][n])
  BY <1>2 DEF HeardInv, Heard
<1>4. \/ \E i \in Instances :
            \/ startup(i) \/ poll(i) \/ dispatch(i) \/ commit(i) \/ deliver(i)
            \/ broadcast(i) \/ \E e \in Events : publish_event(i, e)
      \/ \E e \in Events : worker_publishes(e)
      \/ rebalance \/ UNCHANGED vars
  BY <1>2 DEF Next, Consume, Stop
<1>5. UNCHANGED skipped
  BY <1>4 DEF startup, poll, dispatch, commit, deliver, broadcast, publish_event,
              worker_publishes, rebalance, vars, ghosts
<1>6. members' # {} => \A p \in Partitions : owner'[p] # None
  <2>1. CASE rebalance
    <3>1. owner' \in [Partitions -> Live] /\ Live \subseteq Instances
      BY <2>1 DEF rebalance, Live
    <3> QED
      BY <3>1, GroupConstants
  <2>2. CASE UNCHANGED <<owner, members>>
    BY <1>3, <2>2
  <2> QED
    BY <1>4, <2>1, <2>2 DEF startup, poll, dispatch, commit, deliver, broadcast,
       publish_event, worker_publishes, vars, group
<1>7. ASSUME NEW p \in Partitions, NEW n \in 1..Len(log'[p]), <<p, n>> \in started
      PROVE  \E i \in Serving' : Reaches(i, log[p][n])'
  <2>1. n \in 1..Len(log[p])
    <3>1. Len(log'[p]) \in Nat
      BY <1>1 DEF GroupInv, TypeOK
    <3> QED
      BY <1>1, <1>7, <3>1 DEF GroupInv, Sensible, Settled
  <2>2. log'[p][n] = log[p][n] /\ log[p][n] \in Events
    <3>1. log[p] \in Seq(Events)
      BY <1>1 DEF GroupInv, TypeOK
    <3>2. log[p][n] \in Events
      BY <2>1, <3>1
    <3> QED
      BY <1>1, <2>1, <3>2, GrowsAlways DEF LogGrows
  <2>3. PICK i \in Serving : Reaches(i, log[p][n])
    BY <1>3, <1>7, <2>1
  <2>4. PICK e \in Events : e = log[p][n]
    BY <2>2
  <2>5. Reaches(i, e)'
    BY <1>1, <2>3, <2>4, ReachesStays
  <2>6. Reaches(i, log[p][n])'
    BY <2>2, <2>4, <2>5 DEF Reaches, InQueue
  <2> QED
    BY <1>2, <2>6
<1>8. ASSUME NEW p \in Partitions, NEW n \in 1..Len(log'[p]),
             <<p, n>> \in started', <<p, n>> \notin started
      PROVE  \E i \in Serving' : Reaches(i, log[p][n])'
  <2>1. PICK j \in Instances : dispatch(j)
    BY <1>4, <1>8 DEF startup, poll, commit, deliver, broadcast, publish_event,
                      worker_publishes, rebalance, vars, ghosts
  <2>2. /\ turn[j].pc = "turn" /\ <<p, n>> = Place(j)
        /\ queue' = [queue EXCEPT ![j] = Append(@, Polled(j))]
        /\ UNCHANGED <<log, stage>>
    BY <1>8, <2>1 DEF dispatch
  <2>3. j \in Serving'
    <3>1. stage[j] # "off"
      BY <1>1, <2>2 DEF GroupInv, Sensible
    <3>2. Serving = Running
      BY <1>1, <1>2, AllServe DEF GroupInv
    <3> QED
      BY <1>2, <3>1, <3>2 DEF Running
  <2>4. Polled(j) = log'[p][n] /\ Polled(j) \in Events
    BY <1>1, <2>2 DEF Polled, Place, GroupInv, TypeOK
  <2>5. queue[j] \in Seq(Events) /\ queue'[j] = Append(queue[j], Polled(j))
    BY <1>1, <2>2 DEF GroupInv, TypeOK
  <2>6. PICK k \in 1..Len(queue'[j]) : queue'[j][k] = Polled(j)
    <3>1. \A s \in Seq(Events), e \in Events :
             Len(s) + 1 \in 1..Len(Append(s, e)) /\ Append(s, e)[Len(s) + 1] = e
      OBVIOUS
    <3> QED
      BY <2>4, <2>5, <3>1
  <2> QED
    BY <2>3, <2>4, <2>6 DEF Reaches, InQueue
<1> QED
  BY <1>3, <1>5, <1>6, <1>7, <1>8

\* In a quiet state all partitions are owned and read to their ends, so every
\* event on the log was dispatched, and nothing waits to be told.
LEMMA QuietIsTold ==
    ASSUME HeardInv, Quiet, Undisturbed, Serving # {}
    PROVE  \A e \in Published : \E i \in Serving : e \in told[i]
<1> SUFFICES ASSUME NEW e \in Published
             PROVE  \E i \in Serving : e \in told[i]
  OBVIOUS
<1>1. /\ skipped = {}
      /\ members # {} => \A p \in Partitions : owner[p] # None
      /\ \A p \in Partitions : \A n \in 1..Len(log[p]) :
            <<p, n>> \in started => \E i \in Serving : Reaches(i, log[p][n])
  BY DEF HeardInv, Heard
<1>2. members # {}
  BY DEF Quiet, Live, HeardInv, Counted, Serving
<1>3. PICK n \in 1..Len(log[partition[e]]) : log[partition[e]][n] = e
  BY DEF Published
<1>4. partition[e] \in Partitions
  BY GroupConstants DEF Published
<1>5. PICK i \in Instances : owner[partition[e]] = i
  BY <1>1, <1>2, <1>4 DEF HeardInv, GroupInv, TypeOK
<1>6. n \in 1..position[partition[e]]
  BY <1>3, <1>4 DEF Quiet
<1>7. turn[i].pc # "turn"
  BY DEF Quiet
<1>8. <<partition[e], n>> \in started
  BY <1>1, <1>4, <1>5, <1>6, <1>7 DEF HeardInv, GroupInv, OwnersFollow, Settled
<1>9. PICK j \in Serving : Reaches(j, e)
  BY <1>1, <1>3, <1>4, <1>8
<1>10. ~InQueue(j, e)
  <2>1. queue[j] = <<>>
    BY DEF Quiet, Serving
  <2> QED
    BY <2>1 DEF InQueue
<1> QED
  BY <1>9, <1>10 DEF Reaches


\* Turns, positions and offsets fit together, whoever comes and goes.
THEOREM GroupInvariance == Spec => []GroupInv
<1>1. Init => GroupInv
  BY InitGroup
<1>2. GroupInv /\ [Next]_vars => GroupInv'
  BY GroupStep
<1> QED
  BY <1>1, <1>2, PTL DEF Spec

\* The types; a thread works on a message there is (kafka_manager.py:112).
THEOREM GroupTypeCorrect == Spec => []TypeOK
<1>1. GroupInv => TypeOK
  BY DEF GroupInv
<1> QED
  BY <1>1, GroupInvariance, PTL

\* The group never commits past a message that no process dispatched, though
\* commits are lost, late, or of a process that is no longer the owner
\* (kafka_manager.py:151).
THEOREM NothingIsPassedOver == Spec => []CommittedIsSettled
<1>1. GroupInv => CommittedIsSettled
  BY DEF GroupInv
<1> QED
  BY <1>1, GroupInvariance, PTL

\* The events of an order are first dispatched in the order of the log by
\* whichever processes (kafka_manager.py:111).
THEOREM FirstsAreInOrder == Spec => []FirstInOrder
<1>1. GroupInv => FirstInOrder
  BY DEF GroupInv
<1> QED
  BY <1>1, GroupInvariance, PTL

\* Where nothing fails, processes come and go without losing an event: the
\* shutdown flushes the producer last (main.py:79).
THEOREM ShutdownsLoseNothing == Spec => []NothingLeftBehind
<1>1. Init => NothingLeftBehind
  <2> SUFFICES ASSUME Init
               PROVE  accepted = Published \union Buffered
    BY DEF NothingLeftBehind
  <2>1. \A e \in Events : partition[e] \in Partitions
    BY GroupConstants
  <2>2. /\ \A e \in Events : log[partition[e]] = <<>>
        /\ \A i \in Instances : buffer[i] = <<>>
        /\ accepted = {}
    BY <2>1 DEF Init
  <2>3. Published = {} /\ Buffered = {}
    BY <2>2 DEF Published, Buffered
  <2> QED
    BY <2>2, <2>3
<1>2. TypeOK /\ NothingLeftBehind /\ [Next]_vars => NothingLeftBehind'
  BY BehindStep
<1> QED
  BY <1>1, <1>2, GroupTypeCorrect, PTL DEF Spec

\* Where nothing fails and processes only come, an event is told to the clients
\* of some process before the pipeline is quiet again, although every start
\* takes partitions away in the middle of turns (kafka_manager.py:112, :143).
THEOREM EventsAreTold == Spec => []SomebodyIsNotified
<1>1. Init => HeardInv
  <2> SUFFICES ASSUME Init
               PROVE  HeardInv
    OBVIOUS
  <2>1. Running = {} /\ Serving = {} /\ starts = 0
    BY DEF Init, Running, Serving
  <2>2. Counted
    BY <2>1, FS_EmptySet DEF Counted
  <2>3. Heard
    BY DEF Init, Heard
  <2> QED
    BY <2>2, <2>3, InitGroup DEF HeardInv
<1>2. HeardInv /\ [Next]_vars => HeardInv'
  BY HeardStep
<1>3. HeardInv => SomebodyIsNotified
  BY QuietIsTold DEF SomebodyIsNotified, Undisturbed
<1> QED
  BY <1>1, <1>2, <1>3, PTL DEF Spec

-----------------------------------------------------------------------------
(* The group implements EventTopic: appending is a Publish, the first      *)
(* dispatch or skip of a message a Handle, and all else changes nothing.   *)

\* A turn that is the first of its message is the next of its partition.
LEMMA TurningHandles ==
    ASSUME GroupInv, NEW i \in Instances, dispatch(i) \/ skip(i)
    PROVE  [Topic!Next]_(Topic!vars)
<1>1. turn[i].pc = "turn" /\ UNCHANGED <<log, committed>>
  BY DEF dispatch, skip, group
<1>2. Settled' = Settled \union {Place(i)}
  BY DEF dispatch, skip, Settled
<1>3. turn[i].of \in Partitions /\ turn[i].at \in 1..Len(log[turn[i].of])
  BY <1>1 DEF GroupInv, TypeOK
<1>4. Topic!AllBefore(turn[i].of, turn[i].at)
  BY <1>1 DEF GroupInv, TurnsFollow, Topic!AllBefore
<1>5. CASE Place(i) \in Settled
  BY <1>1, <1>2, <1>5 DEF Topic!vars
<1>6. CASE Place(i) \notin Settled
  <2>1. Topic!Handle(turn[i].of, turn[i].at)
    BY <1>1, <1>2, <1>4, <1>6 DEF Topic!Handle, Place
  <2> QED
    BY <1>3, <2>1 DEF Topic!Next
<1> QED
  BY <1>5, <1>6

\* A commit, however late, is of a message with nothing unsettled before it.
LEMMA CommittingCommits ==
    ASSUME GroupInv, NEW i \in Instances, commit(i)
    PROVE  [Topic!Next]_(Topic!vars)
<1> DEFINE p == turn[i].of
           n == turn[i].at
<1>1. turn[i].pc = "commit" /\ UNCHANGED <<log, started, skipped>>
      /\ \/ committed' = [committed EXCEPT ![p] = n]
         \/ UNCHANGED committed
  BY DEF commit, message_committed, ghosts
<1>2. p \in Partitions /\ n \in 1..Len(log[p]) /\ n \in Nat
  BY <1>1 DEF GroupInv, TypeOK
<1>3. Settled' = Settled
  BY <1>1 DEF Settled
<1>4. Topic!AllBefore(p, n + 1)
  <2>1. \A m \in 1..n : <<p, m>> \in Settled
    <3>1. \A m \in 1..(n - 1) : <<p, m>> \in Settled
      BY <1>1 DEF GroupInv, TurnsFollow
    <3>2. <<p, n>> \in Settled
      BY <1>1 DEF GroupInv, TurnsFollow, Place
    <3>3. 1..n = (1..(n - 1)) \union {n}
      BY <1>2
    <3> HIDE DEF p, n
    <3> QED
      BY <3>1, <3>2, <3>3
  <2>2. (n + 1) - 1 = n
    BY <1>2
  <2> HIDE DEF p, n
  <2> QED
    BY <2>1, <2>2 DEF Topic!AllBefore
<1> HIDE DEF p, n
<1>5. CASE committed' = [committed EXCEPT ![p] = n]
  <2>1. Topic!Commit(p, n)
    BY <1>1, <1>3, <1>4, <1>5 DEF Topic!Commit
  <2> QED
    BY <1>2, <2>1 DEF Topic!Next
<1>6. CASE UNCHANGED committed
  BY <1>1, <1>3, <1>6 DEF Topic!vars
<1> QED
  BY <1>1, <1>5, <1>6

\* What a producer sends, or a worker publishes, is one event more.
LEMMA AppendingPublishes ==
    ASSUME NEW e \in Events, ToLog(e), UNCHANGED <<started, skipped, committed>>
    PROVE  Topic!Next
<1>1. Settled' = Settled
  BY DEF Settled
<1>2. Topic!Publish(e)
  BY <1>1 DEF ToLog, Topic!Publish
<1> QED
  BY <1>2 DEF Topic!Next

\* Whatever happens to the processes and their partitions, the group is one
\* consumer at every partition: it goes through the log in its order, may
\* repeat but not leave out, and commits no more than it has handled
\* (kafka_manager.py:111-151).
THEOREM TopicRefinement == Spec => ImplementsTopic
<1>1. Init => Topic!Init
  BY DEF Init, Topic!Init, Settled
<1>2. GroupInv /\ [Next]_vars => [Topic!Next]_(Topic!vars)
  <2> SUFFICES ASSUME GroupInv, [Next]_vars
               PROVE  [Topic!Next]_(Topic!vars)
    OBVIOUS
  <2>1. ASSUME NEW i \in Instances, deliver(i)
        PROVE  Topic!Next
    <3>1. buffer[i] \in Seq(Events) /\ buffer[i] # <<>>
      BY <2>1 DEF GroupInv, TypeOK, deliver
    <3>2. Head(buffer[i]) \in Events
      BY <3>1, Queues
    <3> QED
      BY <2>1, <3>2, AppendingPublishes DEF deliver, group, ghosts
  <2>2. ASSUME NEW e \in Events, worker_publishes(e)
        PROVE  Topic!Next
    BY <2>2, AppendingPublishes DEF worker_publishes, group
  <2>3. ASSUME NEW i \in Instances,
               \/ startup(i) \/ shutdown(i) \/ Stop(i) \/ crash(i) \/ broadcast(i)
               \/ poll(i) \/ close(i)
               \/ \E e \in Events : publish_event(i, e)
        PROVE  UNCHANGED Topic!vars
    BY <2>3 DEF startup, shutdown, Stop, join, flush, crash, broadcast, poll, on_poll, close,
                publish_event, group, ghosts, Settled, Topic!vars
  <2>4. CASE rebalance
    BY <2>4 DEF rebalance, ghosts, Settled, Topic!vars
  <2>5. CASE UNCHANGED vars
    BY <2>5 DEF vars, group, ghosts, Settled, Topic!vars
  <2> QED
    BY <2>1, <2>2, <2>3, <2>4, <2>5, TurningHandles, CommittingCommits DEF Next, Consume
<1> QED
  BY <1>1, <1>2, GroupInvariance, PTL DEF Spec, ImplementsTopic, Topic!Spec
=============================================================================
