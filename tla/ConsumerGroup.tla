---------------------------- MODULE ConsumerGroup ----------------------------
(***************************************************************************)
(* Several processes of the API: the lifespan of each (app_lifespan in     *)
(* app/main.py) with its producer, its consumer thread (consume_loop in    *)
(* app/core/kafka_manager.py) and its broadcast task, and the one consumer *)
(* group, "order-engine-group", that shares the partitions of the topic    *)
(* out among their threads.                                                *)
(*                                                                         *)
(* OrderWorkflow has one process and one partition; here an event is only  *)
(* followed from its publication to the start of its task and the clients. *)
(* A get_producer() of the lifespan comes before any request, so the       *)
(* threads of a process find the producer made.                            *)
(***************************************************************************)
EXTENDS Naturals, Sequences, FiniteSets

CONSTANTS Instances,   \* API processes behind the load balancer
          Partitions,  \* partitions of order-events
          Events,      \* events ever published
          partition,   \* where each goes: the order id is the key
          WithTask,    \* the events that start a Celery task
          FaultKinds,  \* what may go wrong: see Fault
          MaxFaults,   \* bound: how often something goes wrong
          MaxStarts,   \* bound: how often processes start
          None

ASSUME GroupConstants ==
    /\ partition \in [Events -> Partitions]
    /\ WithTask \subseteq Events
    /\ MaxFaults \in Nat /\ MaxStarts \in Nat
    /\ None \notin Instances /\ None \notin Partitions

VARIABLES
    \* the processes
    stage,      \* where each one's lifespan is
    turn,       \* its consumer thread, and the message it works on
    queue,      \* its ws_notification_queue
    told,       \* the events its clients were told of since it started
    buffer,     \* what its producer has not sent yet
    \* Kafka
    log,        \* the partitions
    owner,      \* the process whose thread has a partition assigned, or None
    members,    \* the processes the last assignment knew
    position,   \* how far the owner of a partition has polled it
    committed,  \* the group's offset on it
    \* what happened
    accepted,   \* events handed to a producer
    started,    \* messages, by place, whose handling got past delay()
    skipped,    \* messages whose delay() raised
    starts, faults

process == <<stage, turn, queue, told, buffer>>
group == <<owner, members, position, committed>>
ghosts == <<accepted, started, skipped>>
vars == <<process, log, group, ghosts, starts, faults>>

At(pc, p, n) == [pc |-> pc, of |-> p, at |-> n]
NoThread == At("none", None, 0)
Polling == At("poll", None, 0)
Closing == At("close", None, 0)

\* The member threads: those that have not closed their consumer.
Live == {i \in Instances : turn[i].pc # "none"}

Init ==
    /\ stage = [i \in Instances |-> "off"]
    /\ turn = [i \in Instances |-> NoThread]
    /\ queue = [i \in Instances |-> <<>>]
    /\ told = [i \in Instances |-> {}]
    /\ buffer = [i \in Instances |-> <<>>]
    /\ log = [p \in Partitions |-> <<>>]
    /\ owner = [p \in Partitions |-> None]
    /\ members = {}
    /\ position = [p \in Partitions |-> 0]
    /\ committed = [p \in Partitions |-> 0]
    /\ accepted = {} /\ started = {} /\ skipped = {}
    /\ starts = 0 /\ faults = 0

Fault(kind) ==
    kind \in FaultKinds /\ faults < MaxFaults /\ faults' = faults + 1

-----------------------------------------------------------------------------
(* Publication.                                                            *)

\* publish_event in a request handler: produce() only fills a buffer.
publish_event(i, e) ==
    /\ stage[i] = "serving"
    /\ e \notin accepted
    /\ accepted' = accepted \union {e}
    /\ buffer' = [buffer EXCEPT ![i] = Append(@, e)]
    /\ UNCHANGED <<stage, turn, queue, told, log, group, started, skipped,
                   starts, faults>>

ToLog(e) == log' = [log EXCEPT ![partition[e]] = Append(@, e)]

\* The producer's own thread sends what is in the buffer.
deliver(i) ==
    /\ buffer[i] # <<>>
    /\ ToLog(Head(buffer[i]))
    /\ buffer' = [buffer EXCEPT ![i] = Tail(@)]
    /\ UNCHANGED <<stage, turn, queue, told, group, ghosts, starts, faults>>

\* publish_event in a Celery worker, whose losses OrderWorkflow has.
worker_publishes(e) ==
    /\ e \notin accepted
    /\ accepted' = accepted \union {e}
    /\ ToLog(e)
    /\ UNCHANGED <<process, group, started, skipped, starts, faults>>

-----------------------------------------------------------------------------
(* The lifespan.                                                           *)

\* Up to the yield: the consumer thread and the broadcast task are started.
startup(i) ==
    /\ stage[i] = "off"
    /\ starts < MaxStarts
    /\ starts' = starts + 1
    /\ stage' = [stage EXCEPT ![i] = "serving"]
    /\ turn' = [turn EXCEPT ![i] = Polling]
    /\ told' = [told EXCEPT ![i] = {}]
    /\ UNCHANGED <<queue, buffer, log, group, accepted, started, skipped,
                   faults>>

\* The requests have ended: shutdown_event.set(), then join() blocks the
\* event loop, and with it the broadcast.
shutdown(i) ==
    /\ stage[i] = "serving"
    /\ stage' = [stage EXCEPT ![i] = "stopping"]
    /\ UNCHANGED <<turn, queue, told, buffer, log, group, ghosts, starts,
                   faults>>

\* The thread has ended, or join(timeout=5) gives up on it; the broadcast
\* task is cancelled with what is still queued.
join(i) ==
    /\ stage[i] = "stopping"
    /\ IF turn[i].pc = "none" THEN UNCHANGED faults ELSE Fault("timeout")
    /\ stage' = [stage EXCEPT ![i] = "flushing"]
    /\ queue' = [queue EXCEPT ![i] = <<>>]
    /\ UNCHANGED <<turn, told, buffer, log, group, ghosts, starts>>

\* The process ends: a thread that still runs is a daemon and dies with it.
\* Its partitions have no owner until the group notices.
Exit(i) ==
    /\ stage' = [stage EXCEPT ![i] = "off"]
    /\ turn' = [turn EXCEPT ![i] = NoThread]
    /\ queue' = [queue EXCEPT ![i] = <<>>]
    /\ buffer' = [buffer EXCEPT ![i] = <<>>]
    /\ owner' = [p \in Partitions |-> IF owner[p] = i THEN None ELSE owner[p]]
    /\ members' = members \ {i}

\* Seeded mistake: the producer is not flushed.
unflushed(i) == TRUE

flushed(i) == buffer[i] = <<>>

\* flush(timeout=5) has sent all, or gives up.
flush(i) ==
    /\ stage[i] = "flushing"
    /\ IF flushed(i) THEN UNCHANGED faults ELSE Fault("timeout")
    /\ Exit(i)
    /\ UNCHANGED <<told, log, position, committed, ghosts, starts>>

crash(i) ==
    /\ stage[i] # "off"
    /\ Fault("crash")
    /\ Exit(i)
    /\ UNCHANGED <<told, log, position, committed, ghosts, starts>>

-----------------------------------------------------------------------------
(* The group: Kafka, as consume_loop uses it.                              *)

\* Every partition has an owner, and nobody has two more than another.
Shared(new) ==
    /\ \A p \in Partitions : new[p] \in Live
    /\ \A i, j \in Live :
          Cardinality({p \in Partitions : new[p] = i})
            <= Cardinality({p \in Partitions : new[p] = j}) + 1

\* Seeded mistake: a new owner goes on where its predecessor was polling.
kept_position == position

\* Seeded mistake: auto.offset.reset is left at its default, "latest".
latest_position ==
    [p \in Partitions |->
        IF committed[p] = 0 THEN Len(log[p]) ELSE committed[p]]

\* Owners fetch from the committed offset, the earliest where there is none
\* (auto.offset.reset).
reset_position == committed

\* Members came or went, and the partitions are shared out anew, all of them;
\* a thread in the middle of a turn goes on with it.
rebalance ==
    /\ Live # {}
    /\ members # Live \/ \E p \in Partitions : owner[p] = None
    /\ \E new \in [Partitions -> Live] : Shared(new) /\ owner' = new
    /\ members' = Live
    /\ position' = reset_position
    /\ UNCHANGED <<process, log, committed, ghosts, starts, faults>>

-----------------------------------------------------------------------------
(* consume_loop.                                                           *)

\* Seeded mistake: enable.auto.commit is left on.
autocommitted(p) == [committed EXCEPT ![p] = position[p] + 1]

on_poll(p) == committed

\* poll(): the next message of an assigned partition, also to a call that
\* began before shutdown_event was set.
poll(i) ==
    /\ turn[i].pc = "poll"
    /\ \E p \in Partitions :
          /\ owner[p] = i
          /\ position[p] < Len(log[p])
          /\ turn' = [turn EXCEPT ![i] = At("turn", p, position[p] + 1)]
          /\ position' = [position EXCEPT ![p] = @ + 1]
          /\ committed' = on_poll(p)
    /\ UNCHANGED <<stage, queue, told, buffer, log, owner, members, ghosts,
                   starts, faults>>

\* The while loop: the event is only looked at between two turns.
next_turn(i) == IF stage[i] = "serving" THEN Polling ELSE Closing

Place(i) == <<turn[i].of, turn[i].at>>
Polled(i) == log[turn[i].of][turn[i].at]

\* delay(), and the event is put on the notification queue.
dispatch(i) ==
    /\ turn[i].pc = "turn"
    /\ started' = started \union {Place(i)}
    /\ queue' = [queue EXCEPT ![i] = Append(@, Polled(i))]
    /\ turn' = [turn EXCEPT ![i].pc = "commit"]
    /\ UNCHANGED <<stage, told, buffer, log, group, accepted, skipped, starts,
                   faults>>

\* delay() raises: the loop goes on with the next message.
skip(i) ==
    /\ turn[i].pc = "turn"
    /\ Polled(i) \in WithTask
    /\ Fault("skip")
    /\ skipped' = skipped \union {Place(i)}
    /\ turn' = [turn EXCEPT ![i] = next_turn(i)]
    /\ UNCHANGED <<stage, queue, told, buffer, log, group, accepted, started,
                   starts>>

\* Seeded mistake: the next offset is passed where the message's is added to.
one_too_far(i) == turn[i].at + 1

\* commit(message=msg): all up to this message.
message_committed(i) == turn[i].at

\* It is asynchronous: it may get lost, and whoever handled the message may
\* set the offset back of a partition that is no longer its own.
commit(i) ==
    /\ turn[i].pc = "commit"
    /\ turn' = [turn EXCEPT ![i] = next_turn(i)]
    /\ \/ committed' = [committed EXCEPT ![turn[i].of] = message_committed(i)]
       \/ UNCHANGED committed
    /\ UNCHANGED <<stage, queue, told, buffer, log, owner, members, position,
                   ghosts, starts, faults>>

\* shutdown_event is set and poll() had nothing: the loop ends, and
\* consumer.close() leaves the group.
close(i) ==
    /\ turn[i].pc \in {"close", "poll"} /\ stage[i] # "serving"
    /\ turn' = [turn EXCEPT ![i] = NoThread]
    /\ owner' = [p \in Partitions |-> IF owner[p] = i THEN None ELSE owner[p]]
    /\ members' = members \ {i}
    /\ UNCHANGED <<stage, queue, told, buffer, log, position, committed, ghosts,
                   starts, faults>>

\* ws_broadcast_loop: this process's clients hear of an event (see WsBridge).
broadcast(i) ==
    /\ stage[i] = "serving"
    /\ queue[i] # <<>>
    /\ told' = [told EXCEPT ![i] = @ \union {Head(queue[i])}]
    /\ queue' = [queue EXCEPT ![i] = Tail(@)]
    /\ UNCHANGED <<stage, turn, buffer, log, group, ghosts, starts, faults>>

-----------------------------------------------------------------------------

Consume(i) == poll(i) \/ dispatch(i) \/ commit(i) \/ close(i)
Stop(i) == join(i) \/ flush(i)

Next ==
    \/ \E i \in Instances :
          \/ startup(i) \/ shutdown(i) \/ Stop(i) \/ crash(i)
          \/ Consume(i) \/ skip(i) \/ deliver(i) \/ broadcast(i)
          \/ \E e \in Events : publish_event(i, e)
    \/ \E e \in Events : worker_publishes(e)
    \/ rebalance

Spec == Init /\ [][Next]_vars

\* Threads, event loops, producers and the group go on; nobody need start,
\* stop, publish or fail.
Fairness ==
    /\ \A i \in Instances :
          /\ WF_vars(Consume(i))
          /\ WF_vars(deliver(i))
          /\ WF_vars(broadcast(i))
    /\ WF_vars(rebalance)

FairSpec == Spec /\ Fairness

-----------------------------------------------------------------------------

Turns == [pc : {"none", "poll", "turn", "commit", "close"},
          of : Partitions \union {None}, at : Nat]
Settled == started \union skipped

\* Types; a thread works on a message there is.
TypeOK ==
    /\ stage \in [Instances -> {"off", "serving", "stopping", "flushing"}]
    /\ turn \in [Instances -> Turns]
    /\ \A i \in Instances : turn[i].pc \in {"turn", "commit"} =>
          /\ turn[i].of \in Partitions
          /\ turn[i].at \in 1..Len(log[turn[i].of])
    /\ queue \in [Instances -> Seq(Events)]
    /\ buffer \in [Instances -> Seq(Events)]
    /\ told \in [Instances -> SUBSET Events]
    /\ log \in [Partitions -> Seq(Events)]
    /\ owner \in [Partitions -> Instances \union {None}]
    /\ members \subseteq Instances
    /\ position \in [Partitions -> Nat] /\ committed \in [Partitions -> Nat]
    /\ \A p \in Partitions :
          position[p] <= Len(log[p]) /\ committed[p] <= Len(log[p])
    /\ accepted \subseteq Events
    /\ Settled \subseteq Partitions \X Nat
    /\ starts \in Nat /\ faults \in Nat

\* What the group has committed was dispatched by some process, or delay()
\* raised: no rebalance, crash or late commit makes the group pass over an
\* event that nobody looked at.
CommittedIsSettled ==
    \A p \in Partitions : \A n \in 1..committed[p] : <<p, n>> \in Settled

\* Events of one partition, so those of one order, are first dispatched in
\* the order of the log, although processes take each other's place in the
\* middle of a turn; only repetitions come late.
FirstInOrder ==
    \A p \in Partitions : \A m, n \in 1..Len(log[p]) :
        m < n /\ <<p, n>> \in Settled => <<p, m>> \in Settled

Topic == INSTANCE EventTopic WITH handled <- Settled

\* Whoever polls, hands over, dies or commits late, the group as a whole is a
\* consumer that goes through each partition once, in order, and commits
\* only what it has handled.
ImplementsTopic == Topic!Spec

Published == {e \in Events : \E n \in 1..Len(log[partition[e]]) :
                                log[partition[e]][n] = e}
Handled(e) == \E n \in 1..Len(log[partition[e]]) :
                 log[partition[e]][n] = e /\ <<partition[e], n>> \in Settled
Buffered == {e \in Events : \E i \in Instances : \E n \in 1..Len(buffer[i]) :
                               buffer[i][n] = e}

\* Where nothing fails, processes may come and go: what a handler published
\* is in the log, or will be before its process exits (main.py:79).
NothingLeftBehind == faults = 0 => accepted = Published \union Buffered

Serving == {i \in Instances : stage[i] = "serving"}

\* Nothing is on its way from a producer to a client.
Quiet ==
    /\ members = Live
    /\ \A i \in Instances : buffer[i] = <<>> /\ queue[i] = <<>>
    /\ \A i \in Instances : turn[i].pc \notin {"turn", "commit"}
    /\ \A p \in Partitions : position[p] = Len(log[p])

\* Where nothing fails and processes only come, every event is told to the
\* clients of some process, however partitions changed hands.  To those of
\* all, as README.md:98 has it, it is not: there is one group.
SomebodyIsNotified ==
    Quiet /\ faults = 0 /\ Serving # {} /\ starts = Cardinality(Serving) =>
        \A e \in Published : \E i \in Serving : e \in told[i]

Steady(some) == Live = some /\ Serving = some

\* Once processes neither start nor stop and one is there, every published
\* event is dispatched, whatever offsets were lost before.
EventsAreSettled ==
    \A some \in SUBSET Instances \ {{}} :
        <>[]Steady(some) => \A e \in Events : e \in Published ~> Handled(e)
=============================================================================
