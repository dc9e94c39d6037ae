----------------------------- MODULE EventTopic -----------------------------
(***************************************************************************)
(* What the consumer group promises of the topic, with no processes,       *)
(* turns, owners or positions: a partition is a log that only grows, its   *)
(* events are first handled one by one in the order of the log, and the    *)
(* offset stays within what has been handled.  That an event may be        *)
(* handled again is not seen here: it changes nothing.                     *)
(***************************************************************************)
EXTENDS Naturals, Sequences

CONSTANTS Partitions, Events, partition

VARIABLES log,        \* the events of each partition
          handled,    \* the places whose event has been handled
          committed   \* the group's offset on each partition

vars == <<log, handled, committed>>

Init ==
    /\ log = [p \in Partitions |-> <<>>]
    /\ handled = {}
    /\ committed = [p \in Partitions |-> 0]

AllBefore(p, n) == {<<p, m>> : m \in 1 .. n - 1} \subseteq handled

Publish(e) ==
    /\ log' = [log EXCEPT ![partition[e]] = Append(@, e)]
    /\ UNCHANGED <<handled, committed>>

Handle(p, n) ==
    /\ <<p, n>> \notin handled /\ AllBefore(p, n)
    /\ handled' = handled \union {<<p, n>>}
    /\ UNCHANGED <<log, committed>>

\* A late commit may also set the offset back.
Commit(p, n) ==
    /\ AllBefore(p, n + 1)
    /\ committed' = [committed EXCEPT ![p] = n]
    /\ UNCHANGED <<log, handled>>

Next ==
    \/ \E e \in Events : Publish(e)
    \/ \E p \in Partitions : \E n \in 1 .. Len(log[p]) : Handle(p, n) \/ Commit(p, n)

Spec == Init /\ [][Next]_vars
=============================================================================
