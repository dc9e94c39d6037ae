-------------------------- MODULE MCConsumerGroup --------------------------
(* Two processes and two events in one partition. *)
EXTENDS ConsumerGroup, TLC

CONSTANTS i1, i2, p1, e1, e2

OnePartition == [e \in Events |-> p1]
=============================================================================
