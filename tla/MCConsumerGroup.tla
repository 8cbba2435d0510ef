-------------------------- MODULE MCConsumerGroup --------------------------
(* An instance of ConsumerGroup for TLC. *)
EXTENDS ConsumerGroup, TLC

CONSTANTS c1, c2, t1, p1, p2

OwnId    == [c \in Consumers |-> c]
OneTopic == t1 :> <<p1, p2>>
=============================================================================
