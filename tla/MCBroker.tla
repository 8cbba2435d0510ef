------------------------------ MODULE MCBroker ------------------------------
(* An instance of Broker for TLC: four configurations, each with bounds    *)
(* that let one side of the broker happen often.                            *)
EXTENDS Broker, TLC

CONSTANTS t1, t2, k1, k2

\* Two keys that fall into different partitions of a topic with two.
MCHash == [k \in Keys |-> IF k = k1 THEN 7 ELSE 4]

\* Names deleted and created again, and groups too; no messages.
Registries ==
    [max_topics |-> 0, max_queues |-> 0, default_partitions |-> 1, partitions |-> {1},
     topics |-> {t1, t2}, queues |-> {}, keys |-> {}, addresses |-> {},
     maxTopicObjects |-> 3, maxGroupObjects |-> 2, maxMessages |-> 0,
     expires |-> FALSE]

\* Limits of one topic and one queue, topics of 0, 2 or 3 partitions; no groups.
Publishing ==
    [max_topics |-> 1, max_queues |-> 1, default_partitions |-> 2, partitions |-> {0, 3},
     topics |-> {t1, t2}, queues |-> Queues, keys |-> Keys, addresses |-> {-1, 0, 2},
     maxTopicObjects |-> 2, maxGroupObjects |-> 0, maxMessages |-> 3,
     expires |-> FALSE]

\* One topic that is read while its groups come and go.
Delivery ==
    [max_topics |-> 0, max_queues |-> 0, default_partitions |-> 1, partitions |-> {2},
     topics |-> {t1}, queues |-> {}, keys |-> {}, addresses |-> {-1},
     maxTopicObjects |-> 1, maxGroupObjects |-> 2, maxMessages |-> 2,
     expires |-> FALSE]

\* One topic with retention, read by one group.
Expiry ==
    [Delivery EXCEPT !.maxGroupObjects = 1, !.expires = TRUE]

MCScenarios == {Registries, Publishing, Delivery, Expiry}

Symmetry == Permutations(Consumers) \cup Permutations(Groups)
=============================================================================
