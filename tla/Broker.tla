------------------------------- MODULE Broker -------------------------------
(***************************************************************************)
(* The broker's registries of topics, queues and consumer groups           *)
(* (brokerlite/broker.py), a topic's choice of a partition                 *)
(* (brokerlite/topic.py), and the connection handlers that join and leave  *)
(* groups (brokerlite/server.py).                                          *)
(*                                                                         *)
(* A name may be deleted and created again, and whoever still refers to    *)
(* the old Topic or ConsumerGroup object goes on using it: objects are     *)
(* numbered in the order of their creation, and a registry maps a name to  *)
(* an object, or to 0.  A consumer's positions, on the other hand, are     *)
(* keyed by the topic's name.                                              *)
(*                                                                         *)
(* What one broker call still has to do while it holds the broker's lock   *)
(* is todo; consumers poll, commit and leave without that lock.            *)
(* ConsumerGroup shows what a rebalance does: each partition of the        *)
(* subscribed topics gets one owner among the members.  Which one is left  *)
(* open here.  A read returns what Partition shows: all from an offset on  *)
(* that retention has left.  Compaction is the subject of Partition.       *)
(***************************************************************************)
EXTENDS Integers, Sequences, FiniteSets, FiniteSetsExt

CONSTANTS
    Topics, Queues, Groups,   \* names
    Consumers,                \* Consumer objects
    Keys, NoKey,              \* message keys, and their absence
    Hash,                     \* the md5 of each key
    Scenarios                 \* configurations of the broker, each with its bounds

\* What the log keeps of a message whose sender had set message.partition.
Pinned == "pinned"

ASSUME BrokerAssumption ==
    /\ NoKey \notin Keys /\ Pinned \notin Keys \cup {NoKey}
    /\ Hash \in [Keys -> Nat]
    /\ IsFiniteSet(Scenarios)
    /\ \A s \in Scenarios :
          /\ s.max_topics \in Nat /\ s.max_queues \in Nat    \* 0: no limit
          /\ s.default_partitions \in Nat
          /\ s.partitions \subseteq Nat       \* num_partitions of a CREATE_TOPIC
          /\ IsFiniteSet(s.partitions)
          /\ s.topics \subseteq Topics /\ s.queues \subseteq Queues /\ s.keys \subseteq Keys
          /\ s.addresses \subseteq Nat \cup {-1}   \* values of message.partition
          /\ s.expires \in BOOLEAN            \* whether retention_ms is set
          /\ s.maxTopicObjects \in Nat        \* bounds of the model: objects ever
          /\ s.maxGroupObjects \in Nat        \* created, and messages published
          /\ s.maxMessages \in Nat

VARIABLES
    scenario,         \* the configuration the broker runs with
    topics,           \* _topics: the Topic object of each name, 0 if there is none
    made,             \* Topic objects created so far
    lives,            \* how many of them had each name
    parts,            \* num_partitions of each Topic object
    counter,          \* _round_robin_counter of each
    log,              \* what was ever appended to each of its partitions
    trimmed,          \* how much of that retention has removed again
    queues,           \* the keys of _queues
    priorityQueues,   \* the keys of _priority_queues
    groups,           \* _consumer_groups: the object of each id, 0 if there is none
    formed,           \* ConsumerGroup objects created so far
    members,          \* _members of each ConsumerGroup object
    idOf,             \* group_id of each
    subscribed,       \* _subscribed_topics of each: the Topic object it reads, or 0
    todo,             \* what the holder of the broker's lock still has to do
    joined,           \* the group object a consumer has joined, 0 before
    assigned,         \* _assigned_partitions of each consumer: <<name, object, number>>
    position,         \* _offsets of each consumer, keyed by <<name, number>>
    committed,        \* committed offsets by <<group id, object, number>>
    leaving,          \* the group object a LEAVE_GROUP handler has looked up, or 0
    seen              \* <<group id, object, number, offset>> of the messages polled

topicVars    == <<topics, made, lives, parts, counter, log, trimmed>>
queueVars    == <<queues, priorityQueues>>
groupVars    == <<groups, formed, idOf, members, subscribed>>
consumerVars == <<joined, assigned, position>>
vars == <<scenario, topicVars, queueVars, groupVars, consumerVars, todo, committed,
          leaving, seen>>

TopicObjects == 1 .. Max({s.maxTopicObjects : s \in Scenarios})
GroupObjects == 1 .. Max({s.maxGroupObjects : s \in Scenarios})

\* How a message came to its partition: by its key, in turn, or Pinned.
Origins == Keys \cup {NoKey, Pinned}

MaxParts == Max(UNION {s.partitions \cup {s.default_partitions} : s \in Scenarios})
Numbers == 0 .. MaxParts - 1

Steps == [op : {"unsubscribe"}, group : GroupObjects, topic : Topics]
         \cup [op : {"join"}, group : GroupObjects, consumer : Consumers]

\* Types: registries map names to objects that were created.
TypeOK ==
    /\ scenario \in Scenarios
    /\ topics \in [Topics -> 0 .. made]
    /\ made \in 0 .. scenario.maxTopicObjects
    /\ lives \in [Topics -> 0 .. made]
    /\ parts \in [TopicObjects -> Nat]
    /\ counter \in [TopicObjects -> Nat]
    /\ log \in [TopicObjects -> [Numbers -> Seq(Origins)]]
    /\ trimmed \in [TopicObjects -> [Numbers -> 0 .. scenario.maxMessages]]
    /\ queues \subseteq Queues /\ priorityQueues \subseteq Queues
    /\ groups \in [Groups -> 0 .. formed]
    /\ formed \in 0 .. scenario.maxGroupObjects
    /\ idOf \in [GroupObjects -> Groups \cup {""}]
    /\ members \in [GroupObjects -> SUBSET Consumers]
    /\ subscribed \in [GroupObjects -> [Topics -> 0 .. made]]
    /\ todo \in Seq(Steps)
    /\ joined \in [Consumers -> 0 .. formed]
    /\ assigned \in [Consumers -> SUBSET (Topics \X TopicObjects \X Numbers)]
    /\ \A c \in Consumers :
          /\ DOMAIN position[c] \subseteq Topics \X Numbers
          /\ \A k \in DOMAIN position[c] : position[c][k] \in 0 .. scenario.maxMessages
    /\ committed \in [Groups \X TopicObjects \X Numbers -> 0 .. scenario.maxMessages]
    /\ leaving \in [Consumers -> 0 .. formed]
    /\ seen \subseteq Groups \X TopicObjects \X Numbers \X (0 .. scenario.maxMessages - 1)

Init ==
    /\ scenario \in Scenarios
    /\ topics = [t \in Topics |-> 0]
    /\ made = 0
    /\ lives = [t \in Topics |-> 0]
    /\ parts = [o \in TopicObjects |-> 0]
    /\ counter = [o \in TopicObjects |-> 0]
    /\ log = [o \in TopicObjects |-> [i \in Numbers |-> <<>>]]
    /\ trimmed = [o \in TopicObjects |-> [i \in Numbers |-> 0]]
    /\ queues = {} /\ priorityQueues = {}
    /\ groups = [g \in Groups |-> 0]
    /\ formed = 0
    /\ idOf = [o \in GroupObjects |-> ""]
    /\ members = [o \in GroupObjects |-> {}]
    /\ subscribed = [o \in GroupObjects |-> [t \in Topics |-> 0]]
    /\ todo = <<>>
    /\ joined = [c \in Consumers |-> 0]
    /\ assigned = [c \in Consumers |-> {}]
    /\ position = [c \in Consumers |-> <<>>]
    /\ committed = [x \in Groups \X TopicObjects \X Numbers |-> 0]
    /\ leaving = [c \in Consumers |-> 0]
    /\ seen = {}

\* The broker's lock is free.
Idle == todo = <<>>

-----------------------------------------------------------------------------
(* Topics *)

Registered(reg) == {n \in DOMAIN reg : reg[n] # 0}

\* create_topic raises no ValueError.  The last conjunct is the model's bound.
MayCreate(t) ==
    /\ topics[t] = 0
    /\ scenario.max_topics > 0 => Cardinality(Registered(topics)) < scenario.max_topics
    /\ made < scenario.maxTopicObjects

\* The registry after topic t has been created with n partitions.
Create(t, n) ==
    /\ MayCreate(t)
    /\ made' = made + 1
    /\ lives' = [lives EXCEPT ![t] = @ + 1]
    /\ topics' = [topics EXCEPT ![t] = made + 1]
    /\ parts' = [parts EXCEPT ![made + 1] = n]

CreateTopic(t, n) ==
    /\ Idle
    /\ Create(t, n)
    /\ UNCHANGED <<scenario, counter, log, trimmed, queueVars, groupVars, consumerVars, todo,
                   committed, leaving, seen>>

\* The steps of op = "unsubscribe" for a set of group objects, in some order.
Unsubscribing(t, os) ==
    {s \in [1 .. Cardinality(os) -> [op : {"unsubscribe"}, group : os, topic : {t}]] :
        \A i, j \in DOMAIN s : s[i] = s[j] => i = j}

DeleteTopic_NoUnsubscribe(t) ==
    /\ Idle
    /\ topics[t] # 0
    /\ topics' = [topics EXCEPT ![t] = 0]
    /\ UNCHANGED <<scenario, made, lives, parts, counter, log, trimmed, queueVars, groupVars,
                   consumerVars, todo,
                   committed, leaving, seen>>

\* The name goes first; then each registered group unsubscribes from it.
DeleteTopic(t) ==
    /\ Idle
    /\ topics[t] # 0
    /\ topics' = [topics EXCEPT ![t] = 0]
    /\ todo' \in Unsubscribing(t, {groups[g] : g \in Registered(groups)})
    /\ UNCHANGED <<scenario, made, lives, parts, counter, log, trimmed, queueVars, groupVars,
                   consumerVars,
                   committed, leaving, seen>>


AssignPartition_TurnByKey(k, n, turn) ==
    IF k \in Keys THEN Hash[k] % n ELSE (turn + turn) % n

\* assign_partition in a topic with n > 0 partitions: by hash, else in turn.
AssignPartition(k, n, turn) ==
    IF k \in Keys THEN Hash[k] % n ELSE turn % n

Cells == TopicObjects \X Numbers

Published == Cardinality({x \in Cells \X (1 .. scenario.maxMessages) :
                              x[2] <= Len(log[x[1][1]][x[1][2]])})

\* What topic.publish does to the Topic object o, which has n partitions.
AppendTo(o, n, k, i) ==
    IF i < 0
      THEN /\ n > 0       \* else assign_partition divides by zero
           /\ log' = [log EXCEPT ![o][AssignPartition(k, n, counter[o])] = Append(@, k)]
           /\ counter' = IF k = NoKey THEN [counter EXCEPT ![o] = @ + 1] ELSE counter
      ELSE /\ i < n       \* else IndexError
           /\ log' = [log EXCEPT ![o][i] = Append(@, Pinned)]
           /\ UNCHANGED counter

(* publish(message) with key k and message.partition = i (-1: not set).  A
   topic that does not exist is created first, and stays if the append fails. *)
Publish(t, k, i) ==
    /\ Idle
    /\ Published < scenario.maxMessages
    /\ \/ /\ topics[t] # 0
          /\ AppendTo(topics[t], parts[topics[t]], k, i)
          /\ UNCHANGED <<topics, made, lives, parts>>
       \/ /\ Create(t, scenario.default_partitions)
          /\ AppendTo(made + 1, scenario.default_partitions, k, i)
       \/ /\ Create(t, scenario.default_partitions)
          /\ IF i < 0 THEN scenario.default_partitions = 0 ELSE i >= scenario.default_partitions
          /\ UNCHANGED <<counter, log>>
    /\ UNCHANGED <<scenario, trimmed, queueVars, groupVars, consumerVars, todo, committed,
                   leaving, seen>>

\* apply_retention of every registered topic: what is older than retention_ms
\* is at the front of each partition's log.
ApplyRetention ==
    /\ Idle
    /\ scenario.expires
    /\ LET full == {x \in Cells : /\ \E t \in Topics : topics[t] = x[1]
                                 /\ trimmed[x[1]][x[2]] < Len(log[x[1]][x[2]])}
       IN  \E old \in [full -> 0 .. scenario.maxMessages] :
              /\ \A x \in full : old[x] \in trimmed[x[1]][x[2]] .. Len(log[x[1]][x[2]])
              /\ trimmed' = [o \in TopicObjects |-> [i \in Numbers |->
                    IF <<o, i>> \in full THEN old[<<o, i>>] ELSE trimmed[o][i]]]
    /\ UNCHANGED <<scenario, topics, made, lives, parts, counter, log, queueVars, groupVars,
                   consumerVars, todo, committed, leaving, seen>>

-----------------------------------------------------------------------------
(* Queues *)

\* create_queue raises no ValueError.
MayCreateQueue(q, priority) ==
    /\ q \notin queues \cup priorityQueues
    /\ scenario.max_queues > 0 =>
          Cardinality(queues) + Cardinality(priorityQueues) < scenario.max_queues

CreateQueue(q, priority) ==
    /\ Idle
    /\ MayCreateQueue(q, priority)
    /\ queues' = IF priority THEN queues ELSE queues \cup {q}
    /\ priorityQueues' = IF priority THEN priorityQueues \cup {q} ELSE priorityQueues
    /\ UNCHANGED <<scenario, topicVars, groupVars, consumerVars, todo, committed,
                   leaving, seen>>

\* _queues is searched first.
DeleteQueue(q) ==
    /\ Idle
    /\ q \in queues \cup priorityQueues
    /\ queues' = queues \ {q}
    /\ priorityQueues' = IF q \in queues THEN priorityQueues ELSE priorityQueues \ {q}
    /\ UNCHANGED <<scenario, topicVars, groupVars, consumerVars, todo, committed,
                   leaving, seen>>

-----------------------------------------------------------------------------
(* Consumer groups *)

\* The group object of id g, after it has been created if there is none.
Found(g) == IF groups[g] = 0 THEN formed + 1 ELSE groups[g]

GetOrCreate(g) ==
    IF groups[g] # 0
      THEN UNCHANGED <<groups, formed, idOf>>
      ELSE /\ formed < scenario.maxGroupObjects      \* the model's bound
           /\ formed' = formed + 1
           /\ groups' = [groups EXCEPT ![g] = formed + 1]
           /\ idOf' = [idOf EXCEPT ![formed + 1] = g]

CreateConsumerGroup(g) ==
    /\ Idle
    /\ groups[g] = 0
    /\ GetOrCreate(g)
    /\ UNCHANGED <<scenario, topicVars, queueVars, members, subscribed, consumerVars, todo,
                   committed, leaving, seen>>

\* The object is dropped as it is: nobody is revoked.
DeleteConsumerGroup(g) ==
    /\ Idle
    /\ groups[g] # 0
    /\ groups' = [groups EXCEPT ![g] = 0]
    /\ UNCHANGED <<scenario, topicVars, queueVars, formed, idOf, members, subscribed,
                   consumerVars,
                   todo, committed, leaving, seen>>

\* The partitions of the topics subscribed to, sub, when topic objects have ps partitions.
PartitionsOf(sub, ps) ==
    {x \in Topics \X TopicObjects \X Numbers : x[2] = sub[x[1]] /\ x[3] < ps[x[2]]}

Key(x) == <<x[1], x[3]>>


NewPositions_AtEnd(g, c, xs) ==
    [k \in DOMAIN position[c] \cup {Key(x) : x \in xs} |->
        IF k \in DOMAIN position[c] THEN position[c][k]
        ELSE LET x == CHOOSE y \in xs : Key(y) = k IN Len(log[x[2]][x[3]])]

\* assign: a consumer that has no position starts at what its group committed.
NewPositions(g, c, xs) ==
    [k \in DOMAIN position[c] \cup {Key(x) : x \in xs} |->
        IF k \in DOMAIN position[c] THEN position[c][k]
        ELSE LET x == CHOOSE y \in xs : Key(y) = k IN committed[<<g, x[2], x[3]>>]]

\* _rebalance of the group with id g once it has members ms and partitions xs;
\* before is what each consumer held.
Rebalance(g, ms, xs, before) ==
    IF ms = {}
      THEN assigned' = before /\ UNCHANGED position
      ELSE \E owner \in [xs -> ms] :
             LET share(c) == {x \in xs : owner[x] = c}
             IN  /\ assigned' = [c \in Consumers |-> IF c \in ms THEN share(c) ELSE before[c]]
                 /\ position' = [c \in Consumers |->
                        IF c \in ms THEN NewPositions(g, c, share(c)) ELSE position[c]]

\* subscribe: topic and group are created if need be, the group subscribes and
\* rebalances; the consumer joins after that.  The server makes a new Consumer
\* for every JOIN_GROUP: a consumer never joins a second group object.
Subscribe(g, t, c) ==
    /\ Idle
    /\ leaving[c] = 0
    /\ joined[c] \in {0, Found(g)}
    /\ IF topics[t] = 0 THEN Create(t, scenario.default_partitions)
                        ELSE UNCHANGED <<topics, made, lives, parts>>
    /\ GetOrCreate(g)
    /\ LET o == Found(g)
       IN  /\ subscribed' = [subscribed EXCEPT ![o][t] = topics'[t]]
           /\ Rebalance(g, members[o], PartitionsOf(subscribed'[o], parts'), assigned)
           /\ todo' = <<[op |-> "join", group |-> o, consumer |-> c]>>
    /\ UNCHANGED <<scenario, counter, log, trimmed, queueVars, members, joined, committed,
                   leaving, seen>>

Join ==
    /\ todo # <<>> /\ Head(todo).op = "join"
    /\ LET o == Head(todo).group
           c == Head(todo).consumer
       IN  /\ members' = [members EXCEPT ![o] = @ \cup {c}]
           /\ joined' = [joined EXCEPT ![c] = o]
           /\ Rebalance(idOf[o], members'[o], PartitionsOf(subscribed[o], parts), assigned)
    /\ todo' = Tail(todo)
    /\ UNCHANGED <<scenario, topicVars, queueVars, groups, formed, idOf, subscribed,
                   committed,
                   leaving, seen>>

Unsubscribe_NoRebalance ==
    /\ todo # <<>> /\ Head(todo).op = "unsubscribe"
    /\ subscribed' = [subscribed EXCEPT ![Head(todo).group][Head(todo).topic] = 0]
    /\ todo' = Tail(todo)
    /\ UNCHANGED <<scenario, topicVars, queueVars, groups, formed, idOf, members,
                   consumerVars,
                   committed, leaving, seen>>

Unsubscribe ==
    /\ todo # <<>> /\ Head(todo).op = "unsubscribe"
    /\ LET o == Head(todo).group
       IN  /\ subscribed' = [subscribed EXCEPT ![o][Head(todo).topic] = 0]
           /\ Rebalance(idOf[o], members[o], PartitionsOf(subscribed'[o], parts), assigned)
    /\ todo' = Tail(todo)
    /\ UNCHANGED <<scenario, topicVars, queueVars, groups, formed, idOf, members, joined,
                   committed,
                   leaving, seen>>

\* remove_dead_members of one group: any of its members may have been silent.
RemoveDeadMembers(g, dead) ==
    /\ Idle
    /\ groups[g] # 0
    /\ LET o == groups[g]
       IN  /\ dead # {} /\ dead \subseteq members[o]
           /\ members' = [members EXCEPT ![o] = @ \ dead]
           /\ Rebalance(g, members'[o], PartitionsOf(subscribed[o], parts),
                        [c \in Consumers |-> IF c \in dead THEN {} ELSE assigned[c]])
    /\ UNCHANGED <<scenario, topicVars, queueVars, groups, formed, idOf, subscribed,
                   joined, todo,
                   committed, leaving, seen>>

\* LEAVE_GROUP: the handler looks the group up by its id ...
LookUpGroup(c) ==
    /\ Idle
    /\ joined[c] # 0 /\ leaving[c] = 0
    /\ leaving' = [leaving EXCEPT ![c] = groups[idOf[joined[c]]]]
    /\ UNCHANGED <<scenario, topicVars, queueVars, groupVars, consumerVars, todo,
                   committed, seen>>

\* ... and calls leave on what it has found, without the broker's lock.
Leave(c) ==
    /\ leaving[c] # 0
    /\ LET o == leaving[c]
       IN  IF c \in members[o]
             THEN /\ members' = [members EXCEPT ![o] = @ \ {c}]
                  /\ Rebalance(idOf[o], members'[o], PartitionsOf(subscribed[o], parts),
                               [assigned EXCEPT ![c] = {}])
             ELSE UNCHANGED <<members, assigned, position>>
    /\ leaving' = [leaving EXCEPT ![c] = 0]
    /\ UNCHANGED <<scenario, topicVars, queueVars, groups, formed, idOf, subscribed,
                   joined, todo,
                   committed, seen>>

-----------------------------------------------------------------------------
(* Consumers *)

CurrentOffset(x) == Len(log[x[2]][x[3]])

\* An offset that retention has passed reads from the first message left.
Unread(c, x) == {<<idOf[joined[c]], x[2], x[3], n>> :
                     n \in Max({position[c][Key(x)], trimmed[x[2]][x[3]]})
                              .. CurrentOffset(x) - 1}

\* poll, with a limit that never bites: all from the position of each partition on.
Poll(c) ==
    /\ leaving[c] = 0
    /\ LET got == {x \in assigned[c] : Unread(c, x) # {}}
       IN  /\ got # {}
           /\ position' = [position EXCEPT ![c] = [k \in DOMAIN @ |->
                 IF \E x \in got : Key(x) = k
                   THEN CurrentOffset(CHOOSE x \in got : Key(x) = k)
                   ELSE @[k]]]
           /\ seen' = seen \cup UNION {Unread(c, x) : x \in got}
    /\ UNCHANGED <<scenario, topicVars, queueVars, groupVars, joined, assigned, todo,
                   committed, leaving>>

Commit(c) ==
    /\ leaving[c] = 0
    /\ LET cell(x) == <<idOf[joined[c]], x[2], x[3]>>
       IN  committed' = [y \in DOMAIN committed |->
              IF \E x \in assigned[c] : cell(x) = y
                THEN position[c][Key(CHOOSE x \in assigned[c] : cell(x) = y)]
                ELSE committed[y]]
    /\ UNCHANGED <<scenario, topicVars, queueVars, groupVars, consumerVars, todo,
                   leaving, seen>>

Next ==
    \/ \E t \in scenario.topics, n \in scenario.partitions : CreateTopic(t, n)
    \/ \E t \in Topics : DeleteTopic(t)
    \/ \E t \in scenario.topics, k \in scenario.keys \cup {NoKey}, i \in scenario.addresses :
          Publish(t, k, i)
    \/ ApplyRetention
    \/ \E q \in scenario.queues, priority \in BOOLEAN : CreateQueue(q, priority)
    \/ \E q \in Queues : DeleteQueue(q)
    \/ \E g \in Groups : CreateConsumerGroup(g) \/ DeleteConsumerGroup(g)
    \/ \E g \in Groups, dead \in SUBSET Consumers : RemoveDeadMembers(g, dead)
    \/ \E g \in Groups, t \in scenario.topics, c \in Consumers : Subscribe(g, t, c)
    \/ Join
    \/ Unsubscribe
    \/ \E c \in Consumers : LookUpGroup(c) \/ Leave(c) \/ Poll(c) \/ Commit(c)

Spec == Init /\ [][Next]_vars

-----------------------------------------------------------------------------
(* Properties *)

\* While nobody holds the broker's lock, every registered group reads, under
\* each topic name it is subscribed to, the Topic object of that name: deleting
\* and creating a topic again (broker.py:106-114) leaves no group with the old
\* one, whatever handlers are in the middle of a leave.
SubscriptionsCurrent ==
    Idle => \A g \in Registered(groups), t \in Topics :
               subscribed[groups[g]][t] \in {0, topics[t]}

\* While nobody holds the broker's lock, the members of a registered group
\* share out exactly the partitions of the topics it is subscribed to: each has
\* one owner and nobody holds a partition of a deleted topic.
MembersShareLive ==
    Idle => \A g \in Registered(groups) :
               LET o == groups[g]
               IN  members[o] # {} =>
                     /\ UNION {assigned[c] : c \in members[o]}
                            = PartitionsOf(subscribed[o], parts)
                     /\ \A c, d \in members[o] :
                            c # d => assigned[c] \cap assigned[d] = {}

\* Messages without a key are spread evenly: the partitions of a topic differ
\* by at most one, however keyed and addressed messages come between.
EvenSpread ==
    \A o \in TopicObjects :
        LET count(i) == Cardinality({n \in DOMAIN log[o][i] : log[o][i][n] = NoKey})
        IN  \A i, j \in 0 .. parts[o] - 1 : count(i) <= count(j) + 1

\* What consumer.py:94 says of poll: no consumer's position is past a message
\* still in an assigned partition that no poll of its group has returned,
\* whoever joins, leaves or is removed, whatever retention removes between two
\* polls, and although the group is deleted and formed again, as long as the
\* topic is the first one of its name.
UnreadIsAhead ==
    \A c \in Consumers : \A x \in assigned[c] :
        lives[x[1]] = 1 =>
            \A n \in trimmed[x[2]][x[3]] .. CurrentOffset(x) - 1 :
                n < position[c][Key(x)] => <<idOf[joined[c]], x[2], x[3], n>> \in seen
=============================================================================
