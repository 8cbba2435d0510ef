--------------------------- MODULE ConsumerGroup ---------------------------
(***************************************************************************)
(* A consumer group and its consumers (brokerlite/consumer.py).            *)
(*                                                                         *)
(* A membership change holds the group's lock while _rebalance revokes and *)
(* assigns one consumer after the other, but a consumer polls, commits and *)
(* seeks under its own lock only.  A rebalance is therefore a list of      *)
(* steps, todo, between which any consumer may run.                        *)
(*                                                                         *)
(* A partition is the interval of offsets it still holds: it is read as    *)
(* Partition shows for a log that is not compacted.                        *)
(***************************************************************************)
EXTENDS Integers, SequencesExt

CONSTANTS
    Consumers,        \* Consumer objects
    Id,               \* the consumer_id of each
    Topics, Partitions,
    PartitionsOf,     \* the partitions of each topic, in order
    Strategies,       \* assignment strategies; STICKY assigns as RANGE does
    Limits,           \* numbers of messages that poll may be asked for
    MaxOffset,        \* bound of the model: messages published per partition
    MaxCalls          \* bound of the model: calls and events counted by Counted

ASSUME GroupAssumption ==
    /\ \A t \in Topics : PartitionsOf[t] \in Seq(Partitions)
    \* A partition is an object of one topic, which lists it once.
    /\ \A t, u \in Topics : \A i \in DOMAIN PartitionsOf[t], j \in DOMAIN PartitionsOf[u] :
          PartitionsOf[t][i] = PartitionsOf[u][j] => t = u /\ i = j
    /\ Limits \subseteq Nat \ {0}
    /\ MaxOffset \in Nat /\ MaxCalls \in Nat

VARIABLES
    strategy,     \* AssignmentStrategy of the group
    members,      \* the values of _members, in insertion order
    subscribed,   \* the keys of _subscribed_topics, in insertion order
    generation,   \* _generation
    todo,         \* what the thread that holds the group's lock still has to do
    assigned,     \* _assigned_partitions of each consumer
    position,     \* _offsets of each consumer, -1 where there is no entry
    committed,    \* the group's committed offset in each partition
    first, end,   \* earliest_offset and current_offset of each partition
    active,       \* _active
    silent,       \* not polled within the session timeout
    calls,        \* calls and events so far, for the bound MaxCalls
    returned,     \* offsets of each partition that some poll has returned
    passed        \* offsets a seek or the retention has passed over

groupVars    == <<strategy, members, subscribed, generation, todo>>
consumerVars == <<assigned, position, active, silent>>
logVars      == <<committed, first, end>>
ghostVars    == <<returned, passed>>
vars         == <<groupVars, consumerVars, logVars, ghostVars, calls>>

Offsets == 0 .. MaxOffset

\* A step of a rebalance: consumer c gives up, or is given, partitions.
Steps == [op : {"revoke", "assign"}, c : Consumers, ps : Seq(Partitions)]

\* Types of the group, the consumers and the partitions.
TypeOK ==
    /\ strategy \in Strategies
    /\ members \in Seq(Consumers) /\ IsInjective(members)
    /\ subscribed \in Seq(Topics) /\ IsInjective(subscribed)
    /\ generation \in Nat
    /\ todo \in Seq(Steps)
    /\ assigned \in [Consumers -> Seq(Partitions)]
    /\ position \in [Consumers -> [Partitions -> Offsets \cup {-1}]]
    /\ committed \in [Partitions -> Offsets]
    /\ first \in [Partitions -> Offsets]
    /\ end \in [Partitions -> Offsets]
    /\ active \in [Consumers -> BOOLEAN]
    /\ silent \in [Consumers -> BOOLEAN]
    /\ calls \in 0 .. MaxCalls
    /\ returned \in [Partitions -> SUBSET Offsets]
    /\ passed \in [Partitions -> SUBSET Offsets]

Init ==
    /\ strategy \in Strategies
    /\ members = <<>>
    /\ subscribed = <<>>
    /\ generation = 0
    /\ todo = <<>>
    /\ assigned = [c \in Consumers |-> <<>>]
    /\ position = [c \in Consumers |-> [p \in Partitions |-> -1]]
    /\ committed = [p \in Partitions |-> 0]
    /\ first = [p \in Partitions |-> 0]
    /\ end = [p \in Partitions |-> 0]
    /\ active = [c \in Consumers |-> TRUE]
    /\ silent = [c \in Consumers |-> FALSE]
    /\ calls = 0
    /\ returned = [p \in Partitions |-> {}]
    /\ passed = [p \in Partitions |-> {}]

-----------------------------------------------------------------------------
(* The assignment strategies: what the i-th of n members gets of ps.       *)

Smaller(a, b) == IF a < b THEN a ELSE b

\* _assign_range: contiguous ranges, the first members get one more.
RangeStart(i, n, ps) == (i - 1) * (Len(ps) \div n) + Smaller(i - 1, Len(ps) % n)
RangeShare(i, n, ps) ==
    SubSeq(ps, RangeStart(i, n, ps) + 1, RangeStart(i + 1, n, ps))

\* _assign_round_robin: every n-th partition, from the i-th on.
RoundRobinShare_SameStart(i, n, ps) ==
    [k \in 1 .. (Len(ps) - i + n) \div n |-> ps[1 + (k - 1) * n]]
RoundRobinShare(i, n, ps) ==
    [k \in 1 .. (Len(ps) - i + n) \div n |-> ps[i + (k - 1) * n]]

Share(i, n, ps) ==
    IF strategy = "round_robin" THEN RoundRobinShare(i, n, ps) ELSE RangeShare(i, n, ps)

Revoke(c)     == [op |-> "revoke", c |-> c, ps |-> <<>>]
Assign(c, ps) == [op |-> "assign", c |-> c, ps |-> ps]

AllPartitions(topics) ==
    FlattenSeq([i \in DOMAIN topics |-> PartitionsOf[topics[i]]])

\* _rebalance: revoke everything, then assign to each member its share.
RebalanceSteps(ms, topics) ==
    LET ps == AllPartitions(topics)
    IN  [i \in DOMAIN ms |-> Revoke(ms[i])]
        \o IF ps = <<>> THEN <<>>
           ELSE [i \in DOMAIN ms |-> Assign(ms[i], Share(i, Len(ms), ps))]

\* A method of the group takes its lock, changes ms and topics, and starts
\* with the steps that precede the rebalance.
Rebalance(before, ms, topics) ==
    /\ todo = <<>>
    /\ members' = ms
    /\ subscribed' = topics
    /\ generation' = IF ms = <<>> THEN generation ELSE generation + 1
    /\ todo' = before \o RebalanceSteps(ms, topics)
    /\ UNCHANGED <<strategy, consumerVars, logVars, ghostVars>>

-----------------------------------------------------------------------------
(* What is bounded: membership and subscription calls, seeks, closes,      *)
(* timeouts and expired messages.  Polls, commits and the rebalance itself *)
(* are not.                                                                *)
Counted ==
    /\ calls < MaxCalls
    /\ calls' = calls + 1

\* The elements of s that are in S, in their order.  (SelectSeq, which the
\* provers cannot unfold, as a recursive function.)
Keep(s, S) ==
    LET kept[i \in 0 .. Len(s)] ==
            IF i = 0 THEN <<>>
            ELSE IF s[i] \in S THEN Append(kept[i - 1], s[i]) ELSE kept[i - 1]
    IN  kept[Len(s)]

\* join; a consumer with the id of a member takes its place in the dict.
Join(c) ==
    LET same == {i \in DOMAIN members : Id[members[i]] = Id[c]} IN
    /\ Counted
    /\ Rebalance(<<>>,
                 IF same = {} THEN Append(members, c)
                 ELSE [i \in DOMAIN members |-> IF i \in same THEN c ELSE members[i]],
                 subscribed)

Leave(c) ==
    /\ Counted
    /\ c \in Range(members)
    /\ Rebalance(<<Revoke(c)>>, Keep(members, Consumers \ {c}), subscribed)

Subscribe(t) ==
    /\ Counted
    /\ Rebalance(<<>>, members,
                 IF t \in Range(subscribed) THEN subscribed ELSE Append(subscribed, t))

Unsubscribe(t) ==
    /\ Counted
    /\ Rebalance(<<>>, members, Keep(subscribed, Topics \ {t}))

Alive == {c \in Consumers : active[c] /\ ~silent[c]}

RemoveDeadMembers_NoRebalance ==
    LET dead == Keep(members, Consumers \ Alive) IN
    /\ todo = <<>>
    /\ dead # <<>>
    /\ members' = Keep(members, Alive)
    /\ todo' = [i \in DOMAIN dead |-> Revoke(dead[i])]
    /\ UNCHANGED <<strategy, subscribed, generation, consumerVars, logVars, ghostVars, calls>>
RemoveDeadMembers ==
    LET dead == Keep(members, Consumers \ Alive) IN
    /\ dead # <<>>
    /\ Rebalance([i \in DOMAIN dead |-> Revoke(dead[i])],
                 Keep(members, Alive), subscribed)
    /\ UNCHANGED calls

\* assign: a position the consumer already has is kept.
AssignedPositions_AtEnd(c, ps) ==
    [p \in Partitions |->
        IF p \in Range(ps) /\ position[c][p] = -1 THEN end[p] ELSE position[c][p]]
AssignedPositions(c, ps) ==
    [p \in Partitions |->
        IF p \in Range(ps) /\ position[c][p] = -1 THEN committed[p] ELSE position[c][p]]

\* The next revoke or assign of the rebalance under way.
RebalanceStep ==
    /\ todo # <<>>
    /\ todo' = Tail(todo)
    /\ LET s == Head(todo) IN
          /\ assigned' = [assigned EXCEPT ![s.c] = s.ps]
          /\ position' = [position EXCEPT ![s.c] = AssignedPositions(s.c, s.ps)]
    /\ UNCHANGED <<strategy, members, subscribed, generation, active, silent, logVars, ghostVars, calls>>

-----------------------------------------------------------------------------
Max2(a, b) == IF a > b THEN a ELSE b

\* get(key, 0)
PositionOf(c, p) == IF position[c][p] = -1 THEN 0 ELSE position[c][p]

\* Partition.read(o, n): the offsets of the messages it returns.
ReadOffsets(p, o, n) ==
    LET start == Max2(o, first[p]) IN start .. Smaller(start + n, end[p]) - 1

\* What poll reads from partition p, one of those assigned to c.
Batch(c, p, limit) ==
    ReadOffsets(p, PositionOf(c, p), Max2(1, limit \div Len(assigned[c])))

PolledPositions(c, limit) ==
    [p \in Partitions |->
        IF p \in Range(assigned[c]) /\ Batch(c, p, limit) # {}
        THEN Max(Batch(c, p, limit)) + 1 ELSE position[c][p]]

\* The messages that poll reads before those of its i-th partition.
ReadBefore(c, i, limit) ==
    LET read[j \in 0 .. i - 1] ==
            IF j = 0 THEN 0 ELSE read[j - 1] + Cardinality(Batch(c, assigned[c][j], limit))
    IN  read[i - 1]

\* poll returns the first limit messages it has read: their offsets in p.
PollResult(c, p, limit) ==
    UNION {{o \in Batch(c, p, limit) :
               ReadBefore(c, i, limit) + o - Min(Batch(c, p, limit)) < limit} :
           i \in {j \in DOMAIN assigned[c] : assigned[c][j] = p}}

\* _do_commit, with the positions pos.
Committed(c, pos) ==
    [p \in Partitions |->
        IF p \in Range(assigned[c]) THEN (IF pos[p] = -1 THEN 0 ELSE pos[p])
        ELSE committed[p]]

\* poll; autoCommit says whether the auto-commit interval has passed.  Like
\* the other methods it does not ask whether the consumer was closed.
Poll(c, limit, autoCommit) ==
    /\ silent' = [silent EXCEPT ![c] = FALSE]
    /\ \/ /\ assigned[c] = <<>>
          /\ UNCHANGED <<position, returned, committed>>
       \/ /\ assigned[c] # <<>>
          /\ position' = [position EXCEPT ![c] = PolledPositions(c, limit)]
          /\ returned' = [p \in Partitions |->
                 returned[p] \cup PollResult(c, p, limit)]
          /\ committed' = IF autoCommit THEN Committed(c, PolledPositions(c, limit))
                          ELSE committed
    /\ UNCHANGED <<groupVars, assigned, active, first, end, passed, calls>>

Commit(c) ==
    /\ committed' = Committed(c, position[c])
    /\ UNCHANGED <<groupVars, consumerVars, first, end, ghostVars, calls>>

\* seek, seek_to_beginning (to the earliest offset), seek_to_end.
SeekTo(c, to) ==
    /\ Counted
    /\ position' = [position EXCEPT ![c] = [p \in Partitions |->
           IF p \in DOMAIN to THEN to[p] ELSE @[p]]]
    /\ passed' = [p \in Partitions |->
           IF p \in DOMAIN to THEN passed[p] \cup 0 .. to[p] - 1 ELSE passed[p]]
    /\ UNCHANGED <<groupVars, assigned, active, silent, logVars, returned>>

Seek(c, p, o) == SeekTo(c, [x \in {p} |-> o])
SeekToBeginning(c) == SeekTo(c, [p \in Range(assigned[c]) |-> first[p]])
SeekToEnd(c) == SeekTo(c, [p \in Range(assigned[c]) |-> end[p]])

\* close commits and marks the consumer, which stays a member and an owner.
Close(c) ==
    /\ Counted
    /\ committed' = Committed(c, position[c])
    /\ active' = [active EXCEPT ![c] = FALSE]
    /\ UNCHANGED <<groupVars, assigned, position, silent, first, end, ghostVars>>

\* External: the session timeout of a member passes without a poll.
SessionTimeout(c) ==
    /\ Counted
    /\ c \in Range(members)
    /\ ~silent[c]
    /\ silent' = [silent EXCEPT ![c] = TRUE]
    /\ UNCHANGED <<groupVars, assigned, position, active, logVars, ghostVars>>

\* External: the partition's own operations, see Partition.
Publish(p) ==
    /\ end[p] < MaxOffset
    /\ end' = [end EXCEPT ![p] = @ + 1]
    /\ UNCHANGED <<groupVars, consumerVars, committed, first, ghostVars, calls>>

Expire(p) ==
    /\ Counted
    /\ first[p] < end[p]
    /\ first' = [first EXCEPT ![p] = @ + 1]
    /\ passed' = [passed EXCEPT ![p] = @ \cup {first[p]}]
    /\ UNCHANGED <<groupVars, consumerVars, committed, end, returned>>

-----------------------------------------------------------------------------
GroupNext ==
    \/ \E c \in Consumers : Join(c) \/ Leave(c)
    \/ \E t \in Topics : Subscribe(t) \/ Unsubscribe(t)
    \/ RemoveDeadMembers
    \/ RebalanceStep

ConsumerNext(c) ==
    \/ \E limit \in Limits, a \in BOOLEAN : Poll(c, limit, a)
    \/ Commit(c)
    \/ Close(c)
    \/ SessionTimeout(c)

SeekNext(c) ==
    \/ \E p \in Partitions, o \in Offsets : Seek(c, p, o)
    \/ SeekToBeginning(c)
    \/ SeekToEnd(c)

Next ==
    \/ GroupNext
    \/ \E c \in Consumers : ConsumerNext(c) \/ SeekNext(c)
    \/ \E p \in Partitions : Publish(p) \/ Expire(p)

Spec == Init /\ [][Next]_vars

\* A method of the group runs to its end; an application polls a consumer as
\* long as it has not closed it.
Fairness ==
    /\ WF_vars(RebalanceStep)
    /\ \A c \in Consumers :
          WF_vars(active[c] /\ \E limit \in Limits, a \in BOOLEAN : Poll(c, limit, a))

\* Nothing is assumed of remove_dead_members: only an administrator's call of
\* remove_dead_consumers (admin.py 174) comes to it, and nothing schedules one.
FairSpec == Spec /\ Fairness

-----------------------------------------------------------------------------
(* At no instant, not even half way through a rebalance, do two consumers  *)
(* hold the same partition (consumer.py 4-5, 208-209).                     *)
ExclusiveOwner ==
    \A c, d \in Consumers :
        c # d => Range(assigned[c]) \cap Range(assigned[d]) = {}

(* Between rebalances every subscribed partition has an owner, and nobody  *)
(* holds a partition the group is not subscribed to.                       *)
FullCoverage ==
    todo = <<>> /\ members # <<>> =>
        UNION {Range(assigned[c]) : c \in Range(members)} = Range(AllPartitions(subscribed))

(* At-least-once: the group's committed offset and every owner's position  *)
(* only pass messages that some poll has returned, or that the retention   *)
(* or a seek has passed over.                                              *)
NoSilentSkip ==
    \A p \in Partitions :
        /\ 0 .. committed[p] - 1 \subseteq returned[p] \cup passed[p]
        /\ \A c \in Consumers :
              0 .. position[c][p] - 1 \subseteq returned[p] \cup passed[p]

(* What a closed consumer still keeps from the others: it stays a member   *)
(* and an owner (consumer.py 174-178, server.py 326).                      *)
HeldByClosed(p) == \E c \in Range(members) : ~active[c] /\ p \in Range(assigned[c])

(* Every published message of a subscribed topic is returned by some poll, *)
(* through any number of rebalances, unless its partition comes to be held *)
(* by a closed consumer: only such a partition is left unread, and all     *)
(* others are read although a member was closed (consumer.py 93-127,       *)
(* 264-292).                                                               *)
Consumed ==
    \A p \in Partitions, o \in Offsets :
        o < end[p] ~> \/ o \in returned[p] \cup passed[p]
                      \/ p \notin Range(AllPartitions(subscribed))
                      \/ members = <<>>
                      \/ HeldByClosed(p)
=============================================================================
