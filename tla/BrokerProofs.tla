---------------------------- MODULE BrokerProofs ----------------------------
(***************************************************************************)
(* Proofs about the broker (Broker), for any numbers of names, consumers   *)
(* and configurations: what deleting and creating names again leaves in    *)
(* the consumer groups (GroupInv); what the members of a group hold; how   *)
(* evenly messages without a key or an address are spread over a topic's   *)
(* partitions (SpreadInv); and that no position is past a message which    *)
(* the group has not been given (ReadInv).                                 *)
(***************************************************************************)
EXTENDS Broker, FiniteSetTheorems, WellFoundedInduction, TLAPS

(* Every nonempty set of natural numbers has a least element.              *)
LEMMA LeastNumber ==
    ASSUME NEW T, T \subseteq Nat, T # {}
    PROVE  \E x \in T : \A y \in T : x <= y
<1> DEFINE R == {ss \in Nat \X Nat : ss[1] < ss[2]}
<1>1. IsWellFoundedOn(R, Nat)
  BY NatLessThanWellFounded DEF OpToRel
<1>2. PICK x \in T : \A y \in T : ~ (<<y, x>> \in R)
  <2> HIDE DEF R
  <2> QED BY <1>1, WFMin
<1>3. \A y \in T : ~ (y < x)
  BY <1>2
<1> QED BY <1>3

(* A finite set of numbers has a greatest one: the sets of objects that    *)
(* the model numbers reach it.                                             *)
LEMMA GreatestNumber ==
    ASSUME NEW S, S \subseteq Nat, IsFiniteSet(S), S # {}
    PROVE  Max(S) \in S /\ \A y \in S : Max(S) >= y
<1> DEFINE Bounded(T) == \E x \in T : \A y \in T : x >= y
           Bad == {k \in Nat : \E T \in SUBSET Nat : /\ IsFiniteSet(T) /\ T # {}
                                                     /\ Cardinality(T) = k /\ ~Bounded(T)}
<1>1. Bad = {}
  <2> SUFFICES ASSUME Bad # {} PROVE FALSE
    OBVIOUS
  <2>1. PICK k \in Bad : \A j \in Bad : k <= j
    <3>1. Bad \subseteq Nat
      OBVIOUS
    <3> HIDE DEF Bad
    <3> QED BY <3>1, LeastNumber
  <2>2. PICK T \in SUBSET Nat : IsFiniteSet(T) /\ T # {} /\ Cardinality(T) = k /\ ~Bounded(T)
    OBVIOUS
  <2>3. PICK x \in T : TRUE
    BY <2>2
  <2>4. IsFiniteSet(T \ {x}) /\ Cardinality(T \ {x}) = k - 1 /\ k \in Nat
    BY <2>2, <2>3, FS_RemoveElement, FS_CardinalityType
  <2>5. T \ {x} = {} => Bounded(T)
    BY <2>3
  <2>6. T \ {x} # {} => k - 1 \in Nat
    BY <2>4, FS_CardinalityType
  <2>7. T \ {x} # {} => Bounded(T \ {x})
    <3> SUFFICES ASSUME T \ {x} # {}, ~Bounded(T \ {x}) PROVE FALSE
      OBVIOUS
    <3>1. k - 1 \in Bad
      BY <2>4, <2>6
    <3> QED BY <3>1, <2>1, <2>6
  <2>8. Bounded(T \ {x}) => Bounded(T)
    <3> SUFFICES ASSUME Bounded(T \ {x}) PROVE Bounded(T)
      OBVIOUS
    <3>1. PICK m \in T \ {x} : \A y \in T \ {x} : m >= y
      OBVIOUS
    <3>2. CASE m >= x
      BY <3>1, <3>2
    <3>3. CASE x >= m
      BY <3>1, <3>3, <2>3
    <3>4. m \in Nat /\ x \in Nat
      BY <2>3
    <3> QED BY <3>2, <3>3, <3>4
  <2> QED BY <2>2, <2>5, <2>7, <2>8
<1>2. Cardinality(S) \in Nat
  BY FS_CardinalityType
<1>3. Bounded(S)
  BY <1>1, <1>2
<1> QED BY <1>3 DEF Max

(* Every object the configuration allows is one of TopicObjects, of        *)
(* GroupObjects.                                                           *)
LEMMA ObjectsInRange ==
    ASSUME NEW s \in Scenarios
    PROVE  /\ s.maxTopicObjects \in Nat /\ s.maxGroupObjects \in Nat
           /\ 1 .. s.maxTopicObjects \subseteq TopicObjects
           /\ 1 .. s.maxGroupObjects \subseteq GroupObjects
           /\ TopicObjects \subseteq Nat \ {0} /\ GroupObjects \subseteq Nat \ {0}
<1> DEFINE T == {r.maxTopicObjects : r \in Scenarios}
           G == {r.maxGroupObjects : r \in Scenarios}
<1>1. T \subseteq Nat /\ G \subseteq Nat /\ s.maxTopicObjects \in T /\ s.maxGroupObjects \in G
  BY BrokerAssumption
<1>2. IsFiniteSet(T)
  <2> DEFINE f == [r \in Scenarios |-> r.maxTopicObjects]
  <2>1. f \in Surjection(Scenarios, T)
    BY DEF Surjection
  <2> HIDE DEF f, T
  <2> QED BY <2>1, FS_Surjection, BrokerAssumption
<1>3. IsFiniteSet(G)
  <2> DEFINE f == [r \in Scenarios |-> r.maxGroupObjects]
  <2>1. f \in Surjection(Scenarios, G)
    BY DEF Surjection
  <2> HIDE DEF f, G
  <2> QED BY <2>1, FS_Surjection, BrokerAssumption
<1>4. TopicObjects = 1 .. Max(T) /\ GroupObjects = 1 .. Max(G)
  BY DEF TopicObjects, GroupObjects
<1> HIDE DEF T, G
<1>5. Max(T) \in Nat /\ Max(T) >= s.maxTopicObjects
  BY <1>1, <1>2, GreatestNumber
<1>6. Max(G) \in Nat /\ Max(G) >= s.maxGroupObjects
  BY <1>1, <1>3, GreatestNumber
<1>7. s.maxTopicObjects \in Nat /\ s.maxGroupObjects \in Nat
  BY <1>1
<1>8. 1 .. s.maxTopicObjects \subseteq TopicObjects /\ TopicObjects \subseteq Nat \ {0}
  BY <1>4, <1>5, <1>7
<1>9. 1 .. s.maxGroupObjects \subseteq GroupObjects /\ GroupObjects \subseteq Nat \ {0}
  BY <1>4, <1>6, <1>7
<1> QED BY <1>7, <1>8, <1>9

-----------------------------------------------------------------------------
(* Groups and topics: the invariant                                        *)

(* Types of the topics, and of what the groups are made of.                *)
TopicTypes ==
    /\ made \in 0 .. scenario.maxTopicObjects
    /\ topics \in [Topics -> 0 .. made]
    /\ parts \in [TopicObjects -> Nat]

GroupTypes ==
    /\ formed \in 0 .. scenario.maxGroupObjects
    /\ groups \in [Groups -> 0 .. formed]
    /\ idOf \in [GroupObjects -> Groups \cup {""}]
    /\ members \in [GroupObjects -> SUBSET Consumers]
    /\ subscribed \in [GroupObjects -> [Topics -> 0 .. made]]
    /\ todo \in Seq(Steps)
    /\ joined \in [Consumers -> 0 .. formed]
    /\ leaving \in [Consumers -> 0 .. formed]
    /\ DOMAIN assigned = Consumers

(* A registered object bears the id it is registered under: no object is   *)
(* registered twice.                                                       *)
RegisteredById ==
    /\ \A g \in Groups : groups[g] # 0 => idOf[groups[g]] = g
    /\ \A o \in 1 .. formed : idOf[o] \in Groups

(* What is still to be formed has no subscriptions.                        *)
FreshGroups ==
    \A o \in GroupObjects : o > formed => \A t \in Topics : subscribed[o][t] = 0

(* A member has joined the group it is a member of, so no consumer is a    *)
(* member of two; nor will it be, when the join under way is done.         *)
OneHome ==
    /\ \A o \in GroupObjects : \A c \in members[o] : joined[c] = o
    /\ \A i \in DOMAIN todo :
          /\ todo[i].group <= formed
          /\ todo[i].op = "join" => /\ Len(todo) = 1
                                    /\ joined[todo[i].consumer] \in {0, todo[i].group}

(* A registered group reads the registered Topic object of each name, or   *)
(* the holder of the broker's lock is about to unsubscribe it.             *)
CurrentOrPending ==
    \A g \in Registered(groups), t \in Topics :
        \/ subscribed[groups[g]][t] \in {0, topics[t]}
        \/ \E i \in DOMAIN todo :
              todo[i] = [op |-> "unsubscribe", group |-> groups[g], topic |-> t]

(* ms share out xs when each holds what held says.                         *)
SharedOut(ms, xs, held) ==
    /\ UNION {held[c] : c \in ms} = xs
    /\ \A c, d \in ms : c # d => held[c] \cap held[d] = {}

(* The members of every group object share out what it is subscribed to,   *)
(* registered or not, also while the lock is held.                         *)
AllShared ==
    \A o \in GroupObjects :
        members[o] # {} => SharedOut(members[o], PartitionsOf(subscribed[o], parts), assigned)

Types == scenario \in Scenarios /\ TopicTypes /\ GroupTypes

GroupInv ==
    /\ Types
    /\ RegisteredById
    /\ FreshGroups
    /\ OneHome
    /\ CurrentOrPending
    /\ AllShared

(* Objects that exist are in range, and so is the next one the             *)
(* configuration allows.                                                   *)
LEMMA InRange ==
    ASSUME Types
    PROVE  /\ made \in Nat /\ formed \in Nat
           /\ 1 .. made \subseteq TopicObjects /\ 1 .. formed \subseteq GroupObjects
           /\ made < scenario.maxTopicObjects =>
                 made + 1 \in TopicObjects /\ made + 1 \in 0 .. scenario.maxTopicObjects
           /\ formed < scenario.maxGroupObjects =>
                 formed + 1 \in GroupObjects /\ formed + 1 \in 0 .. scenario.maxGroupObjects
           /\ GroupObjects \subseteq Nat \ {0} /\ TopicObjects \subseteq Nat \ {0}
           /\ \A g \in Registered(groups) : g \in Groups /\ groups[g] \in GroupObjects
<1>1. /\ scenario.maxTopicObjects \in Nat /\ scenario.maxGroupObjects \in Nat
      /\ 1 .. scenario.maxTopicObjects \subseteq TopicObjects
      /\ 1 .. scenario.maxGroupObjects \subseteq GroupObjects
      /\ TopicObjects \subseteq Nat \ {0} /\ GroupObjects \subseteq Nat \ {0}
  BY ObjectsInRange DEF Types
<1>2. /\ made \in 0 .. scenario.maxTopicObjects /\ formed \in 0 .. scenario.maxGroupObjects
      /\ groups \in [Groups -> 0 .. formed]
  BY DEF Types, TopicTypes, GroupTypes
<1>3. made \in Nat /\ formed \in Nat
  BY <1>1, <1>2
<1>4. 1 .. made \subseteq TopicObjects /\ 1 .. formed \subseteq GroupObjects
  BY <1>1, <1>2
<1>5. made < scenario.maxTopicObjects =>
         made + 1 \in TopicObjects /\ made + 1 \in 0 .. scenario.maxTopicObjects
  BY <1>1, <1>3
<1>6. formed < scenario.maxGroupObjects =>
         formed + 1 \in GroupObjects /\ formed + 1 \in 0 .. scenario.maxGroupObjects
  BY <1>1, <1>3
<1>7. \A g \in Registered(groups) : g \in Groups /\ groups[g] \in GroupObjects
  <2> SUFFICES ASSUME NEW g \in Registered(groups)
               PROVE  g \in Groups /\ groups[g] \in GroupObjects
    OBVIOUS
  <2>1. g \in Groups /\ groups[g] # 0
    BY <1>2 DEF Registered
  <2>2. groups[g] \in 0 .. formed
    BY <1>2, <2>1
  <2> QED BY <1>3, <1>4, <2>1, <2>2
<1> QED BY <1>1, <1>3, <1>4, <1>5, <1>6, <1>7

(* What the two properties say when the lock is free follows.              *)
LEMMA GroupInvSuffices == GroupInv => SubscriptionsCurrent /\ MembersShareLive
<1> SUFFICES ASSUME GroupInv PROVE SubscriptionsCurrent /\ MembersShareLive
  OBVIOUS
<1> USE DEF GroupInv
<1>1. SubscriptionsCurrent
  BY DEF SubscriptionsCurrent, CurrentOrPending, Idle
<1>2. \A g \in Registered(groups) : groups[g] \in GroupObjects
  BY InRange
<1>3. MembersShareLive
  BY <1>2 DEF MembersShareLive, AllShared, SharedOut
<1> QED BY <1>1, <1>3

-----------------------------------------------------------------------------
(* The helpers of the actions                                              *)

(* A rebalance of ms: they share out xs, and the others keep what they     *)
(* held before.                                                            *)
LEMMA RebalanceShares ==
    ASSUME NEW g, NEW ms, ms \subseteq Consumers, NEW xs, NEW before, DOMAIN before = Consumers,
           Rebalance(g, ms, xs, before)
    PROVE  /\ DOMAIN assigned' = Consumers
           /\ ms # {} => SharedOut(ms, xs, assigned')
           /\ \A c \in Consumers \ ms : assigned'[c] = before[c]
<1>1. CASE ms = {}
  BY <1>1 DEF Rebalance
<1>2. CASE ms # {}
  <2>1. PICK owner \in [xs -> ms] :
           assigned' = [c \in Consumers |-> IF c \in ms THEN {x \in xs : owner[x] = c}
                                                        ELSE before[c]]
    BY <1>2 DEF Rebalance
  <2>2. UNION {assigned'[c] : c \in ms} = xs
    BY <2>1
  <2>3. \A c, d \in ms : c # d => assigned'[c] \cap assigned'[d] = {}
    BY <2>1
  <2> QED BY <2>1, <2>2, <2>3 DEF SharedOut
<1> QED BY <1>1, <1>2

(* What is subscribed to does not change when an object is added that      *)
(* nobody is subscribed to.                                                *)
LEMMA PartitionsStable ==
    ASSUME NEW m \in Nat, NEW sub \in [Topics -> 0 .. m], NEW ps, NEW qs,
           \A k \in TopicObjects : k <= m => ps[k] = qs[k]
    PROVE  PartitionsOf(sub, ps) = PartitionsOf(sub, qs)
BY DEF PartitionsOf

(* Sharing depends on what the members hold only.                          *)
LEMMA SharedSame ==
    ASSUME NEW ms, NEW xs, NEW f, NEW h, \A c \in ms : f[c] = h[c], SharedOut(ms, xs, f)
    PROVE  SharedOut(ms, xs, h)
<1>1. {f[c] : c \in ms} = {h[c] : c \in ms}
  OBVIOUS
<1> QED BY <1>1 DEF SharedOut

(* A rebalance of the group object o, whose members were others or the     *)
(* same, leaves all groups sharing: nobody else's members are touched.     *)
LEMMA RebalanceKeeps ==
    ASSUME GroupInv, NEW o \in GroupObjects, NEW g, NEW before, DOMAIN before = Consumers,
           members' \in [GroupObjects -> SUBSET Consumers],
           \A p \in GroupObjects : p # o => members'[p] = members[p],
           \A p \in GroupObjects : p # o => \A c \in members[p] : before[c] = assigned[c],
           \A p \in GroupObjects : p # o => members[p] \cap members'[o] = {},
           NEW xs, xs = PartitionsOf(subscribed'[o], parts'),
           \A p \in GroupObjects : p # o =>
               PartitionsOf(subscribed'[p], parts') = PartitionsOf(subscribed[p], parts),
           Rebalance(g, members'[o], xs, before)
    PROVE  AllShared' /\ DOMAIN assigned' = Consumers
<1>1. members'[o] \subseteq Consumers
  OBVIOUS
<1>2. /\ DOMAIN assigned' = Consumers
      /\ members'[o] # {} => SharedOut(members'[o], xs, assigned')
      /\ \A c \in Consumers \ members'[o] : assigned'[c] = before[c]
  BY <1>1, RebalanceShares
<1>3. ASSUME NEW p \in GroupObjects, p # o, members'[p] # {}
      PROVE  SharedOut(members'[p], PartitionsOf(subscribed'[p], parts'), assigned')
  <2>1. members'[p] = members[p]
    BY <1>3
  <2>2. \A c \in members[p] : assigned[c] = assigned'[c]
    BY <1>2, <1>3 DEF GroupInv, Types, GroupTypes
  <2>3. SharedOut(members[p], PartitionsOf(subscribed[p], parts), assigned)
    BY <1>3, <2>1 DEF GroupInv, AllShared
  <2>4. SharedOut(members[p], PartitionsOf(subscribed[p], parts), assigned')
    BY <2>2, <2>3, SharedSame
  <2> QED BY <1>3, <2>1, <2>4
<1>4. members'[o] # {} => SharedOut(members'[o], PartitionsOf(subscribed'[o], parts'), assigned')
  BY <1>2
<1>5. AllShared'
  BY <1>3, <1>4 DEF AllShared
<1> QED BY <1>2, <1>5

(* create_topic, or none: the new object is one nobody has subscribed to.  *)
LEMMA TopicsAfter ==
    ASSUME Types, NEW t \in Topics, NEW n \in Nat, scenario' = scenario,
           Create(t, n) \/ UNCHANGED <<topics, made, lives, parts>>
    PROVE  /\ made' \in 0 .. scenario.maxTopicObjects /\ made' >= made
           /\ topics' \in [Topics -> 0 .. made']
           /\ parts' \in [TopicObjects -> Nat]
           /\ \A u \in Topics : topics'[u] = topics[u] \/ topics[u] = 0
           /\ \A sub \in [Topics -> 0 .. made] :
                 PartitionsOf(sub, parts') = PartitionsOf(sub, parts)
<1>0. /\ made \in Nat /\ TopicObjects \subseteq Nat
      /\ made < scenario.maxTopicObjects =>
             made + 1 \in TopicObjects /\ made + 1 \in 0 .. scenario.maxTopicObjects
  BY InRange
<1> USE DEF Types, TopicTypes
<1>1. CASE UNCHANGED <<topics, made, lives, parts>>
  <2>1. made' >= made
    BY <1>0, <1>1
  <2> QED BY <1>1, <2>1
<1>2. CASE Create(t, n)
  <2>1. /\ made' = made + 1 /\ made < scenario.maxTopicObjects /\ topics[t] = 0
        /\ topics' = [topics EXCEPT ![t] = made + 1]
        /\ parts' = [parts EXCEPT ![made + 1] = n]
    BY <1>2 DEF Create, MayCreate
  <2>2. \A k \in TopicObjects : k <= made => parts'[k] = parts[k]
    BY <1>0, <2>1
  <2>3. \A sub \in [Topics -> 0 .. made] : PartitionsOf(sub, parts') = PartitionsOf(sub, parts)
    <3> SUFFICES ASSUME NEW sub \in [Topics -> 0 .. made]
                 PROVE  PartitionsOf(sub, parts') = PartitionsOf(sub, parts)
      OBVIOUS
    <3> QED BY ONLY <1>0, <2>2, PartitionsStable, sub \in [Topics -> 0 .. made]
  <2>4. topics' \in [Topics -> 0 .. made'] /\ parts' \in [TopicObjects -> Nat]
    BY <1>0, <2>1
  <2>5. \A u \in Topics : topics'[u] = topics[u] \/ topics[u] = 0
    BY <2>1
  <2>6. made' \in 0 .. scenario.maxTopicObjects /\ made' >= made
    BY <1>0, <2>1
  <2> QED BY ONLY <2>3, <2>4, <2>5, <2>6
<1> QED BY <1>1, <1>2

(* A step that at most creates a topic keeps the invariant.                *)
LEMMA CreateKeeps ==
    ASSUME GroupInv, NEW t \in Topics, NEW n \in Nat,
           Create(t, n) \/ UNCHANGED <<topics, made, lives, parts>>,
           UNCHANGED <<scenario, groupVars, joined, assigned, todo, leaving>>
    PROVE  GroupInv'
<1>0. Types
  BY DEF GroupInv
<1>1. /\ made' \in 0 .. scenario.maxTopicObjects /\ made' >= made
      /\ topics' \in [Topics -> 0 .. made']
      /\ parts' \in [TopicObjects -> Nat]
      /\ \A u \in Topics : topics'[u] = topics[u] \/ topics[u] = 0
      /\ \A sub \in [Topics -> 0 .. made] : PartitionsOf(sub, parts') = PartitionsOf(sub, parts)
  BY <1>0, TopicsAfter
<1>2. made \in Nat /\ made' \in Nat
  <2>1. made \in Nat /\ scenario.maxTopicObjects \in Nat
    BY <1>0, InRange, ObjectsInRange DEF Types
  <2> QED BY ONLY <1>1, <2>1
<1>3. subscribed' \in [GroupObjects -> [Topics -> 0 .. made']]
  <2>1. 0 .. made \subseteq 0 .. made'
    BY ONLY <1>1, <1>2
  <2>2. subscribed \in [GroupObjects -> [Topics -> 0 .. made]] /\ subscribed' = subscribed
    BY <1>0 DEF Types, GroupTypes, groupVars
  <2> QED BY ONLY <2>1, <2>2
<1>4. Types'
  BY <1>0, <1>1, <1>3 DEF Types, TopicTypes, GroupTypes, groupVars
<1>5. RegisteredById' /\ FreshGroups' /\ OneHome'
  BY DEF GroupInv, RegisteredById, FreshGroups, OneHome, groupVars
<1>6. CurrentOrPending'
  <2> SUFFICES ASSUME NEW g \in Registered(groups), NEW u \in Topics
               PROVE  \/ subscribed[groups[g]][u] \in {0, topics'[u]}
                      \/ \E i \in DOMAIN todo :
                            todo[i] = [op |-> "unsubscribe", group |-> groups[g], topic |-> u]
    BY DEF CurrentOrPending, groupVars
  <2> QED BY <1>1 DEF GroupInv, CurrentOrPending
<1>7. AllShared'
  <2> SUFFICES ASSUME NEW o \in GroupObjects, members[o] # {}
               PROVE  SharedOut(members[o], PartitionsOf(subscribed[o], parts'), assigned)
    BY DEF AllShared, groupVars
  <2>1. PartitionsOf(subscribed[o], parts') = PartitionsOf(subscribed[o], parts)
    BY <1>0, <1>1 DEF Types, GroupTypes
  <2> QED BY <2>1 DEF GroupInv, AllShared
<1> QED BY <1>4, <1>5, <1>6, <1>7 DEF GroupInv

(* get_or_create_consumer_group: the object found is registered under the  *)
(* id, and everything else stays.                                          *)
LEMMA GroupFound ==
    ASSUME Types, RegisteredById, NEW g \in Groups, scenario' = scenario, GetOrCreate(g)
    PROVE  /\ formed' \in 0 .. scenario.maxGroupObjects /\ formed' \in Nat /\ formed' >= formed
           /\ groups' \in [Groups -> 0 .. formed']
           /\ idOf' \in [GroupObjects -> Groups \cup {""}]
           /\ RegisteredById'
           /\ Found(g) \in GroupObjects /\ Found(g) <= formed'
           /\ groups'[g] = Found(g)
           /\ \A h \in Groups : h # g => groups'[h] = groups[h]
           /\ groups[g] # Found(g) => groups[g] = 0 /\ Found(g) > formed
           /\ \A o \in GroupObjects : o > formed' => o > formed
<1>0. /\ formed \in Nat /\ GroupObjects \subseteq Nat \ {0}
      /\ 1 .. formed \subseteq GroupObjects
      /\ formed < scenario.maxGroupObjects =>
            formed + 1 \in GroupObjects /\ formed + 1 \in 0 .. scenario.maxGroupObjects
  BY InRange
<1>1. /\ formed \in 0 .. scenario.maxGroupObjects
      /\ groups \in [Groups -> 0 .. formed]
      /\ idOf \in [GroupObjects -> Groups \cup {""}]
  BY DEF Types, GroupTypes
<1>2. CASE groups[g] # 0
  <2>1. UNCHANGED <<groups, formed, idOf>> /\ Found(g) = groups[g] /\ groups[g] \in 0 .. formed
    BY <1>1, <1>2 DEF GetOrCreate, Found
  <2>2. groups[g] \in GroupObjects /\ groups[g] <= formed' /\ formed' >= formed
    BY ONLY <1>0, <1>2, <2>1
  <2>3. RegisteredById'
    BY <2>1 DEF RegisteredById
  <2> QED BY ONLY <1>0, <1>1, <2>1, <2>2, <2>3
<1>3. CASE groups[g] = 0
  <2>1. /\ formed < scenario.maxGroupObjects /\ formed' = formed + 1 /\ Found(g) = formed + 1
        /\ groups' = [groups EXCEPT ![g] = formed + 1]
        /\ idOf' = [idOf EXCEPT ![formed + 1] = g]
    BY <1>3 DEF GetOrCreate, Found
  <2>2. /\ groups' \in [Groups -> 0 .. formed'] /\ groups'[g] = Found(g)
        /\ \A h \in Groups : h # g => groups'[h] = groups[h]
    <3>1. 0 .. formed \subseteq 0 .. formed' /\ formed + 1 \in 0 .. formed'
      BY ONLY <1>0, <2>1
    <3>2. groups' \in [Groups -> 0 .. formed']
      BY ONLY <1>1, <2>1, <3>1
    <3> QED BY ONLY <1>1, <2>1, <3>2, g \in Groups
  <2>3. idOf' \in [GroupObjects -> Groups \cup {""}] /\ idOf'[formed + 1] = g
        /\ \A o \in GroupObjects : o # formed + 1 => idOf'[o] = idOf[o]
    BY ONLY <1>0, <1>1, <2>1, g \in Groups
  <2>4. \A h \in Groups : groups'[h] # 0 => idOf'[groups'[h]] = h
    <3> SUFFICES ASSUME NEW h \in Groups, groups'[h] # 0, h # g PROVE idOf'[groups'[h]] = h
      BY <2>1, <2>2, <2>3
    <3>1. groups'[h] = groups[h] /\ groups[h] \in 0 .. formed /\ idOf[groups[h]] = h
      BY <1>1, <2>2 DEF RegisteredById
    <3>2. groups[h] \in GroupObjects /\ groups[h] # formed + 1
      BY ONLY <1>0, <3>1, groups'[h] # 0
    <3> QED BY <2>3, <3>1, <3>2
  <2>5. \A o \in 1 .. formed' : idOf'[o] \in Groups
    <3> SUFFICES ASSUME NEW o \in 1 .. formed', o # formed + 1 PROVE idOf'[o] \in Groups
      BY <2>3
    <3>1. o \in 1 .. formed
      BY ONLY <1>0, <2>1, o \in 1 .. formed', o # formed + 1
    <3> QED BY <1>0, <2>3, <3>1 DEF RegisteredById
  <2>6. RegisteredById'
    BY <2>4, <2>5 DEF RegisteredById
  <2>7. /\ formed' \in 0 .. scenario.maxGroupObjects /\ formed' \in Nat /\ formed' >= formed
        /\ Found(g) \in GroupObjects /\ Found(g) <= formed' /\ Found(g) > formed
        /\ \A o \in GroupObjects : o > formed' => o > formed
    BY ONLY <1>0, <2>1
  <2> QED BY ONLY <1>3, <2>2, <2>3, <2>6, <2>7
<1> QED BY <1>2, <1>3

(* delete_topic makes every group it is to visit unsubscribe: the          *)
(* sequence names each of them.                                            *)
LEMMA EveryoneUnsubscribes ==
    ASSUME NEW t \in Topics, NEW os \in SUBSET GroupObjects, IsFiniteSet(os),
           NEW s \in Unsubscribing(t, os)
    PROVE  /\ s \in Seq(Steps)
           /\ \A i \in DOMAIN s : s[i].op = "unsubscribe" /\ s[i].group \in os
           /\ \A o \in os : \E i \in DOMAIN s :
                 s[i] = [op |-> "unsubscribe", group |-> o, topic |-> t]
<1> DEFINE n == Cardinality(os)
           f == [i \in 1 .. n |-> s[i].group]
<1>1. n \in Nat
  BY FS_CardinalityType
<1>2. /\ s \in [1 .. n -> [op : {"unsubscribe"}, group : os, topic : {t}]]
      /\ \A i, j \in DOMAIN s : s[i] = s[j] => i = j
  BY DEF Unsubscribing
<1>3. \A i \in 1 .. n : /\ s[i] = [op |-> "unsubscribe", group |-> s[i].group, topic |-> t]
                        /\ s[i].group \in os /\ s[i].op = "unsubscribe"
  BY <1>2
<1>4. f \in Injection(1 .. n, os)
  BY <1>2, <1>3 DEF Injection, IsInjective
<1>5. f \in Surjection(1 .. n, os)
  <2>1. Cardinality(1 .. n) = n
    BY <1>1, FS_Interval
  <2> HIDE DEF f
  <2> QED BY <1>4, <2>1, FS_Injection
<1>6. \A o \in os : \E i \in 1 .. n : s[i].group = o
  BY <1>5 DEF Surjection
<1>7. s \in Seq(Steps)
  <2>1. \A i \in 1 .. n : s[i] \in Steps
    <3> SUFFICES ASSUME NEW i \in 1 .. n PROVE s[i] \in Steps
      OBVIOUS
    <3>1. [op |-> "unsubscribe", group |-> s[i].group, topic |-> t]
             \in [op : {"unsubscribe"}, group : GroupObjects, topic : Topics]
      BY <1>3
    <3> QED BY <1>3, <3>1 DEF Steps
  <2>2. s \in [1 .. n -> Steps]
    BY <1>2, <2>1
  <2> QED BY <1>1, <2>2
<1>8. DOMAIN s = 1 .. n
  BY <1>2
<1> QED BY <1>3, <1>6, <1>7, <1>8

-----------------------------------------------------------------------------
(* The actions on groups                                                   *)

(* create_consumer_group: the new object has no subscriptions.             *)
LEMMA CreateGroupKeeps ==
    ASSUME GroupInv, NEW g \in Groups, CreateConsumerGroup(g)
    PROVE  GroupInv'
<1>0. Types /\ RegisteredById
  BY DEF GroupInv
<1>1. /\ scenario' = scenario /\ GetOrCreate(g) /\ groups[g] = 0 /\ todo = <<>>
      /\ UNCHANGED <<topicVars, members, subscribed, consumerVars, todo, leaving>>
  BY DEF CreateConsumerGroup, Idle
<1>2. /\ formed' \in 0 .. scenario.maxGroupObjects /\ formed' \in Nat /\ formed' >= formed
      /\ groups' \in [Groups -> 0 .. formed']
      /\ idOf' \in [GroupObjects -> Groups \cup {""}]
      /\ RegisteredById'
      /\ Found(g) \in GroupObjects /\ Found(g) <= formed'
      /\ groups'[g] = Found(g)
      /\ \A h \in Groups : h # g => groups'[h] = groups[h]
      /\ groups[g] # Found(g) => groups[g] = 0 /\ Found(g) > formed
      /\ \A o \in GroupObjects : o > formed' => o > formed
  BY <1>0, <1>1, GroupFound
<1>3. 0 .. formed \subseteq 0 .. formed' /\ GroupObjects \subseteq Nat \ {0}
  <2>1. formed \in Nat /\ GroupObjects \subseteq Nat \ {0}
    BY <1>0, InRange
  <2>2. formed' \in Nat /\ formed' >= formed
    BY <1>2
  <2>3. 0 .. formed \subseteq 0 .. formed'
    BY ONLY <2>1, <2>2
  <2> QED BY <2>1, <2>3
<1>4. Types'
  <2>1. joined' \in [Consumers -> 0 .. formed'] /\ leaving' \in [Consumers -> 0 .. formed']
    BY <1>0, <1>1, <1>3 DEF Types, GroupTypes, consumerVars
  <2>2. TopicTypes'
    BY <1>0, <1>1 DEF Types, TopicTypes, topicVars
  <2> QED BY <1>0, <1>1, <1>2, <2>1, <2>2 DEF Types, TopicTypes, GroupTypes, topicVars, consumerVars
<1>5. FreshGroups'
  BY <1>1, <1>2 DEF GroupInv, FreshGroups
<1>6. OneHome'
  BY <1>1 DEF GroupInv, OneHome, consumerVars
<1>7. CurrentOrPending'
  <2> SUFFICES ASSUME NEW h \in Registered(groups'), NEW u \in Topics
               PROVE  subscribed[groups'[h]][u] \in {0, topics[u]}
    BY <1>1 DEF CurrentOrPending, topicVars
  <2>1. h \in Groups /\ groups'[h] # 0
    BY <1>2 DEF Registered
  <2>2. CASE h = g
    <3>1. Found(g) > formed
      BY <1>1, <1>2, <2>1, <2>2
    <3> QED BY <1>2, <2>2, <3>1 DEF GroupInv, FreshGroups
  <2>3. CASE h # g
    <3>1. h \in Registered(groups) /\ groups'[h] = groups[h]
      BY <1>0, <1>2, <2>1, <2>3 DEF Registered, Types, GroupTypes
    <3> QED BY <1>1, <3>1 DEF GroupInv, CurrentOrPending
  <2> QED BY <2>2, <2>3
<1>8. AllShared'
  BY <1>1 DEF GroupInv, AllShared, consumerVars, topicVars
<1> QED BY <1>2, <1>4, <1>5, <1>6, <1>7, <1>8 DEF GroupInv

(* delete_consumer_group drops the object from the registry only.          *)
LEMMA DeleteGroupKeeps ==
    ASSUME GroupInv, NEW g \in Groups, DeleteConsumerGroup(g)
    PROVE  GroupInv'
<1>0. Types
  BY DEF GroupInv
<1>1. /\ groups' = [groups EXCEPT ![g] = 0]
      /\ UNCHANGED <<scenario, topicVars, formed, idOf, members, subscribed, consumerVars,
                     todo, leaving>>
  BY DEF DeleteConsumerGroup
<1>2. groups \in [Groups -> 0 .. formed] /\ formed \in Nat
  BY <1>0, InRange DEF Types, GroupTypes
<1>3. groups' \in [Groups -> 0 .. formed] /\ \A h \in Groups : groups'[h] \in {0, groups[h]}
  BY <1>1, <1>2
<1>4. Types'
  BY <1>0, <1>1, <1>3 DEF Types, TopicTypes, GroupTypes, topicVars, consumerVars
<1>5. RegisteredById' /\ FreshGroups' /\ OneHome'
  BY <1>1, <1>3 DEF GroupInv, RegisteredById, FreshGroups, OneHome, consumerVars
<1>6. CurrentOrPending'
  <2>1. \A h \in Registered(groups') : h \in Registered(groups) /\ groups'[h] = groups[h]
    BY <1>2, <1>3 DEF Registered
  <2> QED BY <1>1, <2>1 DEF GroupInv, CurrentOrPending, topicVars
<1>7. AllShared'
  BY <1>1 DEF GroupInv, AllShared, consumerVars, topicVars
<1> QED BY <1>4, <1>5, <1>6, <1>7 DEF GroupInv

(* delete_topic: whoever still reads the object is about to unsubscribe.   *)
LEMMA DeleteTopicKeeps ==
    ASSUME GroupInv, NEW t \in Topics, DeleteTopic(t)
    PROVE  GroupInv'
<1> DEFINE os == {groups[g] : g \in Registered(groups)}
<1>0. Types
  BY DEF GroupInv
<1>1. /\ topics' = [topics EXCEPT ![t] = 0] /\ todo = <<>> /\ todo' \in Unsubscribing(t, os)
      /\ UNCHANGED <<scenario, made, parts, groupVars, consumerVars, leaving>>
  BY DEF DeleteTopic, Idle
<1>2. /\ made \in Nat /\ formed \in Nat
      /\ \A g \in Registered(groups) : g \in Groups /\ groups[g] \in GroupObjects
      /\ 1 .. formed \subseteq GroupObjects
  BY <1>0, InRange
<1>3. \A o \in os : o \in 1 .. formed
  <2>1. groups \in [Groups -> 0 .. formed]
    BY <1>0 DEF Types, GroupTypes
  <2> QED BY <1>2, <2>1 DEF Registered
<1>4. os \in SUBSET GroupObjects /\ IsFiniteSet(os)
  <2>1. os \subseteq 1 .. formed
    BY <1>3
  <2>2. IsFiniteSet(1 .. formed)
    BY <1>2, FS_Interval
  <2> HIDE DEF os
  <2>3. IsFiniteSet(os)
    BY <2>1, <2>2, FS_Subset
  <2> QED BY <1>2, <2>1, <2>3
<1>5. /\ todo' \in Seq(Steps)
      /\ \A i \in DOMAIN todo' : todo'[i].op = "unsubscribe" /\ todo'[i].group \in os
      /\ \A o \in os : \E i \in DOMAIN todo' :
            todo'[i] = [op |-> "unsubscribe", group |-> o, topic |-> t]
  <2> HIDE DEF os
  <2> QED BY <1>1, <1>4, EveryoneUnsubscribes
<1>6. topics \in [Topics -> 0 .. made]
  BY <1>0 DEF Types, TopicTypes
<1>7. topics' \in [Topics -> 0 .. made] /\ \A u \in Topics : u # t => topics'[u] = topics[u]
  BY <1>1, <1>2, <1>6
<1>8. Types'
  BY <1>0, <1>1, <1>5, <1>7 DEF Types, TopicTypes, GroupTypes, groupVars, consumerVars
<1>9. RegisteredById' /\ FreshGroups'
  BY <1>1 DEF GroupInv, RegisteredById, FreshGroups, groupVars
<1>10. OneHome'
  <2>1. \A i \in DOMAIN todo' : todo'[i].group <= formed /\ todo'[i].op # "join"
    BY <1>2, <1>3, <1>5
  <2>2. \A o \in GroupObjects : \A c \in members[o] : joined[c] = o
    BY DEF GroupInv, OneHome
  <2> QED BY <1>1, <2>1, <2>2 DEF OneHome, groupVars, consumerVars
<1>11. CurrentOrPending'
  <2> SUFFICES ASSUME NEW g \in Registered(groups), NEW u \in Topics
               PROVE  \/ subscribed[groups[g]][u] \in {0, topics'[u]}
                      \/ \E i \in DOMAIN todo' :
                            todo'[i] = [op |-> "unsubscribe", group |-> groups[g], topic |-> u]
    BY <1>1 DEF CurrentOrPending, groupVars
  <2>1. CASE u = t
    BY <1>5, <2>1
  <2>2. CASE u # t
    <3>1. subscribed[groups[g]][u] \in {0, topics[u]}
      BY <1>1 DEF GroupInv, CurrentOrPending
    <3> QED BY <1>7, <2>2, <3>1
  <2> QED BY <2>1, <2>2
<1>12. AllShared'
  BY <1>1 DEF GroupInv, AllShared, groupVars, consumerVars
<1> QED BY <1>8, <1>9, <1>10, <1>11, <1>12 DEF GroupInv

(* LEAVE_GROUP looks the group up.                                         *)
LEMMA LookUpKeeps ==
    ASSUME GroupInv, NEW c \in Consumers, LookUpGroup(c)
    PROVE  GroupInv'
<1>0. Types
  BY DEF GroupInv
<1>1. /\ joined[c] # 0 /\ leaving' = [leaving EXCEPT ![c] = groups[idOf[joined[c]]]]
      /\ UNCHANGED <<scenario, topicVars, groupVars, consumerVars, todo>>
  BY DEF LookUpGroup
<1>2. /\ formed \in Nat /\ joined \in [Consumers -> 0 .. formed]
      /\ groups \in [Groups -> 0 .. formed] /\ leaving \in [Consumers -> 0 .. formed]
  BY <1>0, InRange DEF Types, GroupTypes
<1>3. idOf[joined[c]] \in Groups
  <2>1. joined[c] \in 1 .. formed
    BY <1>1, <1>2
  <2> QED BY <2>1 DEF GroupInv, RegisteredById
<1>4. leaving' \in [Consumers -> 0 .. formed]
  BY <1>1, <1>2, <1>3
<1>5. Types'
  BY <1>0, <1>1, <1>4 DEF Types, TopicTypes, GroupTypes, topicVars, groupVars, consumerVars
<1> QED BY <1>1, <1>5 DEF GroupInv, RegisteredById, FreshGroups, OneHome, CurrentOrPending,
            AllShared, topicVars, groupVars, consumerVars

(* subscribe: topic and group are there, and the members share anew.       *)
LEMMA SubscribeKeeps ==
    ASSUME GroupInv, NEW g \in Groups, NEW t \in Topics, NEW c \in Consumers, Subscribe(g, t, c)
    PROVE  GroupInv'
<1> DEFINE o == Found(g)
           join == [op |-> "join", group |-> o, consumer |-> c]
<1>0. Types /\ RegisteredById /\ scenario.default_partitions \in Nat
  BY BrokerAssumption DEF GroupInv, Types
<1>1. /\ scenario' = scenario /\ GetOrCreate(g) /\ todo = <<>> /\ todo' = <<join>>
      /\ joined[c] \in {0, o}
      /\ Create(t, scenario.default_partitions) \/ UNCHANGED <<topics, made, lives, parts>>
      /\ subscribed' = [subscribed EXCEPT ![o][t] = topics'[t]]
      /\ Rebalance(g, members[o], PartitionsOf(subscribed'[o], parts'), assigned)
      /\ UNCHANGED <<members, joined, leaving>>
  BY DEF Subscribe, Idle
<1>2. /\ formed' \in 0 .. scenario.maxGroupObjects /\ formed' \in Nat /\ formed' >= formed
      /\ groups' \in [Groups -> 0 .. formed']
      /\ idOf' \in [GroupObjects -> Groups \cup {""}]
      /\ RegisteredById'
      /\ o \in GroupObjects /\ o <= formed'
      /\ groups'[g] = o
      /\ \A h \in Groups : h # g => groups'[h] = groups[h]
      /\ groups[g] # o => groups[g] = 0 /\ o > formed
      /\ \A p \in GroupObjects : p > formed' => p > formed
  BY <1>0, <1>1, GroupFound
<1>3. /\ made' \in 0 .. scenario.maxTopicObjects /\ made' >= made
      /\ topics' \in [Topics -> 0 .. made']
      /\ parts' \in [TopicObjects -> Nat]
      /\ \A u \in Topics : topics'[u] = topics[u] \/ topics[u] = 0
      /\ \A sub \in [Topics -> 0 .. made] : PartitionsOf(sub, parts') = PartitionsOf(sub, parts)
  BY <1>0, <1>1, TopicsAfter
<1>4. /\ made \in Nat /\ formed \in Nat /\ GroupObjects \subseteq Nat \ {0}
      /\ scenario.maxTopicObjects \in Nat
      /\ \A h \in Registered(groups) : h \in Groups /\ groups[h] \in GroupObjects
  BY <1>0, InRange, ObjectsInRange DEF Types
<1>5. /\ groups \in [Groups -> 0 .. formed]
      /\ members \in [GroupObjects -> SUBSET Consumers]
      /\ subscribed \in [GroupObjects -> [Topics -> 0 .. made]]
      /\ joined \in [Consumers -> 0 .. formed] /\ leaving \in [Consumers -> 0 .. formed]
      /\ DOMAIN assigned = Consumers
  BY <1>0 DEF Types, GroupTypes
<1>6. 0 .. made \subseteq 0 .. made' /\ 0 .. formed \subseteq 0 .. formed'
  <2>1. formed' \in Nat /\ formed' >= formed /\ formed \in Nat
    BY <1>2, <1>4
  <2>2. made' \in Int /\ made' >= made /\ made \in Nat
    BY <1>3, <1>4
  <2>3. 0 .. formed \subseteq 0 .. formed'
    BY ONLY <2>1
  <2>4. 0 .. made \subseteq 0 .. made'
    BY ONLY <2>2
  <2> QED BY <2>3, <2>4
<1> HIDE DEF o
<1>7. /\ subscribed' \in [GroupObjects -> [Topics -> 0 .. made']]
      /\ subscribed'[o][t] = topics'[t]
      /\ \A u \in Topics : u # t => subscribed'[o][u] = subscribed[o][u]
      /\ \A p \in GroupObjects : p # o => subscribed'[p] = subscribed[p]
  <2>1. [subscribed[o] EXCEPT ![t] = topics'[t]] \in [Topics -> 0 .. made']
    <3>1. subscribed[o] \in [Topics -> 0 .. made]
      BY <1>2, <1>5
    <3>2. topics'[t] \in 0 .. made'
      BY <1>3
    <3> QED BY ONLY <1>6, <3>1, <3>2, t \in Topics
  <2>2. subscribed' = [subscribed EXCEPT ![o] = [subscribed[o] EXCEPT ![t] = topics'[t]]]
    BY <1>1
  <2>3. subscribed' \in [GroupObjects -> [Topics -> 0 .. made']]
    <3>1. \A p \in GroupObjects : subscribed[p] \in [Topics -> 0 .. made']
      BY <1>5, <1>6
    <3>2. DOMAIN subscribed = GroupObjects
      BY <1>5
    <3> QED BY ONLY <2>1, <2>2, <3>1, <3>2
  <2> QED BY ONLY <1>2, <1>5, <2>1, <2>2, <2>3, t \in Topics
<1>8. AllShared' /\ DOMAIN assigned' = Consumers
  <2> DEFINE xs == PartitionsOf(subscribed'[o], parts')
  <2>1. \A p \in GroupObjects : p # o => members[p] \cap members[o] = {}
    <3>1. o \in GroupObjects
      BY <1>2
    <3>2. \A p \in GroupObjects : \A d \in members[p] : joined[d] = p
      BY DEF GroupInv, OneHome
    <3> QED BY ONLY <3>1, <3>2
  <2>2. \A p \in GroupObjects : p # o =>
           PartitionsOf(subscribed'[p], parts') = PartitionsOf(subscribed[p], parts)
    <3>1. \A p \in GroupObjects : subscribed[p] \in [Topics -> 0 .. made]
      BY <1>5
    <3> QED BY <1>3, <1>7, <3>1
  <2>3. members' = members /\ Rebalance(g, members'[o], xs, assigned)
    BY <1>1
  <2>4. members' \in [GroupObjects -> SUBSET Consumers]
    BY <1>5, <2>3
  <2>5. /\ \A p \in GroupObjects : p # o => members'[p] = members[p]
        /\ \A p \in GroupObjects : p # o => \A d \in members[p] : assigned[d] = assigned[d]
        /\ \A p \in GroupObjects : p # o => members[p] \cap members'[o] = {}
    BY <2>1, <2>3
  <2>6. xs = PartitionsOf(subscribed'[o], parts')
    OBVIOUS
  <2> HIDE DEF xs
  <2> QED BY <1>2, <1>5, <2>2, <2>3, <2>4, <2>5, <2>6, RebalanceKeeps
<1>9. join \in Steps /\ join.op = "join" /\ join.group = o /\ join.consumer = c
  <2>1. join \in [op : {"join"}, group : GroupObjects, consumer : Consumers]
    BY <1>2
  <2> QED BY <2>1 DEF Steps
<1> HIDE DEF join
<1>10. todo' \in Seq(Steps) /\ DOMAIN todo' = {1} /\ todo'[1] = join /\ Len(todo') = 1
  BY <1>1, <1>9
<1>11. Types'
  <2>1. joined' \in [Consumers -> 0 .. formed'] /\ leaving' \in [Consumers -> 0 .. formed']
    BY ONLY <1>1, <1>5, <1>6
  <2>2. TopicTypes'
    BY <1>1, <1>3 DEF TopicTypes
  <2>3. GroupTypes'
    BY <1>1, <1>2, <1>5, <1>7, <1>8, <1>10, <2>1 DEF GroupTypes
  <2> QED BY <1>0, <1>1, <2>2, <2>3 DEF Types
<1>12. FreshGroups'
  <2> SUFFICES ASSUME NEW p \in GroupObjects, p > formed', NEW u \in Topics
               PROVE  subscribed'[p][u] = 0
    BY DEF FreshGroups
  <2>1. p # o /\ p > formed
    <3>1. o <= formed' /\ formed' \in Nat /\ formed' >= formed /\ formed \in Nat /\ p \in Nat
      BY <1>2, <1>4
    <3> QED BY ONLY <3>1, p > formed'
  <2> QED BY <1>7, <2>1 DEF GroupInv, FreshGroups
<1>13. OneHome'
  <2>1. \A p \in GroupObjects : \A d \in members[p] : joined[d] = p
    BY DEF GroupInv, OneHome
  <2> QED BY <1>1, <1>2, <1>9, <1>10, <2>1 DEF OneHome
<1>14. CurrentOrPending'
  <2> SUFFICES ASSUME NEW h \in Registered(groups'), NEW u \in Topics
               PROVE  subscribed'[groups'[h]][u] \in {0, topics'[u]}
    BY DEF CurrentOrPending
  <2>1. h \in Groups /\ groups'[h] # 0
    BY <1>2 DEF Registered
  <2>2. ASSUME NEW k \in Groups, groups[k] # 0
        PROVE  subscribed[groups[k]][u] \in {0, topics'[u]}
    <3>1. k \in Registered(groups)
      BY <1>5, <2>2 DEF Registered
    <3>2. subscribed[groups[k]][u] \in {0, topics[u]}
      BY <1>1, <3>1 DEF GroupInv, CurrentOrPending
    <3> QED BY <1>3, <3>2
  <2>3. CASE h = g
    <3>1. u # t => subscribed[o][u] \in {0, topics'[u]}
      <4>1. CASE groups[g] = o
        BY <1>2, <2>1, <2>2, <2>3, <4>1
      <4>2. CASE groups[g] # o
        BY <1>2, <4>2 DEF GroupInv, FreshGroups
      <4> QED BY <4>1, <4>2
    <3> QED BY <1>2, <1>7, <2>3, <3>1
  <2>4. CASE h # g
    <3>1. groups'[h] = groups[h] /\ groups[h] # 0
      BY <1>2, <2>1, <2>4
    <3>2. groups[h] \in GroupObjects
      BY <1>4, <1>5, <2>1, <3>1 DEF Registered
    <3>3. groups[h] # o
      <4>1. idOf'[groups'[h]] = h /\ idOf'[groups'[g]] = g
        BY <1>2, <1>4, <2>1 DEF RegisteredById
      <4> QED BY <1>2, <2>4, <3>1, <4>1
    <3> QED BY <1>7, <2>1, <2>2, <3>1, <3>2, <3>3
  <2> QED BY <2>3, <2>4
<1> QED BY <1>2, <1>8, <1>11, <1>12, <1>13, <1>14 DEF GroupInv

(* before differs from what is held among the members of o at most.        *)
OthersHold(o, before) ==
    \A p \in GroupObjects : p # o => \A c \in members[p] : before[c] = assigned[c]

(* A step of group object o alone: members come or go, o is rebalanced.    *)
(* join, leave and remove_dead_members are such steps.                     *)
LEMMA MembersChange ==
    ASSUME GroupInv, NEW o \in GroupObjects, NEW g, NEW before, DOMAIN before = Consumers,
           NEW ms \in SUBSET Consumers,
           members' = [members EXCEPT ![o] = ms],
           \A d \in ms : joined'[d] = o,
           \A p \in GroupObjects : p # o => \A c \in members[p] : joined'[c] = p,
           OthersHold(o, before),
           Rebalance(g, ms, PartitionsOf(subscribed[o], parts), before),
           UNCHANGED <<scenario, topicVars, groups, formed, idOf, subscribed>>,
           joined' \in [Consumers -> 0 .. formed], leaving' \in [Consumers -> 0 .. formed],
           todo' \in Seq(Steps),
           \A i \in DOMAIN todo' :
               /\ todo'[i].group <= formed
               /\ todo'[i].op = "join" => /\ Len(todo') = 1
                                          /\ joined'[todo'[i].consumer] \in {0, todo'[i].group},
           \A s \in Steps : s.op = "unsubscribe" =>
               ((\E i \in DOMAIN todo : todo[i] = s) => (\E i \in DOMAIN todo' : todo'[i] = s))
    PROVE  GroupInv'
<1>0. Types
  BY DEF GroupInv
<1>1. members \in [GroupObjects -> SUBSET Consumers]
  BY <1>0 DEF Types, GroupTypes
<1>2. /\ members' \in [GroupObjects -> SUBSET Consumers] /\ members'[o] = ms
      /\ \A p \in GroupObjects : p # o => members'[p] = members[p]
  BY ONLY <1>1, members' = [members EXCEPT ![o] = ms], ms \in SUBSET Consumers,
          o \in GroupObjects
<1>3. AllShared' /\ DOMAIN assigned' = Consumers
  <2> DEFINE xs == PartitionsOf(subscribed[o], parts)
  <2>1. subscribed' = subscribed /\ parts' = parts
    BY DEF topicVars
  <2>2. xs = PartitionsOf(subscribed'[o], parts') /\ Rebalance(g, members'[o], xs, before)
    BY <1>2, <2>1
  <2>3. \A p \in GroupObjects : p # o => members[p] \cap members'[o] = {}
    BY <1>1, <1>2
  <2>4. \A p \in GroupObjects : p # o =>
           PartitionsOf(subscribed'[p], parts') = PartitionsOf(subscribed[p], parts)
    BY <2>1
  <2>5. \A p \in GroupObjects : p # o => \A c \in members[p] : before[c] = assigned[c]
    BY DEF OthersHold
  <2> HIDE DEF xs
  <2> QED BY <1>2, <2>2, <2>3, <2>4, <2>5, RebalanceKeeps
<1>4. Types'
  BY <1>0, <1>2, <1>3 DEF Types, TopicTypes, GroupTypes, topicVars
<1>5. RegisteredById' /\ FreshGroups'
  BY DEF GroupInv, RegisteredById, FreshGroups
<1>6. OneHome'
  BY <1>1, <1>2 DEF OneHome
<1>7. CurrentOrPending'
  <2> SUFFICES ASSUME NEW h \in Registered(groups), NEW u \in Topics,
                      subscribed[groups[h]][u] \notin {0, topics[u]}
               PROVE  \E i \in DOMAIN todo' :
                         todo'[i] = [op |-> "unsubscribe", group |-> groups[h], topic |-> u]
    BY DEF CurrentOrPending, topicVars
  <2> DEFINE s == [op |-> "unsubscribe", group |-> groups[h], topic |-> u]
  <2>1. \E i \in DOMAIN todo : todo[i] = s
    BY DEF GroupInv, CurrentOrPending
  <2>2. s \in Steps /\ s.op = "unsubscribe"
    <3>1. groups[h] \in GroupObjects
      BY <1>0, InRange
    <3>2. s \in [op : {"unsubscribe"}, group : GroupObjects, topic : Topics]
      BY <3>1
    <3> QED BY <3>2 DEF Steps
  <2> HIDE DEF s
  <2>3. \E i \in DOMAIN todo' : todo'[i] = s
    BY <2>1, <2>2
  <2> QED BY <2>3 DEF s
<1> QED BY <1>3, <1>4, <1>5, <1>6, <1>7 DEF GroupInv

(* What is behind the first step of todo is what remains.                  *)
LEMMA TailTodo ==
    ASSUME todo \in Seq(Steps), todo # <<>>
    PROVE  /\ Head(todo) \in Steps /\ Head(todo) = todo[1] /\ 1 \in DOMAIN todo
           /\ Tail(todo) \in Seq(Steps)
           /\ \A i \in DOMAIN Tail(todo) : i + 1 \in DOMAIN todo /\ Tail(todo)[i] = todo[i + 1]
           /\ \A s : s # todo[1] /\ (\E i \in DOMAIN todo : todo[i] = s)
                        => \E i \in DOMAIN Tail(todo) : Tail(todo)[i] = s
<1>1. /\ Head(todo) \in Steps /\ Head(todo) = todo[1] /\ 1 \in DOMAIN todo
      /\ Tail(todo) \in Seq(Steps)
  OBVIOUS
<1>2. \A i \in DOMAIN Tail(todo) : i + 1 \in DOMAIN todo /\ Tail(todo)[i] = todo[i + 1]
  OBVIOUS
<1>3. ASSUME NEW s, s # todo[1], NEW i \in DOMAIN todo, todo[i] = s
      PROVE  \E j \in DOMAIN Tail(todo) : Tail(todo)[j] = s
  <2>1. i \in 1 .. Len(todo) /\ i # 1
    BY <1>3
  <2>2. i - 1 \in DOMAIN Tail(todo) /\ (i - 1) + 1 = i
    BY <2>1
  <2> QED BY <1>2, <1>3, <2>2
<1> QED BY <1>1, <1>2, <1>3

(* The consumer becomes a member of the group it is to join.               *)
LEMMA JoinKeeps ==
    ASSUME GroupInv, Join
    PROVE  GroupInv'
<1> DEFINE o == Head(todo).group
           c == Head(todo).consumer
           ms == members[o] \cup {c}
<1>0. Types
  BY DEF GroupInv
<1>1. /\ todo # <<>> /\ Head(todo).op = "join"
      /\ members' = [members EXCEPT ![o] = ms]
      /\ joined' = [joined EXCEPT ![c] = o]
      /\ Rebalance(idOf[o], members'[o], PartitionsOf(subscribed[o], parts), assigned)
      /\ todo' = Tail(todo)
      /\ UNCHANGED <<scenario, topicVars, groups, formed, idOf, subscribed, leaving>>
  BY DEF Join
<1>2. /\ todo \in Seq(Steps) /\ formed \in Nat
      /\ members \in [GroupObjects -> SUBSET Consumers]
      /\ joined \in [Consumers -> 0 .. formed] /\ leaving \in [Consumers -> 0 .. formed]
      /\ DOMAIN assigned = Consumers
  BY <1>0, InRange DEF Types, GroupTypes
<1>3. /\ Head(todo) \in Steps /\ Head(todo) = todo[1] /\ 1 \in DOMAIN todo
      /\ Tail(todo) \in Seq(Steps)
      /\ \A i \in DOMAIN Tail(todo) : i + 1 \in DOMAIN todo /\ Tail(todo)[i] = todo[i + 1]
      /\ \A s : s # todo[1] /\ (\E i \in DOMAIN todo : todo[i] = s)
                   => \E i \in DOMAIN Tail(todo) : Tail(todo)[i] = s
  BY <1>1, <1>2, TailTodo
<1>4. o \in GroupObjects /\ c \in Consumers
  BY <1>1, <1>3 DEF Steps
<1>5. /\ \A i \in DOMAIN todo :
            /\ todo[i].group <= formed
            /\ todo[i].op = "join" => /\ Len(todo) = 1
                                      /\ joined[todo[i].consumer] \in {0, todo[i].group}
      /\ \A p \in GroupObjects : \A d \in members[p] : joined[d] = p
  BY DEF GroupInv, OneHome
<1>6. o <= formed /\ joined[c] \in {0, o} /\ o \in Nat \ {0}
  BY <1>0, <1>1, <1>3, <1>4, <1>5, InRange
<1> HIDE DEF o, c
<1>7. /\ joined' \in [Consumers -> 0 .. formed] /\ joined'[c] = o
      /\ \A d \in Consumers : d # c => joined'[d] = joined[d]
  <2>1. o \in 0 .. formed
    BY <1>2, <1>6
  <2> QED BY <1>1, <1>2, <1>4, <2>1
<1>8. Len(todo) = 1 /\ todo' = <<>> /\ DOMAIN todo = {1} /\ DOMAIN todo' = {}
  <2>1. Len(todo) = 1
    BY <1>1, <1>3, <1>5
  <2> QED BY <1>1, <1>2, <2>1
<1>9. ms \in SUBSET Consumers /\ \A d \in ms : joined'[d] = o
  BY <1>2, <1>4, <1>5, <1>7
<1>10. /\ \A p \in GroupObjects : p # o => \A d \in members[p] : joined'[d] = p
       /\ OthersHold(o, assigned)
  <2> SUFFICES ASSUME NEW p \in GroupObjects, p # o, NEW d \in members[p] PROVE joined'[d] = p
    BY DEF OthersHold
  <2>1. p # 0 /\ joined[d] = p /\ d \in Consumers
    BY <1>0, <1>2, <1>5, InRange
  <2>2. d # c
    BY <1>6, <2>1
  <2> QED BY <1>7, <2>1, <2>2
<1>11. \A i \in DOMAIN todo' :
          /\ todo'[i].group <= formed
          /\ todo'[i].op = "join" => /\ Len(todo') = 1
                                     /\ joined'[todo'[i].consumer] \in {0, todo'[i].group}
  BY <1>8
<1>12. \A s \in Steps : s.op = "unsubscribe" =>
          ((\E i \in DOMAIN todo : todo[i] = s) => (\E i \in DOMAIN todo' : todo'[i] = s))
  BY <1>1, <1>3, <1>8
<1>13. leaving' \in [Consumers -> 0 .. formed] /\ todo' \in Seq(Steps)
  BY <1>1, <1>2, <1>3
<1>14. Rebalance(idOf[o], ms, PartitionsOf(subscribed[o], parts), assigned)
  <2>1. members'[o] = ms
    BY <1>1, <1>2, <1>4
  <2> QED BY <1>1, <2>1
<1> HIDE DEF ms
<1> QED BY <1>1, <1>2, <1>4, <1>7, <1>9, <1>10, <1>11, <1>12, <1>13, <1>14, MembersChange

(* A group that visits its unsubscription reads the name no longer.        *)
LEMMA UnsubscribeKeeps ==
    ASSUME GroupInv, Unsubscribe
    PROVE  GroupInv'
<1> DEFINE o == Head(todo).group
           t == Head(todo).topic
           xs == PartitionsOf(subscribed'[o], parts)
<1>0. Types
  BY DEF GroupInv
<1>1. /\ todo # <<>> /\ Head(todo).op = "unsubscribe"
      /\ subscribed' = [subscribed EXCEPT ![o][t] = 0]
      /\ Rebalance(idOf[o], members[o], PartitionsOf(subscribed'[o], parts), assigned)
      /\ todo' = Tail(todo)
      /\ UNCHANGED <<scenario, topicVars, groups, formed, idOf, members, joined, leaving>>
  BY DEF Unsubscribe
<1>2. /\ todo \in Seq(Steps) /\ formed \in Nat /\ made \in Nat
      /\ members \in [GroupObjects -> SUBSET Consumers]
      /\ subscribed \in [GroupObjects -> [Topics -> 0 .. made]]
      /\ DOMAIN assigned = Consumers
  BY <1>0, InRange DEF Types, GroupTypes
<1>3. /\ Head(todo) \in Steps /\ Head(todo) = todo[1] /\ 1 \in DOMAIN todo
      /\ Tail(todo) \in Seq(Steps)
      /\ \A i \in DOMAIN Tail(todo) : i + 1 \in DOMAIN todo /\ Tail(todo)[i] = todo[i + 1]
      /\ \A s : s # todo[1] /\ (\E i \in DOMAIN todo : todo[i] = s)
                   => \E i \in DOMAIN Tail(todo) : Tail(todo)[i] = s
  BY <1>1, <1>2, TailTodo
<1>4. o \in GroupObjects /\ t \in Topics
      /\ Head(todo) = [op |-> "unsubscribe", group |-> o, topic |-> t]
  BY <1>1, <1>3 DEF Steps
<1> HIDE DEF o, t
<1>5. /\ subscribed' \in [GroupObjects -> [Topics -> 0 .. made]]
      /\ subscribed'[o][t] = 0
      /\ \A u \in Topics : u # t => subscribed'[o][u] = subscribed[o][u]
      /\ \A p \in GroupObjects : p # o => subscribed'[p] = subscribed[p]
  <2>1. [subscribed[o] EXCEPT ![t] = 0] \in [Topics -> 0 .. made]
    <3>1. subscribed[o] \in [Topics -> 0 .. made]
      BY <1>2, <1>4
    <3>2. 0 \in 0 .. made
      BY <1>2
    <3> QED BY ONLY <3>1, <3>2
  <2>2. subscribed' = [subscribed EXCEPT ![o] = [subscribed[o] EXCEPT ![t] = 0]]
    BY <1>1
  <2>3. subscribed' \in [GroupObjects -> [Topics -> 0 .. made]]
    BY ONLY <1>2, <2>1, <2>2
  <2> QED BY ONLY <1>2, <1>4, <2>1, <2>2, <2>3
<1>6. \A p \in GroupObjects : \A d \in members[p] : joined[d] = p
  BY DEF GroupInv, OneHome
<1>7. AllShared' /\ DOMAIN assigned' = Consumers
  <2>1. members' = members /\ parts' = parts
    BY <1>1 DEF topicVars
  <2>2. xs = PartitionsOf(subscribed'[o], parts') /\ Rebalance(idOf[o], members'[o], xs, assigned)
    BY <1>1, <2>1
  <2>3. \A p \in GroupObjects : p # o => members[p] \cap members'[o] = {}
    BY <1>4, <1>6, <2>1
  <2>4. \A p \in GroupObjects : p # o =>
           PartitionsOf(subscribed'[p], parts') = PartitionsOf(subscribed[p], parts)
    BY <1>5, <2>1
  <2>5. /\ members' \in [GroupObjects -> SUBSET Consumers]
        /\ \A p \in GroupObjects : p # o => members'[p] = members[p]
        /\ \A p \in GroupObjects : p # o => \A d \in members[p] : assigned[d] = assigned[d]
    BY <1>2, <2>1
  <2> HIDE DEF xs
  <2> QED BY <1>2, <1>4, <2>2, <2>3, <2>4, <2>5, RebalanceKeeps
<1>8. Types'
  <2>1. TopicTypes' /\ made' = made
    BY <1>0, <1>1 DEF Types, TopicTypes, topicVars
  <2>2. GroupTypes'
    BY <1>0, <1>1, <1>3, <1>5, <1>7, <2>1 DEF Types, GroupTypes
  <2> QED BY <1>0, <1>1, <2>1, <2>2 DEF Types
<1>9. RegisteredById'
  BY <1>1 DEF GroupInv, RegisteredById
<1>10. FreshGroups'
  <2> SUFFICES ASSUME NEW p \in GroupObjects, p > formed, NEW u \in Topics
               PROVE  subscribed'[p][u] = 0
    BY <1>1 DEF FreshGroups
  <2>1. subscribed[p][u] = 0
    BY DEF GroupInv, FreshGroups
  <2> QED BY <1>5, <2>1
<1>11. OneHome'
  <2> SUFFICES ASSUME NEW i \in DOMAIN todo'
               PROVE  /\ todo'[i].group <= formed
                      /\ todo'[i].op # "join"
    BY <1>1, <1>6 DEF OneHome
  <2>1. i + 1 \in DOMAIN todo /\ todo'[i] = todo[i + 1] /\ i + 1 # 1 /\ i + 1 \in 1 .. Len(todo)
    BY <1>1, <1>2, <1>3
  <2>2. todo[i + 1].group <= formed /\ (todo[i + 1].op = "join" => Len(todo) = 1)
    BY <2>1 DEF GroupInv, OneHome
  <2> QED BY <2>1, <2>2
<1>12. CurrentOrPending'
  <2> SUFFICES ASSUME NEW h \in Registered(groups), NEW u \in Topics,
                      subscribed'[groups[h]][u] \notin {0, topics[u]}
               PROVE  \E i \in DOMAIN todo' :
                         todo'[i] = [op |-> "unsubscribe", group |-> groups[h], topic |-> u]
    BY <1>1 DEF CurrentOrPending, topicVars
  <2> DEFINE s == [op |-> "unsubscribe", group |-> groups[h], topic |-> u]
  <2>1. groups[h] \in GroupObjects
    BY <1>0, InRange
  <2>2. groups[h] # o \/ u # t
    BY <1>5
  <2>3. s # todo[1]
    BY <1>3, <1>4, <2>2
  <2>4. subscribed'[groups[h]][u] = subscribed[groups[h]][u]
    BY <1>5, <2>1, <2>2
  <2>5. \E i \in DOMAIN todo : todo[i] = s
    BY <2>4 DEF GroupInv, CurrentOrPending
  <2> HIDE DEF s
  <2>6. \E i \in DOMAIN todo' : todo'[i] = s
    BY <1>1, <1>3, <2>3, <2>5
  <2> QED BY <2>6 DEF s
<1> QED BY <1>7, <1>8, <1>9, <1>10, <1>11, <1>12 DEF GroupInv

(* Members that go, in remove_dead_members and in leave, hold nothing      *)
(* when the others have shared anew.                                       *)
LEMMA GoingKeeps ==
    ASSUME GroupInv, NEW o \in GroupObjects, NEW g, NEW gone, gone \subseteq members[o],
           NEW before, DOMAIN before = Consumers,
           \A c \in Consumers \ gone : before[c] = assigned[c],
           members' = [members EXCEPT ![o] = @ \ gone],
           Rebalance(g, members'[o], PartitionsOf(subscribed[o], parts), before),
           UNCHANGED <<scenario, topicVars, groups, formed, idOf, subscribed, joined, todo>>,
           leaving' \in [Consumers -> 0 .. formed]
    PROVE  GroupInv'
<1> DEFINE ms == members[o] \ gone
<1>0. Types
  BY DEF GroupInv
<1>1. /\ todo \in Seq(Steps)
      /\ members \in [GroupObjects -> SUBSET Consumers]
      /\ joined \in [Consumers -> 0 .. formed]
  BY <1>0 DEF Types, GroupTypes
<1>2. /\ \A p \in GroupObjects : \A d \in members[p] : joined[d] = p
      /\ \A i \in DOMAIN todo :
            /\ todo[i].group <= formed
            /\ todo[i].op = "join" => /\ Len(todo) = 1
                                      /\ joined[todo[i].consumer] \in {0, todo[i].group}
  BY DEF GroupInv, OneHome
<1>3. ms \in SUBSET Consumers /\ \A d \in ms : joined'[d] = o
  BY <1>1, <1>2
<1>4. /\ \A p \in GroupObjects : p # o => \A d \in members[p] : joined'[d] = p
      /\ OthersHold(o, before)
  BY <1>1, <1>2 DEF OthersHold
<1>5. \A i \in DOMAIN todo' :
         /\ todo'[i].group <= formed
         /\ todo'[i].op = "join" => /\ Len(todo') = 1
                                    /\ joined'[todo'[i].consumer] \in {0, todo'[i].group}
  BY <1>2
<1>6. \A s \in Steps : s.op = "unsubscribe" =>
         ((\E i \in DOMAIN todo : todo[i] = s) => (\E i \in DOMAIN todo' : todo'[i] = s))
  OBVIOUS
<1>7. members' = [members EXCEPT ![o] = ms]
  BY <1>1
<1>8. joined' \in [Consumers -> 0 .. formed] /\ todo' \in Seq(Steps)
  BY <1>1
<1>9. /\ Rebalance(g, ms, PartitionsOf(subscribed[o], parts), before)
      /\ UNCHANGED <<scenario, topicVars, groups, formed, idOf, subscribed>>
  <2>1. members'[o] = ms
    BY <1>1
  <2> QED BY <2>1
<1> HIDE DEF ms
<1> QED BY ONLY GroupInv, o \in GroupObjects, DOMAIN before = Consumers,
            leaving' \in [Consumers -> 0 .. formed],
            <1>3, <1>4, <1>5, <1>6, <1>7, <1>8, <1>9, MembersChange

(* remove_dead_consumers (broker.py 317-326) takes the dead out and lets   *)
(* the rest share: those who go keep nothing.                              *)
LEMMA RemoveKeeps ==
    ASSUME GroupInv, NEW g \in Groups, NEW dead, RemoveDeadMembers(g, dead)
    PROVE  GroupInv'
<1> DEFINE o == groups[g]
           before == [c \in Consumers |-> IF c \in dead THEN {} ELSE assigned[c]]
<1>0. Types
  BY DEF GroupInv
<1>1. /\ groups[g] # 0 /\ dead \subseteq members[o]
      /\ members' = [members EXCEPT ![o] = @ \ dead]
      /\ Rebalance(g, members'[o], PartitionsOf(subscribed[o], parts), before)
      /\ UNCHANGED <<scenario, topicVars, groups, formed, idOf, subscribed, joined, todo, leaving>>
  BY DEF RemoveDeadMembers
<1>2. o \in GroupObjects /\ leaving' \in [Consumers -> 0 .. formed]
  BY <1>0, <1>1, InRange DEF Types, GroupTypes, Registered
<1>3. DOMAIN before = Consumers /\ \A c \in Consumers \ dead : before[c] = assigned[c]
  OBVIOUS
<1> HIDE DEF o, before
<1> QED BY <1>1, <1>2, <1>3, GoingKeeps

(* A consumer that leaves gives up its partitions before the others share  *)
(* them, whether or not its group is registered still.                     *)
LEMMA LeaveKeeps ==
    ASSUME GroupInv, NEW c \in Consumers, Leave(c)
    PROVE  GroupInv'
<1> DEFINE o == leaving[c]
           before == [assigned EXCEPT ![c] = {}]
<1>0. Types
  BY DEF GroupInv
<1>1. /\ leaving[c] # 0 /\ leaving' = [leaving EXCEPT ![c] = 0]
      /\ UNCHANGED <<scenario, topicVars, groups, formed, idOf, subscribed, joined, todo>>
  BY DEF Leave
<1>2. leaving \in [Consumers -> 0 .. formed] /\ formed \in Nat /\ DOMAIN assigned = Consumers
      /\ 1 .. formed \subseteq GroupObjects
  BY <1>0, InRange DEF Types, GroupTypes
<1>3. leaving' \in [Consumers -> 0 .. formed]
  <2>1. 0 \in 0 .. formed
    BY <1>2
  <2> QED BY <1>1, <1>2, <2>1
<1>4. o \in GroupObjects
  <2>1. o \in 1 .. formed
    BY <1>1, <1>2
  <2> QED BY <1>2, <2>1
<1>5. CASE c \in members[o]
  <2>1. /\ members' = [members EXCEPT ![o] = @ \ {c}]
        /\ Rebalance(idOf[o], members'[o], PartitionsOf(subscribed[o], parts), before)
    BY <1>5 DEF Leave
  <2>2. /\ DOMAIN before = Consumers /\ {c} \subseteq members[o]
        /\ \A d \in Consumers \ {c} : before[d] = assigned[d]
    BY <1>2, <1>5
  <2> HIDE DEF o, before
  <2> QED BY <1>1, <1>3, <1>4, <2>1, <2>2, GoingKeeps
<1>6. CASE c \notin members[o]
  <2>1. UNCHANGED <<members, assigned, position>>
    BY <1>6 DEF Leave
  <2>2. Types'
    BY <1>0, <1>1, <1>3, <2>1 DEF Types, TopicTypes, GroupTypes, topicVars
  <2> QED BY <1>1, <2>1, <2>2 DEF GroupInv, RegisteredById, FreshGroups, OneHome,
              CurrentOrPending, AllShared, topicVars
<1> QED BY <1>5, <1>6

(* The invariant holds at the start and no step leaves it.                 *)
LEMMA GroupInit == Init => GroupInv
<1> SUFFICES ASSUME Init PROVE GroupInv
  OBVIOUS
<1>1. scenario \in Scenarios
  BY DEF Init
<1>2. scenario.maxTopicObjects \in Nat /\ scenario.maxGroupObjects \in Nat
  BY <1>1, ObjectsInRange
<1>3. made = 0 /\ topics = [t \in Topics |-> 0] /\ parts = [o \in TopicObjects |-> 0]
  BY DEF Init
<1>4. TopicTypes
  <2>1. made \in 0 .. scenario.maxTopicObjects
    BY ONLY <1>2, <1>3
  <2>2. topics \in [Topics -> 0 .. made] /\ parts \in [TopicObjects -> Nat]
    BY ONLY <1>3
  <2> QED BY <2>1, <2>2 DEF TopicTypes
<1>5. formed = 0 /\ groups = [g \in Groups |-> 0]
  BY DEF Init
<1>6. /\ members = [o \in GroupObjects |-> {}]
      /\ subscribed = [o \in GroupObjects |-> [t \in Topics |-> 0]]
      /\ todo = <<>>
  BY DEF Init
<1>7. /\ joined = [c \in Consumers |-> 0] /\ leaving = [c \in Consumers |-> 0]
      /\ assigned = [c \in Consumers |-> {}]
  BY DEF Init
<1>8. GroupTypes
  <2>1. formed \in 0 .. scenario.maxGroupObjects
    BY ONLY <1>2, <1>5
  <2>2. groups \in [Groups -> 0 .. formed]
    BY ONLY <1>5
  <2>6. idOf \in [GroupObjects -> Groups \cup {""}]
    BY Zenon DEF Init
  <2>3. members \in [GroupObjects -> SUBSET Consumers] /\ todo \in Seq(Steps)
    BY ONLY <1>6
  <2>4. subscribed \in [GroupObjects -> [Topics -> 0 .. made]]
    BY ONLY <1>3, <1>6
  <2>5. /\ joined \in [Consumers -> 0 .. formed] /\ leaving \in [Consumers -> 0 .. formed]
        /\ DOMAIN assigned = Consumers
    BY ONLY <1>5, <1>7
  <2> QED BY <2>1, <2>2, <2>3, <2>4, <2>5, <2>6 DEF GroupTypes
<1>9. RegisteredById
  BY ONLY <1>5 DEF RegisteredById
<1>10. FreshGroups
  BY ONLY <1>6 DEF FreshGroups
<1>11. OneHome
  BY ONLY <1>6 DEF OneHome
<1>12. CurrentOrPending
  BY ONLY <1>5 DEF CurrentOrPending, Registered
<1>13. AllShared
  BY ONLY <1>6 DEF AllShared
<1> QED BY <1>1, <1>4, <1>8, <1>9, <1>10, <1>11, <1>12, <1>13 DEF GroupInv, Types

(* Every step of the broker keeps the groups' invariant: one case for each *)
(* operation.                                                              *)
LEMMA GroupStep == GroupInv /\ [Next]_vars => GroupInv'
<1> SUFFICES ASSUME GroupInv, [Next]_vars PROVE GroupInv'
  OBVIOUS
<1>0. /\ scenario \in Scenarios /\ scenario.topics \subseteq Topics
      /\ scenario.partitions \subseteq Nat /\ scenario.default_partitions \in Nat
  BY BrokerAssumption DEF GroupInv, Types
<1>1. CASE \E t \in scenario.topics, n \in scenario.partitions : CreateTopic(t, n)
  BY <1>0, <1>1, CreateKeeps DEF CreateTopic, groupVars, consumerVars
<1>2. CASE \E t \in Topics : DeleteTopic(t)
  BY <1>2, DeleteTopicKeeps
<1>3. CASE \E t \in scenario.topics, k \in scenario.keys \cup {NoKey}, i \in scenario.addresses :
              Publish(t, k, i)
  <2>1. PICK t \in scenario.topics : 
           /\ \/ Create(t, scenario.default_partitions)
              \/ UNCHANGED <<topics, made, lives, parts>>
           /\ UNCHANGED <<scenario, groupVars, consumerVars, todo, leaving>>
    BY <1>3 DEF Publish
  <2> QED BY <1>0, <2>1, CreateKeeps DEF consumerVars
<1>4. ASSUME UNCHANGED <<scenario, topics, made, lives, parts, groupVars, joined, assigned, todo,
                         leaving>>
      PROVE  GroupInv'
  <2>1. Types'
    BY <1>4 DEF GroupInv, Types, TopicTypes, GroupTypes, groupVars
  <2> QED BY <1>4, <2>1 DEF GroupInv, RegisteredById, FreshGroups, OneHome,
              CurrentOrPending, AllShared, groupVars
<1>5. CASE ApplyRetention
  BY <1>4, <1>5 DEF ApplyRetention, consumerVars
<1>6. CASE \E q \in scenario.queues, priority \in BOOLEAN : CreateQueue(q, priority)
  BY <1>4, <1>6 DEF CreateQueue, consumerVars, topicVars
<1>7. CASE \E q \in Queues : DeleteQueue(q)
  BY <1>4, <1>7 DEF DeleteQueue, consumerVars, topicVars
<1>8. CASE \E g \in Groups : CreateConsumerGroup(g) \/ DeleteConsumerGroup(g)
  BY <1>8, CreateGroupKeeps, DeleteGroupKeeps
<1>9. CASE \E g \in Groups, dead \in SUBSET Consumers : RemoveDeadMembers(g, dead)
  BY <1>9, RemoveKeeps
<1>10. CASE \E g \in Groups, t \in scenario.topics, c \in Consumers : Subscribe(g, t, c)
  BY <1>0, <1>10, SubscribeKeeps
<1>11. CASE Join \/ Unsubscribe
  BY <1>11, JoinKeeps, UnsubscribeKeeps
<1>12. CASE \E c \in Consumers : LookUpGroup(c) \/ Leave(c)
  BY <1>12, LookUpKeeps, LeaveKeeps
<1>13. CASE \E c \in Consumers : Poll(c) \/ Commit(c)
  <2>1. UNCHANGED <<scenario, topics, made, lives, parts, groupVars, joined, assigned, todo,
                    leaving>>
    BY <1>13 DEF Poll, Commit, consumerVars, topicVars
  <2> QED BY <1>4, <2>1
<1>14. CASE UNCHANGED vars
  BY <1>4, <1>14 DEF vars, topicVars, consumerVars
<1> QED BY <1>1, <1>2, <1>3, <1>5, <1>6, <1>7, <1>8, <1>9, <1>10, <1>11, <1>12, <1>13, <1>14
        DEF Next

(* The groups' invariant holds in every state.                             *)
LEMMA GroupsAlways == Spec => []GroupInv
BY GroupInit, GroupStep, PTL DEF Spec

(* Deleting a topic and creating it again leaves no registered group with  *)
(* the old Topic object once the broker's lock is free (broker.py          *)
(* 106-114, 249-271).                                                      *)
THEOREM NoStaleSubscription == Spec => []SubscriptionsCurrent
BY GroupsAlways, GroupInvSuffices, PTL

(* The members of a registered group share out exactly the partitions it   *)
(* is subscribed to, each with one owner, however joins, leaves, removals  *)
(* and deletions of topics and groups are interleaved.                     *)
THEOREM LiveShares == Spec => []MembersShareLive
BY GroupsAlways, GroupInvSuffices, PTL

-----------------------------------------------------------------------------
(* Messages without a key take the partitions in turn                      *)

(* How many messages of a partition's log have no key.                     *)
Unkeyed(s) == Cardinality({n \in DOMAIN s : s[n] = NoKey})

(* After turn messages without a key, the partitions 0 .. n - 1 before the *)
(* one whose turn it is have one more than the others.                     *)
InTurn(cells, turn, n) ==
    n > 0 => \E q \in Nat : \A i \in 0 .. n - 1 :
                 Unkeyed(cells[i]) = IF i < turn % n THEN q + 1 ELSE q

(* A Topic object that is still to be created has nothing in it.           *)
FreshTopics ==
    \A o \in TopicObjects : o > made =>
        parts[o] = 0 /\ counter[o] = 0 /\ log[o] = [i \in Numbers |-> <<>>]

SpreadTypes ==
    /\ scenario \in Scenarios
    /\ TopicTypes
    /\ parts \in [TopicObjects -> 0 .. MaxParts]
    /\ counter \in [TopicObjects -> Nat]
    /\ log \in [TopicObjects -> [Numbers -> Seq(Origins)]]

SpreadInv ==
    /\ SpreadTypes
    /\ FreshTopics
    /\ \A o \in TopicObjects : InTurn(log[o], counter[o], parts[o])

(* No topic has more partitions than there are numbers for.                *)
LEMMA PartsInRange ==
    ASSUME NEW s \in Scenarios
    PROVE  /\ MaxParts \in Nat
           /\ s.default_partitions \in 0 .. MaxParts
           /\ s.partitions \subseteq 0 .. MaxParts
<1> DEFINE P(r) == r.partitions \cup {r.default_partitions}
           F == {P(r) : r \in Scenarios}
<1>1. \A r \in Scenarios : P(r) \subseteq Nat /\ IsFiniteSet(P(r))
  BY BrokerAssumption, FS_AddElement
<1>2. IsFiniteSet(F)
  <2> DEFINE f == [r \in Scenarios |-> P(r)]
  <2>1. f \in Surjection(Scenarios, F)
    BY DEF Surjection
  <2> HIDE DEF f, F
  <2> QED BY <2>1, FS_Surjection, BrokerAssumption
<1>3. \A T \in F : IsFiniteSet(T) /\ T \subseteq Nat
  BY <1>1
<1>4. P(s) \in F
  OBVIOUS
<1>5. MaxParts = Max(UNION F)
  BY DEF MaxParts
<1>6. P(s) \subseteq UNION F /\ UNION F \subseteq Nat /\ UNION F # {}
  <2>1. P(s) # {}
    OBVIOUS
  <2> HIDE DEF F, P
  <2> QED BY <1>3, <1>4, <2>1
<1>7. IsFiniteSet(UNION F)
  <2> HIDE DEF F
  <2> QED BY <1>2, <1>3, FS_UNION
<1>8. Max(UNION F) \in UNION F /\ \A y \in UNION F : Max(UNION F) >= y
  <2> HIDE DEF F
  <2> QED BY <1>6, <1>7, GreatestNumber
<1>9. MaxParts \in Nat /\ \A y \in P(s) : y \in Nat /\ y <= MaxParts
  <2> HIDE DEF F, P
  <2> QED BY <1>5, <1>6, <1>8
<1> QED BY <1>9

(* An appended message counts if it has no key.                            *)
LEMMA UnkeyedAppend ==
    ASSUME NEW s \in Seq(Origins), NEW k \in Origins
    PROVE  /\ Unkeyed(s) \in Nat
           /\ Unkeyed(Append(s, k)) = IF k = NoKey THEN Unkeyed(s) + 1 ELSE Unkeyed(s)
<1> DEFINE A == {n \in DOMAIN s : s[n] = NoKey}
           B == {n \in DOMAIN Append(s, k) : Append(s, k)[n] = NoKey}
           l == Len(s) + 1
<1>1. Len(s) \in Nat /\ DOMAIN s = 1 .. Len(s)
  OBVIOUS
<1>2. IsFiniteSet(A) /\ Cardinality(A) \in Nat
  <2>1. IsFiniteSet(1 .. Len(s))
    BY <1>1, FS_Interval
  <2>2. A \in SUBSET (1 .. Len(s))
    BY <1>1
  <2> HIDE DEF A
  <2> QED BY <2>1, <2>2, FS_Subset, FS_CardinalityType
<1>3. B = IF k = NoKey THEN A \cup {l} ELSE A
  <2>1. DOMAIN Append(s, k) = 1 .. l /\ \A n \in 1 .. Len(s) : Append(s, k)[n] = s[n]
        /\ Append(s, k)[l] = k
    OBVIOUS
  <2>2. \A n : n \in 1 .. l <=> n \in 1 .. Len(s) \/ n = l
    BY <1>1
  <2>3. l \notin 1 .. Len(s)
    BY <1>1
  <2> QED BY <1>1, <2>1, <2>2, <2>3
<1>4. l \notin A
  BY <1>1
<1>5. Cardinality(A \cup {l}) = Cardinality(A) + 1
  <2> HIDE DEF A, l
  <2> QED BY <1>2, <1>4, FS_AddElement
<1> HIDE DEF A, B, l
<1>6. Cardinality(B) = IF k = NoKey THEN Cardinality(A) + 1 ELSE Cardinality(A)
  BY <1>3, <1>5
<1> QED BY <1>2, <1>6 DEF Unkeyed, A, B

(* The turn goes round.                                                    *)
LEMMA NextTurn ==
    ASSUME NEW c \in Nat, NEW n \in Nat, n > 0
    PROVE  /\ c % n \in 0 .. n - 1
           /\ (c + 1) % n = IF (c % n) + 1 = n THEN 0 ELSE (c % n) + 1
<1> DEFINE r == c % n
           d == (c + 1) % n
           q == c \div n
           p == (c + 1) \div n
           k == p - q
<1>1. r \in 0 .. n - 1 /\ d \in 0 .. n - 1 /\ q \in Int /\ p \in Int
  OBVIOUS
<1>2. c = (n * q) + r /\ c + 1 = (n * p) + d
  OBVIOUS
<1> HIDE DEF r, d, q, p
<1>3. k \in Int /\ n * k = (n * p) - (n * q)
  BY <1>1
<1> HIDE DEF k
<1>4. n * k = (r + 1) - d
  BY <1>1, <1>2, <1>3
<1>5. k < 2
  <2> SUFFICES ASSUME k >= 2 PROVE FALSE
    BY <1>3
  <2>1. n * k >= n * 2
    BY <1>3
  <2> QED BY <1>1, <1>4, <2>1
<1>6. k > -1
  <2> SUFFICES ASSUME k <= -1 PROVE FALSE
    BY <1>3
  <2>1. n * k <= n * (-1)
    BY <1>3
  <2> QED BY <1>1, <1>4, <2>1
<1>7. k = 0 \/ k = 1
  BY <1>3, <1>5, <1>6
<1>8. k = 0 => d = r + 1 /\ r + 1 # n
  BY <1>1, <1>4
<1>9. k = 1 => d = 0 /\ r + 1 = n
  BY <1>1, <1>4
<1>10. r \in 0 .. n - 1 /\ d = IF r + 1 = n THEN 0 ELSE r + 1
  BY <1>1, <1>7, <1>8, <1>9
<1> QED BY <1>10 DEF r, d

(* topic.publish: by key or address nothing changes for the messages       *)
(* without a key, and one of those goes to the partition whose turn it is. *)
LEMMA AppendInTurn ==
    ASSUME NEW o \in TopicObjects, NEW n \in 0 .. MaxParts, MaxParts \in Nat,
           NEW k \in Keys \cup {NoKey}, NEW i \in Nat \cup {-1},
           counter \in [TopicObjects -> Nat],
           log \in [TopicObjects -> [Numbers -> Seq(Origins)]],
           InTurn(log[o], counter[o], n),
           AppendTo(o, n, k, i)
    PROVE  /\ counter' \in [TopicObjects -> Nat]
           /\ log' \in [TopicObjects -> [Numbers -> Seq(Origins)]]
           /\ \A p \in TopicObjects : p # o => counter'[p] = counter[p] /\ log'[p] = log[p]
           /\ InTurn(log'[o], counter'[o], n)
<1> DEFINE j == IF i < 0 THEN AssignPartition(k, n, counter[o]) ELSE i
           x == IF i < 0 THEN k ELSE Pinned
<1>1. n \in Nat /\ n > 0
  BY DEF AppendTo
<1>2. counter[o] \in Nat /\ log[o] \in [Numbers -> Seq(Origins)]
  OBVIOUS
<1>3. j \in 0 .. n - 1
  <2>1. CASE i < 0 /\ k \in Keys
    <3>1. Hash[k] \in Nat
      BY <2>1, BrokerAssumption
    <3>2. Hash[k] % n \in 0 .. n - 1
      BY <1>1, <3>1, NextTurn
    <3> QED BY <2>1, <3>2 DEF AssignPartition
  <2>2. CASE i < 0 /\ k \notin Keys
    <3>1. counter[o] % n \in 0 .. n - 1
      BY <1>1, <1>2, NextTurn
    <3> QED BY <2>2, <3>1 DEF AssignPartition
  <2>3. CASE ~(i < 0)
    BY <1>1, <2>3 DEF AppendTo
  <2> QED BY <2>1, <2>2, <2>3
<1>4. 0 .. n - 1 \subseteq Numbers
  BY <1>1 DEF Numbers
<1>5. x \in Origins
  BY DEF Origins
<1>6. log' = [log EXCEPT ![o] = [log[o] EXCEPT ![j] = Append(log[o][j], x)]]
  BY DEF AppendTo
<1>7. counter' = IF i < 0 /\ k = NoKey THEN [counter EXCEPT ![o] = counter[o] + 1] ELSE counter
  BY DEF AppendTo
<1>8. x = NoKey <=> i < 0 /\ k = NoKey
  BY BrokerAssumption
<1>9. x = NoKey => j = counter[o] % n
  BY <1>8, BrokerAssumption DEF AssignPartition
<1> HIDE DEF j, x
<1>10. log[o][j] \in Seq(Origins) /\ j \in Numbers
  BY <1>2, <1>3, <1>4
<1>11. Append(log[o][j], x) \in Seq(Origins)
  BY <1>5, <1>10
<1>12. /\ log'[o] \in [Numbers -> Seq(Origins)]
       /\ log' \in [TopicObjects -> [Numbers -> Seq(Origins)]]
       /\ log'[o][j] = Append(log[o][j], x)
       /\ \A m \in Numbers : m # j => log'[o][m] = log[o][m]
       /\ \A p \in TopicObjects : p # o => log'[p] = log[p]
  <2>1. [log[o] EXCEPT ![j] = Append(log[o][j], x)] \in [Numbers -> Seq(Origins)]
    BY <1>2, <1>11
  <2> QED BY <1>2, <1>6, <1>10, <2>1
<1>13. /\ counter' \in [TopicObjects -> Nat]
       /\ counter'[o] = IF x = NoKey THEN counter[o] + 1 ELSE counter[o]
       /\ \A p \in TopicObjects : p # o => counter'[p] = counter[p]
  BY <1>2, <1>7, <1>8
<1>14. InTurn(log'[o], counter'[o], n)
  <2>1. PICK q \in Nat : \A m \in 0 .. n - 1 :
           Unkeyed(log[o][m]) = IF m < counter[o] % n THEN q + 1 ELSE q
    BY <1>1 DEF InTurn
  <2>2. \A m \in 0 .. n - 1 : m # j => Unkeyed(log'[o][m]) = Unkeyed(log[o][m])
    BY <1>4, <1>12
  <2>3. Unkeyed(log'[o][j]) =
           IF x = NoKey THEN Unkeyed(log[o][j]) + 1 ELSE Unkeyed(log[o][j])
    BY <1>5, <1>10, <1>12, UnkeyedAppend
  <2>4. CASE x # NoKey
    <3>1. counter'[o] = counter[o]
      BY <1>13, <2>4
    <3>2. \A m \in 0 .. n - 1 : Unkeyed(log'[o][m]) = Unkeyed(log[o][m])
      BY <2>2, <2>3, <2>4
    <3> QED BY <2>1, <3>1, <3>2 DEF InTurn
  <2>5. CASE x = NoKey
    <3> DEFINE r == counter[o] % n
    <3>1. r \in 0 .. n - 1 /\ (counter[o] + 1) % n = IF r + 1 = n THEN 0 ELSE r + 1
      BY <1>1, <1>2, NextTurn
    <3>2. j = r /\ counter'[o] = counter[o] + 1
      BY <1>9, <1>13, <2>5
    <3>3. \A m \in 0 .. n - 1 : Unkeyed(log[o][m]) = IF m < r THEN q + 1 ELSE q
      BY <2>1
    <3> HIDE DEF r
    <3>4. Unkeyed(log'[o][j]) = q + 1
      BY <2>3, <2>5, <3>1, <3>2, <3>3
    <3>5. \A m \in 0 .. n - 1 : Unkeyed(log'[o][m]) = IF m <= r THEN q + 1 ELSE q
      <4> SUFFICES ASSUME NEW m \in 0 .. n - 1
                   PROVE  Unkeyed(log'[o][m]) = IF m <= r THEN q + 1 ELSE q
        OBVIOUS
      <4>1. m \in Int /\ r \in Int
        BY <3>1
      <4>2. CASE m = j
        BY <3>2, <3>4, <4>1, <4>2
      <4>3. CASE m # j
        <5>1. Unkeyed(log'[o][m]) = IF m < r THEN q + 1 ELSE q
          BY <2>2, <3>3, <4>3
        <5>2. m < r <=> m <= r
          BY <3>2, <4>1, <4>3
        <5> QED BY <5>1, <5>2
      <4> QED BY <4>2, <4>3
    <3>6. CASE r + 1 = n
      <4>1. counter'[o] % n = 0
        BY <3>1, <3>2, <3>6
      <4>2. \A m \in 0 .. n - 1 : Unkeyed(log'[o][m]) = IF m < 0 THEN (q + 1) + 1 ELSE q + 1
        <5> SUFFICES ASSUME NEW m \in 0 .. n - 1
                     PROVE  Unkeyed(log'[o][m]) = q + 1 /\ ~(m < 0)
          OBVIOUS
        <5>1. m <= r /\ ~(m < 0)
          BY <1>1, <3>1, <3>6
        <5> QED BY <3>5, <5>1
      <4>3. q + 1 \in Nat
        OBVIOUS
      <4> QED BY <4>1, <4>2, <4>3 DEF InTurn
    <3>7. CASE r + 1 # n
      <4>1. counter'[o] % n = r + 1
        BY <3>1, <3>2, <3>7
      <4>2. \A m \in 0 .. n - 1 : Unkeyed(log'[o][m]) = IF m < r + 1 THEN q + 1 ELSE q
        BY <3>1, <3>5
      <4> QED BY <4>1, <4>2 DEF InTurn
    <3> QED BY <3>6, <3>7
  <2> QED BY <2>4, <2>5
<1> QED BY <1>12, <1>13, <1>14

(* The invariant gives the property.                                       *)
LEMMA InTurnIsEven == SpreadInv => EvenSpread
<1> SUFFICES ASSUME SpreadInv, NEW o \in TopicObjects,
                    NEW i \in 0 .. parts[o] - 1, NEW j \in 0 .. parts[o] - 1
             PROVE  Unkeyed(log[o][i]) <= Unkeyed(log[o][j]) + 1
  BY DEF EvenSpread, Unkeyed
<1>1. parts[o] \in Nat
  BY DEF SpreadInv, SpreadTypes, TopicTypes
<1>2. parts[o] > 0
  BY <1>1
<1>3. PICK q \in Nat : \A m \in 0 .. parts[o] - 1 :
         Unkeyed(log[o][m]) = IF m < counter[o] % parts[o] THEN q + 1 ELSE q
  BY <1>2 DEF SpreadInv, InTurn
<1>4. Unkeyed(log[o][i]) \in {q, q + 1} /\ Unkeyed(log[o][j]) \in {q, q + 1}
  BY <1>3
<1> QED BY <1>4

(* A topic nothing was published to is even.                               *)
LEMMA EmptyInTurn ==
    ASSUME NEW n \in 0 .. MaxParts, MaxParts \in Nat
    PROVE  InTurn([i \in Numbers |-> <<>>], 0, n)
<1> SUFFICES ASSUME n > 0
             PROVE  \A i \in 0 .. n - 1 :
                       Unkeyed([m \in Numbers |-> <<>>][i]) = IF i < 0 % n THEN 0 + 1 ELSE 0
  BY DEF InTurn
<1>1. 0 .. n - 1 \subseteq Numbers
  BY DEF Numbers
<1>2. Unkeyed(<<>>) = 0
  BY FS_EmptySet DEF Unkeyed
<1>3. 0 % n = 0
  OBVIOUS
<1> QED BY <1>1, <1>2, <1>3

(* Before the first topic no partition holds a message.                    *)
LEMMA SpreadInit == Init => SpreadInv
<1> SUFFICES ASSUME Init PROVE SpreadInv
  OBVIOUS
<1>1. scenario \in Scenarios
  BY DEF Init
<1>2. scenario.maxTopicObjects \in Nat /\ MaxParts \in Nat
  BY <1>1, ObjectsInRange, PartsInRange
<1>3. made = 0 /\ topics = [t \in Topics |-> 0] /\ parts = [o \in TopicObjects |-> 0]
  BY DEF Init
<1>4. counter = [o \in TopicObjects |-> 0]
      /\ log = [o \in TopicObjects |-> [i \in Numbers |-> <<>>]]
  BY DEF Init
<1>5. made \in 0 .. scenario.maxTopicObjects
  BY ONLY <1>2, <1>3
<1>6. topics \in [Topics -> 0 .. made] /\ parts \in [TopicObjects -> Nat]
      /\ parts \in [TopicObjects -> 0 .. MaxParts]
  BY ONLY <1>2, <1>3
<1>7. counter \in [TopicObjects -> Nat] /\ log \in [TopicObjects -> [Numbers -> Seq(Origins)]]
  BY ONLY <1>4
<1>8. FreshTopics
  BY ONLY <1>3, <1>4 DEF FreshTopics
<1>9. \A o \in TopicObjects : InTurn(log[o], counter[o], parts[o])
  <2>1. 0 \in 0 .. MaxParts
    BY <1>2
  <2> QED BY <1>2, <1>3, <1>4, <2>1, EmptyInTurn
<1> QED BY <1>1, <1>5, <1>6, <1>7, <1>8, <1>9 DEF SpreadInv, SpreadTypes, TopicTypes

(* create_topic: the object was fresh.                                     *)
LEMMA CreateEven ==
    ASSUME SpreadInv, NEW t \in Topics, NEW n \in 0 .. MaxParts, Create(t, n),
           scenario' = scenario
    PROVE  /\ TopicTypes' /\ parts' \in [TopicObjects -> 0 .. MaxParts]
           /\ made' = made + 1 /\ made \in Nat /\ made + 1 \in TopicObjects
           /\ parts'[made + 1] = n /\ InTurn(log[made + 1], counter[made + 1], n)
           /\ \A o \in TopicObjects : o # made + 1 => parts'[o] = parts[o]
           /\ \A o \in TopicObjects : o > made + 1 =>
                 parts'[o] = 0 /\ counter[o] = 0 /\ log[o] = [i \in Numbers |-> <<>>]
<1>1. /\ made' = made + 1 /\ made < scenario.maxTopicObjects
      /\ topics' = [topics EXCEPT ![t] = made + 1]
      /\ parts' = [parts EXCEPT ![made + 1] = n]
  BY DEF Create, MayCreate
<1>2. /\ made \in 0 .. scenario.maxTopicObjects
      /\ topics \in [Topics -> 0 .. made]
      /\ parts \in [TopicObjects -> 0 .. MaxParts]
      /\ scenario \in Scenarios
  BY DEF SpreadInv, SpreadTypes, TopicTypes
<1>3. /\ scenario.maxTopicObjects \in Nat /\ MaxParts \in Nat
      /\ 1 .. scenario.maxTopicObjects \subseteq TopicObjects /\ TopicObjects \subseteq Nat
  BY <1>2, ObjectsInRange, PartsInRange
<1>4. made \in Nat /\ made + 1 \in 1 .. scenario.maxTopicObjects
  BY ONLY <1>1, <1>2, <1>3
<1>5. made + 1 \in TopicObjects /\ made + 1 \in 0 .. scenario.maxTopicObjects
  BY ONLY <1>3, <1>4
<1>6. topics' \in [Topics -> 0 .. made']
  <2>1. 0 .. made \subseteq 0 .. made' /\ made + 1 \in 0 .. made'
    BY ONLY <1>1, <1>4
  <2> QED BY ONLY <1>1, <1>2, <2>1
<1>7. /\ parts' \in [TopicObjects -> 0 .. MaxParts] /\ parts'[made + 1] = n
      /\ \A o \in TopicObjects : o # made + 1 => parts'[o] = parts[o]
  BY ONLY <1>1, <1>2, <1>5, n \in 0 .. MaxParts
<1>8. parts' \in [TopicObjects -> Nat]
  <2>1. 0 .. MaxParts \subseteq Nat
    OBVIOUS
  <2> QED BY ONLY <1>7, <2>1
<1>9. \A o \in TopicObjects : o > made =>
         parts[o] = 0 /\ counter[o] = 0 /\ log[o] = [i \in Numbers |-> <<>>]
  BY DEF SpreadInv, FreshTopics
<1>10. InTurn(log[made + 1], counter[made + 1], n)
  <2>1. made + 1 > made
    BY <1>4
  <2> QED BY <1>3, <1>5, <1>9, <2>1, EmptyInTurn
<1>11. \A o \in TopicObjects : o > made + 1 => o > made /\ o # made + 1
  BY <1>3, <1>4
<1>12. TopicTypes'
  BY <1>1, <1>5, <1>6, <1>8 DEF TopicTypes
<1> QED BY <1>1, <1>4, <1>5, <1>7, <1>9, <1>10, <1>11, <1>12

(* A publish, which may create its topic first, keeps the spread: it adds  *)
(* one message where the counter points, or one that has a key or an       *)
(* address.                                                                *)
LEMMA PublishEven ==
    ASSUME SpreadInv, NEW t \in scenario.topics, NEW k \in scenario.keys \cup {NoKey},
           NEW i \in scenario.addresses, Publish(t, k, i)
    PROVE  SpreadInv'
<1> DEFINE dp == scenario.default_partitions
<1>1. scenario \in Scenarios /\ scenario' = scenario
  BY DEF SpreadInv, SpreadTypes, Publish
<1>2. /\ t \in Topics /\ k \in Keys \cup {NoKey} /\ i \in Nat \cup {-1}
      /\ dp \in 0 .. MaxParts /\ MaxParts \in Nat
  <2>1. /\ scenario.topics \subseteq Topics /\ scenario.keys \subseteq Keys
        /\ scenario.addresses \subseteq Nat \cup {-1}
    BY <1>1, BrokerAssumption
  <2> QED BY <1>1, <2>1, PartsInRange
<1>3. /\ counter \in [TopicObjects -> Nat] /\ log \in [TopicObjects -> [Numbers -> Seq(Origins)]]
      /\ TopicTypes /\ parts \in [TopicObjects -> 0 .. MaxParts] /\ FreshTopics
      /\ \A o \in TopicObjects : InTurn(log[o], counter[o], parts[o])
  BY DEF SpreadInv, SpreadTypes
<1>4. /\ scenario.maxTopicObjects \in Nat /\ TopicObjects \subseteq Nat \ {0}
      /\ 1 .. scenario.maxTopicObjects \subseteq TopicObjects
  BY <1>1, ObjectsInRange
<1>5. CASE /\ topics[t] # 0 /\ AppendTo(topics[t], parts[topics[t]], k, i)
           /\ UNCHANGED <<topics, made, lives, parts>>
  <2> DEFINE o == topics[t]
  <2>1. made \in Nat /\ o \in 1 .. made /\ o \in TopicObjects
    <3>1. made \in 0 .. scenario.maxTopicObjects /\ o \in 0 .. made
      BY <1>2, <1>3 DEF TopicTypes
    <3> QED BY <1>4, <1>5, <3>1
  <2>2. parts[o] \in 0 .. MaxParts /\ InTurn(log[o], counter[o], parts[o])
    BY <1>3, <2>1
  <2> HIDE DEF o
  <2>3. AppendTo(o, parts[o], k, i)
    BY <1>5 DEF o
  <2>4. /\ counter' \in [TopicObjects -> Nat]
        /\ log' \in [TopicObjects -> [Numbers -> Seq(Origins)]]
        /\ \A p \in TopicObjects : p # o => counter'[p] = counter[p] /\ log'[p] = log[p]
        /\ InTurn(log'[o], counter'[o], parts[o])
    BY <1>2, <1>3, <2>1, <2>2, <2>3, AppendInTurn
  <2>5. \A p \in TopicObjects : InTurn(log'[p], counter'[p], parts'[p])
    BY <1>3, <1>5, <2>4
  <2>6. FreshTopics'
    <3>1. \A p \in TopicObjects : p > made => p # o
      BY <2>1
    <3> QED BY <1>3, <1>5, <2>4, <3>1 DEF FreshTopics
  <2>7. SpreadTypes'
    BY <1>1, <1>3, <1>5, <2>4 DEF SpreadTypes, TopicTypes
  <2> QED BY <2>5, <2>6, <2>7 DEF SpreadInv
<1>6. ASSUME Create(t, dp)
      PROVE  /\ TopicTypes' /\ parts' \in [TopicObjects -> 0 .. MaxParts]
             /\ made' = made + 1 /\ made \in Nat /\ made + 1 \in TopicObjects
             /\ parts'[made + 1] = dp /\ InTurn(log[made + 1], counter[made + 1], dp)
             /\ \A o \in TopicObjects : o # made + 1 => parts'[o] = parts[o]
             /\ \A o \in TopicObjects : o > made + 1 =>
                   parts'[o] = 0 /\ counter[o] = 0 /\ log[o] = [m \in Numbers |-> <<>>]
  <2> HIDE DEF dp
  <2> QED BY <1>1, <1>2, <1>6, CreateEven
<1>7. CASE Create(t, dp) /\ AppendTo(made + 1, dp, k, i)
  <2> DEFINE o == made + 1
  <2>1. o \in TopicObjects /\ InTurn(log[o], counter[o], dp)
    BY <1>6, <1>7
  <2> HIDE DEF o, dp
  <2>2. /\ counter' \in [TopicObjects -> Nat]
        /\ log' \in [TopicObjects -> [Numbers -> Seq(Origins)]]
        /\ \A p \in TopicObjects : p # o => counter'[p] = counter[p] /\ log'[p] = log[p]
        /\ InTurn(log'[o], counter'[o], dp)
    <3>1. AppendTo(o, dp, k, i)
      BY <1>7 DEF o
    <3> QED BY <1>2, <1>3, <2>1, <3>1, AppendInTurn
  <2>3. \A p \in TopicObjects : InTurn(log'[p], counter'[p], parts'[p])
    BY <1>3, <1>6, <1>7, <2>2 DEF o
  <2>4. FreshTopics'
    <3> SUFFICES ASSUME NEW p \in TopicObjects, p > made'
                 PROVE  /\ parts'[p] = 0 /\ counter'[p] = 0
                        /\ log'[p] = [m \in Numbers |-> <<>>]
      BY DEF FreshTopics
    <3>1. made' = made + 1 /\ made \in Nat
      BY <1>6, <1>7
    <3>2. p > made + 1 /\ p # o
      BY <1>4, <3>1 DEF o
    <3> QED BY <1>6, <1>7, <2>2, <3>2
  <2>5. SpreadTypes'
    BY <1>1, <1>6, <1>7, <2>2 DEF SpreadTypes
  <2> QED BY <2>3, <2>4, <2>5 DEF SpreadInv
<1>8. CASE Create(t, dp) /\ UNCHANGED <<counter, log>>
  <2> HIDE DEF dp
  <2>1. \A p \in TopicObjects : InTurn(log'[p], counter'[p], parts'[p])
    BY <1>3, <1>6, <1>8
  <2>2. FreshTopics'
    BY <1>6, <1>8 DEF FreshTopics
  <2>3. SpreadTypes'
    BY <1>1, <1>3, <1>6, <1>8 DEF SpreadTypes
  <2> QED BY <2>1, <2>2, <2>3 DEF SpreadInv
<1> QED BY <1>5, <1>7, <1>8 DEF Publish

(* Every step of the broker keeps the spread: only a new topic and a       *)
(* publish concern it.                                                     *)
LEMMA SpreadStep == SpreadInv /\ [Next]_vars => SpreadInv'
<1> SUFFICES ASSUME SpreadInv, [Next]_vars PROVE SpreadInv'
  OBVIOUS
<1>0. /\ scenario \in Scenarios /\ scenario.topics \subseteq Topics
      /\ scenario.partitions \subseteq 0 .. MaxParts
      /\ scenario.default_partitions \in 0 .. MaxParts
  BY BrokerAssumption, PartsInRange DEF SpreadInv, SpreadTypes
<1>1. ASSUME NEW t \in Topics, NEW n \in 0 .. MaxParts, Create(t, n),
             UNCHANGED <<scenario, counter, log>>
      PROVE  SpreadInv'
  <2>1. /\ TopicTypes' /\ parts' \in [TopicObjects -> 0 .. MaxParts]
        /\ made' = made + 1 /\ made \in Nat /\ made + 1 \in TopicObjects
        /\ parts'[made + 1] = n /\ InTurn(log[made + 1], counter[made + 1], n)
        /\ \A o \in TopicObjects : o # made + 1 => parts'[o] = parts[o]
        /\ \A o \in TopicObjects : o > made + 1 =>
              parts'[o] = 0 /\ counter[o] = 0 /\ log[o] = [i \in Numbers |-> <<>>]
    BY <1>1, CreateEven
  <2>2. \A p \in TopicObjects : InTurn(log'[p], counter'[p], parts'[p])
    BY <1>1, <2>1 DEF SpreadInv
  <2>3. FreshTopics'
    BY <1>1, <2>1 DEF FreshTopics
  <2>4. SpreadTypes'
    BY <1>1, <2>1 DEF SpreadInv, SpreadTypes
  <2> QED BY <2>2, <2>3, <2>4 DEF SpreadInv
<1>2. ASSUME UNCHANGED <<scenario, made, parts, counter, log>>, 
             topics' = topics \/ \E t \in Topics : topics' = [topics EXCEPT ![t] = 0]
      PROVE  SpreadInv'
  <2>1. topics' \in [Topics -> 0 .. made]
    <3>1. topics \in [Topics -> 0 .. made] /\ made \in 0 .. scenario.maxTopicObjects
      BY DEF SpreadInv, SpreadTypes, TopicTypes
    <3>2. 0 \in 0 .. made
      BY <1>0, <3>1, ObjectsInRange
    <3> QED BY <1>2, <3>1, <3>2
  <2>2. SpreadTypes'
    BY <1>2, <2>1 DEF SpreadInv, SpreadTypes, TopicTypes
  <2> QED BY <1>2, <2>2 DEF SpreadInv, FreshTopics
<1>3. CASE \E t \in scenario.topics, n \in scenario.partitions : CreateTopic(t, n)
  BY <1>0, <1>1, <1>3 DEF CreateTopic
<1>4. CASE \E t \in Topics : DeleteTopic(t)
  BY <1>2, <1>4 DEF DeleteTopic
<1>5. CASE \E t \in scenario.topics, k \in scenario.keys \cup {NoKey}, i \in scenario.addresses :
              Publish(t, k, i)
  BY <1>5, PublishEven
<1>6. CASE ApplyRetention
  BY <1>2, <1>6 DEF ApplyRetention
<1>7. CASE \E q \in scenario.queues, priority \in BOOLEAN : CreateQueue(q, priority)
  BY <1>2, <1>7 DEF CreateQueue, topicVars
<1>8. CASE \E q \in Queues : DeleteQueue(q)
  BY <1>2, <1>8 DEF DeleteQueue, topicVars
<1>9. CASE \E g \in Groups : CreateConsumerGroup(g) \/ DeleteConsumerGroup(g)
  BY <1>2, <1>9 DEF CreateConsumerGroup, DeleteConsumerGroup, topicVars
<1>10. CASE \E g \in Groups, dead \in SUBSET Consumers : RemoveDeadMembers(g, dead)
  BY <1>2, <1>10 DEF RemoveDeadMembers, topicVars
<1>11. CASE \E g \in Groups, t \in scenario.topics, c \in Consumers : Subscribe(g, t, c)
  <2>1. PICK t \in scenario.topics :
           /\ \/ Create(t, scenario.default_partitions)
              \/ UNCHANGED <<topics, made, lives, parts>>
           /\ UNCHANGED <<scenario, counter, log>>
    BY <1>11 DEF Subscribe
  <2> QED BY <1>0, <1>1, <1>2, <2>1
<1>12. CASE Join \/ Unsubscribe
  BY <1>2, <1>12 DEF Join, Unsubscribe, topicVars
<1>13. CASE \E c \in Consumers : LookUpGroup(c) \/ Leave(c) \/ Poll(c) \/ Commit(c)
  <2>1. UNCHANGED <<scenario, topicVars>>
    BY <1>13 DEF LookUpGroup, Leave, Poll, Commit
  <2> QED BY <1>2, <2>1 DEF topicVars
<1>14. CASE UNCHANGED vars
  BY <1>2, <1>14 DEF vars, topicVars
<1> QED BY <1>3, <1>4, <1>5, <1>6, <1>7, <1>8, <1>9, <1>10, <1>11, <1>12, <1>13, <1>14 DEF Next

(* Messages without a key are spread evenly over the partitions of every   *)
(* topic, with any number of partitions, whatever keyed and addressed      *)
(* messages come between (topic.py assign_partition).                      *)
THEOREM SpreadEvenly == Spec => []EvenSpread
<1>1. Spec => []SpreadInv
  BY SpreadInit, SpreadStep, PTL DEF Spec
<1> QED BY <1>1, InTurnIsEven, PTL

-----------------------------------------------------------------------------
(* Positions and committed offsets                                         *)

(* The types of what is read.                                              *)
ReadTypes ==
    /\ log \in [TopicObjects -> [Numbers -> Seq(Origins)]]
    /\ trimmed \in [TopicObjects -> [Numbers -> Nat]]
    /\ DOMAIN committed = Groups \X TopicObjects \X Numbers
    /\ DOMAIN position = Consumers

(* nm gives the name each Topic object was created under, and lives counts *)
(* the objects of a name.                                                  *)
NamesOk(nm) ==
    /\ nm \in [1 .. made -> Topics]
    /\ lives \in [Topics -> Nat]
    /\ \A t \in Topics : topics[t] # 0 => nm[topics[t]] = t
    /\ \A o \in GroupObjects, t \in Topics : subscribed[o][t] # 0 => nm[subscribed[o][t]] = t
    /\ \A o \in 1 .. made : lives[nm[o]] >= 1
    /\ \A o, p \in 1 .. made : nm[o] = nm[p] /\ lives[nm[o]] = 1 => o = p

(* A consumer has a position for whatever it holds, and positions only for *)
(* what there is.                                                          *)
HeldOk(nm) ==
    \A c \in Consumers :
        /\ \A x \in assigned[c] : /\ x \in Topics \X (1 .. made) \X Numbers
                                  /\ nm[x[2]] = x[1]
                                  /\ Key(x) \in DOMAIN position[c]
        /\ \A k \in DOMAIN position[c] : \E o \in 1 .. made, i \in Numbers : k = <<nm[o], i>>
        /\ joined[c] = 0 => DOMAIN position[c] = {}

(* The offset v of partition i of object o, whose log is l and has lost    *)
(* its first tr messages, is one that group g has read up to.              *)
ReadUpTo(v, g, o, i, l, tr, sn) ==
    /\ v \in Nat /\ v <= Len(l)
    /\ \A n \in tr .. Len(l) - 1 : n < v => <<g, o, i, n>> \in sn

(* That is so of every committed offset and of every position in a topic   *)
(* that is the first of its name, held or not.                             *)
CommittedOk(nm) ==
    \A g \in Groups, o \in TopicObjects, i \in Numbers :
        IF o > made THEN committed[<<g, o, i>>] = 0
        ELSE lives[nm[o]] = 1 =>
                ReadUpTo(committed[<<g, o, i>>], g, o, i, log[o][i], trimmed[o][i], seen)

PositionsOk(nm) ==
    \A c \in Consumers, o \in 1 .. made, i \in Numbers :
        lives[nm[o]] = 1 /\ <<nm[o], i>> \in DOMAIN position[c] =>
            ReadUpTo(position[c][<<nm[o], i>>], idOf[joined[c]], o, i, log[o][i], trimmed[o][i],
                     seen)

ReadInv ==
    /\ ReadTypes
    /\ \E nm \in [1 .. made -> Topics] :
          NamesOk(nm) /\ HeldOk(nm) /\ CommittedOk(nm) /\ PositionsOk(nm)

(* The invariant gives the property.                                       *)
LEMMA ReadInvSuffices == GroupInv /\ ReadInv => UnreadIsAhead
<1> SUFFICES ASSUME GroupInv, ReadInv, NEW c \in Consumers, NEW x \in assigned[c],
                    lives[x[1]] = 1,
                    NEW n \in trimmed[x[2]][x[3]] .. CurrentOffset(x) - 1,
                    n < position[c][Key(x)]
             PROVE  <<idOf[joined[c]], x[2], x[3], n>> \in seen
  BY DEF UnreadIsAhead
<1>1. PICK nm \in [1 .. made -> Topics] : NamesOk(nm) /\ HeldOk(nm) /\ PositionsOk(nm)
  BY DEF ReadInv
<1>2. x \in Topics \X (1 .. made) \X Numbers /\ nm[x[2]] = x[1] /\ Key(x) \in DOMAIN position[c]
  BY <1>1 DEF HeldOk
<1>3. x[2] \in 1 .. made /\ x[3] \in Numbers /\ Key(x) = <<nm[x[2]], x[3]>>
  BY <1>2 DEF Key
<1>4. ReadUpTo(position[c][Key(x)], idOf[joined[c]], x[2], x[3], log[x[2]][x[3]],
               trimmed[x[2]][x[3]], seen)
  BY <1>1, <1>2, <1>3 DEF PositionsOk
<1> QED BY <1>4 DEF ReadUpTo, CurrentOffset

(* What was read up to stays so while logs, what is trimmed and what was   *)
(* returned grow.                                                          *)
LEMMA ReadUpToKept ==
    ASSUME NEW v, NEW g, NEW o, NEW i, NEW l \in Seq(Origins), NEW m \in Seq(Origins),
           NEW tr \in Nat, NEW ts \in Nat, NEW sn, NEW sm,
           Len(m) >= Len(l), ts >= tr, sn \subseteq sm,
           ReadUpTo(v, g, o, i, l, tr, sn)
    PROVE  ReadUpTo(v, g, o, i, m, ts, sm)
<1>1. v \in Nat /\ v <= Len(l) /\ Len(l) \in Nat /\ Len(m) \in Nat
  BY DEF ReadUpTo
<1>2. \A n \in ts .. Len(m) - 1 : n < v => n \in tr .. Len(l) - 1
  BY <1>1
<1>3. \A n \in tr .. Len(l) - 1 : n < v => <<g, o, i, n>> \in sn
  BY DEF ReadUpTo
<1>4. v <= Len(m)
  BY <1>1
<1> QED BY <1>1, <1>2, <1>3, <1>4 DEF ReadUpTo

(* Logs, what is trimmed and what was returned grow.                       *)
Grows ==
    /\ seen \subseteq seen'
    /\ \A o \in TopicObjects, i \in Numbers :
          Len(log'[o][i]) >= Len(log[o][i]) /\ trimmed'[o][i] >= trimmed[o][i]

(* mm names what nm does, and what is new: if that is the first of its     *)
(* name, nothing had the name before.                                      *)
Extends(nm, mm) ==
    /\ made' >= made
    /\ \A o \in 1 .. made : /\ o \in 1 .. made' /\ mm[o] = nm[o]
                            /\ lives'[nm[o]] = 1 => lives[nm[o]] = 1
    /\ \A o \in 1 .. made', p \in 1 .. made :
          o > made /\ lives'[mm[o]] = 1 => nm[p] # mm[o]

(* A name can be told for each topic object, and the telling continues     *)
(* across a step: a new object gets the name it is created under.          *)
LEMMA NamesKept ==
    ASSUME Types, Types', NEW nm, NamesOk(nm),
           \/ \E t \in Topics, n \in Nat : Create(t, n)
           \/ UNCHANGED <<made, lives>> /\ \A u \in Topics : topics'[u] \in {0, topics[u]},
           \A o \in GroupObjects, u \in Topics :
               subscribed'[o][u] \in {0, subscribed[o][u], topics'[u]}
    PROVE  \E mm \in [1 .. made' -> Topics] : NamesOk(mm)' /\ Extends(nm, mm)
<1>0. /\ nm \in [1 .. made -> Topics] /\ lives \in [Topics -> Nat]
      /\ \A u \in Topics : topics[u] # 0 => nm[topics[u]] = u
      /\ \A o \in GroupObjects, u \in Topics : subscribed[o][u] # 0 => nm[subscribed[o][u]] = u
      /\ \A o \in 1 .. made : lives[nm[o]] >= 1
      /\ \A o, p \in 1 .. made : nm[o] = nm[p] /\ lives[nm[o]] = 1 => o = p
  BY DEF NamesOk
<1>1. /\ made \in Nat /\ topics \in [Topics -> 0 .. made]
      /\ subscribed \in [GroupObjects -> [Topics -> 0 .. made]]
  BY InRange DEF Types, TopicTypes, GroupTypes
<1>2. CASE UNCHANGED <<made, lives>> /\ \A u \in Topics : topics'[u] \in {0, topics[u]}
  <2>1. \A u \in Topics : topics'[u] # 0 => nm[topics'[u]] = u
    BY <1>0, <1>2
  <2>2. \A o \in GroupObjects, u \in Topics : subscribed'[o][u] # 0 => nm[subscribed'[o][u]] = u
    BY <1>0, <2>1
  <2>3. NamesOk(nm)'
    BY <1>0, <1>2, <2>1, <2>2 DEF NamesOk
  <2>4. Extends(nm, nm)
    BY <1>1, <1>2 DEF Extends
  <2> QED BY <1>0, <1>2, <2>3, <2>4
<1>3. CASE \E t \in Topics, n \in Nat : Create(t, n)
  <2>0. PICK t \in Topics, n \in Nat : Create(t, n)
    BY <1>3
  <2> DEFINE w == made + 1
  <2>1. /\ made' = w /\ topics[t] = 0
        /\ lives' = [lives EXCEPT ![t] = lives[t] + 1]
        /\ topics' = [topics EXCEPT ![t] = w]
    BY <2>0 DEF Create, MayCreate
  <2>2. /\ 1 .. w = 1 .. made \cup {w} /\ w \notin 1 .. made /\ w \in Nat /\ w # 0
        /\ \A z \in 0 .. made : z # w
    <3>1. made \in Nat
      BY <1>1
    <3> QED BY ONLY <3>1
  <2> HIDE DEF w
  <2>3. PICK mm \in [1 .. w -> Topics] : mm[w] = t /\ \A o \in 1 .. made : mm[o] = nm[o]
    <3> DEFINE f == [o \in 1 .. w |-> IF o = w THEN t ELSE nm[o]]
    <3>1. f \in [1 .. w -> Topics] /\ f[w] = t /\ \A o \in 1 .. made : f[o] = nm[o]
      BY <1>0, <2>2
    <3> QED BY <3>1
  <2>4. /\ lives' \in [Topics -> Nat] /\ lives'[t] = lives[t] + 1
        /\ \A u \in Topics : u # t => lives'[u] = lives[u]
    BY <1>0, <2>1
  <2>5. \A u \in Topics : topics'[u] # 0 => mm[topics'[u]] = u
    <3> SUFFICES ASSUME NEW u \in Topics, topics'[u] # 0, u # t PROVE mm[topics'[u]] = u
      BY <1>1, <2>1, <2>3
    <3>1. topics'[u] = topics[u] /\ topics[u] \in 0 .. made
      BY <1>1, <2>1
    <3>2. topics[u] \in 1 .. made
      BY <1>1, <3>1
    <3> QED BY <1>0, <2>3, <3>1, <3>2
  <2>6. \A o \in GroupObjects, u \in Topics : subscribed'[o][u] # 0 => mm[subscribed'[o][u]] = u
    <3> SUFFICES ASSUME NEW o \in GroupObjects, NEW u \in Topics, subscribed[o][u] # 0
                 PROVE  mm[subscribed[o][u]] = u
      BY <2>5
    <3>1. subscribed[o][u] \in 0 .. made
      BY <1>1
    <3>2. subscribed[o][u] \in 1 .. made
      BY <1>1, <3>1
    <3> QED BY <1>0, <2>3, <3>2
  <2>7. \A o \in 1 .. made : lives'[mm[o]] >= 1 /\ (mm[o] = t => lives'[mm[o]] # 1)
                             /\ (lives'[mm[o]] = 1 => lives[nm[o]] = 1)
    <3> SUFFICES ASSUME NEW o \in 1 .. made
                 PROVE  lives'[nm[o]] >= 1 /\ (nm[o] = t => lives'[nm[o]] # 1)
                        /\ (lives'[nm[o]] = 1 => lives[nm[o]] = 1)
      BY <2>3
    <3>1. lives[nm[o]] \in Nat /\ lives[nm[o]] >= 1 /\ nm[o] \in Topics
      BY <1>0
    <3>2. CASE nm[o] = t
      BY <2>4, <3>1, <3>2
    <3>3. CASE nm[o] # t
      BY <2>4, <3>1, <3>3
    <3> QED BY <3>2, <3>3
  <2>8. \A o \in 1 .. w : lives'[mm[o]] >= 1
    <3>1. lives[t] \in Nat
      BY <1>0
    <3>2. lives'[mm[w]] >= 1
      BY <2>3, <2>4, <3>1
    <3> QED BY <2>2, <2>7, <3>2
  <2>9. \A o, p \in 1 .. w : mm[o] = mm[p] /\ lives'[mm[o]] = 1 => o = p
    <3> SUFFICES ASSUME NEW o \in 1 .. w, NEW p \in 1 .. w, mm[o] = mm[p], lives'[mm[o]] = 1
                 PROVE  o = p
      OBVIOUS
    <3>1. CASE o = w /\ p # w
      BY <2>2, <2>3, <2>7, <3>1
    <3>2. CASE o # w /\ p = w
      BY <2>2, <2>3, <2>7, <3>2
    <3>3. CASE o # w /\ p # w
      <4>1. o \in 1 .. made /\ p \in 1 .. made
        BY <2>2, <3>3
      <4>2. nm[o] = nm[p] /\ lives[nm[o]] = 1
        BY <2>3, <2>7, <4>1
      <4> QED BY <1>0, <4>1, <4>2
    <3> QED BY <3>1, <3>2, <3>3
  <2>10. NamesOk(mm)'
    BY <2>1, <2>3, <2>4, <2>5, <2>6, <2>8, <2>9 DEF NamesOk
  <2>11. Extends(nm, mm)
    <3>1. made' >= made
      BY <1>1, <2>1 DEF w
    <3>2. \A o \in 1 .. made : o \in 1 .. made' /\ mm[o] = nm[o]
                               /\ (lives'[nm[o]] = 1 => lives[nm[o]] = 1)
      BY <2>1, <2>2, <2>3, <2>7
    <3>3. \A o \in 1 .. made', p \in 1 .. made :
             o > made /\ lives'[mm[o]] = 1 => nm[p] # mm[o]
      <4> SUFFICES ASSUME NEW o \in 1 .. w, NEW p \in 1 .. made, o > made, lives'[mm[o]] = 1,
                          nm[p] = mm[o]
                   PROVE  FALSE
        BY <2>1
      <4>1. o \notin 1 .. made
        BY <1>1
      <4>2. o = w
        BY <2>2, <4>1
      <4> QED BY <2>3, <2>7, <4>2
    <3> QED BY <3>1, <3>2, <3>3 DEF Extends
  <2> QED BY <2>1, <2>3, <2>10, <2>11
<1> QED BY <1>2, <1>3
-----------------------------------------------------------------------------
(* What a step does to positions                                           *)

(* Nobody holds what was not held or in xs; a position is the one there    *)
(* was or, for a member of ms in group g, what the group committed.        *)
Shift(g, ms, xs) ==
    /\ DOMAIN position' = Consumers
    /\ \A c \in Consumers : \A x \in assigned'[c] :
          (x \in assigned[c] \/ x \in xs) /\ Key(x) \in DOMAIN position'[c]
    /\ \A c \in Consumers : \A k \in DOMAIN position'[c] :
          \/ k \in DOMAIN position[c] /\ position'[c][k] = position[c][k]
          \/ c \in ms /\ \E y \in xs : /\ Key(y) = k
                                       /\ position'[c][k] = committed[<<g, y[2], y[3]>>]

(* A rebalance is such a step: assign keeps the positions there are.       *)
LEMMA RebalanceShifts ==
    ASSUME NEW g, NEW ms, ms \subseteq Consumers, NEW xs, NEW before,
           \A c \in Consumers : before[c] \subseteq assigned[c],
           DOMAIN position = Consumers,
           \A c \in Consumers : \A x \in assigned[c] : Key(x) \in DOMAIN position[c],
           Rebalance(g, ms, xs, before)
    PROVE  Shift(g, ms, xs)
<1>1. CASE ms = {}
  <2>1. assigned' = before /\ position' = position
    BY <1>1 DEF Rebalance
  <2> QED BY <2>1 DEF Shift
<1>2. CASE ms # {}
  <2>1. PICK owner \in [xs -> ms] :
           /\ assigned' = [c \in Consumers |-> IF c \in ms THEN {x \in xs : owner[x] = c}
                                                           ELSE before[c]]
           /\ position' = [c \in Consumers |->
                 IF c \in ms THEN NewPositions(g, c, {x \in xs : owner[x] = c}) ELSE position[c]]
    BY <1>2 DEF Rebalance
  <2>2. ASSUME NEW c \in ms
        PROVE  /\ \A x \in assigned'[c] : x \in xs /\ Key(x) \in DOMAIN position'[c]
               /\ \A k \in DOMAIN position'[c] :
                     \/ k \in DOMAIN position[c] /\ position'[c][k] = position[c][k]
                     \/ \E y \in xs : /\ Key(y) = k
                                      /\ position'[c][k] = committed[<<g, y[2], y[3]>>]
    <3> DEFINE share == {x \in xs : owner[x] = c}
    <3>1. assigned'[c] = share /\ position'[c] = NewPositions(g, c, share)
      BY <2>1
    <3>2. share \subseteq xs
      OBVIOUS
    <3> HIDE DEF share
    <3>3. DOMAIN position'[c] = DOMAIN position[c] \cup {Key(x) : x \in share}
      BY <3>1 DEF NewPositions
    <3>4. ASSUME NEW k \in DOMAIN position[c]
          PROVE  position'[c][k] = position[c][k]
      BY <3>1, <3>3 DEF NewPositions
    <3>5. ASSUME NEW k \in DOMAIN position'[c], k \notin DOMAIN position[c]
          PROVE  \E y \in xs : Key(y) = k /\ position'[c][k] = committed[<<g, y[2], y[3]>>]
      <4> DEFINE y == CHOOSE z \in share : Key(z) = k
      <4>1. y \in share /\ Key(y) = k
        BY <3>3, <3>5
      <4>2. position'[c][k] = committed[<<g, y[2], y[3]>>]
        BY <3>1, <3>3, <3>5 DEF NewPositions
      <4> HIDE DEF y
      <4> QED BY <3>2, <4>1, <4>2
    <3> QED BY <3>1, <3>2, <3>3, <3>4, <3>5
  <2>3. ASSUME NEW c \in Consumers, c \notin ms
        PROVE  assigned'[c] = before[c] /\ position'[c] = position[c]
    BY <2>1, <2>3
  <2>4. DOMAIN position' = Consumers
    BY <2>1
  <2> QED BY <2>2, <2>3, <2>4 DEF Shift
<1> QED BY <1>1, <1>2

(* Steps of this kind keep what the consumers hold and have read.          *)
LEMMA ShiftKeeps ==
    ASSUME ReadTypes, ReadTypes', TopicObjects \subseteq Nat \ {0},
           made \in Nat, made' \in Nat, 1 .. made' \subseteq TopicObjects,
           NEW nm, NEW mm, mm \in [1 .. made' -> Topics],
           NamesOk(nm), NamesOk(mm)', Extends(nm, mm),
           HeldOk(nm), CommittedOk(nm), PositionsOk(nm), Grows, committed' = committed,
           NEW g, NEW ms, NEW xs, Shift(g, ms, xs),
           \A c \in ms : g \in Groups /\ idOf'[joined'[c]] = g /\ joined'[c] # 0,
           \A x \in xs : x \in Topics \X (1 .. made') \X Numbers /\ mm[x[2]] = x[1],
           \A c \in Consumers : joined[c] # 0 =>
               joined'[c] = joined[c] /\ idOf'[joined[c]] = idOf[joined[c]]
    PROVE  HeldOk(mm)' /\ CommittedOk(mm)' /\ PositionsOk(mm)'
<1>1. /\ \A o \in 1 .. made : /\ o \in 1 .. made' /\ mm[o] = nm[o]
                              /\ lives'[nm[o]] = 1 => lives[nm[o]] = 1
      /\ \A o \in 1 .. made', p \in 1 .. made :
            o > made /\ lives'[mm[o]] = 1 => nm[p] # mm[o]
      /\ made' >= made
  BY DEF Extends
<1>2. \A c \in Consumers :
         /\ \A x \in assigned[c] : /\ x \in Topics \X (1 .. made) \X Numbers
                                   /\ nm[x[2]] = x[1]
                                   /\ Key(x) \in DOMAIN position[c]
         /\ \A k \in DOMAIN position[c] : \E o \in 1 .. made, i \in Numbers : k = <<nm[o], i>>
         /\ joined[c] = 0 => DOMAIN position[c] = {}
  BY DEF HeldOk
<1>3. /\ \A c \in Consumers : \A x \in assigned'[c] :
            (x \in assigned[c] \/ x \in xs) /\ Key(x) \in DOMAIN position'[c]
      /\ \A c \in Consumers : \A k \in DOMAIN position'[c] :
            \/ k \in DOMAIN position[c] /\ position'[c][k] = position[c][k]
            \/ c \in ms /\ \E y \in xs : /\ Key(y) = k
                                         /\ position'[c][k] = committed[<<g, y[2], y[3]>>]
  BY DEF Shift
<1>4. \A o, p \in 1 .. made' : mm[o] = mm[p] /\ lives'[mm[o]] = 1 => o = p
  BY DEF NamesOk
<1>5. /\ log \in [TopicObjects -> [Numbers -> Seq(Origins)]]
      /\ log' \in [TopicObjects -> [Numbers -> Seq(Origins)]]
      /\ trimmed \in [TopicObjects -> [Numbers -> Nat]]
      /\ trimmed' \in [TopicObjects -> [Numbers -> Nat]]
      /\ seen \subseteq seen'
      /\ \A o \in TopicObjects, i \in Numbers :
            Len(log'[o][i]) >= Len(log[o][i]) /\ trimmed'[o][i] >= trimmed[o][i]
  BY DEF ReadTypes, Grows
<1>6. ASSUME NEW v, NEW h, NEW o \in TopicObjects, NEW i \in Numbers,
             ReadUpTo(v, h, o, i, log[o][i], trimmed[o][i], seen)
      PROVE  ReadUpTo(v, h, o, i, log'[o][i], trimmed'[o][i], seen')
  BY <1>5, <1>6, ReadUpToKept
<1>7. HeldOk(mm)'
  <2> SUFFICES ASSUME NEW c \in Consumers
               PROVE  /\ \A x \in assigned'[c] : /\ x \in Topics \X (1 .. made') \X Numbers
                                                 /\ mm[x[2]] = x[1]
                                                 /\ Key(x) \in DOMAIN position'[c]
                      /\ \A k \in DOMAIN position'[c] :
                            \E o \in 1 .. made', i \in Numbers : k = <<mm[o], i>>
                      /\ joined'[c] = 0 => DOMAIN position'[c] = {}
    BY DEF HeldOk, Key
  <2>1. ASSUME NEW x \in assigned'[c]
        PROVE  /\ x \in Topics \X (1 .. made') \X Numbers /\ mm[x[2]] = x[1]
               /\ Key(x) \in DOMAIN position'[c]
    <3>1. Key(x) \in DOMAIN position'[c]
      BY <1>3
    <3>2. CASE x \in xs
      BY <3>1, <3>2
    <3>3. CASE x \in assigned[c]
      <4>1. x \in Topics \X (1 .. made) \X Numbers /\ nm[x[2]] = x[1]
        BY <1>2, <3>3
      <4>2. x[2] \in 1 .. made /\ x[1] \in Topics /\ x[3] \in Numbers /\ x = <<x[1], x[2], x[3]>>
        BY <4>1
      <4>3. x[2] \in 1 .. made' /\ mm[x[2]] = x[1]
        BY <1>1, <4>1, <4>2
      <4> QED BY <3>1, <4>2, <4>3
    <3> QED BY <1>3, <3>2, <3>3
  <2>2. ASSUME NEW k \in DOMAIN position'[c]
        PROVE  \E o \in 1 .. made', i \in Numbers : k = <<mm[o], i>>
    <3>1. CASE k \in DOMAIN position[c]
      BY <1>1, <1>2, <3>1
    <3>2. CASE \E y \in xs : Key(y) = k
      <4>1. PICK y \in xs : k = <<y[1], y[3]>>
        BY <3>2 DEF Key
      <4>2. y[2] \in 1 .. made' /\ y[3] \in Numbers /\ mm[y[2]] = y[1]
        OBVIOUS
      <4> QED BY <4>1, <4>2
    <3> QED BY <1>3, <3>1, <3>2
  <2>3. joined'[c] = 0 => DOMAIN position'[c] = {}
    BY <1>2, <1>3
  <2> QED BY <2>1, <2>2, <2>3
<1>8. CommittedOk(mm)'
  <2> SUFFICES ASSUME NEW h \in Groups, NEW o \in TopicObjects, NEW i \in Numbers
               PROVE  IF o > made' THEN committed[<<h, o, i>>] = 0
                      ELSE lives'[mm[o]] = 1 =>
                              ReadUpTo(committed[<<h, o, i>>], h, o, i, log'[o][i],
                                       trimmed'[o][i], seen')
    BY DEF CommittedOk
  <2>1. CASE o > made
    <3>1. committed[<<h, o, i>>] = 0
      BY <2>1 DEF CommittedOk
    <3>2. ReadUpTo(0, h, o, i, log'[o][i], trimmed'[o][i], seen')
      <4>1. log'[o][i] \in Seq(Origins) /\ trimmed'[o][i] \in Nat
        BY <1>5
      <4>2. Len(log'[o][i]) \in Nat /\ \A n \in trimmed'[o][i] .. Len(log'[o][i]) - 1 : ~(n < 0)
        BY <4>1
      <4> QED BY <4>2 DEF ReadUpTo
    <3> QED BY <3>1, <3>2
  <2>2. CASE ~(o > made)
    <3>2. o \in 1 .. made /\ ~(o > made')
      <4>1. o \in Nat \ {0}
        OBVIOUS
      <4> QED BY <1>1, <2>2, <4>1
    <3>3. lives[nm[o]] = 1 =>
             ReadUpTo(committed[<<h, o, i>>], h, o, i, log[o][i], trimmed[o][i], seen)
      BY <2>2 DEF CommittedOk
    <3> QED BY <1>1, <1>6, <3>2, <3>3
  <2> QED BY <2>1, <2>2
<1>9. PositionsOk(mm)'
  <2> SUFFICES ASSUME NEW c \in Consumers, NEW o \in 1 .. made', NEW i \in Numbers,
                      lives'[mm[o]] = 1, <<mm[o], i>> \in DOMAIN position'[c]
               PROVE  ReadUpTo(position'[c][<<mm[o], i>>], idOf'[joined'[c]], o, i, log'[o][i],
                               trimmed'[o][i], seen')
    BY DEF PositionsOk
  <2> DEFINE k == <<mm[o], i>>
  <2>0. o \in TopicObjects /\ o \in Nat
    OBVIOUS
  <2>1. CASE k \in DOMAIN position[c] /\ position'[c][k] = position[c][k]
    <3>1. joined[c] # 0 /\ joined'[c] = joined[c] /\ idOf'[joined[c]] = idOf[joined[c]]
      BY <1>2, <2>1
    <3>2. PICK p \in 1 .. made, j \in Numbers : k = <<nm[p], j>>
      BY <1>2, <2>1
    <3>3. o \in 1 .. made
      <4>1. nm[p] = mm[o]
        BY <3>2
      <4>2. ~(o > made)
        BY <1>1, <4>1
      <4> QED BY <2>0, <4>2
    <3>4. mm[o] = nm[o] /\ lives[nm[o]] = 1
      BY <1>1, <3>3
    <3>5. ReadUpTo(position[c][k], idOf[joined[c]], o, i, log[o][i], trimmed[o][i], seen)
      BY <2>1, <3>3, <3>4 DEF PositionsOk
    <3> QED BY <1>6, <2>0, <2>1, <3>1, <3>5
  <2>2. CASE c \in ms /\ \E y \in xs : /\ Key(y) = k
                                      /\ position'[c][k] = committed[<<g, y[2], y[3]>>]
    <3>1. PICK y \in xs : Key(y) = k /\ position'[c][k] = committed[<<g, y[2], y[3]>>]
      BY <2>2
    <3>2. y[2] \in 1 .. made' /\ mm[y[2]] = y[1] /\ y[1] = mm[o] /\ y[3] = i
      BY <3>1 DEF Key
    <3>3. y[2] = o
      BY <1>4, <3>2
    <3>4. ReadUpTo(committed[<<g, o, i>>], g, o, i, log'[o][i], trimmed'[o][i], seen')
      <4>1. ~(o > made') /\ g \in Groups
        BY <2>0, <2>2
      <4> QED BY <1>8, <2>0, <4>1 DEF CommittedOk
    <3> QED BY <2>2, <3>1, <3>2, <3>3, <3>4
  <2> QED BY <1>3, <2>1, <2>2
<1> QED BY <1>7, <1>8, <1>9

(* The log of a partition loses nothing, and what retention removes stays  *)
(* removed.                                                                *)
LEMMA AlwaysGrows ==
    ASSUME SpreadInv, ReadTypes, [Next]_vars
    PROVE  /\ Grows
           /\ trimmed' \in [TopicObjects -> [Numbers -> Nat]]
           /\ DOMAIN committed' = DOMAIN committed
<1>0. /\ log \in [TopicObjects -> [Numbers -> Seq(Origins)]]
      /\ trimmed \in [TopicObjects -> [Numbers -> Nat]]
      /\ \A o \in TopicObjects, i \in Numbers : Len(log[o][i]) \in Nat /\ trimmed[o][i] \in Nat
  BY DEF ReadTypes
<1>1. ASSUME UNCHANGED <<log, trimmed, committed>>, seen \subseteq seen'
      PROVE  /\ Grows
             /\ trimmed' \in [TopicObjects -> [Numbers -> Nat]]
             /\ DOMAIN committed' = DOMAIN committed
  BY <1>0, <1>1 DEF Grows
<1>2. CASE \E t \in scenario.topics, k \in scenario.keys \cup {NoKey}, i \in scenario.addresses :
              Publish(t, k, i)
  <2>1. PICK t \in scenario.topics, k \in scenario.keys \cup {NoKey}, i \in scenario.addresses :
           Publish(t, k, i)
    BY <1>2
  <2>2. UNCHANGED <<trimmed, committed, seen>>
    BY <2>1 DEF Publish
  <2>3. log' = log \/ \E o, j, x : log' = [log EXCEPT ![o] = [log[o] EXCEPT ![j] = Append(log[o][j], x)]]
    <3>1. CASE log' = log
      BY <3>1
    <3>2. ASSUME NEW o, NEW n, AppendTo(o, n, k, i)
          PROVE  \E j, x : log' = [log EXCEPT ![o] = [log[o] EXCEPT ![j] = Append(log[o][j], x)]]
      <4>1. CASE i < 0
        <5>1. log' = [log EXCEPT ![o] = [log[o] EXCEPT ![AssignPartition(k, n, counter[o])] =
                                            Append(log[o][AssignPartition(k, n, counter[o])], k)]]
          BY <3>2, <4>1 DEF AppendTo
        <5> QED BY <5>1
      <4>2. CASE ~(i < 0)
        <5>1. log' = [log EXCEPT ![o] = [log[o] EXCEPT ![i] = Append(log[o][i], Pinned)]]
          BY <3>2, <4>2 DEF AppendTo
        <5> QED BY <5>1
      <4> QED BY <4>1, <4>2
    <3>3. CASE topics[t] # 0 /\ AppendTo(topics[t], parts[topics[t]], k, i)
      BY <3>2, <3>3
    <3>4. CASE AppendTo(made + 1, scenario.default_partitions, k, i)
      BY <3>2, <3>4
    <3> QED BY <2>1, <3>1, <3>3, <3>4 DEF Publish
  <2>4. \A o \in TopicObjects, i2 \in Numbers : Len(log'[o][i2]) >= Len(log[o][i2])
    <3>1. CASE log' = log
      BY <1>0, <3>1
    <3>2. CASE \E o, j, x : log' = [log EXCEPT ![o] = [log[o] EXCEPT ![j] = Append(log[o][j], x)]]
      <4>1. PICK o, j, x : log' = [log EXCEPT ![o] = [log[o] EXCEPT ![j] = Append(log[o][j], x)]]
        BY <3>2
      <4> SUFFICES ASSUME NEW p \in TopicObjects, NEW m \in Numbers
                   PROVE  Len(log'[p][m]) >= Len(log[p][m])
        OBVIOUS
      <4>2. log[p][m] \in Seq(Origins) /\ log[p] \in [Numbers -> Seq(Origins)]
        BY <1>0
      <4>3. log'[p][m] = IF p = o /\ m = j THEN Append(log[p][m], x) ELSE log[p][m]
        BY <1>0, <4>1, <4>2
      <4>4. Len(Append(log[p][m], x)) = Len(log[p][m]) + 1 /\ Len(log[p][m]) \in Nat
        BY <4>2
      <4> QED BY <4>3, <4>4
    <3> QED BY <2>3, <3>1, <3>2
  <2> QED BY <1>0, <2>2, <2>4 DEF Grows
<1>3. CASE ApplyRetention
  <2>1. UNCHANGED <<log, committed, seen>>
    BY <1>3 DEF ApplyRetention
  <2> DEFINE full == {x \in Cells : /\ \E t \in Topics : topics[t] = x[1]
                                   /\ trimmed[x[1]][x[2]] < Len(log[x[1]][x[2]])}
  <2>2. PICK old \in [full -> 0 .. scenario.maxMessages] :
           /\ \A x \in full : old[x] \in trimmed[x[1]][x[2]] .. Len(log[x[1]][x[2]])
           /\ trimmed' = [o \in TopicObjects |-> [i \in Numbers |->
                 IF <<o, i>> \in full THEN old[<<o, i>>] ELSE trimmed[o][i]]]
    BY <1>3 DEF ApplyRetention
  <2>3. ASSUME NEW o \in TopicObjects, NEW i \in Numbers
        PROVE  trimmed'[o][i] \in Nat /\ trimmed'[o][i] >= trimmed[o][i]
    <3>1. trimmed'[o][i] = IF <<o, i>> \in full THEN old[<<o, i>>] ELSE trimmed[o][i]
      BY <2>2
    <3>2. <<o, i>> \in full => old[<<o, i>>] \in trimmed[o][i] .. Len(log[o][i])
      BY <2>2
    <3>3. Len(log[o][i]) \in Nat /\ trimmed[o][i] \in Nat
      BY <1>0
    <3> HIDE DEF full
    <3> QED BY <3>1, <3>2, <3>3
  <2>4. trimmed' \in [TopicObjects -> [Numbers -> Nat]]
    <3>1. /\ DOMAIN trimmed' = TopicObjects
          /\ \A o \in TopicObjects : DOMAIN trimmed'[o] = Numbers
          /\ trimmed' = [o \in TopicObjects |-> trimmed'[o]]
          /\ \A o \in TopicObjects : trimmed'[o] = [i \in Numbers |-> trimmed'[o][i]]
      <4> HIDE DEF full
      <4> QED BY <2>2
    <3> HIDE DEF full
    <3> QED BY ONLY <2>3, <3>1
  <2> QED BY <1>0, <2>1, <2>3, <2>4 DEF Grows
<1>4. CASE \E c \in Consumers : Poll(c)
  <2>1. UNCHANGED <<log, trimmed, committed>> /\ seen \subseteq seen'
    BY <1>4 DEF Poll, topicVars
  <2> QED BY <1>1, <2>1
<1>5. CASE \E c \in Consumers : Commit(c)
  <2>1. UNCHANGED <<log, trimmed, seen>> /\ DOMAIN committed' = DOMAIN committed
    BY <1>5 DEF Commit, topicVars
  <2> QED BY <1>0, <2>1 DEF Grows
<1>6. CASE UNCHANGED <<log, trimmed, committed, seen>>
  BY <1>1, <1>6
<1>7. ASSUME NEW t, NEW n, CreateTopic(t, n) \/ DeleteTopic(t)
      PROVE  UNCHANGED <<log, trimmed, committed, seen>>
  BY <1>7 DEF CreateTopic, DeleteTopic
<1>8. ASSUME NEW q, NEW p, CreateQueue(q, p) \/ DeleteQueue(q)
      PROVE  UNCHANGED <<log, trimmed, committed, seen>>
  BY <1>8 DEF CreateQueue, DeleteQueue, topicVars
<1>9. ASSUME NEW g, NEW d, CreateConsumerGroup(g) \/ DeleteConsumerGroup(g) \/ RemoveDeadMembers(g, d)
      PROVE  UNCHANGED <<log, trimmed, committed, seen>>
  BY <1>9 DEF CreateConsumerGroup, DeleteConsumerGroup, RemoveDeadMembers, topicVars
<1>10. ASSUME NEW g, NEW t, NEW c, Subscribe(g, t, c) \/ Join \/ Unsubscribe
       PROVE  UNCHANGED <<log, trimmed, committed, seen>>
  BY <1>10 DEF Subscribe, Join, Unsubscribe, topicVars
<1>11. ASSUME NEW c, LookUpGroup(c) \/ Leave(c)
       PROVE  UNCHANGED <<log, trimmed, committed, seen>>
  BY <1>11 DEF LookUpGroup, Leave, topicVars
<1>12. CASE UNCHANGED vars
  BY <1>6, <1>12 DEF vars, topicVars
<1> QED BY <1>2, <1>3, <1>4, <1>5, <1>6, <1>7, <1>8, <1>9, <1>10, <1>11, <1>12 DEF Next

-----------------------------------------------------------------------------
(* Every step keeps what was read behind the positions                     *)

(* What the steps do to names and homes: at most one topic is created, a   *)
(* group subscribes to registered topics only, nobody changes its group.   *)
NamesStep ==
    /\ \/ \E t \in Topics, n \in Nat : Create(t, n)
       \/ UNCHANGED <<made, lives>> /\ \A u \in Topics : topics'[u] \in {0, topics[u]}
    /\ \A o \in GroupObjects, u \in Topics :
          subscribed'[o][u] \in {0, subscribed[o][u], topics'[u]}
    /\ \A c \in Consumers : joined[c] # 0 =>
          joined'[c] = joined[c] /\ idOf'[joined[c]] = idOf[joined[c]]

(* ms are members of group g, and xs partitions of what groups subscribe   *)
(* to.                                                                     *)
GroupShare(g, ms, xs) ==
    /\ \A c \in ms : g \in Groups /\ idOf'[joined'[c]] = g /\ joined'[c] # 0
    /\ \A x \in xs : /\ x \in Topics \X TopicObjects \X Numbers
                     /\ \E o \in GroupObjects : x[2] = subscribed'[o][x[1]]

AllInv == GroupInv /\ SpreadInv /\ ReadInv

(* A step that shifts positions keeps the invariant.                       *)
LEMMA ReadShifts ==
    ASSUME AllInv, GroupInv', SpreadInv', [Next]_vars, committed' = committed, NamesStep,
           NEW g, NEW ms, NEW xs, Shift(g, ms, xs), GroupShare(g, ms, xs)
    PROVE  ReadInv'
<1>1. /\ ReadTypes /\ SpreadInv /\ Types /\ Types'
      /\ made \in Nat /\ made' \in Nat /\ 1 .. made' \subseteq TopicObjects
      /\ TopicObjects \subseteq Nat \ {0}
  <2>1. Types /\ Types' /\ ReadTypes /\ SpreadInv
    BY DEF AllInv, ReadInv, GroupInv
  <2>2. made \in Nat /\ TopicObjects \subseteq Nat \ {0}
    BY <2>1, InRange
  <2>3. made' \in 0 .. scenario'.maxTopicObjects /\ scenario' \in Scenarios
    BY <2>1 DEF Types, TopicTypes
  <2>4. /\ scenario'.maxTopicObjects \in Nat
        /\ 1 .. scenario'.maxTopicObjects \subseteq TopicObjects
    BY <2>3, ObjectsInRange
  <2>5. made' \in Nat /\ 1 .. made' \subseteq 1 .. scenario'.maxTopicObjects
    BY ONLY <2>3, <2>4
  <2> QED BY <2>1, <2>2, <2>4, <2>5
<1>2. PICK nm \in [1 .. made -> Topics] :
         NamesOk(nm) /\ HeldOk(nm) /\ CommittedOk(nm) /\ PositionsOk(nm)
  BY DEF AllInv, ReadInv
<1>3. PICK mm \in [1 .. made' -> Topics] : NamesOk(mm)' /\ Extends(nm, mm)
  BY <1>1, <1>2, NamesKept DEF NamesStep
<1>4. Grows /\ ReadTypes'
  <2>1. Grows /\ trimmed' \in [TopicObjects -> [Numbers -> Nat]]
        /\ DOMAIN committed' = DOMAIN committed
    BY <1>1, AlwaysGrows
  <2>2. log' \in [TopicObjects -> [Numbers -> Seq(Origins)]]
    BY DEF SpreadInv, SpreadTypes
  <2> QED BY <1>1, <2>1, <2>2 DEF ReadTypes, Shift
<1>5. ASSUME NEW x \in xs
      PROVE  x \in Topics \X (1 .. made') \X Numbers /\ mm[x[2]] = x[1]
  <2>1. PICK o \in GroupObjects : x[2] = subscribed'[o][x[1]]
    BY DEF GroupShare
  <2>2. x[1] \in Topics /\ x[2] \in TopicObjects /\ x[3] \in Numbers /\ x = <<x[1], x[2], x[3]>>
    BY DEF GroupShare
  <2>3. x[2] \in 0 .. made' /\ x[2] # 0
    <3>1. subscribed' \in [GroupObjects -> [Topics -> 0 .. made']]
      BY <1>1 DEF Types, GroupTypes
    <3>2. x[2] \in 0 .. made'
      BY <2>1, <2>2, <3>1
    <3> QED BY <1>1, <2>2, <3>2
  <2>4. x[2] \in 1 .. made'
    BY <1>1, <2>3
  <2>5. mm[x[2]] = x[1]
    BY <1>3, <2>1, <2>2, <2>3 DEF NamesOk
  <2> QED BY <2>2, <2>4, <2>5
<1>6. HeldOk(mm)' /\ CommittedOk(mm)' /\ PositionsOk(mm)'
  <2>1. \A c \in ms : g \in Groups /\ idOf'[joined'[c]] = g /\ joined'[c] # 0
    BY DEF GroupShare
  <2>2. \A c \in Consumers : joined[c] # 0 =>
               joined'[c] = joined[c] /\ idOf'[joined[c]] = idOf[joined[c]]
    BY DEF NamesStep
  <2> QED BY <1>1, <1>2, <1>3, <1>4, <1>5, <2>1, <2>2, ShiftKeeps
<1> QED BY <1>3, <1>4, <1>6 DEF ReadInv

(* A step that touches nobody's positions.                                 *)
LEMMA ReadStays ==
    ASSUME AllInv, GroupInv', SpreadInv', [Next]_vars, committed' = committed, NamesStep,
           assigned' = assigned, position' = position
    PROVE  ReadInv'
<1>1. \A c \in Consumers : \A x \in assigned[c] : Key(x) \in DOMAIN position[c]
  BY DEF AllInv, ReadInv, HeldOk
<1>2. DOMAIN position = Consumers
  BY DEF AllInv, ReadInv, ReadTypes
<1>3. Shift(0, {}, {})
  BY <1>1, <1>2 DEF Shift
<1>4. GroupShare(0, {}, {})
  BY DEF GroupShare
<1> QED BY <1>3, <1>4, ReadShifts

(* A rebalance of the group object o, whose id is g.                       *)
LEMMA ReadRebalances ==
    ASSUME AllInv, GroupInv', SpreadInv', [Next]_vars, committed' = committed, NamesStep,
           NEW o \in GroupObjects, NEW g \in Groups, idOf'[o] = g, NEW before,
           \A c \in Consumers : before[c] \subseteq assigned[c],
           Rebalance(g, members'[o], PartitionsOf(subscribed'[o], parts'), before)
    PROVE  ReadInv'
<1> DEFINE xs == PartitionsOf(subscribed'[o], parts')
           ms == members'[o]
<1>1. \A c \in Consumers : \A x \in assigned[c] : Key(x) \in DOMAIN position[c]
  BY DEF AllInv, ReadInv, HeldOk
<1>2. DOMAIN position = Consumers
  BY DEF AllInv, ReadInv, ReadTypes
<1>3. ms \subseteq Consumers
  BY DEF GroupInv, Types, GroupTypes
<1>4. \A c \in ms : joined'[c] = o
  BY DEF GroupInv, OneHome
<1>5. o # 0
  BY InRange DEF AllInv, GroupInv
<1>6. GroupShare(g, ms, xs)
  BY <1>4, <1>5 DEF GroupShare, PartitionsOf
<1> HIDE DEF xs, ms
<1>7. Shift(g, ms, xs)
  BY <1>1, <1>2, <1>3, RebalanceShifts DEF xs, ms
<1> QED BY <1>6, <1>7, ReadShifts

(* subscribe: the group found or created is the one registered as g.       *)
LEMMA ReadSubscribe ==
    ASSUME AllInv, GroupInv', SpreadInv', [Next]_vars,
           NEW g \in Groups, NEW t \in scenario.topics, NEW c \in Consumers, Subscribe(g, t, c)
    PROVE  ReadInv'
<1> DEFINE o == Found(g)
<1>0. /\ scenario.topics \subseteq Topics /\ scenario.default_partitions \in Nat
      /\ Types /\ RegisteredById
      /\ groups \in [Groups -> 0 .. formed] /\ joined \in [Consumers -> 0 .. formed]
      /\ formed \in Nat /\ subscribed \in [GroupObjects -> [Topics -> 0 .. made]]
      /\ DOMAIN idOf = GroupObjects
  <2>1. scenario \in Scenarios /\ Types /\ RegisteredById
    BY DEF AllInv, GroupInv, Types
  <2>2. scenario.topics \subseteq Topics /\ scenario.default_partitions \in Nat
    BY <2>1, BrokerAssumption
  <2>3. formed \in Nat
    BY <2>1, InRange
  <2> QED BY <2>1, <2>2, <2>3 DEF Types, GroupTypes
<1>1. /\ Create(t, scenario.default_partitions) \/ UNCHANGED <<topics, made, lives, parts>>
      /\ GetOrCreate(g)
      /\ subscribed' = [subscribed EXCEPT ![o][t] = topics'[t]]
      /\ Rebalance(g, members[o], PartitionsOf(subscribed'[o], parts'), assigned)
      /\ UNCHANGED <<members, joined, committed>>
  BY DEF Subscribe
<1>2. groups'[g] = o /\ o # 0
  BY <1>0, <1>1 DEF GetOrCreate, Found
<1>3. o \in GroupObjects /\ idOf'[o] = g
  <2>1. groups' \in [Groups -> 0 .. formed'] /\ Types'
    BY DEF GroupInv, Types, GroupTypes
  <2>2. formed' \in 0 .. scenario'.maxGroupObjects /\ scenario' \in Scenarios
    BY <2>1 DEF Types, GroupTypes
  <2>3. 1 .. scenario'.maxGroupObjects \subseteq GroupObjects
        /\ scenario'.maxGroupObjects \in Nat
    BY <2>2, ObjectsInRange
  <2>4. groups'[g] \in 0 .. formed'
    BY <2>1
  <2> HIDE DEF o
  <2>5. o \in 1 .. scenario'.maxGroupObjects
    BY ONLY <1>2, <2>2, <2>3, <2>4
  <2>6. idOf'[groups'[g]] = g
    BY <1>2 DEF GroupInv, RegisteredById
  <2> QED BY <1>2, <2>3, <2>5, <2>6
<1>4. NamesStep
  <2>1. \/ \E u \in Topics, n \in Nat : Create(u, n)
        \/ UNCHANGED <<made, lives>> /\ \A u \in Topics : topics'[u] \in {0, topics[u]}
    BY <1>0, <1>1
  <2> HIDE DEF o
  <2>2. \A p \in GroupObjects, u \in Topics :
           subscribed'[p][u] \in {0, subscribed[p][u], topics'[u]}
    BY <1>0, <1>1, <1>3
  <2>3. ASSUME NEW d \in Consumers, joined[d] # 0
        PROVE  joined'[d] = joined[d] /\ idOf'[joined[d]] = idOf[joined[d]]
    <3>1. joined[d] \in 0 .. formed
      BY <1>0
    <3>2. joined[d] # formed + 1 /\ joined[d] \in 1 .. formed
      BY <1>0, <2>3, <3>1
    <3>3. joined[d] \in GroupObjects
      BY <1>0, <3>2, InRange
    <3> QED BY <1>0, <1>1, <3>2, <3>3 DEF GetOrCreate
  <2> QED BY <2>1, <2>2, <2>3 DEF NamesStep
<1> HIDE DEF o
<1>5. Rebalance(g, members'[o], PartitionsOf(subscribed'[o], parts'), assigned)
  BY <1>1
<1> QED BY <1>1, <1>3, <1>4, <1>5, ReadRebalances

(* join, after the group has subscribed.                                   *)
LEMMA ReadJoin ==
    ASSUME AllInv, GroupInv', SpreadInv', [Next]_vars, Join
    PROVE  ReadInv'
<1> DEFINE o == Head(todo).group
           c == Head(todo).consumer
<1>1. /\ todo # <<>> /\ Head(todo).op = "join"
      /\ members' = [members EXCEPT ![o] = @ \cup {c}]
      /\ joined' = [joined EXCEPT ![c] = o]
      /\ Rebalance(idOf[o], members'[o], PartitionsOf(subscribed[o], parts), assigned)
      /\ UNCHANGED <<topics, made, lives, parts, idOf, subscribed, committed>>
  BY DEF Join, topicVars
<1>2. /\ todo \in Seq(Steps) /\ GroupTypes /\ OneHome /\ RegisteredById
      /\ joined \in [Consumers -> 0 .. formed]
  BY DEF AllInv, GroupInv, Types, GroupTypes
<1>3. /\ 1 \in DOMAIN todo /\ Head(todo) = todo[1] /\ Head(todo) \in Steps
  BY <1>1, <1>2
<1>4. o \in GroupObjects /\ c \in Consumers /\ o <= formed /\ joined[c] \in {0, o}
  BY <1>1, <1>2, <1>3 DEF Steps, OneHome
<1>5. formed \in Nat /\ o \in Nat \ {0}
  BY <1>4, InRange DEF AllInv, GroupInv
<1>6. o \in 1 .. formed
  BY ONLY <1>4, <1>5
<1>7. idOf[o] \in Groups
  BY <1>2, <1>6 DEF RegisteredById
<1> HIDE DEF o, c
<1>8. NamesStep
  <2>1. \A d \in Consumers : joined[d] # 0 => joined'[d] = joined[d]
    BY <1>1, <1>2, <1>4
  <2> QED BY <1>1, <2>1 DEF NamesStep
<1>9. /\ idOf'[o] = idOf[o] /\ committed' = committed
      /\ Rebalance(idOf[o], members'[o], PartitionsOf(subscribed'[o], parts'), assigned)
  BY <1>1
<1> QED BY <1>4, <1>7, <1>8, <1>9, ReadRebalances

(* A group unsubscribes from a deleted topic.                              *)
LEMMA ReadUnsubscribe ==
    ASSUME AllInv, GroupInv', SpreadInv', [Next]_vars, Unsubscribe
    PROVE  ReadInv'
<1> DEFINE o == Head(todo).group
<1>1. /\ todo # <<>> /\ Head(todo).op = "unsubscribe"
      /\ subscribed' = [subscribed EXCEPT ![o][Head(todo).topic] = 0]
      /\ Rebalance(idOf[o], members[o], PartitionsOf(subscribed'[o], parts), assigned)
      /\ UNCHANGED <<topics, made, lives, parts, idOf, members, joined, committed>>
  BY DEF Unsubscribe, topicVars
<1>2. /\ todo \in Seq(Steps) /\ GroupTypes /\ OneHome /\ RegisteredById
      /\ subscribed \in [GroupObjects -> [Topics -> 0 .. made]]
  BY DEF AllInv, GroupInv, Types, GroupTypes
<1>3. /\ 1 \in DOMAIN todo /\ Head(todo) = todo[1] /\ Head(todo) \in Steps
  BY <1>1, <1>2
<1>4. o \in GroupObjects /\ o <= formed
  BY <1>1, <1>2, <1>3 DEF Steps, OneHome
<1>5. formed \in Nat /\ o \in Nat \ {0}
  BY <1>4, InRange DEF AllInv, GroupInv
<1>6. o \in 1 .. formed
  BY ONLY <1>4, <1>5
<1>7. idOf[o] \in Groups
  BY <1>2, <1>6 DEF RegisteredById
<1> HIDE DEF o
<1>8. NamesStep
  <2>1. \A p \in GroupObjects, u \in Topics : subscribed'[p][u] \in {0, subscribed[p][u]}
    BY <1>1, <1>2, <1>4
  <2> QED BY <1>1, <2>1 DEF NamesStep
<1>9. /\ idOf'[o] = idOf[o] /\ committed' = committed
      /\ Rebalance(idOf[o], members'[o], PartitionsOf(subscribed'[o], parts'), assigned)
  BY <1>1
<1> QED BY <1>4, <1>7, <1>8, <1>9, ReadRebalances

(* remove_dead_members.                                                    *)
LEMMA ReadRemove ==
    ASSUME AllInv, GroupInv', SpreadInv', [Next]_vars,
           NEW g \in Groups, NEW dead \in SUBSET Consumers, RemoveDeadMembers(g, dead)
    PROVE  ReadInv'
<1> DEFINE o == groups[g]
           before == [c \in Consumers |-> IF c \in dead THEN {} ELSE assigned[c]]
<1>1. /\ groups[g] # 0
      /\ Rebalance(g, members'[o], PartitionsOf(subscribed[o], parts), before)
      /\ UNCHANGED <<topics, made, lives, parts, idOf, subscribed, joined, committed>>
  BY DEF RemoveDeadMembers, topicVars
<1>2. g \in Registered(groups)
  BY <1>1 DEF Registered, AllInv, GroupInv, Types, GroupTypes
<1>3. o \in GroupObjects /\ idOf[o] = g
  BY <1>1, <1>2, InRange DEF AllInv, GroupInv, RegisteredById
<1>4. \A c \in Consumers : before[c] \subseteq assigned[c]
  OBVIOUS
<1> HIDE DEF o, before
<1>5. NamesStep
  BY <1>1 DEF NamesStep
<1>6. /\ idOf'[o] = g /\ committed' = committed
      /\ Rebalance(g, members'[o], PartitionsOf(subscribed'[o], parts'), before)
  BY <1>1, <1>3
<1> QED BY <1>3, <1>4, <1>5, <1>6, ReadRebalances

(* leave, of the group object that was looked up.                          *)
LEMMA ReadLeave ==
    ASSUME AllInv, GroupInv', SpreadInv', [Next]_vars, NEW c \in Consumers, Leave(c)
    PROVE  ReadInv'
<1> DEFINE o == leaving[c]
           before == [assigned EXCEPT ![c] = {}]
<1>1. /\ leaving[c] # 0
      /\ IF c \in members[o]
           THEN Rebalance(idOf[o], members'[o], PartitionsOf(subscribed[o], parts), before)
           ELSE UNCHANGED <<assigned, position>>
      /\ UNCHANGED <<topics, made, lives, parts, idOf, subscribed, joined, committed>>
  BY DEF Leave, topicVars
<1>2. /\ leaving \in [Consumers -> 0 .. formed] /\ RegisteredById /\ Types
      /\ DOMAIN assigned = Consumers
  BY DEF AllInv, GroupInv, Types, GroupTypes
<1>3. formed \in Nat /\ 1 .. formed \subseteq GroupObjects
  BY <1>2, InRange
<1>4. o \in 1 .. formed
  BY <1>1, <1>2, <1>3
<1>5. o \in GroupObjects /\ idOf[o] \in Groups
  BY <1>2, <1>3, <1>4 DEF RegisteredById
<1>6. \A d \in Consumers : before[d] \subseteq assigned[d]
  BY <1>2
<1> HIDE DEF o, before
<1>7. NamesStep
  BY <1>1 DEF NamesStep
<1>8. CASE c \in members[o]
  <2>1. /\ idOf'[o] = idOf[o] /\ committed' = committed
        /\ Rebalance(idOf[o], members'[o], PartitionsOf(subscribed'[o], parts'), before)
    BY <1>1, <1>8
  <2> QED BY <1>5, <1>6, <1>7, <2>1, ReadRebalances
<1>9. CASE c \notin members[o]
  BY <1>1, <1>7, <1>9, ReadStays
<1> QED BY <1>8, <1>9

(* A position that is the end of the partition, once all that was left to  *)
(* read from the old one on has been returned.                             *)
LEMMA ReadToTheEnd ==
    ASSUME NEW v, NEW g, NEW o, NEW i, NEW l \in Seq(Origins), NEW tr \in Nat, NEW sn, NEW sm,
           ReadUpTo(v, g, o, i, l, tr, sn), sn \subseteq sm,
           {<<g, o, i, n>> : n \in Max({v, tr}) .. Len(l) - 1} \subseteq sm
    PROVE  ReadUpTo(Len(l), g, o, i, l, tr, sm)
<1>1. v \in Nat /\ Len(l) \in Nat
  BY DEF ReadUpTo
<1>2. Max({v, tr}) \in {v, tr}
  <2>1. IsFiniteSet({v, tr})
    <3>1. IsFiniteSet({v})
      BY FS_Singleton
    <3>2. IsFiniteSet({v} \cup {tr}) /\ {v, tr} = {v} \cup {tr}
      BY <3>1, FS_AddElement
    <3> QED BY <3>2
  <2> QED BY <1>1, <2>1, GreatestNumber
<1>3. ASSUME NEW n \in tr .. Len(l) - 1
      PROVE  <<g, o, i, n>> \in sm
  <2>1. CASE n < v
    BY <2>1 DEF ReadUpTo
  <2>2. CASE ~(n < v)
    <3>1. n \in Max({v, tr}) .. Len(l) - 1
      BY <1>1, <1>2, <2>2
    <3> QED BY <3>1
  <2> QED BY <2>1, <2>2
<1> QED BY <1>1, <1>3 DEF ReadUpTo

(* poll.                                                                   *)
LEMMA ReadPoll ==
    ASSUME AllInv, GroupInv', SpreadInv', [Next]_vars, NEW c \in Consumers, Poll(c)
    PROVE  ReadInv'
<1> DEFINE got == {x \in assigned[c] : Unread(c, x) # {}}
           end(k) == CurrentOffset(CHOOSE x \in got : Key(x) = k)
           moved == [k \in DOMAIN position[c] |->
                        IF \E x \in got : Key(x) = k THEN end(k) ELSE position[c][k]]
<1>1. /\ position' = [position EXCEPT ![c] = moved]
      /\ seen' = seen \cup UNION {Unread(c, x) : x \in got}
      /\ UNCHANGED <<topics, made, lives, log, trimmed, subscribed, idOf, joined, assigned,
                     committed>>
  BY DEF Poll, topicVars, groupVars
<1>2. ReadTypes /\ SpreadInv /\ Types
  BY DEF AllInv, ReadInv, GroupInv
<1>3. PICK nm \in [1 .. made -> Topics] :
         NamesOk(nm) /\ HeldOk(nm) /\ CommittedOk(nm) /\ PositionsOk(nm)
  BY DEF AllInv, ReadInv
<1>4. made \in Nat /\ 1 .. made \subseteq TopicObjects /\ TopicObjects \subseteq Nat \ {0}
  BY <1>2, InRange
<1>5. /\ log \in [TopicObjects -> [Numbers -> Seq(Origins)]]
      /\ trimmed \in [TopicObjects -> [Numbers -> Nat]]
      /\ DOMAIN position = Consumers
  BY <1>2 DEF ReadTypes
<1>6. /\ DOMAIN position' = Consumers
      /\ \A d \in Consumers : DOMAIN position'[d] = DOMAIN position[d]
      /\ \A d \in Consumers : d # c => position'[d] = position[d]
      /\ position'[c] = moved
      /\ seen \subseteq seen'
  BY <1>1, <1>5
<1>7. ReadTypes'
  BY <1>1, <1>2, <1>6 DEF ReadTypes
<1>8. NamesOk(nm)'
  BY <1>1, <1>3 DEF NamesOk
<1>9. HeldOk(nm)'
  BY <1>1, <1>3, <1>6 DEF HeldOk, Key
<1>10. ASSUME NEW v, NEW h, NEW o \in TopicObjects, NEW i \in Numbers,
              ReadUpTo(v, h, o, i, log[o][i], trimmed[o][i], seen)
       PROVE  ReadUpTo(v, h, o, i, log[o][i], trimmed[o][i], seen')
  <2>1. log[o][i] \in Seq(Origins) /\ trimmed[o][i] \in Nat /\ Len(log[o][i]) \in Nat
    BY <1>5
  <2>2. Len(log[o][i]) >= Len(log[o][i]) /\ trimmed[o][i] >= trimmed[o][i]
    BY <2>1
  <2> QED BY <1>6, <1>10, <2>1, <2>2, ReadUpToKept
<1>11. CommittedOk(nm)'
  <2> SUFFICES ASSUME NEW h \in Groups, NEW o \in TopicObjects, NEW i \in Numbers
               PROVE  IF o > made THEN committed[<<h, o, i>>] = 0
                      ELSE lives[nm[o]] = 1 =>
                              ReadUpTo(committed[<<h, o, i>>], h, o, i, log[o][i],
                                       trimmed[o][i], seen')
    BY <1>1 DEF CommittedOk
  <2> QED BY <1>3, <1>10 DEF CommittedOk
<1>12. PositionsOk(nm)'
  <2> SUFFICES ASSUME NEW d \in Consumers, NEW o \in 1 .. made, NEW i \in Numbers,
                      lives[nm[o]] = 1, <<nm[o], i>> \in DOMAIN position'[d]
               PROVE  ReadUpTo(position'[d][<<nm[o], i>>], idOf[joined[d]], o, i, log[o][i],
                               trimmed[o][i], seen')
    BY <1>1 DEF PositionsOk
  <2> DEFINE k == <<nm[o], i>>
  <2>1. o \in TopicObjects /\ k \in DOMAIN position[d]
    BY <1>4, <1>6
  <2>2. ReadUpTo(position[d][k], idOf[joined[d]], o, i, log[o][i], trimmed[o][i], seen)
    BY <1>3, <2>1 DEF PositionsOk
  <2>3. CASE position'[d][k] = position[d][k]
    BY <1>10, <2>1, <2>2, <2>3
  <2>4. CASE d = c /\ \E x \in got : Key(x) = k
    <3> DEFINE y == CHOOSE x \in got : Key(x) = k
    <3>1. y \in got /\ Key(y) = k
      BY <2>4
    <3>2. position'[c][k] = CurrentOffset(y)
      BY <1>6, <2>1, <2>4
    <3> HIDE DEF y
    <3>3. y \in assigned[c]
      BY <3>1
    <3>4. y \in Topics \X (1 .. made) \X Numbers /\ nm[y[2]] = y[1]
      BY <1>3, <3>3 DEF HeldOk
    <3>5. y[1] = nm[o] /\ y[3] = i /\ y[2] \in 1 .. made
      BY <3>1, <3>4 DEF Key
    <3>6. y[2] = o
      BY <1>3, <3>4, <3>5 DEF NamesOk
    <3>7. Unread(c, y) \subseteq seen'
      BY <1>1, <3>1
    <3>8. {<<idOf[joined[c]], o, i, n>> :
              n \in Max({position[c][k], trimmed[o][i]}) .. Len(log[o][i]) - 1} \subseteq seen'
      <4>1. Unread(c, y) = {<<idOf[joined[c]], y[2], y[3], n>> :
                n \in Max({position[c][Key(y)], trimmed[y[2]][y[3]]}) .. Len(log[y[2]][y[3]]) - 1}
        BY DEF Unread, CurrentOffset
      <4> HIDE DEF got, k
      <4> QED BY <3>1, <3>5, <3>6, <3>7, <4>1
    <3>9. log[o][i] \in Seq(Origins) /\ trimmed[o][i] \in Nat
      BY <1>5, <2>1
    <3> HIDE DEF got, k
    <3>10. ReadUpTo(Len(log[o][i]), idOf[joined[c]], o, i, log[o][i], trimmed[o][i], seen')
      BY <1>6, <2>2, <2>4, <3>8, <3>9, ReadToTheEnd
    <3>11. position'[d][k] = Len(log[o][i])
      BY <2>4, <3>2, <3>5, <3>6 DEF CurrentOffset
    <3> QED BY <2>4, <3>10, <3>11 DEF k
  <2>5. position'[d][k] = position[d][k] \/ (d = c /\ \E x \in got : Key(x) = k)
    <3>1. CASE d # c
      BY <1>6, <3>1
    <3>2. CASE d = c
      BY <1>6, <2>1, <3>2
    <3> QED BY <3>1, <3>2
  <2> QED BY <2>3, <2>4, <2>5
<1> QED BY <1>1, <1>3, <1>7, <1>8, <1>9, <1>11, <1>12 DEF ReadInv

(* commit.                                                                 *)
LEMMA ReadCommit ==
    ASSUME AllInv, GroupInv', SpreadInv', [Next]_vars, NEW c \in Consumers, Commit(c)
    PROVE  ReadInv'
<1> DEFINE cell(x) == <<idOf[joined[c]], x[2], x[3]>>
<1>1. /\ committed' = [y \in DOMAIN committed |->
              IF \E x \in assigned[c] : cell(x) = y
                THEN position[c][Key(CHOOSE x \in assigned[c] : cell(x) = y)]
                ELSE committed[y]]
      /\ UNCHANGED <<topics, made, lives, log, trimmed, subscribed, idOf, joined, assigned,
                     position, seen>>
  BY DEF Commit, topicVars, groupVars, consumerVars
<1>2. ReadTypes /\ SpreadInv /\ Types
  BY DEF AllInv, ReadInv, GroupInv
<1>3. PICK nm \in [1 .. made -> Topics] :
         NamesOk(nm) /\ HeldOk(nm) /\ CommittedOk(nm) /\ PositionsOk(nm)
  BY DEF AllInv, ReadInv
<1>4. made \in Nat /\ 1 .. made \subseteq TopicObjects /\ TopicObjects \subseteq Nat \ {0}
  BY <1>2, InRange
<1>5. ReadTypes'
  BY <1>1, <1>2 DEF ReadTypes
<1>6. NamesOk(nm)'
  BY <1>1, <1>3 DEF NamesOk
<1>7. HeldOk(nm)'
  BY <1>1, <1>3 DEF HeldOk, Key
<1>8. PositionsOk(nm)'
  BY <1>1, <1>3 DEF PositionsOk
<1>9. CommittedOk(nm)'
  <2> SUFFICES ASSUME NEW h \in Groups, NEW o \in TopicObjects, NEW i \in Numbers
               PROVE  IF o > made THEN committed'[<<h, o, i>>] = 0
                      ELSE lives[nm[o]] = 1 =>
                              ReadUpTo(committed'[<<h, o, i>>], h, o, i, log[o][i],
                                       trimmed[o][i], seen)
    BY <1>1 DEF CommittedOk
  <2> DEFINE y == <<h, o, i>>
  <2>1. y \in DOMAIN committed
    BY <1>2 DEF ReadTypes
  <2>2. CASE \E x \in assigned[c] : cell(x) = y
    <3> DEFINE z == CHOOSE x \in assigned[c] : cell(x) = y
    <3>1. z \in assigned[c] /\ cell(z) = y
      BY <2>2
    <3>2. committed'[y] = position[c][Key(z)]
      BY <1>1, <2>1, <2>2
    <3> HIDE DEF z
    <3>3. /\ z \in Topics \X (1 .. made) \X Numbers /\ nm[z[2]] = z[1]
          /\ Key(z) \in DOMAIN position[c]
      BY <1>3, <3>1 DEF HeldOk
    <3>4. h = idOf[joined[c]] /\ z[2] = o /\ z[3] = i
      BY <3>1
    <3>5. o \in 1 .. made /\ Key(z) = <<nm[o], i>>
      BY <3>3, <3>4 DEF Key
    <3>6. lives[nm[o]] = 1 =>
             ReadUpTo(position[c][<<nm[o], i>>], h, o, i, log[o][i], trimmed[o][i], seen)
      BY <1>3, <3>3, <3>4, <3>5 DEF PositionsOk
    <3>7. ~(o > made)
      BY <1>4, <3>5
    <3> QED BY <3>2, <3>5, <3>6, <3>7
  <2>3. CASE ~ \E x \in assigned[c] : cell(x) = y
    <3>1. committed'[y] = committed[y]
      BY <1>1, <2>1, <2>3
    <3> QED BY <1>3, <3>1 DEF CommittedOk
  <2> QED BY <2>2, <2>3
<1> QED BY <1>1, <1>3, <1>5, <1>6, <1>7, <1>8, <1>9 DEF ReadInv

(* The invariant holds at the start.                                       *)
LEMMA ReadInit == Init => ReadInv
<1> SUFFICES ASSUME Init PROVE ReadInv
  OBVIOUS
<1>1. /\ made = 0 /\ topics = [t \in Topics |-> 0] /\ lives = [t \in Topics |-> 0]
      /\ subscribed = [o \in GroupObjects |-> [t \in Topics |-> 0]]
  BY DEF Init
<1>2. /\ log = [o \in TopicObjects |-> [i \in Numbers |-> <<>>]]
      /\ trimmed = [o \in TopicObjects |-> [i \in Numbers |-> 0]]
      /\ committed = [x \in Groups \X TopicObjects \X Numbers |-> 0]
      /\ position = [c \in Consumers |-> <<>>] /\ assigned = [c \in Consumers |-> {}]
  BY DEF Init
<1>3. ReadTypes
  BY ONLY <1>2 DEF ReadTypes
<1>4. 1 .. made = {}
  BY ONLY <1>1
<1>5. PICK nm \in [1 .. made -> Topics] : TRUE
  <2>1. [o \in 1 .. made |-> o] \in [1 .. made -> Topics]
    BY <1>4
  <2> QED BY <2>1
<1>6. NamesOk(nm)
  BY ONLY <1>1, <1>4, <1>5 DEF NamesOk
<1>7. HeldOk(nm)
  BY ONLY <1>2 DEF HeldOk
<1>8. CommittedOk(nm)
  <2>1. TopicObjects \subseteq Nat \ {0}
    BY ObjectsInRange DEF Init
  <2>2. \A o \in TopicObjects : o > made
    BY <1>1, <2>1
  <2> QED BY ONLY <1>2, <2>2 DEF CommittedOk
<1>9. PositionsOk(nm)
  BY ONLY <1>4 DEF PositionsOk
<1> QED BY <1>3, <1>6, <1>7, <1>8, <1>9 DEF ReadInv

(* No step leaves it.                                                      *)
LEMMA ReadStep == AllInv /\ GroupInv' /\ SpreadInv' /\ [Next]_vars => ReadInv'
<1> SUFFICES ASSUME AllInv, GroupInv', SpreadInv', [Next]_vars PROVE ReadInv'
  OBVIOUS
<1>0. /\ scenario \in Scenarios /\ scenario.topics \subseteq Topics
      /\ scenario.partitions \subseteq Nat /\ scenario.default_partitions \in Nat
  BY BrokerAssumption DEF AllInv, GroupInv, Types
<1>1. ASSUME UNCHANGED <<subscribed, consumerVars, committed>>,
             idOf' = idOf,
             \/ \E t \in Topics, n \in Nat : Create(t, n)
             \/ UNCHANGED <<made, lives>> /\ \A u \in Topics : topics'[u] \in {0, topics[u]}
      PROVE  ReadInv'
  <2>1. NamesStep
    BY <1>1 DEF NamesStep, consumerVars
  <2> QED BY <1>1, <2>1, ReadStays DEF consumerVars
<1>2. CASE \E t \in scenario.topics, n \in scenario.partitions : CreateTopic(t, n)
  BY <1>0, <1>1, <1>2 DEF CreateTopic, groupVars
<1>3. CASE \E t \in Topics : DeleteTopic(t)
  <2>1. \A u \in Topics : topics'[u] \in {0, topics[u]}
    BY <1>3 DEF DeleteTopic, AllInv, GroupInv, Types, TopicTypes
  <2> QED BY <1>1, <1>3, <2>1 DEF DeleteTopic, groupVars
<1>4. CASE \E t \in scenario.topics, k \in scenario.keys \cup {NoKey}, i \in scenario.addresses :
              Publish(t, k, i)
  <2>1. PICK t \in scenario.topics :
           /\ \/ Create(t, scenario.default_partitions)
              \/ UNCHANGED <<topics, made, lives, parts>>
           /\ UNCHANGED <<groupVars, consumerVars, committed>>
    BY <1>4 DEF Publish
  <2> QED BY <1>0, <1>1, <2>1 DEF groupVars
<1>5. CASE UNCHANGED <<topicVars, groupVars, consumerVars, committed>>
  BY <1>1, <1>5 DEF topicVars, groupVars
<1>6. CASE ApplyRetention
  BY <1>1, <1>6 DEF ApplyRetention, groupVars
<1>7. CASE \E q \in scenario.queues, priority \in BOOLEAN : CreateQueue(q, priority)
  BY <1>5, <1>7 DEF CreateQueue
<1>8. CASE \E q \in Queues : DeleteQueue(q)
  BY <1>5, <1>8 DEF DeleteQueue
<1>9. CASE \E g \in Groups : CreateConsumerGroup(g)
  <2>1. PICK g \in Groups : GetOrCreate(g)
    BY <1>9 DEF CreateConsumerGroup
  <2>2. UNCHANGED <<topicVars, members, subscribed, consumerVars, committed>>
    BY <1>9 DEF CreateConsumerGroup
  <2>3. Types /\ DOMAIN idOf = GroupObjects /\ joined \in [Consumers -> 0 .. formed]
    BY DEF AllInv, GroupInv, Types, GroupTypes
  <2>4. formed \in Nat /\ 1 .. formed \subseteq GroupObjects
    BY <2>3, InRange
  <2>5. ASSUME NEW d \in Consumers, joined[d] # 0
        PROVE  joined'[d] = joined[d] /\ idOf'[joined[d]] = idOf[joined[d]]
    <3>1. joined[d] \in 0 .. formed
      BY <2>3
    <3>2. joined[d] # formed + 1 /\ joined[d] \in GroupObjects
      BY <2>4, <2>5, <3>1
    <3> QED BY <2>1, <2>2, <2>3, <3>2 DEF GetOrCreate, consumerVars
  <2>6. NamesStep
    BY <2>2, <2>5 DEF NamesStep, topicVars
  <2> QED BY <2>2, <2>6, ReadStays DEF consumerVars
<1>10. CASE \E g \in Groups : DeleteConsumerGroup(g)
  BY <1>1, <1>10 DEF DeleteConsumerGroup, topicVars
<1>11. CASE \E g \in Groups, dead \in SUBSET Consumers : RemoveDeadMembers(g, dead)
  BY <1>11, ReadRemove
<1>12. CASE \E g \in Groups, t \in scenario.topics, c \in Consumers : Subscribe(g, t, c)
  BY <1>12, ReadSubscribe
<1>13. CASE Join \/ Unsubscribe
  BY <1>13, ReadJoin, ReadUnsubscribe
<1>14. CASE \E c \in Consumers : LookUpGroup(c)
  BY <1>5, <1>14 DEF LookUpGroup
<1>15. CASE \E c \in Consumers : Leave(c) \/ Poll(c) \/ Commit(c)
  BY <1>15, ReadLeave, ReadPoll, ReadCommit
<1>16. CASE UNCHANGED vars
  BY <1>5, <1>16 DEF vars
<1> QED BY <1>2, <1>3, <1>4, <1>6, <1>7, <1>8, <1>9, <1>10, <1>11, <1>12, <1>13, <1>14, <1>15,
           <1>16 DEF Next

(* No position of any consumer is past a message its group has not been    *)
(* given, in a topic that is the first of its name: polls, commits, joins, *)
(* leaves, removals, retention and the deletion of groups, interleaved in  *)
(* any way (consumer.py 93-128).                                           *)
THEOREM NothingSkipped == Spec => []UnreadIsAhead
<1>1. Spec => []SpreadInv
  BY SpreadInit, SpreadStep, PTL DEF Spec
<1>2. GroupInv /\ SpreadInv /\ ReadInv /\ GroupInv' /\ SpreadInv' /\ [Next]_vars => ReadInv'
  BY ReadStep DEF AllInv
<1>3. Spec => []ReadInv
  BY ReadInit, <1>1, <1>2, GroupsAlways, PTL DEF Spec
<1> QED BY <1>3, GroupsAlways, ReadInvSuffices, PTL

=============================================================================
