------------------------------ MODULE LogProofs ------------------------------
(***************************************************************************)
(* Proofs about the two logs.  A partition: its offsets, its reads and     *)
(* what compaction and retention leave in it, for every log.  The          *)
(* write-ahead log: reads across any number of segments, durability and    *)
(* the consumer's position.                                                *)
(***************************************************************************)
EXTENDS Logs, SequenceTheorems, WellFoundedInduction, TLAPS

(* Every nonempty set of natural numbers has a least element.              *)
LEMMA LeastNumber ==
    ASSUME NEW T, T \subseteq Nat, T # {}
    PROVE  \E x \in T : \A y \in T : x <= y
<1> DEFINE R == {ss \in Nat \X Nat : ss[1] < ss[2]}
<1>1. IsWellFoundedOn(R, Nat)
  BY NatLessThanWellFounded DEF OpToRel
<1>2. PICK x \in T : \A y \in T : ~ (<<y, x>> \in R)
  <2> HIDE DEF R
  <2> QED BY <1>1, WFMin
<1>3. \A y \in T : ~ (y < x)
  BY <1>2
<1> QED BY <1>3

(* A set of numbers that holds 0 and with each number the next holds all:  *)
(* the form in which the loops below are followed.                         *)
LEMMA AllNumbers ==
    ASSUME NEW G, 0 \in G, \A n \in Nat : n \in G => n + 1 \in G
    PROVE  Nat \subseteq G
<1> DEFINE Bad == Nat \ G
<1> SUFFICES ASSUME Bad # {} PROVE FALSE
  OBVIOUS
<1>1. PICK x \in Bad : \A y \in Bad : x <= y
  <2>1. Bad \subseteq Nat
    OBVIOUS
  <2> HIDE DEF Bad
  <2> QED BY <2>1, LeastNumber
<1>2. x \in Nat /\ x # 0 /\ x \notin G
  OBVIOUS
<1>3. x - 1 \in Nat /\ ~(x <= x - 1) /\ (x - 1) + 1 = x
  BY <1>2
<1>4. x - 1 \in G
  BY <1>1, <1>3
<1> QED BY <1>2, <1>3, <1>4

(* The elements of a sequence to which append has added one.               *)
LEMMA AppendElements ==
    ASSUME NEW S, NEW s \in Seq(S), NEW x \in S
    PROVE  /\ Append(s, x) \in Seq(S)
           /\ Len(Append(s, x)) = Len(s) + 1
           /\ DOMAIN Append(s, x) = 1 .. (Len(s) + 1)
           /\ Append(s, x)[Len(s) + 1] = x
           /\ \A j \in 1 .. Len(s) : Append(s, x)[j] = s[j]
  OBVIOUS

(* The elements of a sequence from which retention has cut the first k.    *)
LEMMA SuffixElements ==
    ASSUME NEW S, NEW s \in Seq(S), NEW k \in 1 .. Len(s)
    PROVE  /\ SubSeq(s, k + 1, Len(s)) \in Seq(S)
           /\ Len(SubSeq(s, k + 1, Len(s))) = Len(s) - k
           /\ DOMAIN SubSeq(s, k + 1, Len(s)) = 1 .. (Len(s) - k)
           /\ \A j \in 1 .. (Len(s) - k) : SubSeq(s, k + 1, Len(s))[j] = s[k + j]
  <1>1. k \in Nat /\ Len(s) \in Nat /\ k <= Len(s)
    OBVIOUS
  <1>2. QED
    BY <1>1

-----------------------------------------------------------------------------
(* f is the function that Ascending computes, up to n.                     *)
AscendingBy(f, K, n) ==
    f = [i \in 0 .. n |-> IF i = 0 THEN <<>>
                          ELSE IF i \in K THEN Append(f[i - 1], i) ELSE f[i - 1]]

(* There is such a function.                                               *)
LEMMA AscendingExists ==
    ASSUME NEW K, NEW n \in Nat
    PROVE  \E f : AscendingBy(f, K, n)
<1> DEFINE G == {k \in Nat : \E f : AscendingBy(f, K, k)}
<1>1. 0 \in G
  <2> DEFINE f == [i \in 0 .. 0 |-> <<>>]
  <2>1. AscendingBy(f, K, 0)
    BY DEF AscendingBy
  <2> QED BY <2>1
<1>2. ASSUME NEW k \in Nat, k \in G
      PROVE  k + 1 \in G
  <2>1. PICK g : AscendingBy(g, K, k)
    BY <1>2
  <2> DEFINE e == IF k + 1 \in K THEN Append(g[k], k + 1) ELSE g[k]
             f == [i \in 0 .. k + 1 |-> IF i = k + 1 THEN e ELSE g[i]]
  <2>2. \A i \in 0 .. k : g[i] = IF i = 0 THEN <<>>
                                 ELSE IF i \in K THEN Append(g[i - 1], i) ELSE g[i - 1]
    BY <2>1 DEF AscendingBy
  <2>3. ASSUME NEW i \in 0 .. k + 1
        PROVE  f[i] = IF i = 0 THEN <<>>
                      ELSE IF i \in K THEN Append(f[i - 1], i) ELSE f[i - 1]
    <3>1. CASE i = k + 1
      <4>1. i # 0 /\ i - 1 = k /\ k \in 0 .. k + 1 /\ k # k + 1
        BY <3>1
      <4>2. f[i] = e /\ f[i - 1] = g[k]
        BY <3>1, <4>1
      <4> HIDE DEF f
      <4> QED BY <3>1, <4>1, <4>2
    <3>2. CASE i # k + 1
      <4>1. i \in 0 .. k /\ (i # 0 => i - 1 \in 0 .. k + 1 /\ i - 1 # k + 1)
        BY <3>2
      <4>2. f[i] = g[i] /\ (i # 0 => f[i - 1] = g[i - 1])
        BY <3>2, <4>1
      <4> HIDE DEF f
      <4> QED BY <2>2, <4>1, <4>2
    <3> QED BY <3>1, <3>2
  <2>4. f = [i \in 0 .. k + 1 |-> f[i]]
    OBVIOUS
  <2> HIDE DEF f
  <2>5. AscendingBy(f, K, k + 1)
    BY <2>3, <2>4 DEF AscendingBy
  <2> QED BY <2>5
<1> HIDE DEF G
<1>3. n \in G
  BY <1>1, <1>2, AllNumbers
<1> QED BY <1>3 DEF G

(* Ascending(K, n) is what its name says: rising, and all of K up to n.    *)
LEMMA AscendingWorks ==
    ASSUME NEW K, NEW n \in Nat
    PROVE  /\ Ascending(K, n) \in Seq(1 .. n)
           /\ \A i, j \in DOMAIN Ascending(K, n) :
                 i < j => Ascending(K, n)[i] < Ascending(K, n)[j]
           /\ Range(Ascending(K, n)) = K \cap 1 .. n
<1> DEFINE f == CHOOSE kept : AscendingBy(kept, K, n)
<1>1. Ascending(K, n) = f[n]
  BY DEF Ascending, AscendingBy
<1>2. AscendingBy(f, K, n)
  BY AscendingExists
<1> HIDE DEF f
<1>3. \A i \in 0 .. n : f[i] = IF i = 0 THEN <<>>
                               ELSE IF i \in K THEN Append(f[i - 1], i) ELSE f[i - 1]
  BY <1>2 DEF AscendingBy
<1> DEFINE Good(m) == /\ f[m] \in Seq(1 .. m)
                      /\ \A i, j \in 1 .. Len(f[m]) : i < j => f[m][i] < f[m][j]
                      /\ Range(f[m]) = K \cap 1 .. m
           G == {m \in Nat : m <= n => Good(m)}
<1>4. 0 \in G
  <2>1. f[0] = <<>>
    BY <1>3
  <2>2. f[0] \in Seq(1 .. 0) /\ 1 .. Len(f[0]) = {} /\ DOMAIN f[0] = {}
    BY <2>1
  <2>3. Range(f[0]) = {} /\ K \cap 1 .. 0 = {}
    BY <2>2 DEF Range
  <2> QED BY <2>2, <2>3
<1>5. ASSUME NEW m \in Nat, m \in G
      PROVE  m + 1 \in G
  <2> SUFFICES ASSUME m + 1 <= n PROVE Good(m + 1)
    OBVIOUS
  <2>1. m + 1 \in 0 .. n /\ m + 1 # 0 /\ (m + 1) - 1 = m /\ Good(m)
    BY <1>5
  <2>2. f[m + 1] = IF m + 1 \in K THEN Append(f[m], m + 1) ELSE f[m]
    BY <1>3, <2>1
  <2> DEFINE q == f[m]
             r == f[m + 1]
  <2>3. /\ q \in Seq(1 .. m) /\ q \in Seq(1 .. m + 1) /\ Len(q) \in Nat
        /\ DOMAIN q = 1 .. Len(q) /\ \A i \in 1 .. Len(q) : q[i] \in 1 .. m
        /\ \A i, j \in 1 .. Len(q) : i < j => q[i] < q[j]
        /\ Range(q) = K \cap 1 .. m
    <3>1. q \in Seq(1 .. m)
      BY <2>1
    <3>2. Len(q) \in Nat /\ DOMAIN q = 1 .. Len(q) /\ \A i \in 1 .. Len(q) : q[i] \in 1 .. m
      BY <3>1, LenProperties, ElementOfSeq
    <3>3. q \in Seq(1 .. m + 1)
      <4>1. 1 .. m \subseteq 1 .. m + 1
        OBVIOUS
      <4> HIDE DEF q
      <4> QED BY <3>1, <4>1
    <3> QED BY <2>1, <3>1, <3>2, <3>3
  <2>4. CASE m + 1 \notin K
    <3>1. r = q /\ K \cap 1 .. m + 1 = K \cap 1 .. m
      <4>1. \A x \in 1 .. m + 1 : x \in 1 .. m \/ x = m + 1
        OBVIOUS
      <4>2. \A x \in 1 .. m : x \in 1 .. m + 1
        OBVIOUS
      <4> QED BY <2>2, <2>4, <4>1, <4>2
    <3> HIDE DEF q, r
    <3>2. /\ r \in Seq(1 .. m + 1) /\ Range(r) = K \cap 1 .. m + 1
          /\ \A i, j \in 1 .. Len(r) : i < j => r[i] < r[j]
      BY <2>3, <3>1
    <3> QED BY <3>2 DEF r
  <2>5. CASE m + 1 \in K
    <3>1. r = Append(q, m + 1)
      BY <2>2, <2>5
    <3> HIDE DEF q, r
    <3>2. /\ r \in Seq(1 .. m + 1) /\ Len(r) = Len(q) + 1 /\ DOMAIN r = 1 .. Len(q) + 1
          /\ r[Len(q) + 1] = m + 1 /\ \A i \in 1 .. Len(q) : r[i] = q[i]
      <4>1. m + 1 \in 1 .. m + 1
        OBVIOUS
      <4> QED BY <2>3, <3>1, <4>1, AppendElements
    <3>3. ASSUME NEW i \in 1 .. Len(r), NEW j \in 1 .. Len(r), i < j
          PROVE  r[i] < r[j]
      <4>1. i \in 1 .. Len(q) /\ (j \in 1 .. Len(q) \/ j = Len(q) + 1)
        <5>1. Len(q) \in Nat /\ i \in 1 .. Len(q) + 1 /\ j \in 1 .. Len(q) + 1
          BY <2>3, <3>2
        <5> QED BY ONLY <3>3, <5>1
      <4>2. r[i] = q[i] /\ q[i] \in 1 .. m
        BY <2>3, <3>2, <4>1
      <4>3. CASE j = Len(q) + 1
        BY <3>2, <4>2, <4>3
      <4>4. CASE j \in 1 .. Len(q)
        BY <2>3, <3>2, <3>3, <4>1, <4>4
      <4> QED BY <4>1, <4>3, <4>4
    <3>4. Range(r) = K \cap 1 .. m + 1
      <4>1. \A i \in 1 .. Len(q) + 1 : i \in 1 .. Len(q) \/ i = Len(q) + 1
        BY <2>3
      <4>2. Len(q) + 1 \in 1 .. Len(q) + 1 /\ \A i \in 1 .. Len(q) : i \in 1 .. Len(q) + 1
        BY <2>3
      <4>3. \A x \in 1 .. m + 1 : x \in 1 .. m \/ x = m + 1
        OBVIOUS
      <4>4. m + 1 \in 1 .. m + 1 /\ \A x \in 1 .. m : x \in 1 .. m + 1
        OBVIOUS
      <4>5. Range(r) = Range(q) \cup {m + 1}
        <5>1. Range(r) = {r[i] : i \in 1 .. Len(q) + 1}
          BY <3>2 DEF Range
        <5>2. Range(q) = {q[i] : i \in 1 .. Len(q)}
          BY <2>3 DEF Range
        <5> QED BY <3>2, <4>1, <4>2, <5>1, <5>2
      <4> QED BY <2>3, <2>5, <4>3, <4>4, <4>5
    <3> QED BY <3>2, <3>3, <3>4 DEF r
  <2> QED BY <2>4, <2>5
<1>6. n \in G
  <2> HIDE DEF G
  <2> QED BY <1>4, <1>5, AllNumbers
<1>7. Good(n)
  BY <1>6
<1>8. DOMAIN f[n] = 1 .. Len(f[n])
  BY <1>7, LenProperties
<1> QED BY <1>1, <1>7, <1>8

(* r has the elements of s at the places in K: at[k] is the place of the   *)
(* k-th, the places rise and none is left out.                             *)
PickedAt(at, s, K, r) ==
    /\ Len(r) \in Nat /\ DOMAIN r = 1 .. Len(r)
    /\ \A k \in 1 .. Len(r) : at[k] \in K /\ at[k] \in DOMAIN s /\ r[k] = s[at[k]]
    /\ \A i, j \in 1 .. Len(r) : i < j => at[i] < at[j]
    /\ \A x \in K : \E k \in 1 .. Len(r) : at[k] = x

(* Picked does that.                                                       *)
LEMMA PickedWorks ==
    ASSUME NEW T, NEW s \in Seq(T), NEW K, K \subseteq DOMAIN s
    PROVE  Picked(s, K) \in Seq(T) /\ \E at : PickedAt(at, s, K, Picked(s, K))
<1> DEFINE at == Ascending(K, Len(s))
<1>1. Len(s) \in Nat /\ DOMAIN s = 1 .. Len(s) /\ \A i \in 1 .. Len(s) : s[i] \in T
  BY LenProperties, ElementOfSeq
<1>2. /\ at \in Seq(1 .. Len(s))
      /\ \A i, j \in DOMAIN at : i < j => at[i] < at[j]
      /\ Range(at) = K \cap 1 .. Len(s)
  BY <1>1, AscendingWorks
<1>3. Picked(s, K) = [k \in DOMAIN at |-> s[at[k]]]
  BY DEF Picked
<1> HIDE DEF at
<1>4. Len(at) \in Nat /\ DOMAIN at = 1 .. Len(at) /\ \A k \in 1 .. Len(at) : at[k] \in 1 .. Len(s)
  BY <1>2, LenProperties, ElementOfSeq
<1>5. \A k \in 1 .. Len(at) : at[k] \in K
  BY <1>2, <1>4 DEF Range
<1>7. Picked(s, K) = [k \in 1 .. Len(at) |-> s[at[k]]]
  BY <1>3, <1>4
<1>8. /\ Picked(s, K) \in Seq(T) /\ Len(Picked(s, K)) = Len(at)
      /\ \A k \in 1 .. Len(at) : Picked(s, K)[k] = s[at[k]]
  <2>1. \A k \in 1 .. Len(at) : s[at[k]] \in T
    BY <1>1, <1>4
  <2> QED BY <1>4, <1>7, <2>1
<1>9. \A x \in K : \E k \in 1 .. Len(at) : at[k] = x
  BY <1>1, <1>2, <1>4 DEF Range
<1>10. DOMAIN Picked(s, K) = 1 .. Len(at)
  BY <1>7
<1>11. PickedAt(at, s, K, Picked(s, K))
  BY <1>1, <1>2, <1>4, <1>5, <1>8, <1>9, <1>10 DEF PickedAt
<1> QED BY <1>8, <1>11
-----------------------------------------------------------------------------
(* Partition.  Types, and a message in the log has been given an offset.   *)
TypeInv ==
    /\ TypeOK
    /\ \A i \in DOMAIN log : offset[log[i]] \in Nat

(* Appended messages are all different objects.                            *)
HistoryInjective == IsInjective(history)

(* What appends need.                                                      *)
SeqInv == TypeInv /\ HistoryInjective /\ OffsetsSequential

(* Without compaction the log is the end of the history.                   *)
LogIsSuffix ==
    /\ Len(log) <= Len(history)
    /\ \A i \in DOMAIN log : log[i] = history[Len(history) - Len(log) + i]

(* What keeps the offsets of the log consecutive.                          *)
ReadInv == SeqInv /\ LogIsSuffix

(* Every message of the log is above the retention floor and is where the  *)
(* history has it: what compaction and retention need to lose nothing.     *)
Placed ==
    /\ floor <= Len(history)
    /\ \A i \in DOMAIN log :
          /\ offset[log[i]] + 1 \in floor + 1 .. Len(history)
          /\ history[offset[log[i]] + 1] = log[i]

LatestInv == SeqInv /\ Placed /\ KeepsLatest

(* The two sequences of messages.                                          *)
LEMMA LogTypes ==
    ASSUME TypeInv
    PROVE  /\ history \in Seq(Messages) /\ Len(history) \in Nat
           /\ log \in Seq(Messages) /\ Len(log) \in Nat
           /\ DOMAIN log = 1 .. Len(log) /\ DOMAIN history = 1 .. Len(history)
           /\ \A i \in 1 .. Len(log) : log[i] \in Messages /\ offset[log[i]] \in Nat
           /\ \A i \in 1 .. Len(history) : history[i] \in Messages
<1>1. log \in Seq(Messages) /\ history \in Seq(Messages)
  BY DEF TypeInv, TypeOK
<1>2. /\ Len(log) \in Nat /\ DOMAIN log = 1 .. Len(log)
      /\ Len(history) \in Nat /\ DOMAIN history = 1 .. Len(history)
  BY <1>1, LenProperties
<1>3. \A i \in 1 .. Len(log) : log[i] \in Messages
  BY <1>1, ElementOfSeq
<1>4. \A i \in 1 .. Len(history) : history[i] \in Messages
  BY <1>1, ElementOfSeq
<1> QED BY <1>1, <1>2, <1>3, <1>4 DEF TypeInv

(* What compaction leaves: messages of the log, in their order.            *)
LEMMA CompactedPlaces ==
    ASSUME TypeInv
    PROVE  /\ Compacted \in Seq(Messages)
           /\ \E at : PickedAt(at, log, {i \in DOMAIN log : Kept(i)}, Compacted)
<1> DEFINE K == {i \in DOMAIN log : Kept(i)}
<1>1. log \in Seq(Messages) /\ K \subseteq DOMAIN log
  BY LogTypes
<1>2. Compacted = Picked(log, K)
  BY DEF Compacted
<1> HIDE DEF K
<1>3. Picked(log, K) \in Seq(Messages) /\ \E at : PickedAt(at, log, K, Picked(log, K))
  BY <1>1, PickedWorks
<1>4. Compacted \in Seq(Messages) /\ \E at : PickedAt(at, log, K, Compacted)
  BY <1>2, <1>3
<1> QED BY <1>4 DEF K

(* The types of an empty partition.                                        *)
LEMMA TypeInit == Init => TypeInv
  BY DEF Init, TypeInv, TypeOK

(* Every operation keeps the types.                                        *)
LEMMA TypeStep ==
    ASSUME TypeInv, [Next]_vars
    PROVE  TypeInv'
<1>0. /\ history \in Seq(Messages) /\ Len(history) \in Nat
      /\ log \in Seq(Messages) /\ Len(log) \in Nat
      /\ DOMAIN log = 1 .. Len(log) /\ DOMAIN history = 1 .. Len(history)
      /\ \A i \in 1 .. Len(log) : log[i] \in Messages /\ offset[log[i]] \in Nat
      /\ offset \in [Messages -> Int] /\ nextOffset \in Nat
  BY LogTypes DEF TypeInv, TypeOK
<1>1. ASSUME NEW m \in Messages, AppendMessage(m) PROVE TypeInv'
  <2>1. /\ log' \in Seq(Messages)
        /\ DOMAIN log' = 1 .. (Len(log) + 1)
        /\ log'[Len(log) + 1] = m
        /\ \A j \in 1 .. Len(log) : log'[j] = log[j]
    BY <1>0, <1>1, AppendElements DEF AppendMessage
  <2>2. history' \in Seq(Messages)
    BY <1>0, <1>1, AppendElements DEF AppendMessage
  <2>3. offset' = [offset EXCEPT ![m] = nextOffset]
    BY <1>1 DEF AppendMessage
  <2>4. ASSUME NEW i \in DOMAIN log' PROVE offset'[log'[i]] \in Nat
    <3>1. i \in 1 .. Len(log) \/ i = Len(log) + 1
      BY <1>0, <2>1
    <3>2. CASE i = Len(log) + 1
      BY <1>0, <2>1, <2>3, <3>2
    <3>3. CASE i \in 1 .. Len(log)
      BY <1>0, <2>1, <2>3, <3>3
    <3> QED BY <3>1, <3>2, <3>3
  <2>5. TypeOK'
    BY <1>0, <1>1, <2>1, <2>2, <2>3 DEF TypeInv, TypeOK, AppendMessage
  <2> QED BY <2>4, <2>5 DEF TypeInv
<1>2. ASSUME NEW k \in 1 .. Len(log), ApplyRetention(k) PROVE TypeInv'
  <2>1. /\ log' \in Seq(Messages)
        /\ DOMAIN log' = 1 .. (Len(log) - k)
        /\ \A j \in 1 .. (Len(log) - k) : log'[j] = log[k + j]
    BY <1>0, <1>2, SuffixElements DEF ApplyRetention
  <2>2. floor' \in Nat /\ offset' = offset
    BY <1>0, <1>2 DEF ApplyRetention
  <2>3. ASSUME NEW i \in DOMAIN log' PROVE offset'[log'[i]] \in Nat
    <3>1. k + i \in 1 .. Len(log)
      <4>1. PICK n : n = Len(log)
        OBVIOUS
      <4>2. n \in Nat /\ k \in 1 .. n /\ i \in 1 .. (n - k)
        BY <1>0, <2>1, <4>1
      <4>3. k + i \in 1 .. n
        BY ONLY <4>2
      <4> QED BY <4>1, <4>3
    <3> QED BY <1>0, <2>1, <2>2, <3>1
  <2> QED BY <1>2, <2>1, <2>2, <2>3 DEF TypeInv, TypeOK, ApplyRetention
<1>3. ASSUME Compact PROVE TypeInv'
  <2>1. log' = Compacted /\ UNCHANGED <<offset, nextOffset, committed, history, floor>>
    BY <1>3 DEF Compact
  <2>2. PICK at : PickedAt(at, log, {i \in DOMAIN log : Kept(i)}, Compacted)
    BY CompactedPlaces
  <2>3. /\ Compacted \in Seq(Messages)
        /\ \A k \in DOMAIN Compacted : at[k] \in 1 .. Len(log) /\ Compacted[k] = log[at[k]]
    BY <1>0, <2>2, CompactedPlaces DEF PickedAt
  <2> QED BY <1>0, <2>1, <2>2, <2>3 DEF TypeInv, TypeOK
<1>4. ASSUME Clear PROVE TypeInv'
  BY <1>4 DEF Clear, TypeInv, TypeOK
<1>5. ASSUME NEW g \in Groups, NEW o \in 0 .. MaxOffset, CommitOffset(g, o)
      PROVE  TypeInv'
  BY <1>5, PartitionAssumption DEF CommitOffset, TypeInv, TypeOK
<1>6. ASSUME UNCHANGED vars PROVE TypeInv'
  BY <1>6 DEF vars, TypeInv, TypeOK
<1> QED BY <1>1, <1>2, <1>3, <1>4, <1>5, <1>6 DEF Next

(* Appending a new object keeps offsets in step with the history.          *)
LEMMA AppendKeepsSeqInv ==
    ASSUME ~Republish, SeqInv, NEW m \in Messages, AppendMessage(m)
    PROVE  SeqInv'
  <1>1. /\ history \in Seq(Messages) /\ Len(history) \in Nat
        /\ DOMAIN history = 1 .. Len(history) /\ nextOffset = Len(history)
    BY LogTypes DEF SeqInv, OffsetsSequential
  <1>2. \A i \in 1 .. Len(history) : history[i] # m /\ history[i] \in Messages
    BY <1>1 DEF AppendMessage, Range
  <1>3. /\ history' \in Seq(Messages) /\ Len(history') = Len(history) + 1
        /\ DOMAIN history' = 1 .. (Len(history) + 1)
        /\ history'[Len(history) + 1] = m
        /\ \A j \in 1 .. Len(history) : history'[j] = history[j]
    BY <1>1, AppendElements DEF AppendMessage
  <1>4. TypeInv'
    BY TypeStep DEF SeqInv, Next
  <1>5. HistoryInjective'
    <2> SUFFICES ASSUME NEW i \in DOMAIN history', NEW j \in DOMAIN history',
                        history'[i] = history'[j]
                 PROVE  i = j
      BY DEF HistoryInjective, IsInjective
    <2>1. CASE i \in 1 .. Len(history) /\ j \in 1 .. Len(history)
      BY <1>1, <1>3, <2>1 DEF SeqInv, HistoryInjective, IsInjective
    <2>2. CASE i = Len(history) + 1 \/ j = Len(history) + 1
      BY <1>1, <1>2, <1>3, <2>2
    <2>3. QED
      BY <1>1, <1>3, <2>1, <2>2
  <1>6. OffsetsSequential'
    <2>1. nextOffset' = Len(history')
      BY <1>1, <1>3 DEF AppendMessage
    <2>2. ASSUME NEW i \in DOMAIN history' PROVE offset'[history'[i]] = i - 1
      <3>1. CASE i = Len(history) + 1
        BY <1>1, <1>3, <3>1 DEF AppendMessage, SeqInv, TypeInv, TypeOK
      <3>2. CASE i \in 1 .. Len(history)
        <4>1. offset'[history[i]] = offset[history[i]]
          BY <1>2, <3>2 DEF AppendMessage, SeqInv, TypeInv, TypeOK
        <4>2. QED
          BY <1>1, <1>3, <3>2, <4>1 DEF SeqInv, OffsetsSequential
      <3>3. QED
        BY <1>1, <1>3, <3>1, <3>2
    <2>3. QED
      BY <2>1, <2>2 DEF OffsetsSequential
  <1>7. QED
    BY <1>4, <1>5, <1>6 DEF SeqInv

(* The operations other than append leave the history alone.               *)
LEMMA SeqStep ==
    ASSUME ~Republish, SeqInv, [Next]_vars
    PROVE  SeqInv'
  <1>1. TypeInv'
    BY TypeStep DEF SeqInv
  <1>2. ASSUME NEW m \in Messages, AppendMessage(m) PROVE SeqInv'
    BY <1>2, AppendKeepsSeqInv
  <1>3. ASSUME UNCHANGED <<offset, nextOffset, history>> PROVE SeqInv'
    BY <1>1, <1>3 DEF SeqInv, HistoryInjective, OffsetsSequential
  <1>4. \/ \E m \in Messages : AppendMessage(m)
        \/ UNCHANGED <<offset, nextOffset, history>>
    BY DEF Next, vars, ApplyRetention, Compact, Clear, CommitOffset
  <1>5. QED
    BY <1>2, <1>3, <1>4

(* The sequence invariant of an empty partition.                           *)
LEMMA SeqInit == Init => SeqInv
  BY TypeInit DEF Init, SeqInv, HistoryInjective, OffsetsSequential, IsInjective

(* The log stays the end of the history.                                   *)
LEMMA ReadInvStep ==
    ASSUME ~Republish, ~Compaction, ReadInv, [Next]_vars
    PROVE  ReadInv'
  <1>0. /\ history \in Seq(Messages) /\ Len(history) \in Nat
        /\ log \in Seq(Messages) /\ Len(log) \in Nat
        /\ DOMAIN log = 1 .. Len(log) /\ DOMAIN history = 1 .. Len(history)
    BY LogTypes DEF ReadInv, SeqInv
  <1>7. SeqInv'
    BY SeqStep DEF ReadInv
  <1>1. ASSUME NEW m \in Messages, AppendMessage(m) PROVE ReadInv'
    <2>1. SeqInv'
      BY <1>7
    <2>2. /\ Len(history') = Len(history) + 1
          /\ history'[Len(history) + 1] = m
          /\ \A j \in 1 .. Len(history) : history'[j] = history[j]
      BY <1>0, <1>1, AppendElements DEF AppendMessage
    <2>3. /\ Len(log') = Len(log) + 1
          /\ DOMAIN log' = 1 .. (Len(log) + 1)
          /\ log'[Len(log) + 1] = m
          /\ \A j \in 1 .. Len(log) : log'[j] = log[j]
      BY <1>0, <1>1, AppendElements DEF AppendMessage
    <2>4. ASSUME NEW i \in DOMAIN log'
          PROVE  log'[i] = history'[Len(history') - Len(log') + i]
      <3>1. CASE i = Len(log) + 1
        BY <1>0, <2>2, <2>3, <3>1
      <3>2. CASE i \in 1 .. Len(log)
        <4>1. Len(history) - Len(log) + i \in 1 .. Len(history)
          BY <1>0, <3>2 DEF ReadInv, LogIsSuffix
        <4>2. log[i] = history[Len(history) - Len(log) + i]
          BY <1>0, <3>2 DEF ReadInv, LogIsSuffix
        <4>3. Len(history') - Len(log') + i = Len(history) - Len(log) + i
          BY <1>0, <2>2, <2>3
        <4>4. QED
          BY <2>2, <2>3, <3>2, <4>1, <4>2, <4>3
      <3>3. QED
        BY <1>0, <2>3, <3>1, <3>2
    <2>5. Len(log') <= Len(history')
      BY <1>0, <2>2, <2>3 DEF ReadInv, LogIsSuffix
    <2>6. QED
      BY <2>1, <2>4, <2>5 DEF ReadInv, LogIsSuffix
  <1>2. ASSUME NEW k \in 1 .. Len(log), ApplyRetention(k) PROVE ReadInv'
    <2>1. /\ log' \in Seq(Messages)
          /\ Len(log') = Len(log) - k
          /\ DOMAIN log' = 1 .. (Len(log) - k)
          /\ \A j \in 1 .. (Len(log) - k) : log'[j] = log[k + j]
      BY <1>0, <1>2, SuffixElements DEF ApplyRetention
    <2>2. LogIsSuffix'
      <3>1. ASSUME NEW i \in DOMAIN log'
            PROVE  log'[i] = history[Len(history) - Len(log') + i]
        <4>1. k + i \in DOMAIN log
          BY <1>0, <2>1
        <4>2. log'[i] = history[Len(history) - Len(log) + (k + i)]
          BY <2>1, <4>1 DEF ReadInv, LogIsSuffix
        <4>3. Len(history) - Len(log') + i = Len(history) - Len(log) + (k + i)
          BY <1>0, <2>1
        <4>4. QED
          BY <4>2, <4>3
      <3>2. Len(log) <= Len(history)
        BY DEF ReadInv, LogIsSuffix
      <3>3. Len(log') <= Len(history)
        BY <1>0, <2>1, <3>2
      <3>4. history' = history
        BY <1>2 DEF ApplyRetention
      <3>5. QED
        BY <3>1, <3>3, <3>4 DEF LogIsSuffix
    <2>3. QED
      BY <1>7, <2>2 DEF ReadInv
  <1>3. ASSUME Compact PROVE FALSE
    BY <1>3 DEF Compact
  <1>4. ASSUME Clear PROVE ReadInv'
    BY <1>0, <1>4, <1>7 DEF Clear, ReadInv, LogIsSuffix
  <1>5. ASSUME NEW g \in Groups, NEW o \in 0 .. MaxOffset, CommitOffset(g, o)
        PROVE  ReadInv'
    BY <1>5, <1>7 DEF CommitOffset, ReadInv, LogIsSuffix
  <1>6. ASSUME UNCHANGED vars PROVE ReadInv'
    BY <1>6, <1>7 DEF vars, ReadInv, LogIsSuffix
  <1>8. QED
    BY <1>1, <1>2, <1>3, <1>4, <1>5, <1>6 DEF Next

-----------------------------------------------------------------------------
(* A slice of a list, cut off at its end.                                  *)
LEMMA SliceElements ==
    ASSUME NEW S, NEW s \in Seq(S), NEW a \in Nat, NEW b \in Int, b <= Len(s),
           NEW t, t = SubSeq(s, a + 1, b)
    PROVE  /\ t \in Seq(S) /\ DOMAIN t = 1 .. Len(t)
           /\ Len(t) = IF a < b THEN b - a ELSE 0
           /\ \A j \in 1 .. Len(t) : a + j \in 1 .. Len(s) /\ t[j] = s[a + j]
<1>1. Len(s) \in Nat
  BY LenProperties
<1>2. CASE a < b
  <2>1. t \in Seq(S) /\ Len(t) = b - a /\ DOMAIN t = 1 .. b - a
    BY <1>1, <1>2
  <2>2. ASSUME NEW j \in 1 .. b - a PROVE a + j \in 1 .. Len(s) /\ t[j] = s[a + j]
    BY <1>1, <1>2
  <2>3. Len(t) = IF a < b THEN b - a ELSE 0
    BY <1>2, <2>1
  <2> QED BY <2>1, <2>2, <2>3
<1>3. CASE ~(a < b)
  <2>1. t = <<>>
    BY <1>1, <1>3
  <2>2. t \in Seq(S) /\ Len(t) = 0 /\ DOMAIN t = 1 .. 0 /\ 1 .. 0 = {}
    BY <2>1
  <2>3. Len(t) = IF a < b THEN b - a ELSE 0
    BY <1>3, <2>2
  <2> QED BY <2>2, <2>3
<1> QED BY <1>1, <1>2, <1>3

(* The offsets of the log, from its first message on, are consecutive.     *)
LEMMA LogContiguous ==
    ASSUME ReadInv
    PROVE  /\ Len(log) \in Nat /\ DOMAIN log = 1 .. Len(log)
           /\ nextOffset \in Nat /\ Len(log) <= nextOffset
           /\ \A i \in 1 .. Len(log) : offset[log[i]] = nextOffset - Len(log) + i - 1
  <1>1. /\ Len(log) \in Nat /\ DOMAIN log = 1 .. Len(log)
        /\ Len(history) \in Nat /\ DOMAIN history = 1 .. Len(history)
        /\ nextOffset = Len(history) /\ Len(log) <= Len(history)
    BY LogTypes DEF ReadInv, SeqInv, LogIsSuffix, OffsetsSequential
  <1>2. ASSUME NEW i \in 1 .. Len(log)
        PROVE  offset[log[i]] = nextOffset - Len(log) + i - 1
    <2>1. Len(history) - Len(log) + i \in DOMAIN history
      BY <1>1
    <2>2. log[i] = history[Len(history) - Len(log) + i]
      BY <1>1 DEF ReadInv, LogIsSuffix
    <2>3. QED
      BY <1>1, <2>1, <2>2 DEF ReadInv, SeqInv, OffsetsSequential
  <1>3. QED
    BY <1>1, <1>2

(* A log without gaps has consecutive offsets from the first message on,   *)
(* so that the index arithmetic of read and read_at is exact.              *)
LEMMA NoGapsExact ==
    ASSUME TypeInv
    PROVE  ReadExact
  <1> SUFFICES ASSUME NoGaps PROVE ReadExact
    BY DEF ReadExact
  <1> DEFINE base == offset[log[1]]
  <1>1. log \in Seq(Messages) /\ (log = <<>> <=> Len(log) = 0)
    BY DEF TypeInv, TypeOK
  <1>0. /\ Len(log) \in Nat /\ DOMAIN log = 1 .. Len(log)
        /\ nextOffset \in Nat /\ (log # <<>> => base \in Nat)
        /\ \A i \in 1 .. Len(log) : offset[log[i]] = base + i - 1
    <2>1. /\ Len(log) \in Nat /\ DOMAIN log = 1 .. Len(log) /\ nextOffset \in Nat
          /\ \A i \in 1 .. Len(log) : offset[log[i]] \in Nat
      BY LogTypes DEF TypeInv, TypeOK
    <2>2. log # <<>> => 1 \in 1 .. Len(log)
      BY <1>1, <2>1
    <2>3. ASSUME NEW i \in 1 .. Len(log) PROVE offset[log[i]] = base + i - 1
      <3>1. 1 \in 1 .. Len(log)
        BY <2>1
      <3>2. offset[log[i]] - offset[log[1]] = i - 1
        BY <2>1, <3>1 DEF NoGaps
      <3> QED BY <2>1, <3>1, <3>2
    <2> QED BY <2>1, <2>2, <2>3
  <1>2. ASSUME NEW o \in -1 .. nextOffset + 1, NEW n \in 1 .. Len(log) + 1
        PROVE  \E f \in 0 .. Len(log) :
                   /\ \A i \in 1 .. f : offset[log[i]] < o
                   /\ \A i \in f + 1 .. Len(log) : offset[log[i]] >= o
                   /\ Read(o, n) = Slice(log, f, Smaller(f + n, Len(log)))
    <2>1. CASE log = <<>>
      <3>1. Read(o, n) = <<>> /\ Slice(log, 0, Smaller(0 + n, Len(log))) = <<>>
        BY <1>0, <1>1, <2>1 DEF Read, Slice, Smaller
      <3>2. QED
        BY <1>0, <1>1, <2>1, <3>1
    <2>2. CASE log # <<>> /\ o < base
      <3>1. offset[log[1]] = base
        OBVIOUS
      <3>2. Read(o, n) = Slice(log, 0, Smaller(0 + n, Len(log)))
        BY <1>0, <1>1, <2>2, <3>1 DEF Read
      <3>3. \A i \in 0 + 1 .. Len(log) : offset[log[i]] >= o
        BY <1>0, <2>2
      <3>4. 0 \in 0 .. Len(log) /\ \A i \in 1 .. 0 : offset[log[i]] < o
        BY <1>0
      <3>5. QED
        BY <3>2, <3>3, <3>4
    <2>3. CASE log # <<>> /\ o >= base /\ o - base < Len(log)
      <3>1. offset[log[1]] = base
        OBVIOUS
      <3>2. Read(o, n) = Slice(log, o - base, Smaller(o - base + n, Len(log)))
        BY <1>0, <1>1, <2>3, <3>1 DEF Read
      <3>3. o - base \in 0 .. Len(log)
        BY <1>0, <2>3
      <3>4. \A i \in 1 .. (o - base) : offset[log[i]] < o
        BY <1>0, <2>3
      <3>5. \A i \in (o - base) + 1 .. Len(log) : offset[log[i]] >= o
        BY <1>0, <2>3
      <3>6. QED
        BY <3>2, <3>3, <3>4, <3>5
    <2>4. CASE log # <<>> /\ o >= base /\ o - base >= Len(log)
      <3>1. offset[log[1]] = base
        OBVIOUS
      <3>2. Read(o, n) = <<>>
        BY <1>0, <1>1, <2>4, <3>1 DEF Read
      <3>3. Smaller(Len(log) + n, Len(log)) = Len(log)
        <4>1. n \in Int /\ n > 0 /\ Len(log) \in Int
          BY <1>0
        <4>2. ~(Len(log) + n < Len(log))
          BY <4>1
        <4>3. QED
          BY <4>2 DEF Smaller
      <3>4. SubSeq(log, Len(log) + 1, Len(log)) = <<>>
        BY <1>0, <1>1
      <3>5. Slice(log, Len(log), Smaller(Len(log) + n, Len(log))) = <<>>
        BY <3>3, <3>4 DEF Slice
      <3>6. \A i \in 1 .. Len(log) : offset[log[i]] < o
        BY <1>0, <2>4
      <3>7. \A i \in Len(log) + 1 .. Len(log) : offset[log[i]] >= o
        BY <1>0
      <3>8. QED
        BY <1>0, <3>2, <3>5, <3>6, <3>7
    <2>5. QED
      BY <1>0, <2>1, <2>2, <2>3, <2>4
  <1>3. ASSUME NEW o \in -1 .. nextOffset + 1
        PROVE  IF \E i \in DOMAIN log : offset[log[i]] = o
               THEN \E i \in DOMAIN log : offset[log[i]] = o /\ ReadAt(o) = <<log[i]>>
               ELSE ReadAt(o) = <<>>
    <2>1. CASE log = <<>>
      BY <1>0, <1>1, <2>1 DEF ReadAt
    <2>2. CASE log # <<>> /\ o - base \in 0 .. Len(log) - 1
      <3>1. offset[log[1]] = base
        OBVIOUS
      <3>2. o - base + 1 \in DOMAIN log /\ offset[log[o - base + 1]] = o
        BY <1>0, <2>2
      <3>3. ReadAt(o) = <<log[o - base + 1]>>
        BY <2>2, <3>1 DEF ReadAt
      <3>4. QED
        BY <3>2, <3>3
    <2>3. CASE log # <<>> /\ o - base \notin 0 .. Len(log) - 1
      <3>1. offset[log[1]] = base
        OBVIOUS
      <3>2. ~ \E i \in DOMAIN log : offset[log[i]] = o
        BY <1>0, <2>3
      <3>3. ReadAt(o) = <<>>
        BY <2>3, <3>1 DEF ReadAt
      <3>4. QED
        BY <3>2, <3>3
    <2>4. QED
      BY <2>1, <2>2, <2>3
  <1>4. QED
    BY <1>2, <1>3 DEF ReadExact

(* Offsets are sequential and never reused, whatever is compacted.         *)
THEOREM OffsetsAreSequential ==
    ASSUME ~Republish
    PROVE  Spec => []OffsetsSequential
  <1>1. SeqInv => OffsetsSequential
    BY DEF SeqInv
  <1>2. SeqInv /\ [Next]_vars => SeqInv'
    BY SeqStep
  <1>3. QED
    BY <1>1, <1>2, SeqInit, PTL DEF Spec

(* A read by offset returns exactly the messages from that offset on, and  *)
(* a read of one offset exactly the message that has it, for every log     *)
(* without gaps, however it came about (partition.py 94-126).              *)
THEOREM ReadsAreExact == Spec => []ReadExact
  <1>1. TypeInv => ReadExact
    BY NoGapsExact
  <1>2. TypeInv /\ [Next]_vars => TypeInv'
    BY TypeStep
  <1>3. QED
    BY <1>1, <1>2, TypeInit, PTL DEF Spec

(* Appends, retention and clears leave no gaps in a log that is not        *)
(* compacted, so that its reads are always exact.                          *)
THEOREM NoGapsUncompacted ==
    ASSUME ~Republish, ~Compaction
    PROVE  Spec => []NoGaps
  <1>1. ReadInv => NoGaps
    <2> SUFFICES ASSUME ReadInv PROVE NoGaps
      OBVIOUS
    <2>1. /\ Len(log) \in Nat /\ DOMAIN log = 1 .. Len(log) /\ nextOffset \in Nat
          /\ \A i \in 1 .. Len(log) : offset[log[i]] = nextOffset - Len(log) + i - 1
      BY LogContiguous
    <2>2. QED
      BY <2>1 DEF NoGaps
  <1>2. ReadInv /\ [Next]_vars => ReadInv'
    BY ReadInvStep
  <1>3. Init => ReadInv
    BY SeqInit DEF Init, ReadInv, LogIsSuffix
  <1>4. QED
    BY <1>1, <1>2, <1>3, PTL DEF Spec

(* A read of at most n messages from offset o: the ones with the offsets   *)
(* from o, or from the first there is, up to n of them, in their order.    *)
IntervalRead ==
    \A o, n \in Nat :
        LET start == IF o > EarliestOffset THEN o ELSE EarliestOffset
            stop  == Smaller(start + n, nextOffset)
        IN  /\ Len(Read(o, n)) = IF start < stop THEN stop - start ELSE 0
            /\ \A i \in 1 .. Len(Read(o, n)) : offset[Read(o, n)[i]] = start + i - 1

(* Every log that is not compacted is read like that.                      *)
LEMMA ReadsInterval ==
    ASSUME ReadInv
    PROVE  IntervalRead
<1> SUFFICES ASSUME NEW o \in Nat, NEW n \in Nat
             PROVE  LET start == IF o > EarliestOffset THEN o ELSE EarliestOffset
                        stop  == Smaller(start + n, nextOffset)
                    IN  /\ Len(Read(o, n)) = IF start < stop THEN stop - start ELSE 0
                        /\ \A i \in 1 .. Len(Read(o, n)) :
                              offset[Read(o, n)[i]] = start + i - 1
  BY DEF IntervalRead
<1> DEFINE first == IF o > EarliestOffset THEN o ELSE EarliestOffset
<1>1. PICK L, N, start, r : /\ L = Len(log) /\ N = nextOffset /\ start = first
                            /\ r = Read(o, n)
  OBVIOUS
<1>2. /\ log \in Seq(Messages) /\ L \in Nat /\ N \in Nat /\ L <= N
      /\ log = <<>> <=> L = 0
      /\ \A i \in 1 .. L : offset[log[i]] = N - L + i - 1
  <2>1. log \in Seq(Messages)
    BY DEF ReadInv, SeqInv, TypeInv, TypeOK
  <2> QED BY <1>1, <2>1, LogContiguous, EmptySeq
<1>3. EarliestOffset = N - L
  <2>1. CASE L = 0
    BY <1>1, <1>2, <2>1 DEF EarliestOffset
  <2>2. CASE L # 0
    <3>1. 1 \in 1 .. L /\ N - L + 1 - 1 = N - L
      BY <1>2, <2>2
    <3> QED BY <1>2, <2>2, <3>1 DEF EarliestOffset
  <2> QED BY <2>1, <2>2
<1>4. start = (IF o > N - L THEN o ELSE N - L) /\ start \in Nat /\ start >= N - L
  BY <1>1, <1>2, <1>3
<1> HIDE DEF first
<1>5. PICK stop : stop = Smaller(start + n, N)
  OBVIOUS
<1>6. stop \in Nat /\ stop = IF start + n < N THEN start + n ELSE N
  BY <1>2, <1>4, <1>5 DEF Smaller
<1>7. CASE start >= N
  <2>1. r = <<>>
    <3>1. CASE L = 0
      BY <1>1, <1>2, <3>1 DEF Read
    <3>2. CASE L # 0
      <4>1. 1 \in 1 .. L /\ offset[log[1]] = N - L
        BY <1>2, <3>2
      <4>2. ~(o < N - L) /\ o - (N - L) >= L
        BY <1>2, <1>4, <1>7, <3>2
      <4> QED BY <1>1, <1>2, <3>2, <4>1, <4>2 DEF Read
    <3> QED BY <3>1, <3>2
  <2>2. Len(r) = 0 /\ ~(start < stop)
    BY <1>2, <1>4, <1>6, <1>7, <2>1
  <2> QED BY <1>1, <1>5, <2>2 DEF first
<1>8. CASE start < N
  <2>1. PICK a, b : a = start - (N - L) /\ b = Smaller(a + n, L)
    OBVIOUS
  <2>2. /\ a \in Nat /\ a < L /\ L # 0 /\ b \in Int /\ b <= L
        /\ b = IF a + n < L THEN a + n ELSE L
    BY <1>2, <1>4, <1>8, <2>1 DEF Smaller
  <2>3. r = SubSeq(log, a + 1, b)
    <3>1. 1 \in 1 .. L /\ offset[log[1]] = N - L
      BY <1>2, <2>2
    <3>2. a = IF o < N - L THEN 0 ELSE o - (N - L)
      BY <1>2, <1>4, <2>1
    <3>3. log # <<>> /\ offset[log[1]] = N - L /\ L = Len(log)
      BY <1>1, <1>2, <2>2, <3>1
    <3>4. Read(o, n) = IF a >= L THEN <<>> ELSE Slice(log, a, Smaller(a + n, L))
      BY ONLY <3>2, <3>3 DEF Read
    <3>5. ~(a >= L)
      BY <1>2, <2>2
    <3> QED BY <1>1, <2>1, <3>4, <3>5 DEF Slice
  <2>4. /\ Len(r) = IF a < b THEN b - a ELSE 0
        /\ \A j \in 1 .. Len(r) : a + j \in 1 .. L /\ r[j] = log[a + j]
    <3>1. b <= Len(log)
      BY <1>1, <2>2
    <3> QED BY <1>1, <1>2, <2>2, <2>3, <3>1, SliceElements
  <2>5. Len(r) = IF start < stop THEN stop - start ELSE 0
    <3>1. stop = b + (N - L) /\ start = a + (N - L)
      BY ONLY <1>2, <1>4, <1>6, <2>1, <2>2, n \in Nat
    <3>2. (start < stop <=> a < b) /\ stop - start = b - a
      BY ONLY <1>2, <2>2, <3>1
    <3> QED BY <2>4, <3>2
  <2>6. ASSUME NEW i \in 1 .. Len(r) PROVE offset[r[i]] = start + i - 1
    <3>1. offset[r[i]] = N - L + (a + i) - 1
      BY <1>2, <2>4
    <3>2. Len(r) \in Nat /\ i \in Nat
      BY <2>2, <2>4
    <3>3. N - L + (a + i) - 1 = start + i - 1
      BY ONLY <1>2, <1>4, <2>1, <2>2, <3>2
    <3> QED BY <3>1, <3>3
  <2> QED BY <1>1, <1>5, <2>5, <2>6 DEF first
<1> QED BY <1>2, <1>4, <1>7, <1>8

(* What ConsumerGroup takes for a read of a partition (ReadOffsets): in a  *)
(* log that is not compacted a read returns an interval of offsets, whose  *)
(* ends are given by the offset asked for, the first and the next offset   *)
(* of the log, and the limit (partition.py 94-115).                        *)
THEOREM ReadsAreIntervals ==
    ASSUME ~Republish, ~Compaction
    PROVE  Spec => []IntervalRead
<1>1. ReadInv => IntervalRead
  BY ReadsInterval
<1>2. ReadInv /\ [Next]_vars => ReadInv'
  BY ReadInvStep
<1>3. Init => ReadInv
  BY SeqInit DEF Init, ReadInv, LogIsSuffix
<1> QED BY <1>1, <1>2, <1>3, PTL DEF Spec

-----------------------------------------------------------------------------
(* An append puts the message at the end of log and history.               *)
LEMMA AppendKeepsLatest ==
    ASSUME ~Republish, LatestInv, NEW m \in Messages, AppendMessage(m), SeqInv'
    PROVE  Placed' /\ KeepsLatest'
<1>0. /\ history \in Seq(Messages) /\ Len(history) \in Nat
      /\ log \in Seq(Messages) /\ Len(log) \in Nat
      /\ DOMAIN log = 1 .. Len(log) /\ DOMAIN history = 1 .. Len(history)
      /\ \A i \in 1 .. Len(log) : log[i] \in Messages /\ offset[log[i]] \in Nat
      /\ offset \in [Messages -> Int] /\ nextOffset = Len(history) /\ floor \in Nat
  BY LogTypes DEF LatestInv, SeqInv, TypeInv, TypeOK, OffsetsSequential
<1>1. /\ Len(log') = Len(log) + 1 /\ DOMAIN log' = 1 .. (Len(log) + 1)
      /\ log'[Len(log) + 1] = m
      /\ \A j \in 1 .. Len(log) : log'[j] = log[j]
  BY <1>0, AppendElements DEF AppendMessage
<1>2. /\ Len(history') = Len(history) + 1 /\ DOMAIN history' = 1 .. (Len(history) + 1)
      /\ history'[Len(history) + 1] = m
      /\ \A j \in 1 .. Len(history) : history'[j] = history[j]
  BY <1>0, AppendElements DEF AppendMessage
<1>3. \A i \in 1 .. Len(history) : history[i] # m
  BY <1>0 DEF AppendMessage, Range
<1>4. /\ floor <= Len(history)
      /\ \A i \in 1 .. Len(log) :
            /\ offset[log[i]] + 1 \in floor + 1 .. Len(history)
            /\ history[offset[log[i]] + 1] = log[i]
  BY <1>0 DEF LatestInv, Placed
<1>5. \A i \in 1 .. Len(log) : log[i] # m
  <2> SUFFICES ASSUME NEW i \in 1 .. Len(log) PROVE log[i] # m
    OBVIOUS
  <2>1. offset[log[i]] + 1 \in 1 .. Len(history)
    BY <1>0, <1>4
  <2> QED BY <1>3, <1>4, <2>1
<1>6. offset' = [offset EXCEPT ![m] = nextOffset] /\ floor' = floor
  BY DEF AppendMessage
<1>7. /\ offset'[m] = Len(history)
      /\ \A i \in 1 .. Len(log) : offset'[log'[i]] = offset[log[i]]
  BY <1>0, <1>1, <1>5, <1>6
<1>8. Placed'
  <2> SUFFICES ASSUME NEW i \in 1 .. Len(log) + 1
               PROVE  /\ offset'[log'[i]] + 1 \in floor + 1 .. Len(history) + 1
                      /\ history'[offset'[log'[i]] + 1] = log'[i]
    BY <1>0, <1>1, <1>2, <1>4, <1>6 DEF Placed
  <2>1. CASE i = Len(log) + 1
    BY <1>0, <1>1, <1>2, <1>4, <1>7, <2>1
  <2>2. CASE i \in 1 .. Len(log)
    <3> DEFINE h == offset[log[i]] + 1
    <3>1. h \in floor + 1 .. Len(history) /\ history[h] = log[i]
      BY <1>4, <2>2
    <3>2. offset'[log'[i]] + 1 = h /\ log'[i] = log[i]
      BY <1>1, <1>7, <2>2
    <3> HIDE DEF h
    <3>3. h \in 1 .. Len(history) /\ h \in floor + 1 .. Len(history) + 1
      BY <1>0, <3>1
    <3> QED BY <1>2, <3>1, <3>2, <3>3
  <2> QED BY <1>0, <2>1, <2>2
<1>9. \A i, j \in DOMAIN log' : i < j => offset'[log'[i]] < offset'[log'[j]]
  <2> SUFFICES ASSUME NEW i \in 1 .. Len(log) + 1, NEW j \in 1 .. Len(log) + 1, i < j
               PROVE  offset'[log'[i]] < offset'[log'[j]]
    BY <1>1
  <2>1. i \in 1 .. Len(log)
    BY <1>0
  <2>2. CASE j = Len(log) + 1
    <3>1. offset'[log'[j]] = Len(history)
      BY <1>1, <1>7, <2>2
    <3>2. PICK x : x = offset'[log'[i]]
      OBVIOUS
    <3>3. x \in Nat /\ x + 1 \in floor + 1 .. Len(history)
      BY <1>0, <1>4, <1>7, <2>1, <3>2
    <3>4. x < Len(history)
      BY ONLY <1>0, <3>3
    <3> QED BY <3>1, <3>2, <3>4
  <2>3. CASE j \in 1 .. Len(log)
    <3>1. offset[log[i]] < offset[log[j]]
      BY <1>0, <2>1, <2>3 DEF LatestInv, KeepsLatest
    <3> QED BY <1>7, <2>1, <2>3, <3>1
  <2> QED BY <1>0, <2>2, <2>3
<1>10. ASSUME NEW i \in DOMAIN history', i > floor',
              \/ Key[history'[i]] = NoKey
              \/ \A j \in i + 1 .. Len(history') : Key[history'[j]] # Key[history'[i]]
       PROVE  history'[i] \in Range(log')
  <2>1. CASE i = Len(history) + 1
    <3>1. Len(log) + 1 \in DOMAIN log'
      BY <1>0, <1>1
    <3> QED BY <1>1, <1>2, <2>1, <3>1 DEF Range
  <2>2. CASE i \in 1 .. Len(history)
    <3>1. history'[i] = history[i]
      BY <1>2, <2>2
    <3>2. \/ Key[history[i]] = NoKey
          \/ \A j \in i + 1 .. Len(history) : Key[history[j]] # Key[history[i]]
      <4>1. \A j \in i + 1 .. Len(history) :
                j \in i + 1 .. Len(history') /\ history'[j] = history[j]
        BY <1>0, <1>2, <2>2
      <4> QED BY <1>10, <3>1, <4>1
    <3>3. history[i] \in Range(log)
      BY <1>0, <1>6, <1>10, <2>2, <3>2 DEF LatestInv, KeepsLatest
    <3>4. PICK k \in 1 .. Len(log) : log[k] = history[i]
      BY <1>0, <3>3 DEF Range
    <3>5. k \in DOMAIN log' /\ log'[k] = history[i]
      BY <1>0, <1>1, <3>4
    <3> QED BY <3>1, <3>5 DEF Range
  <2> QED BY <1>0, <1>2, <2>1, <2>2
<1> QED BY <1>8, <1>9, <1>10 DEF KeepsLatest

(* Retention takes the first messages, which are those with the least      *)
(* offsets, and raises the floor above them.                               *)
LEMMA RetentionKeepsLatest ==
    ASSUME LatestInv, NEW k \in 1 .. Len(log), ApplyRetention(k)
    PROVE  Placed' /\ KeepsLatest'
<1>0. /\ Len(history) \in Nat /\ DOMAIN history = 1 .. Len(history)
      /\ log \in Seq(Messages) /\ Len(log) \in Nat /\ DOMAIN log = 1 .. Len(log)
      /\ \A i \in 1 .. Len(log) : log[i] \in Messages /\ offset[log[i]] \in Nat
      /\ floor \in Nat /\ \A i \in 1 .. Len(history) : offset[history[i]] = i - 1
  BY LogTypes DEF LatestInv, SeqInv, TypeInv, TypeOK, OffsetsSequential
<1>1. /\ Len(log') = Len(log) - k /\ DOMAIN log' = 1 .. (Len(log) - k)
      /\ \A j \in 1 .. (Len(log) - k) : log'[j] = log[k + j]
  <2>1. log' = SubSeq(log, k + 1, Len(log))
    BY DEF ApplyRetention
  <2>2. log \in Seq(Messages)
    BY <1>0
  <2> QED BY ONLY <2>1, <2>2, k \in 1 .. Len(log), SuffixElements
<1>2. floor' = offset[log[k]] + 1 /\ UNCHANGED <<offset, history>>
  BY DEF ApplyRetention
<1>3. \A i \in 1 .. Len(log) :
          /\ offset[log[i]] + 1 \in floor + 1 .. Len(history)
          /\ history[offset[log[i]] + 1] = log[i]
  BY <1>0 DEF LatestInv, Placed
<1>4. \A i, j \in 1 .. Len(log) : i < j => offset[log[i]] < offset[log[j]]
  BY <1>0 DEF LatestInv, KeepsLatest
<1>5. \A j \in 1 .. (Len(log) - k) : k + j \in 1 .. Len(log) /\ k < k + j
  BY <1>0
<1>6. Placed'
  <2>1. floor' <= Len(history)
    BY <1>0, <1>2, <1>3
  <2>2. ASSUME NEW j \in 1 .. (Len(log) - k)
        PROVE  /\ offset[log'[j]] + 1 \in floor' + 1 .. Len(history)
               /\ history[offset[log'[j]] + 1] = log'[j]
    <3>1. log'[j] = log[k + j] /\ k + j \in 1 .. Len(log) /\ k < k + j
      BY <1>1, <1>5
    <3>2. offset[log[k]] < offset[log[k + j]]
      BY <1>4, <3>1
    <3> DEFINE a == offset[log[k]]
               b == offset[log[k + j]]
    <3>3. a \in Nat /\ b \in Nat /\ b + 1 \in floor + 1 .. Len(history) /\ history[b + 1] = log[k + j]
      BY <1>0, <1>3, <3>1
    <3>4. b + 1 \in (a + 1) + 1 .. Len(history)
      <4> HIDE DEF a, b
      <4>1. a < b
        BY <3>2 DEF a, b
      <4> QED BY <1>0, <3>3, <4>1
    <3> QED BY <1>2, <3>1, <3>3, <3>4
  <2> QED BY <1>1, <1>2, <2>1, <2>2 DEF Placed
<1>7. \A i, j \in DOMAIN log' : i < j => offset'[log'[i]] < offset'[log'[j]]
  <2> SUFFICES ASSUME NEW i \in 1 .. Len(log) - k, NEW j \in 1 .. Len(log) - k, i < j
               PROVE  offset[log'[i]] < offset[log'[j]]
    BY <1>1, <1>2
  <2>1. k + i < k + j /\ k + i \in 1 .. Len(log) /\ k + j \in 1 .. Len(log)
    BY <1>0, <1>5
  <2> QED BY <1>1, <1>4, <2>1
<1>8. ASSUME NEW i \in DOMAIN history, i > floor',
             \/ Key[history[i]] = NoKey
             \/ \A j \in i + 1 .. Len(history) : Key[history[j]] # Key[history[i]]
      PROVE  history[i] \in Range(log')
  <2>1. i > floor
    <3> DEFINE a == offset[log[k]]
    <3>1. a \in Nat /\ a + 1 \in floor + 1 .. Len(history) /\ i > a + 1 /\ i \in Nat
      BY <1>0, <1>2, <1>3, <1>8
    <3> HIDE DEF a
    <3> QED BY <1>0, <3>1
  <2>2. PICK p \in 1 .. Len(log) : log[p] = history[i]
    BY <1>0, <1>8, <2>1 DEF LatestInv, KeepsLatest, Range
  <2>3. offset[log[p]] = i - 1 /\ offset[log[p]] > offset[log[k]]
    BY <1>0, <1>2, <1>8, <2>2
  <2>4. p > k
    <3> SUFFICES ASSUME ~(p > k) PROVE FALSE
      OBVIOUS
    <3>1. p = k \/ p < k
      BY <1>0
    <3>2. offset[log[p]] <= offset[log[k]]
      BY <1>0, <1>4, <3>1
    <3> QED BY <1>0, <2>3, <3>2
  <2>5. p - k \in 1 .. (Len(log) - k) /\ k + (p - k) = p
    BY <1>0, <2>4
  <2> QED BY <1>1, <2>2, <2>5 DEF Range
<1> QED BY <1>2, <1>6, <1>7, <1>8 DEF KeepsLatest

(* Compaction drops a message only for a later one of its key.             *)
LEMMA CompactionKeepsLatest ==
    ASSUME LatestInv, Compact
    PROVE  Placed' /\ KeepsLatest'
<1>0. /\ Len(history) \in Nat /\ DOMAIN history = 1 .. Len(history)
      /\ log \in Seq(Messages) /\ Len(log) \in Nat /\ DOMAIN log = 1 .. Len(log)
      /\ \A i \in 1 .. Len(log) : log[i] \in Messages /\ offset[log[i]] \in Nat
      /\ floor \in Nat /\ \A i \in 1 .. Len(history) : offset[history[i]] = i - 1
  BY LogTypes DEF LatestInv, SeqInv, TypeInv, TypeOK, OffsetsSequential
<1>1. log' = Compacted /\ UNCHANGED <<offset, history, floor>>
  BY DEF Compact
<1> DEFINE K == {i \in DOMAIN log : Kept(i)}
<1>2. PICK at : PickedAt(at, log, K, Compacted)
  BY CompactedPlaces DEF LatestInv, SeqInv
<1>3. /\ Len(log') \in Nat /\ DOMAIN log' = 1 .. Len(log')
      /\ \A k \in 1 .. Len(log') : at[k] \in 1 .. Len(log) /\ log'[k] = log[at[k]]
      /\ \A i, j \in 1 .. Len(log') : i < j => at[i] < at[j]
      /\ \A x \in K : \E k \in 1 .. Len(log') : at[k] = x
  BY <1>0, <1>1, <1>2 DEF PickedAt
<1>4. \A i \in 1 .. Len(log) :
          /\ offset[log[i]] + 1 \in floor + 1 .. Len(history)
          /\ history[offset[log[i]] + 1] = log[i]
  BY <1>0 DEF LatestInv, Placed
<1>5. \A i, j \in 1 .. Len(log) : i < j => offset[log[i]] < offset[log[j]]
  BY <1>0 DEF LatestInv, KeepsLatest
<1>6. Placed'
  <2>1. floor <= Len(history)
    BY DEF LatestInv, Placed
  <2> QED BY <1>1, <1>3, <1>4, <2>1 DEF Placed
<1>7. \A i, j \in DOMAIN log' : i < j => offset'[log'[i]] < offset'[log'[j]]
  BY <1>1, <1>3, <1>5
<1>8. ASSUME NEW i \in DOMAIN history, i > floor,
             \/ Key[history[i]] = NoKey
             \/ \A j \in i + 1 .. Len(history) : Key[history[j]] # Key[history[i]]
      PROVE  history[i] \in Range(log')
  <2>1. PICK p \in 1 .. Len(log) : log[p] = history[i]
    BY <1>0, <1>8 DEF LatestInv, KeepsLatest, Range
  <2>2. ASSUME Key[history[i]] # NoKey, NEW j \in p + 1 .. Len(log)
        PROVE  Key[log[j]] # Key[log[p]]
    <3>1. j \in 1 .. Len(log) /\ p < j
      BY <1>0
    <3>2. offset[log[p]] = i - 1 /\ offset[log[p]] < offset[log[j]]
      BY <1>0, <1>5, <2>1, <3>1
    <3> DEFINE h == offset[log[j]] + 1
    <3>3. h \in i + 1 .. Len(history) /\ history[h] = log[j]
      BY <1>0, <1>4, <3>1, <3>2
    <3> QED BY <1>8, <2>1, <2>2, <3>3
  <2>3. Kept(p)
    BY <2>1, <2>2 DEF Kept
  <2>4. p \in K
    BY <1>0, <2>3
  <2>5. PICK k \in 1 .. Len(log') : at[k] = p
    BY <1>3, <2>4
  <2>6. log'[k] = history[i]
    BY <1>3, <2>1, <2>5
  <2> QED BY <1>3, <2>6 DEF Range
<1> QED BY <1>1, <1>6, <1>7, <1>8 DEF KeepsLatest

(* Together: every operation.                                              *)
LEMMA LatestStep ==
    ASSUME ~Republish, LatestInv, [Next]_vars
    PROVE  LatestInv'
<1>1. SeqInv'
  BY SeqStep DEF LatestInv
<1>2. ASSUME NEW m \in Messages, AppendMessage(m) PROVE LatestInv'
  BY <1>1, <1>2, AppendKeepsLatest DEF LatestInv
<1>3. ASSUME NEW k \in 1 .. Len(log), ApplyRetention(k) PROVE LatestInv'
  BY <1>1, <1>3, RetentionKeepsLatest DEF LatestInv
<1>4. ASSUME Compact PROVE LatestInv'
  BY <1>1, <1>4, CompactionKeepsLatest DEF LatestInv
<1>5. ASSUME Clear PROVE LatestInv'
  <2>1. /\ log' = <<>> /\ floor' = Len(history) /\ history' = history
        /\ DOMAIN log' = {} /\ Len(history) \in Nat /\ DOMAIN history = 1 .. Len(history)
    BY <1>5, LogTypes DEF Clear, LatestInv, SeqInv, OffsetsSequential
  <2>2. \A i \in DOMAIN history' : ~(i > floor')
    BY <2>1
  <2> QED BY <1>1, <2>1, <2>2 DEF LatestInv, Placed, KeepsLatest
<1>6. ASSUME UNCHANGED <<log, offset, history, floor>> PROVE LatestInv'
  BY <1>1, <1>6 DEF LatestInv, Placed, KeepsLatest
<1>7. \/ \E m \in Messages : AppendMessage(m)
      \/ \E k \in 1 .. Len(log) : ApplyRetention(k)
      \/ Compact \/ Clear \/ UNCHANGED <<log, offset, history, floor>>
  BY DEF Next, vars, CommitOffset
<1> QED BY <1>2, <1>3, <1>4, <1>5, <1>6, <1>7

(* However appends, retention, compaction and clears follow one another:   *)
(* of the messages above the retention floor those without a key and the   *)
(* last of each key are in the log, and the log is in the order of the     *)
(* appends (partition.py 146-182).                                         *)
THEOREM LatestKept ==
    ASSUME ~Republish
    PROVE  Spec => []KeepsLatest
<1>1. Init => LatestInv
  BY SeqInit DEF Init, LatestInv, Placed, KeepsLatest
<1>2. LatestInv /\ [Next]_vars => LatestInv'
  BY LatestStep
<1>3. LatestInv => KeepsLatest
  BY DEF LatestInv
<1> QED BY <1>1, <1>2, <1>3, PTL DEF Spec

-----------------------------------------------------------------------------
(* Functions defined by recursion: f starts at z and the step F, which     *)
(* stays within S, takes it from each number up to n to the next.          *)
Iterates(f, S, z, F, n) ==
    /\ f \in [0 .. n -> S] /\ f[0] = z
    /\ \A i \in 1 .. n : f[i] = F[<<i, f[i - 1]>>]

(* There is one.                                                           *)
LEMMA Recursion ==
    ASSUME NEW S, NEW z \in S, NEW F \in [Nat \X S -> S], NEW n \in Nat
    PROVE  \E f : Iterates(f, S, z, F, n)
<1> DEFINE Goes(f, k) == /\ f \in [0 .. k -> S] /\ f[0] = z
                         /\ \A i \in 1 .. k : f[i] = F[<<i, f[i - 1]>>]
           G == {k \in Nat : \E f : Goes(f, k)}
<1>1. 0 \in G
  <2> DEFINE f == [i \in 0 .. 0 |-> z]
  <2>1. Goes(f, 0)
    OBVIOUS
  <2> QED BY <2>1
<1>2. ASSUME NEW k \in Nat, k \in G
      PROVE  k + 1 \in G
  <2>1. PICK g : Goes(g, k)
    BY <1>2
  <2> DEFINE e == F[<<k + 1, g[k]>>]
             f == [i \in 0 .. k + 1 |-> IF i = k + 1 THEN e ELSE g[i]]
  <2>2. k \in 0 .. k /\ g[k] \in S
    BY <2>1
  <2>3. <<k + 1, g[k]>> \in Nat \X S
    BY <2>2
  <2>4. e \in S
    BY <2>3
  <2> HIDE DEF e
  <2>5. ASSUME NEW i \in 0 .. k + 1 PROVE f[i] \in S
    <3>1. i = k + 1 \/ i \in 0 .. k
      OBVIOUS
    <3> QED BY <2>1, <2>4, <3>1
  <2>6. f \in [0 .. k + 1 -> S]
    BY <2>5
  <2>7. f[0] = z
    BY <2>1
  <2>8. ASSUME NEW i \in 1 .. k + 1 PROVE f[i] = F[<<i, f[i - 1]>>]
    <3>1. CASE i = k + 1
      <4>1. f[i] = e /\ i - 1 = k /\ k \in 0 .. k + 1 /\ k # k + 1
        BY <3>1
      <4>2. f[i - 1] = g[k]
        BY <4>1
      <4> QED BY <3>1, <4>1, <4>2 DEF e
    <3>2. CASE i # k + 1
      <4>1. i \in 1 .. k /\ i - 1 \in 0 .. k + 1 /\ i - 1 # k + 1 /\ i \in 0 .. k + 1
        BY <3>2
      <4>2. f[i] = g[i] /\ f[i - 1] = g[i - 1]
        BY <3>2, <4>1
      <4> HIDE DEF f
      <4> QED BY <2>1, <4>1, <4>2
    <3> QED BY <3>1, <3>2
  <2> HIDE DEF f
  <2>9. Goes(f, k + 1)
    BY <2>6, <2>7, <2>8
  <2> QED BY <2>9
<1>3. n \in G
  <2> HIDE DEF G
  <2> QED BY <1>1, <1>2, AllNumbers
<1> QED BY <1>3 DEF Iterates

(* f is the function that FlattenSeq computes, for the first n sequences.  *)
FlattenedBy(f, ss, n) ==
    f = [i \in 1 .. n |-> IF i = 1 THEN ss[i] ELSE f[i - 1] \o ss[i]]

(* There is such a function.                                               *)
LEMMA FlattenedExists ==
    ASSUME NEW T, NEW ss \in Seq(Seq(T))
    PROVE  \E f : FlattenedBy(f, ss, Len(ss))
<1>1. Len(ss) \in Nat /\ \A i \in 1 .. Len(ss) : ss[i] \in Seq(T)
  BY LenProperties, ElementOfSeq
<1> DEFINE n == Len(ss)
           S == Seq(T)
           Step(i, q) == IF i \in 1 .. n THEN (IF i = 1 THEN ss[i] ELSE q \o ss[i]) ELSE q
           F == [x \in Nat \X S |-> Step(x[1], x[2])]
<1>2. ASSUME NEW i \in Nat, NEW q \in S PROVE Step(i, q) \in S
  <2>1. CASE i \in 1 .. n
    <3>1. ss[i] \in Seq(T)
      BY <1>1, <2>1
    <3>2. q \o ss[i] \in Seq(T)
      BY <3>1, ConcatProperties
    <3> QED BY <2>1, <3>1, <3>2
  <2>2. CASE i \notin 1 .. n
    BY <2>2
  <2> QED BY <2>1, <2>2
<1> HIDE DEF Step
<1>3. F \in [Nat \X S -> S]
  BY <1>2
<1>4. ASSUME NEW i \in Nat, NEW q \in S PROVE F[<<i, q>>] = Step(i, q)
  OBVIOUS
<1>5. <<>> \in S
  OBVIOUS
<1>10. n \in Nat
  BY <1>1
<1> HIDE DEF F, S, n
<1>11. PICK g : Iterates(g, S, <<>>, F, n)
  BY <1>3, <1>5, <1>10, Recursion
<1>6. g \in [0 .. n -> S] /\ \A i \in 1 .. n : g[i] = F[<<i, g[i - 1]>>]
  BY <1>11 DEF Iterates
<1> DEFINE f == [i \in 1 .. n |-> g[i]]
<1>7. ASSUME NEW i \in 1 .. n PROVE f[i] = IF i = 1 THEN ss[i] ELSE f[i - 1] \o ss[i]
  <2>1. i \in Nat /\ i - 1 \in 0 .. n /\ g[i - 1] \in S
    BY <1>6, <1>10
  <2>2. g[i] = Step(i, g[i - 1])
    BY <1>4, <1>6, <2>1
  <2>3. g[i] = IF i = 1 THEN ss[i] ELSE g[i - 1] \o ss[i]
    BY <2>2 DEF Step
  <2>4. i # 1 => i - 1 \in 1 .. n
    BY <2>1
  <2> QED BY <2>3, <2>4
<1>8. f = [i \in 1 .. n |-> f[i]]
  OBVIOUS
<1> HIDE DEF f
<1>9. FlattenedBy(f, ss, n)
  BY <1>7, <1>8 DEF FlattenedBy
<1> QED BY <1>9 DEF n

(* r is the concatenation of the sequences in ss: st[i] elements of it are *)
(* before those of the i-th.                                               *)
Flattened(st, ss, r) ==
    /\ st \in [1 .. Len(ss) + 1 -> Nat] /\ st[1] = 0 /\ Len(r) = st[Len(ss) + 1]
    /\ \A i \in 1 .. Len(ss) :
          /\ st[i + 1] = st[i] + Len(ss[i])
          /\ \A j \in 1 .. Len(ss[i]) : st[i] + j \in 1 .. Len(r) /\ r[st[i] + j] = ss[i][j]
    /\ \A k \in 1 .. Len(r) :
          \E i \in 1 .. Len(ss) : \E j \in 1 .. Len(ss[i]) : k = st[i] + j

(* FlattenSeq does that.                                                   *)
LEMMA FlattenWorks ==
    ASSUME NEW T, NEW ss \in Seq(Seq(T)), Len(ss) # 0
    PROVE  WAL!FlattenSeq(ss) \in Seq(T) /\ \E st : Flattened(st, ss, WAL!FlattenSeq(ss))
<1> DEFINE f == CHOOSE flatten : FlattenedBy(flatten, ss, Len(ss))
           N == Len(ss)
<1>0. N \in Nat /\ N # 0 /\ \A i \in 1 .. N : ss[i] \in Seq(T) /\ Len(ss[i]) \in Nat
  <2>1. N \in Nat /\ \A i \in 1 .. N : ss[i] \in Seq(T)
    BY LenProperties, ElementOfSeq
  <2> QED BY <2>1, LenProperties
<1>1. WAL!FlattenSeq(ss) = f[N]
  BY DEF WAL!FlattenSeq, FlattenedBy
<1>2. FlattenedBy(f, ss, N)
  BY FlattenedExists
<1> HIDE DEF f
<1>3. \A i \in 1 .. N : f[i] = IF i = 1 THEN ss[i] ELSE f[i - 1] \o ss[i]
  BY <1>2 DEF FlattenedBy
<1> HIDE DEF N
<1> DEFINE G == {n \in Nat : n + 1 <= N => f[n + 1] \in Seq(T)}
<1>4. 0 \in G
  <2>1. 1 \in 1 .. N
    BY <1>0
  <2> QED BY <1>0, <1>3, <2>1
<1>5. ASSUME NEW n \in Nat, n \in G
      PROVE  n + 1 \in G
  <2> SUFFICES ASSUME (n + 1) + 1 <= N PROVE f[(n + 1) + 1] \in Seq(T)
    OBVIOUS
  <2>1. (n + 1) + 1 \in 1 .. N /\ (n + 1) + 1 # 1 /\ ((n + 1) + 1) - 1 = n + 1 /\ n + 1 <= N
    BY <1>0
  <2>2. f[(n + 1) + 1] = f[n + 1] \o ss[(n + 1) + 1]
    BY <1>3, <2>1
  <2>3. f[n + 1] \in Seq(T) /\ ss[(n + 1) + 1] \in Seq(T)
    BY <1>0, <1>5, <2>1
  <2> QED BY <2>2, <2>3, ConcatProperties
<1>6. ASSUME NEW i \in 1 .. N PROVE f[i] \in Seq(T) /\ Len(f[i]) \in Nat
  <2>1. i - 1 \in Nat /\ (i - 1) + 1 = i
    BY <1>0
  <2>2. i - 1 \in G
    <3> HIDE DEF G
    <3> QED BY <1>4, <1>5, <2>1, AllNumbers
  <2>3. f[i] \in Seq(T)
    BY <1>0, <2>1, <2>2
  <2> QED BY <2>3, LenProperties
<1> DEFINE st == [i \in 1 .. N + 1 |-> IF i = 1 THEN 0 ELSE Len(f[i - 1])]
<1>7. /\ st \in [1 .. N + 1 -> Nat] /\ st[1] = 0
      /\ \A i \in 1 .. N : st[i + 1] = Len(f[i])
  <2>1. ASSUME NEW i \in 1 .. N + 1 PROVE st[i] \in Nat
    <3>1. i # 1 => i - 1 \in 1 .. N
      BY <1>0
    <3> QED BY <1>6, <3>1
  <2>2. ASSUME NEW i \in 1 .. N PROVE st[i + 1] = Len(f[i])
    <3>1. i + 1 \in 1 .. N + 1 /\ i + 1 # 1 /\ (i + 1) - 1 = i
      BY <1>0
    <3> QED BY <3>1
  <2>3. 1 \in 1 .. N + 1
    BY <1>0
  <2> QED BY <2>1, <2>2, <2>3
<1> HIDE DEF st
(* One more sequence puts its elements behind those that are there.        *)
<1>8. ASSUME NEW i \in 1 .. N
      PROVE  /\ st[i] \in Nat
             /\ st[i + 1] = st[i] + Len(ss[i])
             /\ \A j \in 1 .. Len(ss[i]) : f[i][st[i] + j] = ss[i][j]
             /\ i # 1 => st[i] = Len(f[i - 1]) /\ \A k \in 1 .. st[i] : f[i][k] = f[i - 1][k]
  <2>1. CASE i = 1
    <3>1. f[i] = ss[i] /\ st[i] = 0 /\ st[i + 1] = Len(ss[i])
      BY <1>3, <1>7, <2>1
    <3>2. \A j \in 1 .. Len(ss[i]) : 0 + j = j
      BY <1>0
    <3> QED BY <1>0, <2>1, <3>1, <3>2
  <2>2. CASE i # 1
    <3>1. i - 1 \in 1 .. N /\ (i - 1) + 1 = i
      BY <1>0, <2>2
    <3> DEFINE q == f[i - 1]
    <3>2. q \in Seq(T) /\ Len(q) \in Nat /\ st[i] = Len(q)
      BY <1>6, <1>7, <3>1
    <3>3. f[i] = q \o ss[i] /\ ss[i] \in Seq(T) /\ Len(ss[i]) \in Nat
      BY <1>0, <1>3, <2>2
    <3> HIDE DEF q
    <3>4. /\ Len(f[i]) = Len(q) + Len(ss[i])
          /\ \A k \in 1 .. Len(q) + Len(ss[i]) :
                f[i][k] = IF k <= Len(q) THEN q[k] ELSE ss[i][k - Len(q)]
      BY <3>2, <3>3, ConcatProperties
    <3>5. st[i + 1] = st[i] + Len(ss[i])
      BY <1>7, <3>2, <3>4
    <3>6. ASSUME NEW j \in 1 .. Len(ss[i]) PROVE f[i][st[i] + j] = ss[i][j]
      <4>1. /\ st[i] + j \in 1 .. Len(q) + Len(ss[i])
            /\ ~(st[i] + j <= Len(q)) /\ (st[i] + j) - Len(q) = j
        BY <3>2, <3>3
      <4> QED BY <3>4, <4>1
    <3>7. ASSUME NEW k \in 1 .. st[i] PROVE f[i][k] = q[k]
      <4>1. k \in 1 .. Len(q) + Len(ss[i]) /\ k <= Len(q)
        BY <3>2, <3>3
      <4> QED BY <3>4, <4>1
    <3> QED BY <3>2, <3>5, <3>6, <3>7 DEF q
  <2> QED BY <2>1, <2>2
<1> DEFINE Good(n) ==
               /\ \A i \in 1 .. n : \A j \in 1 .. Len(ss[i]) :
                     st[i] + j \in 1 .. Len(f[n]) /\ f[n][st[i] + j] = ss[i][j]
               /\ \A k \in 1 .. Len(f[n]) :
                     \E i \in 1 .. n : \E j \in 1 .. Len(ss[i]) : k = st[i] + j
           H == {n \in Nat : n # 0 /\ n <= N => Good(n)}
<1>9. 0 \in H
  OBVIOUS
<1>10. ASSUME NEW n \in Nat, n \in H
       PROVE  n + 1 \in H
  <2> SUFFICES ASSUME n + 1 <= N PROVE Good(n + 1)
    OBVIOUS
  <2> DEFINE m == n + 1
  <2>1. m \in 1 .. N /\ m - 1 = n /\ (m = 1 <=> n = 0) /\ n <= N
    BY <1>0
  <2>2. /\ st[m] \in Nat /\ st[m + 1] = st[m] + Len(ss[m]) /\ Len(f[m]) = st[m + 1]
        /\ \A j \in 1 .. Len(ss[m]) : f[m][st[m] + j] = ss[m][j]
        /\ n # 0 => st[m] = Len(f[n]) /\ \A k \in 1 .. st[m] : f[m][k] = f[n][k]
        /\ n = 0 => st[m] = 0
        /\ Len(ss[m]) \in Nat
    <3>1. CASE n = 0
      BY <1>0, <1>7, <1>8, <2>1, <3>1
    <3>2. CASE n # 0
      <4>1. m # 1 /\ n \in 1 .. N
        BY <2>1, <3>2
      <4>2. st[m] = Len(f[n])
        BY <1>7, <2>1, <4>1
      <4> HIDE DEF m, st
      <4>3. /\ st[m + 1] = st[m] + Len(ss[m])
            /\ \A j \in 1 .. Len(ss[m]) : f[m][st[m] + j] = ss[m][j]
            /\ \A k \in 1 .. st[m] : f[m][k] = f[m - 1][k]
        BY <1>8, <2>1, <4>1
      <4>4. st[m] \in Nat /\ Len(f[m]) = st[m + 1] /\ Len(ss[m]) \in Nat
        BY <1>0, <1>6, <1>7, <2>1, <4>1, <4>2
      <4> QED BY <2>1, <3>2, <4>2, <4>3, <4>4
    <3> QED BY <3>1, <3>2
  <2>3. n # 0 => Good(n)
    BY <1>10, <2>1
  <2> HIDE DEF m
  <2>4. ASSUME NEW i \in 1 .. m, NEW j \in 1 .. Len(ss[i])
        PROVE  st[i] + j \in 1 .. Len(f[m]) /\ f[m][st[i] + j] = ss[i][j]
    <3>1. CASE i = m
      <4> DEFINE a == st[m]
                 b == Len(ss[m])
      <4>1. a \in Nat /\ b \in Nat /\ j \in 1 .. b /\ Len(f[m]) = a + b
        BY <2>2, <3>1
      <4> HIDE DEF a, b
      <4>2. a + j \in 1 .. Len(f[m])
        BY <4>1
      <4> QED BY <2>2, <3>1, <4>2 DEF a
    <3>2. CASE i # m
      <4>1. i \in 1 .. n /\ n # 0
        BY <2>1, <3>2
      <4>2. st[i] + j \in 1 .. Len(f[n]) /\ f[n][st[i] + j] = ss[i][j]
        BY <2>3, <4>1
      <4>3. st[i] + j \in 1 .. st[m]
        BY <2>2, <4>1, <4>2
      <4>4. st[i] + j \in 1 .. Len(f[m])
        <5>1. PICK a, b, x : a = st[m] /\ b = Len(ss[m]) /\ x = st[i] + j
          OBVIOUS
        <5>2. a \in Nat /\ b \in Nat /\ Len(f[m]) = a + b /\ x \in 1 .. a
          BY <2>2, <4>3, <5>1
        <5>3. x \in 1 .. a + b
          BY ONLY <5>2
        <5> QED BY <5>1, <5>2, <5>3
      <4> QED BY <2>2, <4>1, <4>2, <4>3, <4>4
    <3> QED BY <3>1, <3>2
  <2>5. ASSUME NEW k \in 1 .. Len(f[m])
        PROVE  \E i \in 1 .. m : \E j \in 1 .. Len(ss[i]) : k = st[i] + j
    <3>1. CASE k <= st[m]
      <4>1. n # 0 /\ k \in 1 .. Len(f[n])
        BY <2>2, <3>1
      <4>2. PICK i \in 1 .. n : \E j \in 1 .. Len(ss[i]) : k = st[i] + j
        BY <2>3, <4>1
      <4>3. i \in 1 .. m
        BY <2>1, <4>2
      <4> QED BY <4>2, <4>3
    <3>2. CASE ~(k <= st[m])
      <4> DEFINE a == st[m]
                 b == Len(ss[m])
      <4>1. a \in Nat /\ b \in Nat /\ k \in 1 .. a + b /\ ~(k <= a) /\ m \in 1 .. N
        BY <2>1, <2>2, <3>2
      <4> HIDE DEF a, b
      <4>2. k - a \in 1 .. b /\ k = a + (k - a) /\ m \in 1 .. m
        BY <1>0, <4>1
      <4> QED BY <4>2 DEF a, b
    <3> QED BY <3>1, <3>2
  <2> QED BY <2>4, <2>5 DEF m
<1>11. Good(N)
  <2>1. N \in H
    <3> HIDE DEF H
    <3> QED BY <1>0, <1>9, <1>10, AllNumbers
  <2>2. N # 0 /\ N <= N
    BY <1>0
  <2> HIDE DEF Good
  <2> QED BY <2>1, <2>2
<1>12. N \in 1 .. N
  BY <1>0
<1>13. Flattened(st, ss, f[N])
  <2>1. Len(f[N]) = st[N + 1]
    BY <1>7, <1>12
  <2> QED BY <1>7, <1>8, <1>11, <2>1 DEF Flattened, N
<1> QED BY <1>1, <1>6, <1>12, <1>13

-----------------------------------------------------------------------------
(* Write-ahead log.  What its constructor is given.                        *)
LEMMA WalConstants ==
    /\ NoKey \notin WalKeys /\ Sizes \subseteq Nat /\ RetentionTicks \in Nat
    /\ MaxAppends \in Nat /\ MaxTime \in Nat
BY LogsAssumption DEF WAL!WriteAheadLogAssumption

(* The fields of an entry.                                                 *)
LEMMA EntryFacts ==
    ASSUME NEW e \in WAL!Entry
    PROVE  /\ e.offset \in Nat /\ e.key \in WalKeys \cup {NoKey}
           /\ e.value \in 1 .. MaxAppends /\ e.size \in Sizes /\ e.size \in Int
<1>1. /\ e.offset \in Nat /\ e.key \in WalKeys \cup {NoKey}
      /\ e.value \in 1 .. MaxAppends /\ e.size \in Sizes
  BY DEF WAL!Entry
<1>2. \A z \in Sizes : z \in Int
  BY WalConstants
<1> QED BY <1>1, <1>2

(* The fields of a segment.                                                *)
LEMMA SegmentFacts ==
    ASSUME NEW s \in WAL!Segment
    PROVE  /\ s.base \in Nat /\ s.entries \in Seq(WAL!Entry) /\ s.bytes \in Int
           /\ Len(s.entries) \in Nat /\ DOMAIN s.entries = 1 .. Len(s.entries)
           /\ \A j \in 1 .. Len(s.entries) : s.entries[j] \in WAL!Entry
           /\ s.entries = <<>> <=> Len(s.entries) = 0
           /\ WAL!NextOffset(s) \in Nat
           /\ WAL!NextOffset(s) = IF Len(s.entries) = 0 THEN s.base
                                  ELSE s.entries[Len(s.entries)].offset + 1
<1>1. s.base \in Nat /\ s.entries \in Seq(WAL!Entry) /\ s.bytes \in Int
  BY DEF WAL!Segment
<1>2. /\ Len(s.entries) \in Nat /\ DOMAIN s.entries = 1 .. Len(s.entries)
      /\ s.entries = <<>> <=> Len(s.entries) = 0
  BY <1>1, LenProperties, EmptySeq
<1>3. \A j \in 1 .. Len(s.entries) : s.entries[j] \in WAL!Entry
  BY <1>1, ElementOfSeq
<1>4. WAL!NextOffset(s) = IF Len(s.entries) = 0 THEN s.base
                          ELSE s.entries[Len(s.entries)].offset + 1
  BY <1>2 DEF WAL!NextOffset, WAL!Last
<1>5. WAL!NextOffset(s) \in Nat
  <2>1. CASE Len(s.entries) = 0
    BY <1>1, <1>4, <2>1
  <2>2. CASE Len(s.entries) # 0
    <3>1. Len(s.entries) \in 1 .. Len(s.entries)
      BY <1>2, <2>2
    <3>2. s.entries[Len(s.entries)].offset \in Nat
      BY <1>3, <3>1, EntryFacts
    <3> QED BY <1>4, <2>2, <3>2
  <2> QED BY <2>1, <2>2
<1> QED BY <1>1, <1>2, <1>3, <1>4, <1>5

(* The segment t is s with one more entry.                                 *)
IsAppended(t, s, key, v, size) ==
    /\ now \in 0 .. MaxTime /\ s \in WAL!Segment /\ key \in WalKeys \cup {NoKey}
    /\ v \in 1 .. MaxAppends /\ size \in Sizes
    /\ t = WAL!SegmentAppend(s, key, v, size)

(* LogSegment.append adds an entry with the next offset at the end.        *)
LEMMA SegmentAppended ==
    ASSUME NEW t, NEW s, NEW key, NEW v, NEW size, IsAppended(t, s, key, v, size)
    PROVE  /\ t \in WAL!Segment /\ t.base = s.base
           /\ Len(t.entries) = Len(s.entries) + 1
           /\ \A j \in 1 .. Len(s.entries) : t.entries[j] = s.entries[j]
           /\ t.entries[Len(s.entries) + 1].offset = WAL!NextOffset(s)
           /\ t.entries[Len(s.entries) + 1].key = key
           /\ t.entries[Len(s.entries) + 1].value = v
<1> DEFINE e == [offset |-> WAL!NextOffset(s), stamp |-> now, key |-> key,
                 value |-> v, size |-> size]
<1>0. /\ now \in 0 .. MaxTime /\ s \in WAL!Segment /\ key \in WalKeys \cup {NoKey}
      /\ v \in 1 .. MaxAppends /\ size \in Sizes
  BY DEF IsAppended
<1>1. /\ s.base \in Nat /\ s.entries \in Seq(WAL!Entry) /\ s.bytes \in Int
      /\ WAL!NextOffset(s) \in Nat
  BY <1>0, SegmentFacts
<1>2. e \in WAL!Entry
  BY <1>0, <1>1 DEF WAL!Entry
<1>3. s.bytes + size \in Int
  BY <1>0, <1>1, WalConstants
<1>4. t = [s EXCEPT !.entries = Append(@, e), !.bytes = @ + size]
  BY DEF IsAppended, WAL!SegmentAppend
<1> HIDE DEF e
<1>5. /\ Append(s.entries, e) \in Seq(WAL!Entry)
      /\ Len(Append(s.entries, e)) = Len(s.entries) + 1
      /\ Append(s.entries, e)[Len(s.entries) + 1] = e
      /\ \A j \in 1 .. Len(s.entries) : Append(s.entries, e)[j] = s.entries[j]
  BY <1>1, <1>2, AppendElements
<1>6. /\ t \in WAL!Segment /\ t.base = s.base /\ t.entries = Append(s.entries, e)
  BY <1>0, <1>1, <1>3, <1>4, <1>5 DEF WAL!Segment
<1>7. e.offset = WAL!NextOffset(s) /\ e.key = key /\ e.value = v
  BY DEF e
<1> QED BY <1>5, <1>6, <1>7

(* An empty segment.                                                       *)
LEMMA SegmentNew ==
    ASSUME NEW b \in Nat
    PROVE  /\ WAL!NewSegment(b) \in WAL!Segment
           /\ WAL!NewSegment(b).base = b /\ WAL!NewSegment(b).entries = <<>>
           /\ Len(WAL!NewSegment(b).entries) = 0
BY DEF WAL!NewSegment, WAL!Segment

(* The segments of the log.                                                *)
LEMMA LogSegments ==
    ASSUME WAL!TypeOK
    PROVE  /\ Len(segments) \in Nat /\ Len(segments) # 0
           /\ DOMAIN segments = 1 .. Len(segments)
           /\ \A i \in 1 .. Len(segments) : segments[i] \in WAL!Segment
           /\ Len(segments) \in 1 .. Len(segments)
<1>1. segments \in Seq(WAL!Segment) /\ segments # <<>>
  BY DEF WAL!TypeOK
<1>2. Len(segments) \in Nat /\ Len(segments) # 0 /\ DOMAIN segments = 1 .. Len(segments)
  BY <1>1, LenProperties, EmptySeq
<1>3. \A i \in 1 .. Len(segments) : segments[i] \in WAL!Segment
  BY <1>1, ElementOfSeq
<1> QED BY <1>2, <1>3

(* The entries of the i-th segment.                                        *)
Es(i) == segments[i].entries

(* Entries is their concatenation.                                         *)
LEMMA EntriesPlaces ==
    ASSUME WAL!TypeOK
    PROVE  /\ WAL!Entries \in Seq(WAL!Entry)
           /\ \E st : Flattened(st, [i \in 1 .. Len(segments) |-> Es(i)], WAL!Entries)
<1> DEFINE ss == [i \in 1 .. Len(segments) |-> Es(i)]
<1>1. /\ Len(segments) \in Nat /\ Len(segments) # 0 /\ DOMAIN segments = 1 .. Len(segments)
      /\ \A i \in 1 .. Len(segments) : Es(i) \in Seq(WAL!Entry)
  BY LogSegments, SegmentFacts DEF Es
<1>2. ss \in Seq(Seq(WAL!Entry)) /\ Len(ss) = Len(segments)
  BY <1>1
<1>3. WAL!Entries = WAL!FlattenSeq(ss)
  BY <1>1 DEF WAL!Entries, Es
<1> HIDE DEF ss
<1>4. WAL!FlattenSeq(ss) \in Seq(WAL!Entry) /\ \E st : Flattened(st, ss, WAL!FlattenSeq(ss))
  BY <1>1, <1>2, FlattenWorks
<1>5. WAL!Entries \in Seq(WAL!Entry) /\ \E st : Flattened(st, ss, WAL!Entries)
  BY <1>3, <1>4
<1> QED BY <1>5 DEF ss

(* What the concatenation is, with the places of the segments: st[i]       *)
(* entries are before those of segment i.                                  *)
Starts(st) ==
    /\ st \in [1 .. Len(segments) + 1 -> Nat] /\ st[1] = 0
    /\ Len(WAL!Entries) = st[Len(segments) + 1]
    /\ \A i \in 1 .. Len(segments) :
          /\ st[i + 1] = st[i] + Len(Es(i))
          /\ \A j \in 1 .. Len(Es(i)) :
                st[i] + j \in 1 .. Len(WAL!Entries) /\ WAL!Entries[st[i] + j] = Es(i)[j]
    /\ \A k \in 1 .. Len(WAL!Entries) :
          \E i \in 1 .. Len(segments) : \E j \in 1 .. Len(Es(i)) : k = st[i] + j

(* There are such places.                                                  *)
LEMMA StartsExist ==
    ASSUME WAL!TypeOK
    PROVE  \E st : Starts(st)
<1> DEFINE ss == [i \in 1 .. Len(segments) |-> Es(i)]
<1>1. PICK st : Flattened(st, ss, WAL!Entries)
  BY EntriesPlaces
<1>2. /\ Len(segments) \in Nat /\ Len(ss) = Len(segments)
      /\ \A i \in 1 .. Len(segments) : ss[i] = Es(i)
  BY LogSegments
<1> HIDE DEF ss
<1>3. /\ st \in [1 .. Len(ss) + 1 -> Nat] /\ st[1] = 0
      /\ Len(WAL!Entries) = st[Len(ss) + 1]
  BY <1>1 DEF Flattened
<1>4. ASSUME NEW i \in 1 .. Len(segments)
      PROVE  /\ st[i + 1] = st[i] + Len(Es(i))
             /\ \A j \in 1 .. Len(Es(i)) :
                   st[i] + j \in 1 .. Len(WAL!Entries) /\ WAL!Entries[st[i] + j] = Es(i)[j]
  <2>1. i \in 1 .. Len(ss) /\ ss[i] = Es(i)
    BY <1>2
  <2>2. /\ st[i + 1] = st[i] + Len(ss[i])
        /\ \A j \in 1 .. Len(ss[i]) :
              st[i] + j \in 1 .. Len(WAL!Entries) /\ WAL!Entries[st[i] + j] = ss[i][j]
    BY <1>1, <2>1 DEF Flattened
  <2> QED BY <2>1, <2>2
<1>5. ASSUME NEW k \in 1 .. Len(WAL!Entries)
      PROVE  \E i \in 1 .. Len(segments) : \E j \in 1 .. Len(Es(i)) : k = st[i] + j
  <2>1. PICK i \in 1 .. Len(ss) : \E j \in 1 .. Len(ss[i]) : k = st[i] + j
    BY <1>1 DEF Flattened
  <2>2. i \in 1 .. Len(segments) /\ ss[i] = Es(i)
    BY <1>2
  <2> QED BY <2>1, <2>2
<1>6. Starts(st)
  BY <1>2, <1>3, <1>4, <1>5 DEF Starts
<1> QED BY <1>6

(* The entries as a set are those of the segments.                         *)
LEMMA EntriesSet ==
    ASSUME WAL!TypeOK
    PROVE  \A e : e \in WAL!ToSet(WAL!Entries) <=>
                      \E i \in 1 .. Len(segments) : \E j \in 1 .. Len(Es(i)) : e = Es(i)[j]
<1>1. PICK st : Starts(st)
  BY StartsExist
<1>2. DOMAIN WAL!Entries = 1 .. Len(WAL!Entries)
  BY EntriesPlaces, LenProperties
<1> SUFFICES ASSUME NEW e
             PROVE  e \in WAL!ToSet(WAL!Entries) <=>
                        \E i \in 1 .. Len(segments) : \E j \in 1 .. Len(Es(i)) : e = Es(i)[j]
  OBVIOUS
<1>3. ASSUME e \in WAL!ToSet(WAL!Entries)
      PROVE  \E i \in 1 .. Len(segments) : \E j \in 1 .. Len(Es(i)) : e = Es(i)[j]
  <2>1. PICK k \in 1 .. Len(WAL!Entries) : e = WAL!Entries[k]
    BY <1>2, <1>3 DEF WAL!ToSet
  <2>2. PICK i \in 1 .. Len(segments) : \E j \in 1 .. Len(Es(i)) : k = st[i] + j
    BY <1>1, <2>1 DEF Starts
  <2>3. PICK j \in 1 .. Len(Es(i)) : k = st[i] + j
    BY <2>2
  <2>4. WAL!Entries[st[i] + j] = Es(i)[j]
    BY <1>1, <2>2, <2>3 DEF Starts
  <2> QED BY <2>1, <2>2, <2>3, <2>4
<1>4. ASSUME NEW i \in 1 .. Len(segments), NEW j \in 1 .. Len(Es(i)), e = Es(i)[j]
      PROVE  e \in WAL!ToSet(WAL!Entries)
  <2>1. st[i] + j \in 1 .. Len(WAL!Entries) /\ WAL!Entries[st[i] + j] = Es(i)[j]
    BY <1>1 DEF Starts
  <2> QED BY <1>2, <1>4, <2>1 DEF WAL!ToSet
<1> QED BY <1>3, <1>4

-----------------------------------------------------------------------------
(* f is the function that BytesLeft computes.                              *)
BytesBy(f, s, n) ==
    f = [i \in 0 .. n |-> IF i = 0 THEN s.bytes ELSE f[i - 1] - s.entries[i].size]

(* The bytes that truncate leaves are a number.                            *)
LEMMA BytesLeftNumber ==
    ASSUME NEW s \in WAL!Segment, NEW n \in 0 .. Len(s.entries)
    PROVE  WAL!BytesLeft(s, n) \in Int
<1> DEFINE size(i) == IF i \in 1 .. Len(s.entries) THEN s.entries[i].size ELSE 0
           F == [x \in Nat \X Int |-> x[2] - size(x[1])]
<1>1. Len(s.entries) \in Nat /\ s.bytes \in Int /\ n \in Nat
  BY SegmentFacts
<1>2. ASSUME NEW i \in Nat PROVE size(i) \in Int
  <2>1. CASE i \in 1 .. Len(s.entries)
    <3>1. s.entries[i] \in WAL!Entry
      BY <2>1, SegmentFacts
    <3>2. s.entries[i].size \in Int
      BY <3>1, EntryFacts
    <3> QED BY <2>1, <3>2
  <2>2. CASE i \notin 1 .. Len(s.entries)
    BY <2>2
  <2> QED BY <2>1, <2>2
<1> HIDE DEF size
<1>3. F \in [Nat \X Int -> Int]
  BY <1>2
<1>4. \A i \in Nat, q \in Int : F[<<i, q>>] = q - size(i)
  OBVIOUS
<1> HIDE DEF F
<1>5. PICK g : Iterates(g, Int, s.bytes, F, n)
  BY <1>1, <1>3, Recursion
<1>6. /\ g \in [0 .. n -> Int] /\ g[0] = s.bytes
      /\ \A i \in 1 .. n : g[i] = F[<<i, g[i - 1]>>]
  BY <1>5 DEF Iterates
<1>7. ASSUME NEW i \in 1 .. n PROVE g[i] = g[i - 1] - s.entries[i].size
  <2>1. i \in Nat /\ i \in 1 .. Len(s.entries) /\ g[i - 1] \in Int
    BY <1>1, <1>6
  <2> QED BY <1>4, <1>6, <2>1 DEF size
<1>8. BytesBy(g, s, n)
  <2>1. ASSUME NEW i \in 0 .. n
        PROVE  g[i] = IF i = 0 THEN s.bytes ELSE g[i - 1] - s.entries[i].size
    BY <1>6, <1>7
  <2>2. g = [i \in 0 .. n |-> g[i]]
    BY <1>6
  <2> QED BY <2>1, <2>2 DEF BytesBy
<1> DEFINE f == CHOOSE left : BytesBy(left, s, n)
<1>9. BytesBy(f, s, n)
  BY <1>8
<1>10. WAL!BytesLeft(s, n) = f[n]
  BY DEF WAL!BytesLeft, BytesBy
<1> HIDE DEF f
<1>11. \A i \in 0 .. n : f[i] = IF i = 0 THEN s.bytes ELSE f[i - 1] - s.entries[i].size
  BY <1>9 DEF BytesBy
<1> DEFINE G == {m \in Nat : m <= n => f[m] \in Int}
<1>12. 0 \in G
  BY <1>1, <1>11
<1>13. ASSUME NEW m \in Nat, m \in G PROVE m + 1 \in G
  <2> SUFFICES ASSUME m + 1 <= n PROVE f[m + 1] \in Int
    OBVIOUS
  <2>1. m + 1 \in 0 .. n /\ m + 1 # 0 /\ (m + 1) - 1 = m /\ m <= n
    BY <1>1
  <2>2. f[m + 1] = f[m] - s.entries[m + 1].size
    BY <1>11, <2>1
  <2>3. s.entries[m + 1].size \in Int
    <3>1. m + 1 \in 1 .. Len(s.entries)
      BY <1>1
    <3>2. s.entries[m + 1] \in WAL!Entry
      BY <3>1, SegmentFacts
    <3> QED BY <3>2, EntryFacts
  <2>4. f[m] \in Int
    BY <1>13, <2>1
  <2> QED BY <2>2, <2>3, <2>4
<1>14. n \in G
  <2> HIDE DEF G
  <2> QED BY <1>1, <1>12, <1>13, AllNumbers
<1> QED BY <1>1, <1>10, <1>14

(* f is the function that Refilled computes.                               *)
RefilledBy(f, base, es) ==
    f = [i \in 0 .. Len(es) |->
            IF i = 0 THEN WAL!NewSegment(base)
            ELSE WAL!SegmentAppend(f[i - 1], es[i].key, es[i].value, es[i].size)]

(* There is such a function.                                               *)
LEMMA RefilledExists ==
    ASSUME now \in 0 .. MaxTime, NEW base \in Nat, NEW es \in Seq(WAL!Entry)
    PROVE  \E f : RefilledBy(f, base, es)
<1> DEFINE n == Len(es)
           S == WAL!Segment
           Step(i, s) == IF i \in 1 .. n
                         THEN WAL!SegmentAppend(s, es[i].key, es[i].value, es[i].size) ELSE s
           F == [x \in Nat \X S |-> Step(x[1], x[2])]
<1>1. n \in Nat /\ \A i \in 1 .. n : es[i] \in WAL!Entry
  BY LenProperties, ElementOfSeq
<1>2. ASSUME NEW i \in Nat, NEW s \in S PROVE Step(i, s) \in S
  <2>1. CASE i \in 1 .. n
    <3>1. es[i].key \in WalKeys \cup {NoKey} /\ es[i].value \in 1 .. MaxAppends /\ es[i].size \in Sizes
      BY <1>1, <2>1, EntryFacts
    <3>2. IsAppended(Step(i, s), s, es[i].key, es[i].value, es[i].size)
      BY <2>1, <3>1 DEF IsAppended
    <3> HIDE DEF Step
    <3> QED BY <3>2, SegmentAppended
  <2>2. CASE i \notin 1 .. n
    BY <2>2
  <2> QED BY <2>1, <2>2
<1> HIDE DEF Step
<1>3. F \in [Nat \X S -> S]
  BY <1>2
<1>4. \A i \in Nat, q \in S : F[<<i, q>>] = Step(i, q)
  OBVIOUS
<1>5. WAL!NewSegment(base) \in S
  BY SegmentNew
<1> HIDE DEF F, S, n
<1>6. PICK g : Iterates(g, S, WAL!NewSegment(base), F, n)
  BY <1>1, <1>3, <1>5, Recursion
<1>7. /\ g \in [0 .. n -> S] /\ g[0] = WAL!NewSegment(base)
      /\ \A i \in 1 .. n : g[i] = F[<<i, g[i - 1]>>]
  BY <1>6 DEF Iterates
<1>8. ASSUME NEW i \in 0 .. n
      PROVE  g[i] = IF i = 0 THEN WAL!NewSegment(base)
                    ELSE WAL!SegmentAppend(g[i - 1], es[i].key, es[i].value, es[i].size)
  <2>1. CASE i = 0
    BY <1>7, <2>1
  <2>2. CASE i # 0
    <3>1. i \in Nat /\ i \in 1 .. n /\ i - 1 \in 0 .. n
      BY <1>1, <2>2
    <3>2. g[i - 1] \in S
      BY <1>7, <3>1
    <3>3. g[i] = Step(i, g[i - 1])
      BY <1>4, <1>7, <3>1, <3>2
    <3> QED BY <2>2, <3>1, <3>3 DEF Step
  <2> QED BY <2>1, <2>2
<1>9. g = [i \in 0 .. n |-> g[i]]
  BY <1>7
<1>10. RefilledBy(g, base, es)
  BY <1>8, <1>9 DEF RefilledBy, n
<1> QED BY <1>10

(* The segment t is what compact fills from base on with the entries es.   *)
IsRefilled(t, base, es) ==
    /\ now \in 0 .. MaxTime /\ base \in Nat /\ es \in Seq(WAL!Entry)
    /\ t = WAL!Refilled(base, es)

(* It holds them in their order, with offsets from base on.                *)
LEMMA RefilledWorks ==
    ASSUME NEW t, NEW base, NEW es, IsRefilled(t, base, es)
    PROVE  /\ t \in WAL!Segment /\ t.base = base /\ Len(t.entries) = Len(es)
           /\ \A j \in 1 .. Len(es) : /\ t.entries[j].offset = base + j - 1
                                      /\ t.entries[j].key = es[j].key
                                      /\ t.entries[j].value = es[j].value
<1> DEFINE n == Len(es)
           g == CHOOSE segment : RefilledBy(segment, base, es)
<1>0. now \in 0 .. MaxTime /\ base \in Nat /\ es \in Seq(WAL!Entry)
  BY DEF IsRefilled
<1>1. n \in Nat /\ \A i \in 1 .. n : es[i] \in WAL!Entry
  BY <1>0, LenProperties, ElementOfSeq
<1>2. t = g[n]
  BY DEF IsRefilled, WAL!Refilled, RefilledBy
<1>9. RefilledBy(g, base, es)
  BY <1>0, RefilledExists
<1> HIDE DEF g
<1>3. PICK f : RefilledBy(f, base, es) /\ t = f[n]
  BY <1>2, <1>9
<1>4. \A i \in 0 .. n : f[i] = IF i = 0 THEN WAL!NewSegment(base)
                               ELSE WAL!SegmentAppend(f[i - 1], es[i].key, es[i].value, es[i].size)
  BY <1>3 DEF RefilledBy
<1> HIDE DEF n
<1> DEFINE Good(m) ==
               /\ f[m] \in WAL!Segment /\ f[m].base = base /\ Len(f[m].entries) = m
               /\ \A j \in 1 .. m : /\ f[m].entries[j].offset = base + j - 1
                                    /\ f[m].entries[j].key = es[j].key
                                    /\ f[m].entries[j].value = es[j].value
           G == {m \in Nat : m <= n => Good(m)}
<1>5. 0 \in G
  <2>1. f[0] = WAL!NewSegment(base)
    BY <1>1, <1>4
  <2>2. f[0] \in WAL!Segment /\ f[0].base = base /\ Len(f[0].entries) = 0
    BY <1>0, <2>1, SegmentNew
  <2>3. 1 .. 0 = {}
    OBVIOUS
  <2>4. Good(0)
    BY <2>2, <2>3
  <2> QED BY <2>4
<1>6. ASSUME NEW m \in Nat, m \in G PROVE m + 1 \in G
  <2> HIDE DEF Good
  <2> SUFFICES ASSUME m + 1 <= n PROVE Good(m + 1)
    OBVIOUS
  <2>1. m + 1 \in 0 .. n /\ m + 1 # 0 /\ (m + 1) - 1 = m /\ m <= n /\ m + 1 \in 1 .. n
    BY <1>1
  <2>2. Good(m)
    BY <1>6, <2>1
  <2> DEFINE s == f[m]
             r == f[m + 1]
             k == es[m + 1].key
             v == es[m + 1].value
             z == es[m + 1].size
  <2>4. k \in WalKeys \cup {NoKey} /\ v \in 1 .. MaxAppends /\ z \in Sizes
    BY <1>1, <2>1, EntryFacts
  <2>5. /\ s \in WAL!Segment /\ s.base = base /\ Len(s.entries) = m
        /\ \A j \in 1 .. m : /\ s.entries[j].offset = base + j - 1
                             /\ s.entries[j].key = es[j].key
                             /\ s.entries[j].value = es[j].value
    BY <2>2 DEF Good
  <2>3. IsAppended(r, s, k, v, z)
    BY <1>0, <1>4, <2>1, <2>4, <2>5 DEF IsAppended
  <2>13. ASSUME NEW j \in 1 .. m + 1 PROVE j \in 1 .. m \/ j = m + 1
    OBVIOUS
  <2> HIDE DEF s, r, k, v, z
  <2>6. /\ r \in WAL!Segment /\ r.base = base /\ Len(r.entries) = m + 1
        /\ \A j \in 1 .. m : r.entries[j] = s.entries[j]
        /\ r.entries[m + 1].offset = WAL!NextOffset(s)
        /\ r.entries[m + 1].key = k /\ r.entries[m + 1].value = v
    <3>1. /\ r \in WAL!Segment /\ r.base = s.base /\ Len(r.entries) = Len(s.entries) + 1
          /\ \A j \in 1 .. Len(s.entries) : r.entries[j] = s.entries[j]
          /\ r.entries[Len(s.entries) + 1].offset = WAL!NextOffset(s)
          /\ r.entries[Len(s.entries) + 1].key = k
          /\ r.entries[Len(s.entries) + 1].value = v
      BY <2>3, SegmentAppended
    <3> QED BY <2>5, <3>1
  <2>7. WAL!NextOffset(s) = base + m
    <3>1. WAL!NextOffset(s) = IF m = 0 THEN s.base ELSE s.entries[m].offset + 1
      BY <2>5, SegmentFacts
    <3>2. m # 0 => m \in 1 .. m
      OBVIOUS
    <3>3. m # 0 => s.entries[m].offset = base + m - 1
      BY <2>5, <3>2
    <3> QED BY <1>0, <2>5, <3>1, <3>3
  <2>8. /\ r.entries[m + 1].offset = base + m /\ r.entries[m + 1].key = k
        /\ r.entries[m + 1].value = v
    BY <2>6, <2>7
  <2>9. ASSUME NEW j \in 1 .. m + 1
        PROVE  /\ r.entries[j].offset = base + j - 1
               /\ r.entries[j].key = es[j].key
               /\ r.entries[j].value = es[j].value
    <3>1. CASE j \in 1 .. m
      BY <2>5, <2>6, <3>1
    <3>2. CASE j = m + 1
      <4>1. base + j - 1 = base + m
        BY <3>2
      <4> QED BY <2>8, <3>2, <4>1 DEF k, v
    <3> QED BY <2>13, <3>1, <3>2
  <2> QED BY <2>6, <2>9 DEF Good, r
<1>7. n \in G
  <2> HIDE DEF G
  <2> QED BY <1>1, <1>5, <1>6, AllNumbers
<1>8. Good(n)
  BY <1>1, <1>7
<1> QED BY <1>3, <1>8 DEF n

-----------------------------------------------------------------------------
(* Where a segment with base b is read for offset x, and how many of its   *)
(* l entries that gives when m are wanted from entry a on.                 *)
From(x, b) == IF x < b THEN 0 ELSE x - b
Given(l, a, m) == IF l <= a THEN 0 ELSE IF a + m < l THEN m ELSE l - a

(* LogSegment.read does that.                                              *)
LEMMA SegmentReadWorks ==
    ASSUME NEW s \in WAL!Segment, NEW x \in Nat, NEW m \in Nat,
           NEW es, es = WAL!SegmentRead(s, x, m)
    PROVE  /\ es \in Seq(WAL!Entry) /\ Len(es) \in Nat
           /\ Len(es) = Given(Len(s.entries), From(x, s.base), m)
           /\ \A j \in 1 .. Len(es) : /\ From(x, s.base) + j \in 1 .. Len(s.entries)
                                      /\ es[j] = s.entries[From(x, s.base) + j]
<1>0. PICK a, c, b, w : /\ a = From(x, s.base) /\ c = Len(s.entries) /\ w = s.entries
                        /\ b = IF a + m < c THEN a + m ELSE c
  OBVIOUS
<1>1. s.base \in Nat /\ w \in Seq(WAL!Entry) /\ c \in Nat /\ c = Len(w)
  BY <1>0, SegmentFacts
<1>2. a \in Nat
  BY <1>0, <1>1 DEF From
<1>3. es = SubSeq(w, a + 1, b)
  BY <1>0 DEF WAL!SegmentRead, WAL!Slice, WAL!Smaller, From
<1>4. b \in Int /\ b <= Len(w)
  BY <1>0, <1>1, <1>2
<1>5. (IF a < b THEN b - a ELSE 0) = Given(c, a, m)
  <2>1. a \in Nat /\ c \in Nat /\ m \in Nat /\ b = IF a + m < c THEN a + m ELSE c
    BY <1>0, <1>1, <1>2
  <2>2. CASE c <= a
    BY ONLY <2>1, <2>2 DEF Given
  <2>3. CASE ~(c <= a) /\ a + m < c
    BY ONLY <2>1, <2>3 DEF Given
  <2>4. CASE ~(c <= a) /\ ~(a + m < c)
    BY ONLY <2>1, <2>4 DEF Given
  <2> QED BY <2>2, <2>3, <2>4
<1>6. /\ es \in Seq(WAL!Entry) /\ Len(es) = IF a < b THEN b - a ELSE 0
      /\ \A j \in 1 .. Len(es) : a + j \in 1 .. Len(w) /\ es[j] = w[a + j]
  BY ONLY <1>1, <1>2, <1>3, <1>4, SliceElements
<1> QED BY <1>0, <1>5, <1>6, LenProperties

(* One turn of the loop of read, at segment i.                             *)
Cursor == [results : Seq(WAL!Entry), remaining : Int, offset : Nat]
ReadStep(i, r) ==
    IF r.remaining <= 0 \/ WAL!NextOffset(segments[i]) <= r.offset THEN r
    ELSE LET es == WAL!SegmentRead(segments[i], r.offset, r.remaining) IN
         [results   |-> r.results \o es,
          remaining |-> r.remaining - Len(es),
          offset    |-> IF es = <<>> THEN r.offset ELSE WAL!Last(es).offset + 1]
FirstCursor(o, n) == [results |-> <<>>, remaining |-> n, offset |-> o]

(* f is the function that Read computes.                                   *)
ReadBy(f, o, n) ==
    f = [i \in 0 .. Len(segments) |->
            IF i = 0 THEN FirstCursor(o, n) ELSE ReadStep(i, f[i - 1])]

(* A turn of the loop, in terms of the segment's entries.                  *)
LEMMA ReadTurn ==
    ASSUME WAL!TypeOK, NEW i \in 1 .. Len(segments), NEW r \in Cursor,
           NEW q, q = ReadStep(i, r)
    PROVE  /\ q \in Cursor
           /\ r.remaining <= 0 \/ WAL!NextOffset(segments[i]) <= r.offset => q = r
           /\ ~(r.remaining <= 0 \/ WAL!NextOffset(segments[i]) <= r.offset) =>
                 LET es == WAL!SegmentRead(segments[i], r.offset, r.remaining) IN
                 /\ es \in Seq(WAL!Entry)
                 /\ q.results = r.results \o es /\ q.remaining = r.remaining - Len(es)
                 /\ q.offset = IF Len(es) = 0 THEN r.offset ELSE es[Len(es)].offset + 1
<1>1. /\ r.results \in Seq(WAL!Entry) /\ r.remaining \in Int /\ r.offset \in Nat
      /\ segments[i] \in WAL!Segment
  BY LogSegments DEF Cursor
<1>2. CASE r.remaining <= 0 \/ WAL!NextOffset(segments[i]) <= r.offset
  BY <1>2 DEF ReadStep
<1>3. CASE ~(r.remaining <= 0 \/ WAL!NextOffset(segments[i]) <= r.offset)
  <2> DEFINE es == WAL!SegmentRead(segments[i], r.offset, r.remaining)
             x == IF es = <<>> THEN r.offset ELSE WAL!Last(es).offset + 1
  <2>1. r.remaining \in Nat
    BY <1>1, <1>3
  <2>2. es \in Seq(WAL!Entry)
    BY <1>1, <2>1, SegmentReadWorks
  <2>3. q = [results |-> r.results \o es, remaining |-> r.remaining - Len(es), offset |-> x]
    BY <1>3 DEF ReadStep
  <2> HIDE DEF es
  <2>4. /\ Len(es) \in Nat /\ (es = <<>> <=> Len(es) = 0)
        /\ \A j \in 1 .. Len(es) : es[j] \in WAL!Entry
    BY <2>2, LenProperties, EmptySeq, ElementOfSeq
  <2>5. x = IF Len(es) = 0 THEN r.offset ELSE es[Len(es)].offset + 1
    BY <2>4 DEF WAL!Last
  <2>6. x \in Nat
    <3>1. Len(es) # 0 => Len(es) \in 1 .. Len(es)
      BY <2>4
    <3>2. Len(es) # 0 => es[Len(es)].offset \in Nat
      BY <2>4, <3>1, EntryFacts
    <3> QED BY <1>1, <2>5, <3>2
  <2>7. r.results \o es \in Seq(WAL!Entry)
    BY <1>1, <2>2, ConcatProperties
  <2>8. r.remaining - Len(es) \in Int
    BY <1>1, <2>4
  <2> HIDE DEF x
  <2>9. /\ q.results = r.results \o es /\ q.remaining = r.remaining - Len(es) /\ q.offset = x
        /\ q \in Cursor
    BY <2>3, <2>6, <2>7, <2>8 DEF Cursor
  <2> QED BY <1>3, <2>2, <2>5, <2>9 DEF es
<1> QED BY <1>2, <1>3

(* There is such a function.                                               *)
LEMMA ReadExists ==
    ASSUME WAL!TypeOK, NEW o \in Nat, NEW n \in Nat
    PROVE  \E f : ReadBy(f, o, n)
<1> DEFINE N == Len(segments)
           Step(i, r) == IF i \in 1 .. N THEN ReadStep(i, r) ELSE r
           F == [x \in Nat \X Cursor |-> Step(x[1], x[2])]
           z == FirstCursor(o, n)
<1>1. N \in Nat
  BY LogSegments
<1>2. ASSUME NEW i \in Nat, NEW r \in Cursor PROVE Step(i, r) \in Cursor
  <2>1. CASE i \in 1 .. N
    <3>1. ReadStep(i, r) \in Cursor
      BY <2>1, ReadTurn
    <3> QED BY <2>1, <3>1
  <2>2. CASE i \notin 1 .. N
    BY <2>2
  <2> QED BY <2>1, <2>2
<1> HIDE DEF Step
<1>3. F \in [Nat \X Cursor -> Cursor]
  BY <1>2
<1>4. \A i \in Nat, q \in Cursor : F[<<i, q>>] = Step(i, q)
  OBVIOUS
<1>5. z \in Cursor
  BY DEF FirstCursor, Cursor
<1> HIDE DEF F, N, z
<1>6. PICK g : Iterates(g, Cursor, z, F, N)
  BY <1>1, <1>3, <1>5, Recursion
<1>7. g \in [0 .. N -> Cursor] /\ g[0] = z /\ \A i \in 1 .. N : g[i] = F[<<i, g[i - 1]>>]
  BY <1>6 DEF Iterates
<1>8. ASSUME NEW i \in 0 .. N
      PROVE  g[i] = IF i = 0 THEN z ELSE ReadStep(i, g[i - 1])
  <2>1. CASE i = 0
    BY <1>7, <2>1
  <2>2. CASE i # 0
    <3>1. i \in Nat /\ i \in 1 .. N /\ i - 1 \in 0 .. N
      BY <1>1, <2>2
    <3>2. g[i - 1] \in Cursor
      BY <1>7, <3>1
    <3>3. g[i] = Step(i, g[i - 1])
      BY <1>4, <1>7, <3>1, <3>2
    <3> QED BY <2>2, <3>1, <3>3 DEF Step
  <2> QED BY <2>1, <2>2
<1>9. g = [i \in 0 .. N |-> g[i]]
  BY <1>7
<1>10. ReadBy(g, o, n)
  BY <1>8, <1>9 DEF ReadBy, N, z
<1> QED BY <1>10

(* Read goes from state to state of its loop.                              *)
LEMMA ReadLoop ==
    ASSUME WAL!TypeOK, NEW o \in Nat, NEW n \in Nat
    PROVE  \E f \in [0 .. Len(segments) -> Cursor] :
              /\ f[0] = FirstCursor(o, n)
              /\ \A i \in 1 .. Len(segments) : f[i] = ReadStep(i, f[i - 1])
              /\ WAL!Read(o, n) = f[Len(segments)].results
<1> DEFINE N == Len(segments)
           g == CHOOSE after : ReadBy(after, o, n)
<1>1. N \in Nat
  BY LogSegments
<1>2. WAL!Read(o, n) = g[N].results
  BY DEF WAL!Read, ReadBy, ReadStep, FirstCursor
<1>3. ReadBy(g, o, n)
  BY ReadExists
<1> HIDE DEF g
<1>4. PICK f : ReadBy(f, o, n) /\ WAL!Read(o, n) = f[N].results
  BY <1>2, <1>3
<1>5. /\ f = [i \in 0 .. N |-> f[i]]
      /\ \A i \in 0 .. N : f[i] = IF i = 0 THEN FirstCursor(o, n) ELSE ReadStep(i, f[i - 1])
  BY <1>4 DEF ReadBy
<1> DEFINE G == {m \in Nat : m <= N => f[m] \in Cursor}
<1> HIDE DEF N
<1>6. 0 \in G
  BY <1>1, <1>5 DEF FirstCursor, Cursor
<1>7. ASSUME NEW m \in Nat, m \in G PROVE m + 1 \in G
  <2> SUFFICES ASSUME m + 1 <= N PROVE f[m + 1] \in Cursor
    OBVIOUS
  <2>1. m + 1 \in 0 .. N /\ m + 1 # 0 /\ (m + 1) - 1 = m /\ m <= N /\ m + 1 \in 1 .. N
    BY <1>1
  <2>2. f[m + 1] = ReadStep(m + 1, f[m]) /\ f[m] \in Cursor
    BY <1>5, <1>7, <2>1
  <2> QED BY <2>1, <2>2, ReadTurn DEF N
<1>8. ASSUME NEW m \in 0 .. N PROVE f[m] \in Cursor
  <2>1. m \in Nat /\ m <= N
    BY <1>1
  <2>2. m \in G
    <3> HIDE DEF G
    <3> QED BY <1>6, <1>7, <2>1, AllNumbers
  <2> QED BY <2>1, <2>2
<1>9. f \in [0 .. N -> Cursor]
  BY <1>5, <1>8
<1>10. f[0] = FirstCursor(o, n) /\ \A i \in 1 .. N : f[i] = ReadStep(i, f[i - 1])
  <2>1. 0 \in 0 .. N /\ \A i \in 1 .. N : i \in 0 .. N /\ i # 0
    BY <1>1
  <2> QED BY <1>5, <2>1
<1> QED BY <1>4, <1>9, <1>10 DEF N

-----------------------------------------------------------------------------
(* How many of n entries from place p on are among the first c.            *)
Got(c, p, n) == IF c <= p THEN 0 ELSE IF p + n < c THEN n ELSE c - p

(* One turn of read's loop: c entries are before a segment of l entries,   *)
(* the log begins at offset B, g entries have been read and x is the       *)
(* offset to go on from.                                                   *)
Turning(o, n, B, c, l, p, g, x) ==
    /\ o \in Nat /\ n \in Nat /\ n # 0 /\ B \in Nat /\ c \in Nat /\ l \in Nat
    /\ p = IF o < B THEN 0 ELSE o - B
    /\ g = Got(c, p, n)
    /\ x = IF g = 0 THEN o ELSE B + p + g

(* The arithmetic of a turn that ends the loop or skips the segment.       *)
LEMMA SkipArithmetic ==
    ASSUME NEW o, NEW n, NEW B, NEW c, NEW l, NEW p, NEW g, NEW x,
           Turning(o, n, B, c, l, p, g, x), n - g <= 0 \/ B + c + l <= x
    PROVE  Got(c + l, p, n) = g
<1>0. /\ o \in Nat /\ n \in Nat /\ n # 0 /\ B \in Nat /\ c \in Nat /\ l \in Nat
      /\ p = IF o < B THEN 0 ELSE o - B
      /\ g = Got(c, p, n) /\ x = IF g = 0 THEN o ELSE B + p + g
  BY DEF Turning
<1>1. p \in Nat
  BY <1>0
<1>2. CASE c <= p
  <2>1. g = 0 /\ x = o
    BY <1>0, <1>2 DEF Got
  <2>2. B + c + l <= o
    BY <1>0, <2>1
  <2>3. p = o - B
    BY <1>0, <2>2
  <2> QED BY <1>0, <1>1, <2>1, <2>2, <2>3 DEF Got
<1>3. CASE ~(c <= p) /\ p + n < c
  BY <1>0, <1>1, <1>3 DEF Got
<1>4. CASE ~(c <= p) /\ ~(p + n < c)
  <2>1. g = c - p /\ g # 0 /\ x = B + c
    BY <1>0, <1>1, <1>4 DEF Got
  <2> QED BY <1>0, <1>1, <1>4, <2>1 DEF Got
<1> QED BY <1>2, <1>3, <1>4

(* The arithmetic of a turn that reads the segment.                        *)
LEMMA TakeArithmetic ==
    ASSUME NEW o, NEW n, NEW B, NEW c, NEW l, NEW p, NEW g, NEW x,
           Turning(o, n, B, c, l, p, g, x), ~(n - g <= 0 \/ B + c + l <= x)
    PROVE  /\ From(x, B + c) \in Nat
           /\ p + g = c + From(x, B + c)
           /\ Got(c + l, p, n) = g + Given(l, From(x, B + c), n - g)
<1>0. /\ o \in Nat /\ n \in Nat /\ n # 0 /\ B \in Nat /\ c \in Nat /\ l \in Nat
      /\ p = IF o < B THEN 0 ELSE o - B
      /\ g = Got(c, p, n) /\ x = IF g = 0 THEN o ELSE B + p + g
  BY DEF Turning
<1>1. p \in Nat
  BY <1>0
<1>2. CASE c <= p
  <2>1. g = 0 /\ x = o
    BY <1>0, <1>2 DEF Got
  <2>2. From(x, B + c) = p - c
    BY <1>0, <1>1, <1>2, <2>1 DEF From
  <2> QED BY <1>0, <1>1, <1>2, <2>1, <2>2 DEF Got, Given
<1>3. CASE ~(c <= p) /\ p + n < c
  <2>1. g = n
    BY <1>0, <1>1, <1>3 DEF Got
  <2> QED BY <1>0, <2>1
<1>4. CASE ~(c <= p) /\ ~(p + n < c)
  <2>1. g = c - p /\ g # 0 /\ x = B + c
    BY <1>0, <1>1, <1>4 DEF Got
  <2>2. From(x, B + c) = 0
    BY <1>0, <2>1 DEF From
  <2> QED BY <1>0, <1>1, <1>4, <2>1, <2>2 DEF Got, Given
<1> QED BY <1>2, <1>3, <1>4

(* The offsets of the segments ss have no holes.                           *)
Followed(ss) ==
    /\ \A i \in 1 .. Len(ss) : \A j \in 1 .. Len(ss[i].entries) :
          ss[i].entries[j].offset = ss[i].base + j - 1
    /\ \A i \in 1 .. Len(ss) - 1 : ss[i + 1].base = ss[i].base + Len(ss[i].entries)

(* The offsets of the entries, counted through the segments.               *)
LEMMA EntryOffsets ==
    ASSUME WAL!TypeOK, Followed(segments), NEW st, Starts(st)
    PROVE  /\ segments[1].base \in Nat
           /\ \A i \in 1 .. Len(segments) :
                 /\ st[i] \in Nat /\ st[i + 1] = st[i] + Len(Es(i)) /\ Len(Es(i)) \in Nat
                 /\ segments[i].base = segments[1].base + st[i]
                 /\ WAL!NextOffset(segments[i]) = segments[1].base + st[i + 1]
           /\ \A k \in 1 .. Len(WAL!Entries) : WAL!Entries[k].offset = segments[1].base + k - 1
<1> DEFINE N == Len(segments)
           B == segments[1].base
<1>1. /\ N \in Nat /\ N # 0 /\ 1 \in 1 .. N
      /\ \A i \in 1 .. N : segments[i] \in WAL!Segment
  BY LogSegments
<1>2. \A i \in 1 .. N : segments[i].base \in Nat /\ Len(Es(i)) \in Nat
  BY <1>1, SegmentFacts DEF Es
<1>3. /\ st[1] = 0
      /\ \A i \in 1 .. N : st[i] \in Nat /\ st[i + 1] = st[i] + Len(Es(i))
  <2>1. \A i \in 1 .. N : i \in 1 .. N + 1
    BY <1>1
  <2> QED BY <2>1 DEF Starts
<1>4. /\ \A i \in 1 .. N : \A j \in 1 .. Len(Es(i)) : Es(i)[j].offset = segments[i].base + j - 1
      /\ \A i \in 1 .. N - 1 : segments[i + 1].base = segments[i].base + Len(Es(i))
  BY DEF Followed, Es
<1> HIDE DEF N, B
<1> DEFINE G == {m \in Nat : m + 1 <= N => segments[m + 1].base = B + st[m + 1]}
<1>5. 0 \in G
  BY <1>1, <1>2, <1>3 DEF B
<1>6. ASSUME NEW m \in Nat, m \in G PROVE m + 1 \in G
  <2> SUFFICES ASSUME (m + 1) + 1 <= N PROVE segments[(m + 1) + 1].base = B + st[(m + 1) + 1]
    OBVIOUS
  <2>1. m + 1 \in 1 .. N /\ m + 1 \in 1 .. N - 1 /\ m + 1 <= N
    BY <1>1
  <2>2. segments[m + 1].base = B + st[m + 1]
    BY <1>6, <2>1
  <2>3. segments[(m + 1) + 1].base = segments[m + 1].base + Len(Es(m + 1))
    BY <1>4, <2>1
  <2>4. /\ st[m + 1] \in Nat /\ st[(m + 1) + 1] = st[m + 1] + Len(Es(m + 1))
        /\ B \in Nat /\ Len(Es(m + 1)) \in Nat
    BY <1>1, <1>2, <1>3, <2>1 DEF B
  <2> QED BY <2>2, <2>3, <2>4
<1>7. ASSUME NEW i \in 1 .. N PROVE segments[i].base = B + st[i]
  <2>1. i - 1 \in Nat /\ (i - 1) + 1 = i /\ i <= N
    BY <1>1
  <2>2. i - 1 \in G
    <3> HIDE DEF G
    <3> QED BY <1>5, <1>6, <2>1, AllNumbers
  <2> QED BY <2>1, <2>2
<1>8. B \in Nat
  BY <1>1, <1>2 DEF B
<1>9. ASSUME NEW i \in 1 .. N PROVE WAL!NextOffset(segments[i]) = B + st[i + 1]
  <2>1. WAL!NextOffset(segments[i]) = IF Len(Es(i)) = 0 THEN segments[i].base
                                      ELSE Es(i)[Len(Es(i))].offset + 1
    BY <1>1, SegmentFacts DEF Es
  <2>2. /\ st[i] \in Nat /\ st[i + 1] = st[i] + Len(Es(i)) /\ Len(Es(i)) \in Nat
        /\ segments[i].base = B + st[i]
    BY <1>2, <1>3, <1>7
  <2>3. Len(Es(i)) # 0 => Len(Es(i)) \in 1 .. Len(Es(i))
    BY <2>2
  <2>4. Len(Es(i)) # 0 => Es(i)[Len(Es(i))].offset = segments[i].base + Len(Es(i)) - 1
    BY <1>4, <2>3
  <2> QED BY <1>8, <2>1, <2>2, <2>4
<1>10. ASSUME NEW k \in 1 .. Len(WAL!Entries) PROVE WAL!Entries[k].offset = B + k - 1
  <2>1. PICK i \in 1 .. N : \E j \in 1 .. Len(Es(i)) : k = st[i] + j
    BY DEF Starts, N
  <2>2. PICK j \in 1 .. Len(Es(i)) : k = st[i] + j
    BY <2>1
  <2>3. WAL!Entries[k] = Es(i)[j]
    BY <2>1, <2>2 DEF Starts, N
  <2>4. Es(i)[j].offset = segments[i].base + j - 1 /\ segments[i].base = B + st[i]
    BY <1>4, <1>7
  <2>5. st[i] \in Nat /\ Len(Es(i)) \in Nat
    BY <1>2, <1>3
  <2>6. PICK y, s, x : y = WAL!Entries[k].offset /\ s = st[i] /\ x = segments[i].base
    OBVIOUS
  <2>7. y = x + j - 1 /\ x = B + s /\ k = s + j /\ s \in Nat /\ j \in Int
    BY <2>2, <2>3, <2>4, <2>5, <2>6
  <2>8. y = B + k - 1
    BY ONLY <1>8, <2>7
  <2> QED BY <2>6, <2>8
<1> QED BY <1>2, <1>3, <1>7, <1>8, <1>9, <1>10 DEF B, N

(* State r of read's loop, with c entries behind it: what is read is what  *)
(* the entries have from place p on.                                       *)
ReadSoFar(r, c, o, n, B, p) ==
    /\ Len(r.results) = Got(c, p, n)
    /\ \A j \in 1 .. Len(r.results) :
          p + j \in 1 .. Len(WAL!Entries) /\ r.results[j] = WAL!Entries[p + j]
    /\ r.remaining = n - Len(r.results)
    /\ r.offset = IF Len(r.results) = 0 THEN o ELSE B + p + Len(r.results)

(* A turn of the loop keeps that.                                          *)
LEMMA ReadTurnKeeps ==
    ASSUME WAL!TypeOK, Followed(segments), NEW st, Starts(st),
           NEW i \in 1 .. Len(segments), NEW o \in Nat, NEW n \in Nat, n # 0,
           NEW B, B = segments[1].base, NEW p, p = IF o < B THEN 0 ELSE o - B,
           NEW r \in Cursor, ReadSoFar(r, st[i], o, n, B, p),
           NEW q, q = ReadStep(i, r)
    PROVE  ReadSoFar(q, st[i + 1], o, n, B, p)
<1>1. /\ B \in Nat /\ st[i] \in Nat /\ Len(Es(i)) \in Nat
      /\ st[i + 1] = st[i] + Len(Es(i)) /\ segments[i].base = B + st[i]
      /\ WAL!NextOffset(segments[i]) = B + st[i] + Len(Es(i))
  <2>1. /\ segments[1].base \in Nat
        /\ st[i] \in Nat /\ st[i + 1] = st[i] + Len(Es(i)) /\ Len(Es(i)) \in Nat
        /\ segments[i].base = segments[1].base + st[i]
        /\ WAL!NextOffset(segments[i]) = segments[1].base + st[i + 1]
    BY EntryOffsets
  <2> QED BY <2>1
<1>2. \A k \in 1 .. Len(WAL!Entries) : WAL!Entries[k].offset = B + k - 1
  BY EntryOffsets
<1>3. PICK c, l, g, x : /\ c = st[i] /\ l = Len(Es(i)) /\ g = Len(r.results) /\ x = r.offset
  OBVIOUS
<1>4. Turning(o, n, B, c, l, p, g, x)
  BY <1>1, <1>3 DEF Turning, ReadSoFar
<1>5. /\ B \in Nat /\ c \in Nat /\ l \in Nat /\ p \in Nat
  BY <1>4 DEF Turning
<1>6. r.results \in Seq(WAL!Entry) /\ g \in Nat /\ x \in Nat
  BY <1>3, LenProperties DEF Cursor
<1>7. r.remaining = n - g
  BY <1>3 DEF ReadSoFar
<1>8. ASSUME NEW j \in 1 .. g
      PROVE  p + j \in 1 .. Len(WAL!Entries) /\ r.results[j] = WAL!Entries[p + j]
  BY <1>3 DEF ReadSoFar
<1>9. CASE n - g <= 0 \/ B + c + l <= x
  <2>1. q = r
    <3>1. r.remaining <= 0 \/ WAL!NextOffset(segments[i]) <= r.offset
      BY <1>1, <1>3, <1>7, <1>9
    <3> QED BY <3>1, ReadTurn
  <2>2. Got(c + l, p, n) = g
    BY <1>4, <1>9, SkipArithmetic
  <2>3. Got(st[i + 1], p, n) = Len(q.results)
    BY <1>1, <1>3, <2>1, <2>2
  <2> QED BY <2>1, <2>3 DEF ReadSoFar
<1>10. CASE ~(n - g <= 0 \/ B + c + l <= x)
  <2>1. PICK es, k, a : /\ es = WAL!SegmentRead(segments[i], r.offset, r.remaining)
                        /\ k = Len(es) /\ a = From(x, B + c)
    OBVIOUS
  <2>2. ~(r.remaining <= 0 \/ WAL!NextOffset(segments[i]) <= r.offset)
    BY <1>1, <1>3, <1>7, <1>10
  <2>3. /\ es \in Seq(WAL!Entry)
        /\ q.results = r.results \o es /\ q.remaining = r.remaining - k
        /\ q.offset = IF k = 0 THEN x ELSE es[k].offset + 1
    BY <1>3, <2>1, <2>2, ReadTurn
  <2>4. segments[i] \in WAL!Segment /\ r.remaining \in Nat /\ r.offset \in Nat
    BY <1>3, <1>6, <1>7, <1>10, LogSegments
  <2>5. /\ k \in Nat /\ k = Given(Len(segments[i].entries), From(r.offset, segments[i].base), r.remaining)
        /\ \A j \in 1 .. k : /\ From(r.offset, segments[i].base) + j \in 1 .. Len(segments[i].entries)
                             /\ es[j] = segments[i].entries[From(r.offset, segments[i].base) + j]
    BY ONLY <2>1, <2>4, SegmentReadWorks, SMTT(20)
  <2>a. B \in Nat /\ p \in Nat /\ g \in Nat /\ k \in Nat
    BY <1>5, <1>6, <2>5
  <2>6. /\ k = Given(l, a, n - g)
        /\ \A j \in 1 .. k : a + j \in 1 .. l /\ es[j] = Es(i)[a + j]
    <3>1. From(r.offset, segments[i].base) = a /\ segments[i].entries = Es(i)
      BY <1>1, <1>3, <2>1 DEF Es
    <3> QED BY <1>3, <1>7, <2>5, <3>1
  <2>7. a \in Nat /\ p + g = c + a /\ Got(c + l, p, n) = g + k
    BY <1>4, <1>10, <2>1, <2>6, TakeArithmetic
  <2>8. /\ Len(q.results) = g + k
        /\ \A j \in 1 .. g + k : q.results[j] = IF j <= g THEN r.results[j] ELSE es[j - g]
    <3>1. /\ Len(r.results \o es) = Len(r.results) + Len(es)
          /\ \A j \in 1 .. Len(r.results) + Len(es) :
                (r.results \o es)[j] = IF j <= Len(r.results) THEN r.results[j]
                                       ELSE es[j - Len(r.results)]
      BY <1>6, <2>3, ConcatProperties
    <3> QED BY <1>3, <2>1, <2>3, <3>1
  <2>9. ASSUME NEW j \in 1 .. k
        PROVE  p + g + j \in 1 .. Len(WAL!Entries) /\ es[j] = WAL!Entries[p + g + j]
    <3>1. a + j \in 1 .. l /\ es[j] = Es(i)[a + j]
      BY <2>6
    <3>2. c + (a + j) = p + g + j
      BY ONLY <1>5, <2>a, <2>7, j \in 1 .. k
    <3>3. /\ c + (a + j) \in 1 .. Len(WAL!Entries)
          /\ WAL!Entries[c + (a + j)] = Es(i)[a + j]
      BY <1>3, <3>1 DEF Starts
    <3> QED BY <3>1, <3>2, <3>3
  <2>10. ASSUME NEW j \in 1 .. g + k
         PROVE  p + j \in 1 .. Len(WAL!Entries) /\ q.results[j] = WAL!Entries[p + j]
    <3>1. CASE j <= g
      <4>1. j \in 1 .. g
        BY <1>6, <3>1
      <4> QED BY <1>8, <2>8, <3>1, <4>1
    <3>2. CASE ~(j <= g)
      <4>1. j - g \in 1 .. k /\ p + g + (j - g) = p + j
        BY ONLY <2>a, <3>2, j \in 1 .. g + k
      <4>2. /\ p + g + (j - g) \in 1 .. Len(WAL!Entries)
            /\ es[j - g] = WAL!Entries[p + g + (j - g)]
        BY <2>9, <4>1
      <4> QED BY <2>8, <3>2, <4>1, <4>2
    <3> QED BY <3>1, <3>2
  <2>11. q.remaining = n - (g + k)
    BY ONLY <1>6, <1>7, <2>3, <2>5, n \in Nat
  <2>12. q.offset = IF g + k = 0 THEN o ELSE B + p + (g + k)
    <3>1. CASE k = 0
      <4>1. x = IF g = 0 THEN o ELSE B + p + g
        BY <1>4 DEF Turning
      <4> QED BY <1>6, <2>3, <3>1, <4>1
    <3>2. CASE k # 0
      <4>1. k \in 1 .. k
        BY <2>5, <3>2
      <4>2. es[k].offset = B + (p + g + k) - 1
        BY <1>2, <2>9, <4>1
      <4>3. q.offset = B + (p + g + k) - 1 + 1
        BY <2>3, <3>2, <4>2
      <4>4. g + k # 0
        BY <1>6, <2>5, <3>2
      <4>5. B + (p + g + k) - 1 + 1 = B + p + (g + k)
        BY ONLY <2>a
      <4> QED BY <4>3, <4>4, <4>5
    <3> QED BY <3>1, <3>2
  <2>13. Got(st[i + 1], p, n) = Len(q.results)
    BY <1>1, <1>3, <2>7, <2>8
  <2> QED BY <2>8, <2>10, <2>11, <2>12, <2>13 DEF ReadSoFar
<1> QED BY <1>9, <1>10

(* read returns the first n entries with offset o or more.                 *)
LEMMA ReadWorks ==
    ASSUME WAL!TypeOK, Followed(segments),
           NEW o \in Nat, NEW n \in Nat, n # 0
    PROVE  \E f \in 0 .. Len(WAL!Entries) :
              /\ \A i \in 1 .. f : WAL!Entries[i].offset < o
              /\ \A i \in f + 1 .. Len(WAL!Entries) : WAL!Entries[i].offset >= o
              /\ WAL!Read(o, n)
                    = WAL!Slice(WAL!Entries, f, WAL!Smaller(f + n, Len(WAL!Entries)))
<1>1. PICK st : Starts(st)
  BY StartsExist
<1>2. PICK f \in [0 .. Len(segments) -> Cursor] :
              /\ f[0] = FirstCursor(o, n)
              /\ \A i \in 1 .. Len(segments) : f[i] = ReadStep(i, f[i - 1])
              /\ WAL!Read(o, n) = f[Len(segments)].results
  BY ReadLoop
<1> DEFINE N == Len(segments)
           B == segments[1].base
           p == IF o < B THEN 0 ELSE o - B
           L == Len(WAL!Entries)
<1>3. N \in Nat /\ st[1] = 0 /\ L = st[N + 1]
  BY <1>1, LogSegments DEF Starts
<1>4. /\ B \in Nat /\ \A k \in 1 .. L : WAL!Entries[k].offset = B + k - 1
  BY <1>1, EntryOffsets
<1>5. p \in Nat
  BY <1>4
<1>6. WAL!Entries \in Seq(WAL!Entry) /\ L \in Nat
  BY EntriesPlaces, LenProperties
<1> DEFINE G == {m \in Nat : m <= N => ReadSoFar(f[m], st[m + 1], o, n, B, p)}
<1> HIDE DEF N, B, p, L
<1>7. 0 \in G
  <2>1. f[0].results = <<>> /\ f[0].remaining = n /\ f[0].offset = o
    BY <1>2 DEF FirstCursor
  <2>2. Len(f[0].results) = 0 /\ 1 .. 0 = {}
    BY <2>1
  <2>3. Got(st[0 + 1], p, n) = 0
    BY <1>3, <1>5 DEF Got
  <2>4. ReadSoFar(f[0], st[0 + 1], o, n, B, p)
    BY <2>1, <2>2, <2>3 DEF ReadSoFar
  <2> QED BY <2>4
<1>8. ASSUME NEW m \in Nat, m \in G PROVE m + 1 \in G
  <2> SUFFICES ASSUME m + 1 <= N
               PROVE  ReadSoFar(f[m + 1], st[(m + 1) + 1], o, n, B, p)
    OBVIOUS
  <2>1. m + 1 \in 1 .. N /\ (m + 1) - 1 = m /\ m <= N /\ m \in 0 .. N
    BY <1>3
  <2>2. ReadSoFar(f[m], st[m + 1], o, n, B, p)
    BY <1>8, <2>1
  <2>3. f[m + 1] = ReadStep(m + 1, f[m]) /\ f[m] \in Cursor
    BY <1>2, <2>1 DEF N
  <2> QED BY <1>1, <2>1, <2>2, <2>3, ReadTurnKeeps DEF N, B, p
<1>9. ReadSoFar(f[N], L, o, n, B, p)
  <2>1. N \in G
    <3> HIDE DEF G
    <3> QED BY <1>3, <1>7, <1>8, AllNumbers
  <2> QED BY <1>3, <2>1
<1> DEFINE r == WAL!Read(o, n)
           e == IF p < L THEN p ELSE L
           b == IF e + n < L THEN e + n ELSE L
           t == SubSeq(WAL!Entries, e + 1, b)
<1>10. /\ r \in Seq(WAL!Entry) /\ Len(r) = Got(L, p, n)
       /\ \A j \in 1 .. Len(r) : r[j] = WAL!Entries[p + j]
  <2>1. f[N] \in Cursor /\ r = f[N].results
    BY <1>2, <1>3 DEF N
  <2>2. r \in Seq(WAL!Entry)
    BY <2>1 DEF Cursor
  <2> HIDE DEF r
  <2> QED BY <1>9, <2>1, <2>2 DEF ReadSoFar
<1>11. e \in 0 .. L /\ e \in Nat /\ b \in Int /\ b <= L
  BY <1>5, <1>6
<1>12. /\ \A i \in 1 .. e : WAL!Entries[i].offset < o
       /\ \A i \in e + 1 .. L : WAL!Entries[i].offset >= o
  <2>1. ASSUME NEW i \in 1 .. e PROVE WAL!Entries[i].offset < o
    <3>1. i \in 1 .. L /\ i <= p
      BY <1>5, <1>6, <1>11
    <3>2. o = B + p
      BY <1>4, <1>11, <3>1 DEF p
    <3> QED BY <1>4, <1>5, <3>1, <3>2
  <2>2. ASSUME NEW i \in e + 1 .. L PROVE WAL!Entries[i].offset >= o
    <3>1. i \in 1 .. L /\ i > p
      BY <1>5, <1>6, <1>11
    <3>2. o <= B + p
      BY <1>4 DEF p
    <3> QED BY <1>4, <1>5, <3>1, <3>2
  <2> QED BY <2>1, <2>2
<1>13. (IF e < b THEN b - e ELSE 0) = Got(L, p, n)
  <2>1. CASE L <= p
    <3>1. e = L
      BY <1>5, <1>6, <2>1
    <3> QED BY <1>5, <1>6, <2>1, <3>1 DEF Got
  <2>2. CASE ~(L <= p)
    <3>1. e = p
      BY <1>5, <1>6, <2>2
    <3> QED BY <1>5, <1>6, <2>2, <3>1 DEF Got
  <2> QED BY <2>1, <2>2
<1> HIDE DEF b, e
<1>14. /\ t \in Seq(WAL!Entry) /\ Len(t) = IF e < b THEN b - e ELSE 0
       /\ \A j \in 1 .. Len(t) : t[j] = WAL!Entries[e + j]
  <2> HIDE DEF t
  <2>1. PICK w, d, u, v : w = WAL!Entries /\ d = e /\ u = b /\ v = t
    OBVIOUS
  <2>2. /\ v = SubSeq(w, d + 1, u) /\ u <= Len(w) /\ w \in Seq(WAL!Entry)
        /\ d \in Nat /\ u \in Int
    BY <1>6, <1>11, <2>1 DEF t, L
  <2>3. /\ v \in Seq(WAL!Entry) /\ Len(v) = IF d < u THEN u - d ELSE 0
        /\ \A j \in 1 .. Len(v) : v[j] = w[d + j]
    BY ONLY <2>2, SliceElements
  <2> QED BY <2>1, <2>3
<1> HIDE DEF r, t
<1>15. ASSUME NEW j \in 1 .. Len(r) PROVE r[j] = t[j]
  <2>1. Len(r) # 0 => e = p
    BY <1>5, <1>6, <1>10 DEF Got, e
  <2>2. Len(r) # 0
    BY <1>10, LenProperties
  <2> QED BY <1>10, <1>13, <1>14, <2>1, <2>2
<1>16. r = t
  BY <1>10, <1>13, <1>14, <1>15, SeqEqual
<1>17. t = WAL!Slice(WAL!Entries, e, WAL!Smaller(e + n, L))
  BY DEF t, b, WAL!Slice, WAL!Smaller
<1> QED BY <1>11, <1>12, <1>16, <1>17 DEF r, L

-----------------------------------------------------------------------------
(* What the segments ss hold.  Every entry is one of the values that were  *)
(* appended, with its key ...                                              *)
KeyedBy(ss, ks) ==
    \A i \in 1 .. Len(ss) : \A j \in 1 .. Len(ss[i].entries) :
        /\ ss[i].entries[j].value \in 1 .. Len(ks)
        /\ ss[i].entries[j].key = ks[ss[i].entries[j].value]

(* ... the values rise through the segments ...                            *)
Before(i, j, k, l) == i < k \/ (i = k /\ j < l)
RisingIn(ss) ==
    \A i, k \in 1 .. Len(ss) :
        \A j \in 1 .. Len(ss[i].entries), l \in 1 .. Len(ss[k].entries) :
            Before(i, j, k, l) => ss[i].entries[j].value < ss[k].entries[l].value

(* ... nothing is gone that was neither dropped nor replaced ...           *)
Found(ss, v) ==
    \E i \in 1 .. Len(ss) : \E j \in 1 .. Len(ss[i].entries) : ss[i].entries[j].value = v
Replaced(ks, v) == ks[v] # NoKey /\ \E w \in v + 1 .. Len(ks) : ks[w] = ks[v]
KeptIn(ss, ks, gone) ==
    \A v \in 1 .. Len(ks) : Found(ss, v) \/ v \in gone \/ Replaced(ks, v)

(* ... and what has not been read is at or after the reader's position.    *)
UnreadFrom(ss, read, pos) ==
    \A i \in 1 .. Len(ss) : \A j \in 1 .. Len(ss[i].entries) :
        ss[i].entries[j].value \notin read => ss[i].entries[j].offset >= pos

(* The inductive invariant of the write-ahead log.                         *)
WalInv ==
    /\ WAL!TypeOK
    /\ Len(keys) <= MaxAppends
    /\ "truncate" \notin calls => Followed(segments)
    /\ KeyedBy(segments, keys)
    /\ RisingIn(segments)
    /\ "restart" \notin calls => KeptIn(segments, keys, dropped)
    /\ calls = {} => /\ position <= WAL!LatestOffset
                     /\ UnreadFrom(segments, consumed, position)

(* It implies the three properties.                                        *)
LEMMA WalInvSuffices ==
    ASSUME WalInv
    PROVE  LogReadExact /\ Durable /\ Resumable
<1>0. WAL!TypeOK
  BY DEF WalInv
<1>1. LogReadExact
  <2> SUFFICES ASSUME "truncate" \notin calls,
                      NEW o \in 0 .. WAL!LatestOffset + 1, NEW n \in 1 .. MaxAppends
               PROVE  \E f \in 0 .. Len(WAL!Entries) :
                         /\ \A i \in 1 .. f : WAL!Entries[i].offset < o
                         /\ \A i \in f + 1 .. Len(WAL!Entries) : WAL!Entries[i].offset >= o
                         /\ WAL!Read(o, n)
                               = WAL!Slice(WAL!Entries, f, WAL!Smaller(f + n, Len(WAL!Entries)))
    BY DEF LogReadExact, WAL!ReadExact
  <2>1. o \in Nat /\ n \in Nat /\ n # 0
    OBVIOUS
  <2>2. Followed(segments)
    BY DEF WalInv
  <2> QED BY <1>0, <2>1, <2>2, ReadWorks
<1>2. Durable
  <2> SUFFICES ASSUME "restart" \notin calls, NEW v \in 1 .. Len(keys)
               PROVE  \/ v \in WAL!Values \cup dropped
                      \/ keys[v] # NoKey /\ \E w \in v + 1 .. Len(keys) : keys[w] = keys[v]
    BY DEF Durable, WAL!Durable
  <2>1. Found(segments, v) \/ v \in dropped \/ Replaced(keys, v)
    BY DEF WalInv, KeptIn
  <2>2. CASE Found(segments, v)
    <3>1. PICK i \in 1 .. Len(segments) : \E j \in 1 .. Len(Es(i)) : Es(i)[j].value = v
      BY <2>2 DEF Found, Es
    <3>2. PICK j \in 1 .. Len(Es(i)) : Es(i)[j].value = v
      BY <3>1
    <3>3. Es(i)[j] \in WAL!ToSet(WAL!Entries)
      BY <1>0, <3>1, <3>2, EntriesSet
    <3>4. v \in WAL!Values
      BY <3>2, <3>3 DEF WAL!Values
    <3> QED BY <3>4
  <2> QED BY <2>1, <2>2 DEF Replaced
<1>3. Resumable
  <2> SUFFICES ASSUME calls = {}, NEW e \in WAL!ToSet(WAL!Entries), e.value \notin consumed
               PROVE  e.offset >= position
    BY DEF Resumable, WAL!Resumable
  <2>1. PICK i \in 1 .. Len(segments) : \E j \in 1 .. Len(Es(i)) : e = Es(i)[j]
    BY <1>0, EntriesSet
  <2>2. PICK j \in 1 .. Len(Es(i)) : e = Es(i)[j]
    BY <2>1
  <2>3. UnreadFrom(segments, consumed, position)
    BY DEF WalInv
  <2> QED BY <2>2, <2>3 DEF UnreadFrom, Es
<1> QED BY <1>1, <1>2, <1>3

(* It holds at the start.                                                  *)
LEMMA WalInvInit ==
    ASSUME WAL!Init
    PROVE  WalInv
<1>1. /\ segments = <<WAL!NewSegment(0)>> /\ now = 0 /\ saved = 0 /\ position = 0
      /\ consumed = {} /\ keys = <<>> /\ dropped = {} /\ calls = {}
  BY DEF WAL!Init
<1>2. PICK s : s = WAL!NewSegment(0) /\ s \in WAL!Segment /\ Len(s.entries) = 0 /\ s.base = 0
  BY SegmentNew
<1>3. /\ segments \in Seq(WAL!Segment) /\ segments # <<>> /\ Len(segments) = 1
      /\ segments[1] = s
  BY <1>1, <1>2
<1>4. \A i \in 1 .. Len(segments) : Len(segments[i].entries) = 0
  BY <1>2, <1>3
<1>5. 1 .. 0 = {} /\ 1 .. Len(segments) - 1 = {} /\ Len(keys) = 0
  BY <1>1, <1>3
<1>6. WAL!TypeOK /\ Len(keys) <= MaxAppends
  BY <1>1, <1>3, <1>5, WalConstants DEF WAL!TypeOK
<1>7. Followed(segments) /\ KeyedBy(segments, keys) /\ RisingIn(segments)
  BY <1>4, <1>5 DEF Followed, KeyedBy, RisingIn
<1>8. KeptIn(segments, keys, dropped) /\ UnreadFrom(segments, consumed, position)
  BY <1>4, <1>5 DEF KeptIn, UnreadFrom
<1>9. position <= WAL!LatestOffset
  <2>1. WAL!LatestOffset = WAL!NextOffset(s)
    BY <1>3 DEF WAL!LatestOffset, WAL!Last
  <2>2. WAL!NextOffset(s) = 0
    BY <1>2, SegmentFacts
  <2> QED BY <1>1, <2>1, <2>2
<1> QED BY <1>6, <1>7, <1>8, <1>9 DEF WalInv

(* The segments tt are ss with one more entry at the end.                  *)
Extended(ss, tt, key, v, next) ==
    /\ Len(tt) = Len(ss) \/ Len(tt) = Len(ss) + 1
    /\ \A i \in 1 .. Len(ss) :
          /\ tt[i].base = ss[i].base
          /\ i # Len(tt) => tt[i].entries = ss[i].entries
          /\ \A j \in 1 .. Len(ss[i].entries) :
                j \in 1 .. Len(tt[i].entries) /\ tt[i].entries[j] = ss[i].entries[j]
    /\ Len(tt) = Len(ss) =>
          Len(tt[Len(tt)].entries) = Len(ss[Len(ss)].entries) + 1
    /\ Len(tt) # Len(ss) =>
          tt[Len(tt)].base = next /\ Len(tt[Len(tt)].entries) = 1
    /\ LET e == tt[Len(tt)].entries[Len(tt[Len(tt)].entries)] IN
          e.key = key /\ e.value = v /\ e.offset = next

(* append makes tt of ss.                                                  *)
IsGrown(tt, ss, key, v, size) ==
    LET rotated == IF WAL!IsFull(ss[Len(ss)])
                   THEN Append(ss, WAL!NewSegment(WAL!NextOffset(ss[Len(ss)])))
                   ELSE ss
    IN  tt = [rotated EXCEPT ![Len(rotated)] = WAL!SegmentAppend(@, key, v, size)]

(* Rotated or not, the log has one more entry after it, with the next      *)
(* offset, and the others as they were.                                    *)
LEMMA AppendExtends ==
    ASSUME now \in 0 .. MaxTime, NEW ss \in Seq(WAL!Segment), Len(ss) # 0,
           NEW key \in WalKeys \cup {NoKey}, NEW v \in 1 .. MaxAppends, NEW size \in Sizes,
           NEW tt, IsGrown(tt, ss, key, v, size)
    PROVE  /\ tt \in Seq(WAL!Segment) /\ tt # <<>>
           /\ Extended(ss, tt, key, v, WAL!NextOffset(ss[Len(ss)]))
<1>0. PICK N, a, x, rotated :
         /\ N = Len(ss) /\ a = ss[N] /\ x = WAL!NextOffset(a)
         /\ rotated = IF WAL!IsFull(ss[Len(ss)])
                      THEN Append(ss, WAL!NewSegment(WAL!NextOffset(ss[Len(ss)])))
                      ELSE ss
         /\ tt = [rotated EXCEPT ![Len(rotated)] = WAL!SegmentAppend(@, key, v, size)]
  BY DEF IsGrown
<1>1. /\ N \in Nat /\ N # 0 /\ N \in 1 .. N /\ DOMAIN ss = 1 .. N
      /\ \A i \in 1 .. N : ss[i] \in WAL!Segment
  BY <1>0, LenProperties, ElementOfSeq
<1>2. a \in WAL!Segment /\ x \in Nat
  BY <1>0, <1>1, SegmentFacts
<1>3. CASE ~WAL!IsFull(a)
  <2>1. PICK b : IsAppended(b, a, key, v, size)
    BY <1>2 DEF IsAppended
  <2>2. tt = [ss EXCEPT ![N] = b]
    BY <1>0, <1>3, <2>1 DEF IsAppended
  <2>3. /\ b \in WAL!Segment /\ b.base = a.base
        /\ Len(b.entries) = Len(a.entries) + 1
        /\ \A j \in 1 .. Len(a.entries) : b.entries[j] = a.entries[j]
        /\ b.entries[Len(a.entries) + 1].offset = x
        /\ b.entries[Len(a.entries) + 1].key = key
        /\ b.entries[Len(a.entries) + 1].value = v
    <3>1. /\ b \in WAL!Segment /\ b.base = a.base
          /\ Len(b.entries) = Len(a.entries) + 1
          /\ \A j \in 1 .. Len(a.entries) : b.entries[j] = a.entries[j]
          /\ b.entries[Len(a.entries) + 1].offset = WAL!NextOffset(a)
          /\ b.entries[Len(a.entries) + 1].key = key
          /\ b.entries[Len(a.entries) + 1].value = v
      BY <2>1, SegmentAppended
    <3> QED BY <1>0, <3>1
  <2>4. /\ tt \in Seq(WAL!Segment) /\ Len(tt) = N /\ tt[N] = b
        /\ \A i \in 1 .. N : i # N => tt[i] = ss[i]
    BY <1>0, <1>1, <2>2, <2>3
  <2>5. ASSUME NEW i \in 1 .. N
        PROVE  /\ tt[i].base = ss[i].base /\ (i # N => tt[i].entries = ss[i].entries)
               /\ \A j \in 1 .. Len(ss[i].entries) :
                     j \in 1 .. Len(tt[i].entries) /\ tt[i].entries[j] = ss[i].entries[j]
    <3>1. CASE i = N
      <4>1. tt[i] = b /\ ss[i] = a /\ Len(a.entries) \in Nat
        BY <1>0, <1>2, <2>4, <3>1, SegmentFacts
      <4>2. \A j \in 1 .. Len(a.entries) : j \in 1 .. Len(a.entries) + 1
        BY <4>1
      <4> QED BY <2>3, <3>1, <4>1, <4>2
    <3>2. CASE i # N
      BY <2>4, <3>2
    <3> QED BY <3>1, <3>2
  <2>6. tt # <<>>
    BY <1>1, <2>4
  <2>7. Extended(ss, tt, key, v, x)
    <3>1. N # N + 1 /\ ss[Len(ss)] = a /\ N = Len(ss)
      BY <1>0, <1>1
    <3> QED BY ONLY <2>3, <2>4, <2>5, <3>1 DEF Extended
  <2> QED BY <1>0, <2>4, <2>6, <2>7
<1>4. CASE WAL!IsFull(a)
  <2>0. PICK d : d = WAL!NewSegment(x)
    OBVIOUS
  <2>2. d \in WAL!Segment /\ d.base = x /\ Len(d.entries) = 0
    BY <1>2, <2>0, SegmentNew
  <2>1. PICK b : IsAppended(b, d, key, v, size)
    BY <2>2 DEF IsAppended
  <2>3. WAL!NextOffset(d) = x
    BY <2>2, SegmentFacts
  <2>4. /\ b \in WAL!Segment /\ b.base = d.base
        /\ Len(b.entries) = Len(d.entries) + 1
        /\ b.entries[Len(d.entries) + 1].offset = WAL!NextOffset(d)
        /\ b.entries[Len(d.entries) + 1].key = key
        /\ b.entries[Len(d.entries) + 1].value = v
    <3>1. /\ b \in WAL!Segment /\ b.base = d.base
          /\ Len(b.entries) = Len(d.entries) + 1
          /\ \A j \in 1 .. Len(d.entries) : b.entries[j] = d.entries[j]
          /\ b.entries[Len(d.entries) + 1].offset = WAL!NextOffset(d)
          /\ b.entries[Len(d.entries) + 1].key = key
          /\ b.entries[Len(d.entries) + 1].value = v
      BY <2>1, SegmentAppended
    <3> QED BY <3>1
  <2>5. /\ b.base = x /\ Len(b.entries) = 1 /\ b.entries[1].offset = x
        /\ b.entries[1].key = key /\ b.entries[1].value = v
    BY <2>2, <2>3, <2>4
  <2>6. rotated = Append(ss, d)
    BY <1>0, <1>4, <2>0
  <2>7. /\ rotated \in Seq(WAL!Segment) /\ Len(rotated) = N + 1
        /\ rotated[N + 1] = d /\ \A i \in 1 .. N : rotated[i] = ss[i]
    BY <1>0, <2>2, <2>6, AppendElements
  <2>8. tt = [rotated EXCEPT ![N + 1] = b]
    BY <1>0, <2>1, <2>7 DEF IsAppended
  <2>9. /\ tt \in Seq(WAL!Segment) /\ Len(tt) = N + 1 /\ tt[N + 1] = b
        /\ \A i \in 1 .. N : tt[i] = rotated[i]
    <3>1. N + 1 \in 1 .. Len(rotated) /\ \A i \in 1 .. N : i \in 1 .. Len(rotated) /\ i # N + 1
      BY ONLY <1>1, <2>7
    <3>2. b \in WAL!Segment
      BY <2>4
    <3> QED BY ONLY <2>7, <2>8, <3>1, <3>2, ExceptSeq
  <2>10. \A i \in 1 .. N : tt[i] = ss[i]
    BY <2>7, <2>9
  <2>11. tt # <<>> /\ N + 1 # N
    BY <1>1, <2>9
  <2>12. Extended(ss, tt, key, v, x)
    <3>1. Len(ss) = N /\ Len(tt) = N + 1
      BY <1>0, <2>9
    <3>2. \A i \in 1 .. N : i # N + 1
      BY <1>1
    <3> QED BY ONLY <2>5, <2>9, <2>10, <2>11, <3>1, <3>2 DEF Extended
  <2> QED BY <1>0, <2>9, <2>11, <2>12
<1> QED BY <1>3, <1>4

(* The places of the entries after that: the old ones and a last one.      *)
OneMore(ss, tt, key, v, next) ==
    /\ Len(tt) \in 1 .. Len(tt)
    /\ Len(tt[Len(tt)].entries) \in 1 .. Len(tt[Len(tt)].entries)
    /\ LET e == tt[Len(tt)].entries[Len(tt[Len(tt)].entries)] IN
          e.key = key /\ e.value = v /\ e.offset = next
    /\ \A i \in 1 .. Len(ss) : \A j \in 1 .. Len(ss[i].entries) :
          /\ i \in 1 .. Len(tt) /\ j \in 1 .. Len(tt[i].entries)
          /\ tt[i].entries[j] = ss[i].entries[j]
    /\ \A i \in 1 .. Len(tt) : \A j \in 1 .. Len(tt[i].entries) :
          \/ i = Len(tt) /\ j = Len(tt[i].entries)
          \/ /\ i \in 1 .. Len(ss) /\ j \in 1 .. Len(ss[i].entries)
             /\ tt[i].entries[j] = ss[i].entries[j]

(* That is what an extension is, place by place.                           *)
LEMMA ExtendedPlaces ==
    ASSUME NEW ss \in Seq(WAL!Segment), Len(ss) # 0, NEW tt \in Seq(WAL!Segment),
           NEW key, NEW v, NEW next, Extended(ss, tt, key, v, next)
    PROVE  OneMore(ss, tt, key, v, next)
<1>0. PICK N, M : N = Len(ss) /\ M = Len(tt)
  OBVIOUS
<1>1. N \in Nat /\ N # 0 /\ M \in Nat /\ (M = N \/ M = N + 1)
  BY <1>0, LenProperties DEF Extended
<1>2. \A i \in 1 .. N : Len(ss[i].entries) \in Nat
  BY <1>0, ElementOfSeq, SegmentFacts
<1>3. \A i \in 1 .. M : Len(tt[i].entries) \in Nat
  BY <1>0, ElementOfSeq, SegmentFacts
<1>4. /\ \A i \in 1 .. N :
            /\ i # M => tt[i].entries = ss[i].entries
            /\ \A j \in 1 .. Len(ss[i].entries) :
                  j \in 1 .. Len(tt[i].entries) /\ tt[i].entries[j] = ss[i].entries[j]
      /\ M = N => Len(tt[M].entries) = Len(ss[N].entries) + 1
      /\ M # N => Len(tt[M].entries) = 1
      /\ LET e == tt[M].entries[Len(tt[M].entries)] IN
            e.key = key /\ e.value = v /\ e.offset = next
  BY <1>0 DEF Extended
<1>5. M \in 1 .. M /\ M # 0
  BY <1>1
<1>6. Len(tt[M].entries) \in 1 .. Len(tt[M].entries)
  <2>1. CASE M = N
    <3>1. Len(ss[N].entries) \in Nat
      BY <1>2, <1>5, <2>1
    <3> QED BY <1>4, <2>1, <3>1
  <2>2. CASE M # N
    BY <1>4, <2>2
  <2> QED BY <2>1, <2>2
<1>7. ASSUME NEW i \in 1 .. M, NEW j \in 1 .. Len(tt[i].entries),
             ~(i = M /\ j = Len(tt[i].entries))
      PROVE  /\ i \in 1 .. N /\ j \in 1 .. Len(ss[i].entries)
             /\ tt[i].entries[j] = ss[i].entries[j]
  <2>1. CASE i # M
    <3>1. i \in 1 .. N
      BY <1>1, <2>1
    <3> QED BY <1>4, <2>1, <3>1
  <2>2. CASE i = M
    <3>1. j # Len(tt[M].entries) /\ j \in 1 .. Len(tt[M].entries)
      BY <1>7, <2>2
    <3>2. M = N
      BY <1>4, <3>1
    <3>3. Len(ss[N].entries) \in Nat /\ N \in 1 .. N
      BY <1>2, <1>5, <3>2
    <3>4. j \in 1 .. Len(ss[N].entries)
      BY <1>4, <3>1, <3>2, <3>3
    <3> QED BY <1>4, <2>2, <3>2, <3>3, <3>4
  <2> QED BY <2>1, <2>2
<1>8. \A i \in 1 .. N : i \in 1 .. M
  BY <1>1
<1> QED BY <1>0, <1>4, <1>5, <1>6, <1>7, <1>8 DEF OneMore

(* What the log holds is kept by append: its offsets ...                   *)
LEMMA ExtendedFollows ==
    ASSUME NEW ss \in Seq(WAL!Segment), Len(ss) # 0, NEW tt \in Seq(WAL!Segment),
           NEW key, NEW v, NEW next, Extended(ss, tt, key, v, next),
           next = WAL!NextOffset(ss[Len(ss)]), Followed(ss)
    PROVE  Followed(tt)
<1>0. PICK N, M : N = Len(ss) /\ M = Len(tt)
  OBVIOUS
<1>1. /\ N \in Nat /\ N # 0 /\ M \in Nat /\ (M = N \/ M = N + 1)
      /\ N \in 1 .. N /\ M \in 1 .. M
  BY <1>0, LenProperties DEF Extended
<1>2. \A i \in 1 .. N : ss[i].base \in Nat /\ Len(ss[i].entries) \in Nat
  BY <1>0, ElementOfSeq, SegmentFacts
<1>3. /\ \A i \in 1 .. N : \A j \in 1 .. Len(ss[i].entries) :
            ss[i].entries[j].offset = ss[i].base + j - 1
      /\ \A i \in 1 .. N - 1 : ss[i + 1].base = ss[i].base + Len(ss[i].entries)
  BY <1>0 DEF Followed
<1>4. /\ \A i \in 1 .. N : tt[i].base = ss[i].base /\ (i # M => tt[i].entries = ss[i].entries)
      /\ M = N => Len(tt[M].entries) = Len(ss[N].entries) + 1
      /\ M # N => tt[M].base = next /\ Len(tt[M].entries) = 1
  BY <1>0 DEF Extended
<1>5. next = ss[N].base + Len(ss[N].entries)
  <2>1. ss[N] \in WAL!Segment
    BY <1>0, <1>1, ElementOfSeq
  <2>2. next = IF Len(ss[N].entries) = 0 THEN ss[N].base
               ELSE ss[N].entries[Len(ss[N].entries)].offset + 1
    BY <1>0, <2>1, SegmentFacts
  <2>3. ss[N].base \in Nat /\ Len(ss[N].entries) \in Nat
    BY <1>1, <1>2
  <2>4. CASE Len(ss[N].entries) = 0
    BY <2>2, <2>3, <2>4
  <2>5. CASE Len(ss[N].entries) # 0
    <3>1. Len(ss[N].entries) \in 1 .. Len(ss[N].entries)
      BY <2>3, <2>5
    <3>2. ss[N].entries[Len(ss[N].entries)].offset = ss[N].base + Len(ss[N].entries) - 1
      BY <1>1, <1>3, <3>1
    <3> QED BY <2>2, <2>3, <2>5, <3>2
  <2> QED BY <2>4, <2>5
<1>6. next = tt[M].base + Len(tt[M].entries) - 1
  <2>1. ss[N].base \in Nat /\ Len(ss[N].entries) \in Nat
    BY <1>1, <1>2
  <2>2. CASE M = N
    <3>1. /\ tt[M].base = ss[N].base
          /\ Len(tt[M].entries) = Len(ss[N].entries) + 1
      BY ONLY <1>1, <1>4, <2>2
    <3>2. \A a, b \in Nat : a + b = a + (b + 1) - 1
      OBVIOUS
    <3>3. ss[N].base + Len(ss[N].entries) = ss[N].base + (Len(ss[N].entries) + 1) - 1
      BY ONLY <2>1, <3>2
    <3> QED BY ONLY <1>5, <3>1, <3>3
  <2>3. CASE M # N
    <3>1. tt[M].base = next /\ Len(tt[M].entries) = 1
      BY <1>4, <2>3
    <3>2. next \in Nat
      BY ONLY <1>5, <2>1
    <3>3. next = next + 1 - 1
      BY ONLY <3>2
    <3> QED BY ONLY <3>1, <3>3
  <2> QED BY <2>2, <2>3
<1>7. OneMore(ss, tt, key, v, next)
  BY ExtendedPlaces
<1>8. ASSUME NEW i \in 1 .. M, NEW j \in 1 .. Len(tt[i].entries)
      PROVE  tt[i].entries[j].offset = tt[i].base + j - 1
  <2>1. CASE i = M /\ j = Len(tt[i].entries)
    <3>1. tt[i].entries[j].offset = next
      BY <1>0, <1>7, <2>1 DEF OneMore
    <3> QED BY <1>6, <2>1, <3>1
  <2>2. CASE ~(i = M /\ j = Len(tt[i].entries))
    <3>1. /\ i \in 1 .. N /\ j \in 1 .. Len(ss[i].entries)
          /\ tt[i].entries[j] = ss[i].entries[j]
      BY <1>0, <1>7, <2>2 DEF OneMore
    <3> QED BY <1>3, <1>4, <3>1
  <2> QED BY <2>1, <2>2
<1>9. ASSUME NEW i \in 1 .. M - 1
      PROVE  tt[i + 1].base = tt[i].base + Len(tt[i].entries)
  <2>1. i \in 1 .. N /\ i # M /\ tt[i].base = ss[i].base /\ tt[i].entries = ss[i].entries
    BY <1>1, <1>4
  <2>2. CASE i = N
    <3>1. M = N + 1 /\ M # N
      BY <1>1, <2>2
    <3> QED BY <1>4, <1>5, <2>1, <2>2, <3>1
  <2>3. CASE i # N
    <3>1. i \in 1 .. N - 1 /\ i + 1 \in 1 .. N
      BY <1>1, <2>1, <2>3
    <3> QED BY <1>3, <1>4, <2>1, <3>1
  <2> QED BY <2>2, <2>3
<1> QED BY <1>0, <1>8, <1>9 DEF Followed

(* ... its values and keys ...                                             *)
LEMMA ExtendedKeyed ==
    ASSUME NEW ss, NEW tt, NEW K, NEW ks \in Seq(K), NEW key \in K, NEW v, NEW next,
           v = Len(ks) + 1, OneMore(ss, tt, key, v, next), KeyedBy(ss, ks)
    PROVE  KeyedBy(tt, Append(ks, key))
<1>1. /\ Len(Append(ks, key)) = Len(ks) + 1 /\ Append(ks, key)[Len(ks) + 1] = key
      /\ \A i \in 1 .. Len(ks) : Append(ks, key)[i] = ks[i]
  BY AppendElements
<1>2. PICK n, kt : n = Len(ks) /\ kt = Append(ks, key)
  OBVIOUS
<1>3. n \in Nat /\ \A i \in 1 .. n : i \in 1 .. n + 1
  BY <1>2, LenProperties
<1>4. ASSUME NEW i \in 1 .. Len(tt), NEW j \in 1 .. Len(tt[i].entries)
      PROVE  /\ tt[i].entries[j].value \in 1 .. n + 1
             /\ tt[i].entries[j].key = kt[tt[i].entries[j].value]
  <2>1. CASE i = Len(tt) /\ j = Len(tt[i].entries)
    <3>1. tt[i].entries[j].value = n + 1 /\ tt[i].entries[j].key = key
      BY <1>2, <2>1 DEF OneMore
    <3>2. n + 1 \in 1 .. n + 1
      BY <1>3
    <3> QED BY <1>1, <1>2, <3>1, <3>2
  <2>2. CASE ~(i = Len(tt) /\ j = Len(tt[i].entries))
    <3>1. /\ i \in 1 .. Len(ss) /\ j \in 1 .. Len(ss[i].entries)
          /\ tt[i].entries[j] = ss[i].entries[j]
      BY <2>2 DEF OneMore
    <3>2. /\ ss[i].entries[j].value \in 1 .. n
          /\ ss[i].entries[j].key = ks[ss[i].entries[j].value]
      BY <1>2, <3>1 DEF KeyedBy
    <3> QED BY <1>1, <1>2, <1>3, <3>1, <3>2
  <2> QED BY <2>1, <2>2
<1> QED BY <1>1, <1>2, <1>4 DEF KeyedBy

(* ... their order ...                                                     *)
LEMMA ExtendedRises ==
    ASSUME NEW ss, NEW tt, NEW K, NEW ks \in Seq(K), NEW key, NEW v, NEW next,
           v = Len(ks) + 1, OneMore(ss, tt, key, v, next), KeyedBy(ss, ks), RisingIn(ss)
    PROVE  RisingIn(tt)
<1>1. Len(ks) \in Nat
  BY LenProperties
<1> SUFFICES ASSUME NEW i \in 1 .. Len(tt), NEW k \in 1 .. Len(tt),
                    NEW j \in 1 .. Len(tt[i].entries), NEW l \in 1 .. Len(tt[k].entries),
                    Before(i, j, k, l)
             PROVE  tt[i].entries[j].value < tt[k].entries[l].value
  BY DEF RisingIn
<1>2. ~(i = Len(tt) /\ j = Len(tt[i].entries))
  <2> SUFFICES ASSUME i = Len(tt), j = Len(tt[i].entries)
               PROVE  FALSE
    OBVIOUS
  <2>1. Len(tt) \in 1 .. Len(tt) /\ i <= Len(tt) /\ k <= Len(tt)
    BY DEF OneMore
  <2>2. ~(i < k)
    OBVIOUS
  <2>3. i = k /\ j < l
    BY <2>2 DEF Before
  <2> QED BY <2>3
<1>3. /\ i \in 1 .. Len(ss) /\ j \in 1 .. Len(ss[i].entries)
      /\ tt[i].entries[j] = ss[i].entries[j]
  BY <1>2 DEF OneMore
<1>4. CASE k = Len(tt) /\ l = Len(tt[k].entries)
  <2>1. tt[k].entries[l].value = Len(ks) + 1
    BY <1>4 DEF OneMore
  <2>2. ss[i].entries[j].value \in 1 .. Len(ks)
    BY <1>3 DEF KeyedBy
  <2>3. ss[i].entries[j].value < Len(ks) + 1
    BY ONLY <2>2, <1>1
  <2> QED BY ONLY <1>3, <2>1, <2>3
<1>5. CASE ~(k = Len(tt) /\ l = Len(tt[k].entries))
  <2>1. /\ k \in 1 .. Len(ss) /\ l \in 1 .. Len(ss[k].entries)
        /\ tt[k].entries[l] = ss[k].entries[l]
    BY <1>5 DEF OneMore
  <2> QED BY <1>3, <2>1 DEF RisingIn
<1> QED BY <1>4, <1>5

(* ... what it has not lost ...                                            *)
LEMMA ExtendedKeeps ==
    ASSUME NEW ss, NEW tt, NEW K, NEW ks \in Seq(K), NEW key \in K, NEW v, NEW next, NEW gone,
           v = Len(ks) + 1, OneMore(ss, tt, key, v, next), KeptIn(ss, ks, gone)
    PROVE  KeptIn(tt, Append(ks, key), gone)
<1>1. /\ Len(Append(ks, key)) = Len(ks) + 1
      /\ \A i \in 1 .. Len(ks) : Append(ks, key)[i] = ks[i]
  BY AppendElements
<1>2. PICK n, kt : n = Len(ks) /\ kt = Append(ks, key)
  OBVIOUS
<1>3. n \in Nat
  BY <1>2, LenProperties
<1>4. ASSUME NEW u \in 1 .. n + 1
      PROVE  Found(tt, u) \/ u \in gone \/ Replaced(kt, u)
  <2>1. CASE u = n + 1
    <3>1. Found(tt, u)
      BY <1>2, <2>1 DEF Found, OneMore
    <3> QED BY <3>1
  <2>2. CASE u # n + 1
    <3>1. u \in 1 .. n
      BY <1>3, <2>2
    <3>2. Found(ss, u) \/ u \in gone \/ Replaced(ks, u)
      BY <1>2, <3>1 DEF KeptIn
    <3>3. Found(ss, u) => Found(tt, u)
      BY DEF Found, OneMore
    <3>4. CASE Replaced(ks, u)
      <4>1. PICK w \in u + 1 .. n : ks[w] = ks[u]
        BY <1>2, <3>4 DEF Replaced
      <4>2. w \in 1 .. n /\ w \in u + 1 .. n + 1
        BY <1>3, <3>1
      <4>3. kt[w] = kt[u] /\ kt[u] # NoKey
        BY <1>1, <1>2, <3>1, <3>4, <4>1, <4>2 DEF Replaced
      <4>4. Len(kt) = n + 1
        BY <1>1, <1>2
      <4> QED BY <4>2, <4>3, <4>4 DEF Replaced
    <3> QED BY <3>2, <3>3, <3>4
  <2> QED BY <2>1, <2>2
<1> QED BY <1>1, <1>2, <1>4 DEF KeptIn

(* ... and what the consumer still has to read.                            *)
LEMMA ExtendedUnread ==
    ASSUME NEW ss, NEW tt, NEW key, NEW v, NEW next, NEW read, NEW pos,
           OneMore(ss, tt, key, v, next), UnreadFrom(ss, read, pos), next >= pos
    PROVE  UnreadFrom(tt, read, pos)
<1> SUFFICES ASSUME NEW i \in 1 .. Len(tt), NEW j \in 1 .. Len(tt[i].entries),
                    tt[i].entries[j].value \notin read
             PROVE  tt[i].entries[j].offset >= pos
  BY DEF UnreadFrom
<1>1. CASE i = Len(tt) /\ j = Len(tt[i].entries)
  BY <1>1 DEF OneMore
<1>2. CASE ~(i = Len(tt) /\ j = Len(tt[i].entries))
  <2>1. /\ i \in 1 .. Len(ss) /\ j \in 1 .. Len(ss[i].entries)
        /\ tt[i].entries[j] = ss[i].entries[j]
    BY <1>2 DEF OneMore
  <2> QED BY <2>1 DEF UnreadFrom
<1> QED BY <1>1, <1>2

-----------------------------------------------------------------------------
(* The parts of the invariant, in the form the steps need.                 *)
LEMMA WalInvFacts ==
    ASSUME WalInv
    PROVE  /\ segments \in Seq(WAL!Segment) /\ segments # <<>> /\ Len(segments) # 0
           /\ Len(segments) \in 1 .. Len(segments)
           /\ segments[Len(segments)] \in WAL!Segment
           /\ WAL!Last(segments) = segments[Len(segments)]
           /\ WAL!LatestOffset = WAL!NextOffset(segments[Len(segments)])
           /\ WAL!LatestOffset \in Nat
           /\ now \in 0 .. MaxTime /\ saved \in Nat /\ position \in Nat
           /\ keys \in Seq(WalKeys \cup {NoKey}) /\ Len(keys) \in Nat
<1>1. WAL!TypeOK
  BY DEF WalInv
<1>2. /\ segments \in Seq(WAL!Segment) /\ segments # <<>>
      /\ now \in 0 .. MaxTime /\ saved \in Nat /\ position \in Nat
      /\ keys \in Seq(WalKeys \cup {NoKey})
  BY <1>1 DEF WAL!TypeOK
<1>3. /\ Len(segments) # 0 /\ Len(segments) \in 1 .. Len(segments)
      /\ segments[Len(segments)] \in WAL!Segment
  BY <1>1, LogSegments
<1>4. /\ WAL!Last(segments) = segments[Len(segments)]
      /\ WAL!LatestOffset = WAL!NextOffset(segments[Len(segments)])
  BY DEF WAL!Last, WAL!LatestOffset
<1>5. WAL!LatestOffset \in Nat
  BY <1>3, <1>4, SegmentFacts
<1> QED BY <1>2, <1>3, <1>4, <1>5, LenProperties

(* append keeps the invariant.                                             *)
LEMMA WalAppend ==
    ASSUME WalInv, NEW key \in WalKeys \cup {NoKey}, NEW size \in Sizes,
           WAL!AppendEntry(key, size)
    PROVE  WalInv'
<1> DEFINE v == Len(keys) + 1
<1>1. PICK tt : segments' = tt /\ IsGrown(tt, segments, key, v, size)
  BY WalInvFacts DEF WAL!AppendEntry, IsGrown
<1>2. /\ Len(keys) < MaxAppends /\ keys' = Append(keys, key)
      /\ now' = now /\ saved' = saved /\ position' = position /\ consumed' = consumed
      /\ dropped' = dropped /\ calls' = calls
  BY DEF WAL!AppendEntry, WAL!consumerVars
<1>3. /\ segments \in Seq(WAL!Segment) /\ Len(segments) # 0 /\ now \in 0 .. MaxTime
      /\ keys \in Seq(WalKeys \cup {NoKey}) /\ Len(keys) \in Nat
  BY WalInvFacts
<1>4. v \in 1 .. MaxAppends
  BY <1>2, <1>3, WalConstants
<1>5. PICK ss, u : ss = segments /\ u = v
  OBVIOUS
<1> HIDE DEF v
<1>6. PICK next : next = WAL!NextOffset(ss[Len(ss)])
  OBVIOUS
<1>7. /\ tt \in Seq(WAL!Segment) /\ tt # <<>>
      /\ Extended(ss, tt, key, u, next)
  <2>1. /\ ss \in Seq(WAL!Segment) /\ Len(ss) # 0 /\ u \in 1 .. MaxAppends
        /\ IsGrown(tt, ss, key, u, size)
    BY <1>1, <1>3, <1>4, <1>5
  <2>2. /\ tt \in Seq(WAL!Segment) /\ tt # <<>>
        /\ Extended(ss, tt, key, u, WAL!NextOffset(ss[Len(ss)]))
    BY ONLY <1>3, <2>1, key \in WalKeys \cup {NoKey}, size \in Sizes, AppendExtends
  <2> QED BY <1>6, <2>2
<1>8. OneMore(ss, tt, key, u, next)
  BY <1>3, <1>5, <1>7, ExtendedPlaces
<1>9. u = Len(keys) + 1
  BY <1>5 DEF v
<1>10. WAL!TypeOK' /\ Len(keys') <= MaxAppends
  <2>1. Append(keys, key) \in Seq(WalKeys \cup {NoKey}) /\ Len(Append(keys, key)) = Len(keys) + 1
    BY <1>3, AppendElements
  <2>2. Len(keys') <= MaxAppends
    BY <1>2, <1>3, <2>1, WalConstants
  <2>3. WAL!TypeOK
    BY DEF WalInv
  <2> QED BY <1>1, <1>2, <1>7, <2>1, <2>2, <2>3 DEF WAL!TypeOK
<1>11. "truncate" \notin calls' => Followed(segments')
  <2> SUFFICES ASSUME "truncate" \notin calls' PROVE Followed(segments')
    OBVIOUS
  <2>1. Followed(ss)
    BY <1>2, <1>5 DEF WalInv
  <2>2. Followed(tt)
    BY <1>3, <1>5, <1>6, <1>7, <2>1, ExtendedFollows
  <2> QED BY <1>1, <2>2
<1>12. KeyedBy(segments', keys')
  <2>1. KeyedBy(ss, keys)
    BY <1>5 DEF WalInv
  <2>2. KeyedBy(tt, Append(keys, key))
    <3>1. PICK ks : ks = keys
      OBVIOUS
    <3>2. ks \in Seq(WalKeys \cup {NoKey}) /\ u = Len(ks) + 1 /\ KeyedBy(ss, ks)
      BY <1>3, <1>9, <2>1, <3>1
    <3>3. KeyedBy(tt, Append(ks, key))
      BY ONLY <1>8, <3>2, key \in WalKeys \cup {NoKey}, ExtendedKeyed
    <3> QED BY <3>1, <3>3
  <2> QED BY <1>1, <1>2, <2>2
<1>13. RisingIn(segments')
  <2>1. KeyedBy(ss, keys) /\ RisingIn(ss)
    BY <1>5 DEF WalInv
  <2>2. PICK ks : ks = keys
    OBVIOUS
  <2>3. ks \in Seq(WalKeys \cup {NoKey}) /\ u = Len(ks) + 1 /\ KeyedBy(ss, ks)
    BY <1>3, <1>9, <2>1, <2>2
  <2>4. RisingIn(tt)
    BY <1>8, <2>1, <2>3, ExtendedRises
  <2> QED BY <1>1, <2>4
<1>14. "restart" \notin calls' => KeptIn(segments', keys', dropped')
  <2> SUFFICES ASSUME "restart" \notin calls' PROVE KeptIn(segments', keys', dropped')
    OBVIOUS
  <2>1. PICK ks, gone : ks = keys /\ gone = dropped
    OBVIOUS
  <2>2. ks \in Seq(WalKeys \cup {NoKey}) /\ u = Len(ks) + 1 /\ KeptIn(ss, ks, gone)
    BY <1>2, <1>3, <1>5, <1>9, <2>1 DEF WalInv
  <2>3. KeptIn(tt, Append(ks, key), gone)
    BY ONLY <1>8, <2>2, key \in WalKeys \cup {NoKey}, ExtendedKeeps
  <2> QED BY <1>1, <1>2, <2>1, <2>3
<1>15. calls' = {} => position' <= WAL!LatestOffset' /\ UnreadFrom(segments', consumed', position')
  <2> SUFFICES ASSUME calls' = {}
               PROVE  position' <= WAL!LatestOffset' /\ UnreadFrom(segments', consumed', position')
    OBVIOUS
  <2>1. position <= WAL!LatestOffset /\ UnreadFrom(segments, consumed, position)
    BY <1>2 DEF WalInv
  <2>2. next = WAL!LatestOffset /\ next \in Nat /\ position \in Nat
    BY <1>5, <1>6, WalInvFacts
  <2>3. UnreadFrom(tt, consumed, position)
    <3>1. PICK read, pos : read = consumed /\ pos = position
      OBVIOUS
    <3>2. UnreadFrom(ss, read, pos) /\ next >= pos
      BY <1>5, <2>1, <2>2, <3>1
    <3>3. UnreadFrom(tt, read, pos)
      BY <1>8, <3>2, ExtendedUnread
    <3> QED BY <3>1, <3>3
  <2>4. WAL!LatestOffset' = next + 1
    <3>1. WAL!LatestOffset' = WAL!NextOffset(tt[Len(tt)])
      BY <1>1 DEF WAL!LatestOffset, WAL!Last
    <3>2. Len(tt) \in 1 .. Len(tt)
      BY <1>8 DEF OneMore
    <3>3. tt[Len(tt)] \in WAL!Segment
      BY <1>7, <3>2, ElementOfSeq
    <3>4. /\ Len(tt[Len(tt)].entries) # 0
          /\ tt[Len(tt)].entries[Len(tt[Len(tt)].entries)].offset = next
      BY <1>8 DEF OneMore
    <3> QED BY <3>1, <3>3, <3>4, SegmentFacts
  <2> QED BY <1>1, <1>2, <2>1, <2>2, <2>3, <2>4
<1> QED BY <1>10, <1>11, <1>12, <1>13, <1>14, <1>15 DEF WalInv

(* The segments tt are ss without the first k of them and without the      *)
(* first n entries of the last one: what retention and truncate leave.     *)
Shortened(ss, tt, k, n) ==
    /\ k \in Nat /\ n \in Nat /\ Len(tt) \in Nat /\ Len(ss) = k + Len(tt)
    /\ \A i \in 1 .. Len(tt) : \A j \in 1 .. Len(tt[i].entries) :
          LET l == IF i = Len(tt) THEN n + j ELSE j IN
          /\ k + i \in 1 .. Len(ss) /\ l \in 1 .. Len(ss[k + i].entries)
          /\ tt[i].entries[j] = ss[k + i].entries[l]

(* That leaves the values, the keys and the order as they were.            *)
LEMMA ShortenedKeeps ==
    ASSUME NEW ss, NEW tt, NEW k, NEW n, NEW ks, Shortened(ss, tt, k, n),
           KeyedBy(ss, ks), RisingIn(ss)
    PROVE  KeyedBy(tt, ks) /\ RisingIn(tt)
<1>1. KeyedBy(tt, ks)
  <2> SUFFICES ASSUME NEW i \in 1 .. Len(tt), NEW j \in 1 .. Len(tt[i].entries)
               PROVE  /\ tt[i].entries[j].value \in 1 .. Len(ks)
                      /\ tt[i].entries[j].key = ks[tt[i].entries[j].value]
    BY DEF KeyedBy
  <2>1. PICK l : /\ k + i \in 1 .. Len(ss) /\ l \in 1 .. Len(ss[k + i].entries)
                 /\ tt[i].entries[j] = ss[k + i].entries[l]
    BY DEF Shortened
  <2> QED BY <2>1 DEF KeyedBy
<1>2. RisingIn(tt)
  <2> SUFFICES ASSUME NEW a \in 1 .. Len(tt), NEW b \in 1 .. Len(tt),
                      NEW j \in 1 .. Len(tt[a].entries), NEW l \in 1 .. Len(tt[b].entries),
                      Before(a, j, b, l)
               PROVE  tt[a].entries[j].value < tt[b].entries[l].value
    BY DEF RisingIn
  <2> DEFINE jj == IF a = Len(tt) THEN n + j ELSE j
             ll == IF b = Len(tt) THEN n + l ELSE l
  <2>1. /\ k + a \in 1 .. Len(ss) /\ jj \in 1 .. Len(ss[k + a].entries)
        /\ tt[a].entries[j] = ss[k + a].entries[jj]
    BY DEF Shortened
  <2>2. /\ k + b \in 1 .. Len(ss) /\ ll \in 1 .. Len(ss[k + b].entries)
        /\ tt[b].entries[l] = ss[k + b].entries[ll]
    BY DEF Shortened
  <2>3. Before(k + a, jj, k + b, ll)
    <3>1. k \in Nat /\ n \in Nat
      BY DEF Shortened
    <3>2. CASE a < b
      <4>1. k + a < k + b
        BY <3>1, <3>2
      <4> QED BY <4>1 DEF Before
    <3>3. CASE a = b /\ j < l
      <4>1. jj < ll
        <5>1. CASE a = Len(tt)
          BY <3>1, <3>3, <5>1
        <5>2. CASE a # Len(tt)
          BY <3>3, <5>2
        <5> QED BY <5>1, <5>2
      <4> QED BY <3>3, <4>1 DEF Before
    <3> QED BY <3>2, <3>3 DEF Before
  <2> HIDE DEF jj, ll
  <2>4. ss[k + a].entries[jj].value < ss[k + b].entries[ll].value
    BY <2>1, <2>2, <2>3 DEF RisingIn
  <2> QED BY <2>1, <2>2, <2>4
<1> QED BY <1>1, <1>2

(* apply_retention keeps the invariant.                                    *)
LEMMA WalRetention ==
    ASSUME WalInv, WAL!ApplyRetention
    PROVE  WalInv'
<1>1. PICK k \in 1 .. Len(segments) - 1 :
         /\ segments' = SubSeq(segments, k + 1, Len(segments))
         /\ dropped' = dropped \cup UNION {{e.value : e \in WAL!ToSet(segments[i].entries)}
                                              : i \in 1 .. k}
  BY DEF WAL!ApplyRetention
<1>2. /\ now' = now /\ saved' = saved /\ position' = position /\ consumed' = consumed
      /\ keys' = keys /\ calls' = calls
  BY DEF WAL!ApplyRetention, WAL!consumerVars
<1>3. WAL!TypeOK
  BY DEF WalInv
<1>4. PICK ss, tt, N : ss = segments /\ tt = segments' /\ N = Len(ss)
  OBVIOUS
<1>5. ss \in Seq(WAL!Segment) /\ N \in Nat /\ N # 0
  BY <1>4, WalInvFacts, LenProperties
<1>6. k \in 1 .. Len(ss) /\ k \in Nat /\ k < N
  BY <1>4, <1>5
<1>7. /\ tt \in Seq(WAL!Segment) /\ Len(tt) = N - k
      /\ \A i \in 1 .. N - k : tt[i] = ss[k + i]
  <2>1. tt = SubSeq(ss, k + 1, Len(ss))
    BY <1>1, <1>4
  <2>2. /\ SubSeq(ss, k + 1, Len(ss)) \in Seq(WAL!Segment)
        /\ Len(SubSeq(ss, k + 1, Len(ss))) = Len(ss) - k
        /\ \A j \in 1 .. (Len(ss) - k) : SubSeq(ss, k + 1, Len(ss))[j] = ss[k + j]
    BY ONLY <1>5, <1>6, SuffixElements
  <2> QED BY <1>4, <2>1, <2>2
<1>8. \A i \in 1 .. N - k : k + i \in 1 .. N /\ tt[i] = ss[k + i]
  BY <1>5, <1>6, <1>7
<1>9. tt # <<>> /\ Len(tt) \in 1 .. Len(tt) /\ tt[Len(tt)] = ss[N]
  <2>1. Len(tt) \in 1 .. Len(tt) /\ Len(tt) # 0 /\ k + (N - k) = N
    BY <1>5, <1>6, <1>7
  <2>2. tt # <<>>
    BY <2>1
  <2> QED BY <1>7, <2>1, <2>2
<1>10. WAL!TypeOK'
  <2>1. ASSUME NEW i \in 1 .. k, NEW e \in WAL!ToSet(segments[i].entries)
        PROVE  e.value \in 1 .. MaxAppends
    <3>1. segments[i] \in WAL!Segment
      <4>1. i \in 1 .. Len(segments)
        BY <1>4, <1>5, <1>6
      <4> QED BY <1>3, <4>1, LogSegments
    <3>2. e \in WAL!Entry
      BY <3>1, SegmentFacts DEF WAL!ToSet
    <3> QED BY <3>2, EntryFacts
  <2>2. dropped' \subseteq 1 .. MaxAppends
    <3>1. ASSUME NEW v \in dropped' PROVE v \in 1 .. MaxAppends
      <4>1. CASE v \in dropped
        BY <1>3, <4>1 DEF WAL!TypeOK
      <4>2. CASE v \notin dropped
        <5>1. PICK i \in 1 .. k : v \in {e.value : e \in WAL!ToSet(segments[i].entries)}
          BY <1>1, <4>2
        <5>2. PICK e \in WAL!ToSet(segments[i].entries) : v = e.value
          BY <5>1
        <5> QED BY <2>1, <5>2
      <4> QED BY <4>1, <4>2
    <3> QED BY <3>1
  <2> QED BY <1>2, <1>3, <1>4, <1>7, <1>9, <2>2 DEF WAL!TypeOK
<1>11. KeyedBy(segments', keys') /\ RisingIn(segments')
  <2>1. \A i \in 1 .. N - k : \A j \in 1 .. Len(tt[i].entries) :
           j \in Nat /\ 0 + j = j
    OBVIOUS
  <2>2. Shortened(ss, tt, k, 0)
    <3>1. k \in Nat /\ 0 \in Nat /\ Len(tt) \in Nat /\ Len(ss) = k + Len(tt)
      BY <1>4, <1>5, <1>6, <1>7
    <3> QED BY <1>4, <1>7, <1>8, <2>1, <3>1 DEF Shortened
  <2>3. KeyedBy(ss, keys) /\ RisingIn(ss)
    BY <1>4 DEF WalInv
  <2>4. KeyedBy(tt, keys) /\ RisingIn(tt)
    <3>1. PICK ks : ks = keys
      OBVIOUS
    <3> QED BY <2>2, <2>3, <3>1, ShortenedKeeps
  <2> QED BY <1>2, <1>4, <2>4
<1>12. ASSUME "truncate" \notin calls'
       PROVE  Followed(segments')
  <2>1. /\ \A i \in 1 .. N : \A j \in 1 .. Len(ss[i].entries) :
              ss[i].entries[j].offset = ss[i].base + j - 1
        /\ \A i \in 1 .. N - 1 : ss[i + 1].base = ss[i].base + Len(ss[i].entries)
    BY <1>2, <1>4, <1>12 DEF WalInv, Followed
  <2>2. ASSUME NEW i \in 1 .. Len(tt) - 1
        PROVE  tt[i + 1].base = tt[i].base + Len(tt[i].entries)
    <3>1. /\ i \in 1 .. N - k /\ i + 1 \in 1 .. N - k /\ k + i \in 1 .. N - 1
          /\ k + (i + 1) = (k + i) + 1
      BY <1>5, <1>6, <1>7
    <3>2. tt[i] = ss[k + i] /\ tt[i + 1] = ss[(k + i) + 1]
      BY <1>8, <3>1
    <3> QED BY <2>1, <3>1, <3>2
  <2>3. ASSUME NEW i \in 1 .. Len(tt), NEW j \in 1 .. Len(tt[i].entries)
        PROVE  tt[i].entries[j].offset = tt[i].base + j - 1
    <3>1. k + i \in 1 .. N /\ tt[i] = ss[k + i]
      BY <1>7, <1>8
    <3> QED BY <2>1, <3>1
  <2>4. Followed(tt)
    BY <2>2, <2>3 DEF Followed
  <2> QED BY <1>4, <2>4
<1>13. ASSUME "restart" \notin calls'
       PROVE  KeptIn(segments', keys', dropped')
  <2>1. KeptIn(ss, keys, dropped)
    BY <1>2, <1>4, <1>13 DEF WalInv
  <2>2. ASSUME NEW v, Found(ss, v)
        PROVE  Found(tt, v) \/ v \in dropped'
    <3>1. PICK i \in 1 .. N : \E j \in 1 .. Len(ss[i].entries) : ss[i].entries[j].value = v
      BY <1>4, <2>2 DEF Found
    <3>2. PICK j \in 1 .. Len(ss[i].entries) : ss[i].entries[j].value = v
      BY <3>1
    <3>3. CASE i <= k
      <4>1. i \in 1 .. k /\ segments[i] \in WAL!Segment
        <5>1. i \in 1 .. k
          BY <1>6, <3>3
        <5> QED BY <1>3, <1>4, <5>1, LogSegments
      <4>2. segments[i].entries[j] \in WAL!ToSet(segments[i].entries)
        BY <1>4, <3>2, <4>1, SegmentFacts DEF WAL!ToSet
      <4> QED BY <1>1, <1>4, <3>2, <4>1, <4>2
    <3>4. CASE ~(i <= k)
      <4>1. i - k \in 1 .. N - k /\ k + (i - k) = i
        BY <1>5, <1>6, <3>4
      <4>2. tt[i - k] = ss[i]
        BY <1>8, <4>1
      <4> QED BY <1>7, <3>2, <4>1, <4>2 DEF Found
    <3> QED BY <3>3, <3>4
  <2>3. dropped \subseteq dropped'
    BY <1>1
  <2>4. ASSUME NEW v \in 1 .. Len(keys)
        PROVE  Found(tt, v) \/ v \in dropped' \/ Replaced(keys, v)
    <3>1. Found(ss, v) \/ v \in dropped \/ Replaced(keys, v)
      BY <2>1 DEF KeptIn
    <3> QED BY <2>2, <2>3, <3>1
  <2>5. KeptIn(tt, keys, dropped')
    BY <2>4 DEF KeptIn
  <2> QED BY <1>2, <1>4, <2>5
<1>14. ASSUME calls' = {}
       PROVE  position' <= WAL!LatestOffset' /\ UnreadFrom(segments', consumed', position')
  <2>1. position <= WAL!LatestOffset /\ UnreadFrom(ss, consumed, position)
    BY <1>2, <1>4, <1>14 DEF WalInv
  <2>2. WAL!LatestOffset' = WAL!LatestOffset
    <3>1. WAL!LatestOffset = WAL!NextOffset(ss[N])
      BY <1>4, WalInvFacts
    <3>2. WAL!LatestOffset' = WAL!NextOffset(tt[Len(tt)])
      BY <1>4 DEF WAL!LatestOffset, WAL!Last
    <3> QED BY <1>9, <3>1, <3>2
  <2>3. UnreadFrom(tt, consumed, position)
    BY <1>4, <1>7, <1>8, <2>1 DEF UnreadFrom
  <2> QED BY <1>2, <1>4, <2>1, <2>2, <2>3
<1>15. Len(keys') <= MaxAppends
  BY <1>2 DEF WalInv
<1> QED BY <1>10, <1>11, <1>12, <1>13, <1>14, <1>15 DEF WalInv

(* truncate keeps the invariant.                                           *)
LEMMA WalTruncate ==
    ASSUME WalInv, NEW o \in 1 .. MaxAppends, WAL!Truncate(o)
    PROVE  WalInv'
<1>1. PICK ss, N, s, n :
         /\ ss = segments /\ N = Len(ss) /\ s = ss[N]
         /\ n = WAL!Smaller(o - s.base, Len(s.entries))
  OBVIOUS
<1>2. /\ ss \in Seq(WAL!Segment) /\ N \in Nat /\ N # 0 /\ N \in 1 .. N
      /\ s \in WAL!Segment /\ WAL!Last(segments) = s
      /\ \A i \in 1 .. N : ss[i] \in WAL!Segment
  BY <1>1, WalInvFacts, LenProperties, ElementOfSeq
<1>3. /\ n > 0 /\ dropped' = dropped \cup {s.entries[i].value : i \in 1 .. n}
      /\ calls' = calls \cup {"truncate"}
      /\ now' = now /\ saved' = saved /\ position' = position /\ consumed' = consumed
      /\ keys' = keys
  BY <1>1, <1>2 DEF WAL!Truncate, WAL!consumerVars
<1>4. PICK t : /\ t = [base |-> s.base, entries |-> SubSeq(s.entries, n + 1, Len(s.entries)),
                       bytes |-> WAL!BytesLeft(s, n)]
               /\ segments' = [ss EXCEPT ![N] = t]
  BY <1>1, <1>2 DEF WAL!Truncate, WAL!Slice
<1>5. PICK es, m : es = s.entries /\ m = Len(es)
  OBVIOUS
<1>6. /\ s.base \in Nat /\ es \in Seq(WAL!Entry) /\ m \in Nat
      /\ \A j \in 1 .. m : es[j] \in WAL!Entry
  BY <1>2, <1>5, SegmentFacts
<1>7. n \in 1 .. m /\ n \in Nat /\ n <= m
  <2>1. n = IF o - s.base < m THEN o - s.base ELSE m
    BY <1>1, <1>5 DEF WAL!Smaller
  <2> QED BY ONLY <1>3, <1>6, <2>1, o \in 1 .. MaxAppends, WalConstants
<1>8. /\ t \in WAL!Segment /\ Len(t.entries) = m - n
      /\ \A j \in 1 .. m - n : t.entries[j] = es[n + j]
  <2>1. /\ SubSeq(es, n + 1, Len(es)) \in Seq(WAL!Entry)
        /\ Len(SubSeq(es, n + 1, Len(es))) = Len(es) - n
        /\ \A j \in 1 .. (Len(es) - n) : SubSeq(es, n + 1, Len(es))[j] = es[n + j]
    <3>1. n \in 1 .. Len(es)
      BY <1>5, <1>7
    <3> QED BY ONLY <1>6, <3>1, SuffixElements
  <2>2. WAL!BytesLeft(s, n) \in Int
    <3>1. n \in 0 .. Len(s.entries)
      BY <1>5, <1>6, <1>7
    <3> QED BY <1>2, <3>1, BytesLeftNumber
  <2>3. t.entries = SubSeq(es, n + 1, Len(es)) /\ t \in WAL!Segment
    BY <1>4, <1>5, <1>6, <2>1, <2>2 DEF WAL!Segment
  <2> QED BY <1>5, <2>1, <2>3
<1>9. PICK tt : tt = segments'
  OBVIOUS
<1>10. /\ tt \in Seq(WAL!Segment) /\ Len(tt) = N
       /\ \A i \in 1 .. N : tt[i] = IF i = N THEN t ELSE ss[i]
  <2>1. N \in 1 .. Len(ss) /\ tt = [ss EXCEPT ![N] = t]
    BY <1>1, <1>2, <1>4, <1>9
  <2>2. /\ [ss EXCEPT ![N] = t] \in Seq(WAL!Segment)
        /\ Len([ss EXCEPT ![N] = t]) = Len(ss)
        /\ \A j \in 1 .. Len(ss) : [ss EXCEPT ![N] = t][j] = IF j = N THEN t ELSE ss[j]
    BY ONLY <1>2, <1>8, <2>1, ExceptSeq
  <2> QED BY <1>1, <2>1, <2>2
<1>11. WAL!TypeOK'
  <2>1. \A i \in 1 .. n : s.entries[i].value \in 1 .. MaxAppends
    <3>1. \A i \in 1 .. n : i \in 1 .. m
      BY <1>6, <1>7
    <3> QED BY <1>5, <1>6, <3>1, EntryFacts
  <2>2. tt # <<>>
    BY <1>2, <1>10
  <2>3. WAL!TypeOK
    BY DEF WalInv
  <2>4. dropped' \subseteq 1 .. MaxAppends /\ calls' \subseteq {"compact", "truncate", "restart"}
    BY <1>3, <2>1, <2>3 DEF WAL!TypeOK
  <2> QED BY <1>3, <1>9, <1>10, <2>2, <2>3, <2>4 DEF WAL!TypeOK
<1>12. KeyedBy(segments', keys') /\ RisingIn(segments')
  <2>1. ASSUME NEW i \in 1 .. Len(tt), NEW j \in 1 .. Len(tt[i].entries),
               NEW l, l = IF i = Len(tt) THEN n + j ELSE j
        PROVE  /\ 0 + i \in 1 .. Len(ss) /\ l \in 1 .. Len(ss[0 + i].entries)
               /\ tt[i].entries[j] = ss[0 + i].entries[l]
    <3>1. i \in 1 .. N /\ 0 + i = i
      BY <1>2, <1>10
    <3>2. CASE i = N
      <4>1. l = n + j /\ tt[i] = t /\ j \in 1 .. m - n
        BY <1>8, <1>10, <2>1, <3>1, <3>2
      <4>2. n + j \in 1 .. m
        BY <1>6, <1>7, <4>1
      <4> QED BY <1>1, <1>5, <1>8, <3>1, <3>2, <4>1, <4>2
    <3>3. CASE i # N
      BY <1>1, <1>10, <2>1, <3>1, <3>3
    <3> QED BY <3>2, <3>3
  <2>2. Shortened(ss, tt, 0, n)
    <3>1. Len(ss) = 0 + Len(tt) /\ Len(tt) \in Nat /\ 0 \in Nat
      BY <1>1, <1>2, <1>10
    <3> QED BY <1>7, <2>1, <3>1 DEF Shortened
  <2>3. PICK ks : ks = keys
    OBVIOUS
  <2>4. KeyedBy(ss, ks) /\ RisingIn(ss)
    BY <1>1, <2>3 DEF WalInv
  <2>5. KeyedBy(tt, ks) /\ RisingIn(tt)
    BY <2>2, <2>4, ShortenedKeeps
  <2> QED BY <1>3, <1>9, <2>3, <2>5
<1>13. ASSUME "restart" \notin calls'
       PROVE  KeptIn(segments', keys', dropped')
  <2>1. KeptIn(ss, keys, dropped)
    BY <1>1, <1>3, <1>13 DEF WalInv
  <2>2. ASSUME NEW v, Found(ss, v)
        PROVE  Found(tt, v) \/ v \in dropped'
    <3>1. PICK i \in 1 .. N : \E j \in 1 .. Len(ss[i].entries) : ss[i].entries[j].value = v
      BY <1>1, <2>2 DEF Found
    <3>2. PICK j \in 1 .. Len(ss[i].entries) : ss[i].entries[j].value = v
      BY <3>1
    <3>3. CASE i # N
      <4>1. tt[i] = ss[i]
        BY <1>10, <3>3
      <4> QED BY <1>10, <3>2, <4>1 DEF Found
    <3>4. CASE i = N
      <4>1. j \in 1 .. m /\ es[j].value = v
        BY <1>1, <1>5, <3>2, <3>4
      <4>2. CASE j <= n
        <5>1. j \in 1 .. n
          BY <1>7, <4>1, <4>2
        <5> QED BY <1>3, <1>5, <4>1, <5>1
      <4>3. CASE ~(j <= n)
        <5>1. j - n \in 1 .. m - n /\ n + (j - n) = j
          BY <1>6, <1>7, <4>1, <4>3
        <5>2. tt[N].entries[j - n].value = v /\ j - n \in 1 .. Len(tt[N].entries)
          BY <1>2, <1>8, <1>10, <4>1, <5>1
        <5> QED BY <1>2, <1>10, <5>2 DEF Found
      <4> QED BY <4>2, <4>3
    <3> QED BY <3>3, <3>4
  <2>3. ASSUME NEW v \in 1 .. Len(keys)
        PROVE  Found(tt, v) \/ v \in dropped' \/ Replaced(keys, v)
    <3>1. Found(ss, v) \/ v \in dropped \/ Replaced(keys, v)
      BY <2>1 DEF KeptIn
    <3> QED BY <1>3, <2>2, <3>1
  <2>4. KeptIn(tt, keys, dropped')
    BY <2>3 DEF KeptIn
  <2> QED BY <1>3, <1>9, <2>4
<1>14. Len(keys') <= MaxAppends /\ calls' # {} /\ "truncate" \in calls'
  BY <1>3 DEF WalInv
<1> QED BY <1>11, <1>12, <1>13, <1>14 DEF WalInv

(* A restart empties the log.                                              *)
LEMMA WalRestart ==
    ASSUME WalInv, WAL!Restart
    PROVE  WalInv'
<1>1. /\ segments' = <<WAL!NewSegment(0)>> /\ position' = saved
      /\ calls' = calls \cup {"restart"}
      /\ now' = now /\ saved' = saved /\ consumed' = consumed /\ keys' = keys
      /\ dropped' = dropped
  BY DEF WAL!Restart
<1>2. PICK s : s = WAL!NewSegment(0) /\ s \in WAL!Segment /\ Len(s.entries) = 0
  BY SegmentNew
<1>3. PICK tt : tt = segments' /\ tt = <<s>>
  BY <1>1, <1>2
<1>4. tt \in Seq(WAL!Segment) /\ tt # <<>> /\ Len(tt) = 1 /\ tt[1] = s
  BY <1>2, <1>3
<1>5. 1 .. Len(tt) - 1 = {} /\ \A i \in 1 .. Len(tt) : 1 .. Len(tt[i].entries) = {}
  BY <1>2, <1>4
<1>6. Followed(tt) /\ KeyedBy(tt, keys) /\ RisingIn(tt)
  BY <1>5 DEF Followed, KeyedBy, RisingIn
<1>7. WAL!TypeOK /\ Len(keys) <= MaxAppends
  BY DEF WalInv
<1>8. WAL!TypeOK'
  BY <1>1, <1>3, <1>4, <1>7 DEF WAL!TypeOK
<1>9. "restart" \in calls' /\ calls' # {}
  BY <1>1
<1> QED BY <1>1, <1>3, <1>6, <1>7, <1>8, <1>9 DEF WalInv

(* save_offset and the clock leave the log alone.                          *)
LEMMA WalSaveTick ==
    ASSUME WalInv, WAL!SaveOffset \/ WAL!Tick
    PROVE  WalInv'
<1>1. /\ segments' = segments /\ position' = position /\ consumed' = consumed
      /\ keys' = keys /\ dropped' = dropped /\ calls' = calls
  BY DEF WAL!SaveOffset, WAL!Tick, WAL!consumerVars
<1>2. now' \in 0 .. MaxTime /\ saved' \in Nat
  <2>1. now \in 0 .. MaxTime /\ saved \in Nat /\ position \in Nat
    BY WalInvFacts
  <2> QED BY <2>1, WalConstants DEF WAL!SaveOffset, WAL!Tick, WAL!consumerVars
<1>3. WAL!TypeOK'
  BY <1>1, <1>2 DEF WalInv, WAL!TypeOK
<1>4. WAL!LatestOffset' = WAL!LatestOffset
  BY <1>1 DEF WAL!LatestOffset
<1> QED BY <1>1, <1>3, <1>4 DEF WalInv

(* Nothing of the log changes in a step of the partition.                  *)
LEMMA WalStutter ==
    ASSUME WalInv, UNCHANGED walVars
    PROVE  WalInv'
<1>1. /\ segments' = segments /\ position' = position /\ consumed' = consumed
      /\ keys' = keys /\ dropped' = dropped /\ calls' = calls
      /\ now' = now /\ saved' = saved
  BY DEF walVars
<1>2. WAL!TypeOK'
  BY <1>1 DEF WalInv, WAL!TypeOK
<1>3. WAL!LatestOffset' = WAL!LatestOffset
  BY <1>1 DEF WAL!LatestOffset
<1> QED BY <1>1, <1>2, <1>3 DEF WalInv

(* A consumer that reads moves behind what it has read.                    *)
LEMMA WalConsume ==
    ASSUME WalInv, NEW n \in 1 .. 2, WAL!Consume(n)
    PROVE  WalInv'
<1>1. PICK es : /\ es = WAL!Read(position, n) /\ es # <<>>
                /\ position' = WAL!Last(es).offset + 1
                /\ consumed' = consumed \cup {e.value : e \in WAL!ToSet(es)}
  BY DEF WAL!Consume
<1>2. /\ segments' = segments /\ now' = now /\ saved' = saved /\ keys' = keys
      /\ dropped' = dropped /\ calls' = calls
  BY DEF WAL!Consume
<1>3. WAL!TypeOK /\ position \in Nat /\ n \in Nat /\ n # 0
  BY WalInvFacts DEF WalInv
<1>4. es \in Seq(WAL!Entry)
  <2>1. PICK f \in [0 .. Len(segments) -> Cursor] :
           WAL!Read(position, n) = f[Len(segments)].results
    BY <1>3, ReadLoop
  <2>2. f[Len(segments)] \in Cursor
    BY <1>3, LogSegments
  <2> QED BY <1>1, <2>1, <2>2 DEF Cursor
<1>5. PICK m : m = Len(es)
  OBVIOUS
<1>6. /\ m \in Nat /\ m # 0 /\ m \in 1 .. m /\ DOMAIN es = 1 .. m
      /\ WAL!Last(es) = es[m] /\ \A j \in 1 .. m : es[j] \in WAL!Entry
  BY <1>1, <1>4, <1>5, LenProperties, EmptySeq, ElementOfSeq DEF WAL!Last
<1>7. position' = es[m].offset + 1 /\ es[m].offset \in Nat
  BY <1>1, <1>6, EntryFacts
<1>8. \A j \in 1 .. m : es[j].value \in consumed'
  <2>1. \A j \in 1 .. m : es[j] \in WAL!ToSet(es)
    BY <1>6 DEF WAL!ToSet
  <2> QED BY <1>1, <2>1
<1>9. WAL!TypeOK'
  <2>1. \A e \in WAL!ToSet(es) : e.value \in 1 .. MaxAppends
    BY <1>6, EntryFacts DEF WAL!ToSet
  <2>2. consumed' \subseteq 1 .. MaxAppends
    BY <1>1, <1>3, <2>1 DEF WAL!TypeOK
  <2>3. position' \in Nat
    BY <1>7
  <2> QED BY <1>2, <1>3, <2>2, <2>3 DEF WAL!TypeOK
<1>10. ASSUME calls' = {}
       PROVE  position' <= WAL!LatestOffset' /\ UnreadFrom(segments', consumed', position')
  <2>1. Followed(segments) /\ UnreadFrom(segments, consumed, position)
    BY <1>2, <1>10 DEF WalInv
  <2>2. PICK st : Starts(st)
    BY <1>3, StartsExist
  <2>3. PICK f \in 0 .. Len(WAL!Entries) :
           /\ \A i \in 1 .. f : WAL!Entries[i].offset < position
           /\ \A i \in f + 1 .. Len(WAL!Entries) : WAL!Entries[i].offset >= position
           /\ WAL!Read(position, n)
                 = WAL!Slice(WAL!Entries, f, WAL!Smaller(f + n, Len(WAL!Entries)))
    BY <1>3, <2>1, ReadWorks
  <2>4. PICK w, L, b, B : /\ w = WAL!Entries /\ L = Len(w) /\ B = segments[1].base
                          /\ b = IF f + n < L THEN f + n ELSE L
    OBVIOUS
  <2>5. w \in Seq(WAL!Entry) /\ L \in Nat /\ f \in Nat /\ f <= L /\ b \in Int /\ b <= L
    BY <1>3, <2>3, <2>4, EntriesPlaces, LenProperties
  <2>6. es = SubSeq(w, f + 1, b)
    BY <1>1, <2>3, <2>4 DEF WAL!Slice, WAL!Smaller
  <2>7. \A j \in 1 .. m : f + j \in 1 .. L /\ es[j] = w[f + j]
    <3>1. \A j \in 1 .. Len(es) : f + j \in 1 .. Len(w) /\ es[j] = w[f + j]
      <4>1. b <= Len(w)
        BY <2>4, <2>5
      <4> QED BY ONLY <2>5, <2>6, <4>1, SliceElements
    <3> QED BY <1>5, <2>4, <3>1
  <2>8. /\ B \in Nat /\ \A k \in 1 .. L : w[k].offset = B + k - 1
        /\ WAL!LatestOffset = B + L
    <3>1. /\ B \in Nat /\ \A k \in 1 .. L : w[k].offset = B + k - 1
          /\ \A i \in 1 .. Len(segments) : WAL!NextOffset(segments[i]) = B + st[i + 1]
      BY <1>3, <2>1, <2>2, <2>4, EntryOffsets
    <3>2. st[Len(segments) + 1] = L
      BY <2>2, <2>4 DEF Starts
    <3> QED BY <3>1, <3>2, WalInvFacts
  <2>9. f + m \in 1 .. L /\ position' = B + f + m
    <3>1. f + m \in 1 .. L /\ es[m] = w[f + m]
      BY <1>6, <2>7
    <3>2. position' = B + (f + m) - 1 + 1
      BY <1>7, <2>8, <3>1
    <3>3. B \in Nat /\ f \in Nat /\ m \in Nat
      BY <1>6, <2>5, <2>8
    <3>4. B + (f + m) - 1 + 1 = B + f + m
      BY ONLY <3>3
    <3> QED BY ONLY <3>1, <3>2, <3>4
  <2>10. position' <= WAL!LatestOffset
    <3>1. PICK y, z : y = position' /\ z = WAL!LatestOffset
      OBVIOUS
    <3>2. y = B + f + m /\ z = B + L /\ f + m <= L
      BY <2>5, <2>8, <2>9, <3>1
    <3>3. y <= z
      BY ONLY <1>6, <2>5, <2>8, <3>2
    <3> QED BY <3>1, <3>3
  <2>11. ASSUME NEW i \in 1 .. Len(segments), NEW j \in 1 .. Len(Es(i)),
                Es(i)[j].value \notin consumed'
         PROVE  Es(i)[j].offset >= position'
    <3>1. PICK k : k = st[i] + j
      OBVIOUS
    <3>2. k \in 1 .. L /\ w[k] = Es(i)[j]
      BY <2>2, <2>4, <3>1 DEF Starts
    <3>3. Es(i)[j].value \notin consumed
      BY <1>1, <2>11
    <3>4. w[k].offset >= position
      BY <2>1, <3>2, <3>3 DEF UnreadFrom, Es
    <3>5. w[k].offset = B + k - 1
      BY <2>8, <3>2
    <3>6. ~(k <= f)
      <4> SUFFICES ASSUME k <= f PROVE FALSE
        OBVIOUS
      <4>1. k \in 1 .. f
        BY <2>5, <3>2
      <4>2. w[k].offset < position
        BY <2>3, <2>4, <4>1
      <4> QED BY <1>3, <2>8, <3>2, <3>4, <3>5, <4>2
    <3>7. ~(k <= f + m)
      <4> SUFFICES ASSUME k <= f + m PROVE FALSE
        OBVIOUS
      <4>1. k - f \in 1 .. m /\ f + (k - f) = k
        <5>1. k \in Nat /\ f \in Nat /\ m \in Nat
          BY <1>6, <2>5, <3>2
        <5> QED BY ONLY <3>6, <5>1, k <= f + m
      <4>2. es[k - f] = w[k]
        BY <2>7, <4>1
      <4> QED BY <1>8, <2>11, <3>2, <4>1, <4>2
    <3>8. B + k - 1 >= B + f + m
      BY <1>6, <2>5, <2>8, <3>2, <3>7
    <3> QED BY <2>9, <3>2, <3>5, <3>8
  <2>12. UnreadFrom(segments, consumed', position')
    BY <2>11 DEF UnreadFrom, Es
  <2>13. WAL!LatestOffset' = WAL!LatestOffset
    BY <1>2 DEF WAL!LatestOffset
  <2> QED BY <1>2, <2>10, <2>12, <2>13
<1> QED BY <1>2, <1>9, <1>10 DEF WalInv

-----------------------------------------------------------------------------
(* The values of the entries rise, and their keys are those of the values. *)
LEMMA EntriesRise ==
    ASSUME WalInv
    PROVE  /\ WAL!Entries \in Seq(WAL!Entry) /\ Len(WAL!Entries) \in Nat
           /\ DOMAIN WAL!Entries = 1 .. Len(WAL!Entries)
           /\ \A k \in 1 .. Len(WAL!Entries) : WAL!Entries[k] \in WAL!Entry
           /\ \A k, l \in 1 .. Len(WAL!Entries) :
                 k < l => WAL!Entries[k].value < WAL!Entries[l].value
           /\ \A k \in 1 .. Len(WAL!Entries) :
                 /\ WAL!Entries[k].value \in 1 .. Len(keys)
                 /\ WAL!Entries[k].key = keys[WAL!Entries[k].value]
           /\ \A v : Found(segments, v) => \E k \in 1 .. Len(WAL!Entries) : WAL!Entries[k].value = v
<1>0. WAL!TypeOK /\ KeyedBy(segments, keys) /\ RisingIn(segments)
  BY DEF WalInv
<1>1. PICK st : Starts(st)
  BY <1>0, StartsExist
<1>2. PICK w, L, N : w = WAL!Entries /\ L = Len(w) /\ N = Len(segments)
  OBVIOUS
<1>3. /\ w \in Seq(WAL!Entry) /\ L \in Nat /\ DOMAIN w = 1 .. L
      /\ \A k \in 1 .. L : w[k] \in WAL!Entry
  BY <1>0, <1>2, EntriesPlaces, LenProperties, ElementOfSeq
<1>4. N \in Nat /\ \A i \in 1 .. N : Len(Es(i)) \in Nat
  BY <1>0, <1>2, LogSegments, SegmentFacts DEF Es
<1>5. /\ st \in [1 .. N + 1 -> Nat]
      /\ \A i \in 1 .. N :
            /\ st[i + 1] = st[i] + Len(Es(i))
            /\ \A j \in 1 .. Len(Es(i)) : st[i] + j \in 1 .. L /\ w[st[i] + j] = Es(i)[j]
      /\ \A k \in 1 .. L : \E i \in 1 .. N : \E j \in 1 .. Len(Es(i)) : k = st[i] + j
  BY <1>1, <1>2 DEF Starts
(* The places of the segments do not fall.                                 *)
<1>6. ASSUME NEW a \in 1 .. N
      PROVE  \A b \in 1 .. N : a < b => st[a + 1] <= st[b]
  <2> DEFINE G == {d \in Nat : a + 1 + d <= N => st[a + 1] <= st[a + 1 + d]}
  <2>1. \A b \in 1 .. N + 1 : st[b] \in Nat
    BY <1>5
  <2>2. 0 \in G
    <3>1. a + 1 + 0 = a + 1 /\ a + 1 \in 1 .. N + 1
      BY <1>4
    <3> QED BY <2>1, <3>1
  <2>3. ASSUME NEW d \in Nat, d \in G PROVE d + 1 \in G
    <3> SUFFICES ASSUME a + 1 + (d + 1) <= N PROVE st[a + 1] <= st[a + 1 + (d + 1)]
      OBVIOUS
    <3>1. /\ a + 1 + d \in 1 .. N /\ a + 1 + (d + 1) = (a + 1 + d) + 1 /\ a + 1 + d <= N
          /\ a + 1 \in 1 .. N + 1 /\ a + 1 + d \in 1 .. N + 1
      BY <1>4
    <3>2. st[a + 1] <= st[a + 1 + d]
      BY <2>3, <3>1
    <3>3. st[a + 1 + (d + 1)] = st[a + 1 + d] + Len(Es(a + 1 + d)) /\ Len(Es(a + 1 + d)) \in Nat
      BY <1>4, <1>5, <3>1
    <3> QED BY <2>1, <3>1, <3>2, <3>3
  <2>4. ASSUME NEW b \in 1 .. N, a < b PROVE st[a + 1] <= st[b]
    <3>1. b - (a + 1) \in Nat /\ a + 1 + (b - (a + 1)) = b /\ b <= N
      BY <1>4, <2>4
    <3>2. b - (a + 1) \in G
      <4> HIDE DEF G
      <4> QED BY <2>2, <2>3, <3>1, AllNumbers
    <3> QED BY <3>1, <3>2
  <2> QED BY <2>4
<1>7. ASSUME NEW k \in 1 .. L, NEW l \in 1 .. L, k < l
      PROVE  w[k].value < w[l].value
  <2>1. PICK i \in 1 .. N : \E j \in 1 .. Len(Es(i)) : k = st[i] + j
    BY <1>5
  <2>2. PICK j \in 1 .. Len(Es(i)) : k = st[i] + j
    BY <2>1
  <2>3. PICK a \in 1 .. N : \E b \in 1 .. Len(Es(a)) : l = st[a] + b
    BY <1>5
  <2>4. PICK b \in 1 .. Len(Es(a)) : l = st[a] + b
    BY <2>3
  <2>5. w[k] = Es(i)[j] /\ w[l] = Es(a)[b]
    BY <1>5, <2>2, <2>4
  <2>6. Before(i, j, a, b)
    <3>1. /\ i \in 1 .. N + 1 /\ a \in 1 .. N + 1
          /\ st[i] \in Nat /\ st[a] \in Nat /\ Len(Es(i)) \in Nat /\ Len(Es(a)) \in Nat
          /\ st[i + 1] = st[i] + Len(Es(i)) /\ st[a + 1] = st[a] + Len(Es(a))
      <4>1. i \in 1 .. N + 1 /\ a \in 1 .. N + 1
        BY <1>4
      <4> QED BY <1>4, <1>5, <4>1
    <3>2. ~(a < i)
      <4> SUFFICES ASSUME a < i PROVE FALSE
        OBVIOUS
      <4>1. st[a + 1] <= st[i]
        BY <1>6
      <4>2. PICK x, y, u, v, z : /\ x = st[i] /\ y = st[a] /\ u = Len(Es(i)) /\ v = Len(Es(a))
                                 /\ z = st[a + 1]
        OBVIOUS
      <4>3. /\ x \in Nat /\ y \in Nat /\ u \in Nat /\ v \in Nat /\ z = y + v /\ z <= x
            /\ k = x + j /\ l = y + b /\ j \in 1 .. u /\ b \in 1 .. v
        BY <2>2, <2>4, <3>1, <4>1, <4>2
      <4> QED BY ONLY <1>7, <4>3
    <3>3. CASE a = i
      <4>1. PICK x : x = st[i]
        OBVIOUS
      <4>2. x \in Nat /\ k = x + j /\ l = x + b /\ j \in Nat /\ b \in Nat
        BY <2>2, <2>4, <3>1, <3>3, <4>1
      <4>3. j < b
        BY ONLY <1>7, <4>2
      <4> QED BY <3>3, <4>3 DEF Before
    <3>4. CASE i < a
      BY <3>4 DEF Before
    <3> QED BY <1>4, <3>2, <3>3, <3>4
  <2> QED BY <1>0, <1>2, <2>5, <2>6 DEF RisingIn, Es
<1>8. ASSUME NEW k \in 1 .. L
      PROVE  w[k].value \in 1 .. Len(keys) /\ w[k].key = keys[w[k].value]
  <2>1. PICK i \in 1 .. N : \E j \in 1 .. Len(Es(i)) : k = st[i] + j
    BY <1>5
  <2>2. PICK j \in 1 .. Len(Es(i)) : k = st[i] + j
    BY <2>1
  <2>3. w[k] = Es(i)[j]
    BY <1>5, <2>2
  <2> QED BY <1>0, <1>2, <2>3 DEF KeyedBy, Es
<1>9. ASSUME NEW v, Found(segments, v)
      PROVE  \E k \in 1 .. L : w[k].value = v
  <2>1. PICK i \in 1 .. N : \E j \in 1 .. Len(Es(i)) : Es(i)[j].value = v
    BY <1>2, <1>9 DEF Found, Es
  <2>2. PICK j \in 1 .. Len(Es(i)) : Es(i)[j].value = v
    BY <2>1
  <2>3. st[i] + j \in 1 .. L /\ w[st[i] + j] = Es(i)[j]
    BY <1>5
  <2> QED BY <2>2, <2>3
<1> QED BY <1>2, <1>3, <1>7, <1>8, <1>9

(* What compact leaves: entries of the log, in their order.                *)
LEMMA WalCompacted ==
    ASSUME WAL!TypeOK
    PROVE  /\ WAL!Compacted \in Seq(WAL!Entry)
           /\ \E at : PickedAt(at, WAL!Entries,
                               {i \in DOMAIN WAL!Entries : ~WAL!Superseded(WAL!Entries, i)},
                               WAL!Compacted)
<1> DEFINE K == {i \in DOMAIN WAL!Entries : ~WAL!Superseded(WAL!Entries, i)}
<1>1. PICK w : w = WAL!Entries
  OBVIOUS
<1>2. w \in Seq(WAL!Entry) /\ K \subseteq DOMAIN w
  BY <1>1, EntriesPlaces
<1>3. WAL!Compacted = Picked(w, K)
  BY <1>1 DEF WAL!Compacted, WAL!Picked, WAL!Ascending, Picked, Ascending
<1> HIDE DEF K
<1>4. Picked(w, K) \in Seq(WAL!Entry) /\ \E at : PickedAt(at, w, K, Picked(w, K))
  BY <1>2, PickedWorks
<1>5. WAL!Compacted \in Seq(WAL!Entry) /\ \E at : PickedAt(at, w, K, WAL!Compacted)
  BY <1>3, <1>4
<1> QED BY <1>1, <1>5 DEF K

(* compact keeps the invariant.                                            *)
LEMMA WalCompact ==
    ASSUME WalInv, WAL!Compact
    PROVE  WalInv'
<1>1. PICK es, base, t :
         /\ es = WAL!Compacted /\ base = (IF es = <<>> THEN 0 ELSE es[1].offset)
         /\ t = WAL!Refilled(base, es) /\ segments' = <<t>>
  BY DEF WAL!Compact
<1>2. /\ calls' = calls \cup {"compact"}
      /\ now' = now /\ saved' = saved /\ position' = position /\ consumed' = consumed
      /\ keys' = keys /\ dropped' = dropped
  BY DEF WAL!Compact, WAL!consumerVars
<1>3. WAL!TypeOK /\ now \in 0 .. MaxTime
  BY WalInvFacts DEF WalInv
<1>4. PICK w, L, m : w = WAL!Entries /\ L = Len(w) /\ m = Len(es)
  OBVIOUS
<1>5. /\ w \in Seq(WAL!Entry) /\ L \in Nat /\ DOMAIN w = 1 .. L
      /\ \A k, l \in 1 .. L : k < l => w[k].value < w[l].value
      /\ \A k \in 1 .. L : w[k].value \in 1 .. Len(keys) /\ w[k].key = keys[w[k].value]
      /\ \A v : Found(segments, v) => \E k \in 1 .. L : w[k].value = v
  BY <1>4, EntriesRise
<1>6. /\ es \in Seq(WAL!Entry)
      /\ \E at : PickedAt(at, w, {i \in DOMAIN w : ~WAL!Superseded(w, i)}, es)
  BY <1>1, <1>3, <1>4, WalCompacted
<1>7. PICK at : PickedAt(at, w, {i \in DOMAIN w : ~WAL!Superseded(w, i)}, es)
  BY <1>6
<1>8. /\ m \in Nat
      /\ \A k \in 1 .. m : at[k] \in 1 .. L /\ es[k] = w[at[k]]
      /\ \A i, j \in 1 .. m : i < j => at[i] < at[j]
      /\ \A x \in 1 .. L : ~WAL!Superseded(w, x) => \E k \in 1 .. m : at[k] = x
  BY <1>4, <1>5, <1>7 DEF PickedAt
<1>9. base \in Nat
  <2>1. es # <<>> => 1 \in 1 .. m
    BY <1>4, <1>6, <1>8, EmptySeq
  <2>2. \A k \in 1 .. m : es[k] \in WAL!Entry
    BY <1>4, <1>6, ElementOfSeq
  <2> QED BY <1>1, <2>1, <2>2, EntryFacts
<1>10. /\ t \in WAL!Segment /\ t.base = base /\ Len(t.entries) = m
       /\ \A j \in 1 .. m : /\ t.entries[j].offset = base + j - 1
                            /\ t.entries[j].key = es[j].key
                            /\ t.entries[j].value = es[j].value
  <2>1. /\ t \in WAL!Segment /\ t.base = base /\ Len(t.entries) = Len(es)
        /\ \A j \in 1 .. Len(es) : /\ t.entries[j].offset = base + j - 1
                                   /\ t.entries[j].key = es[j].key
                                   /\ t.entries[j].value = es[j].value
    <3>1. IsRefilled(t, base, es)
      BY <1>1, <1>3, <1>6, <1>9 DEF IsRefilled
    <3> QED BY <3>1, RefilledWorks
  <2> QED BY <1>4, <2>1
(* The entry at place j of the new segment was at place at[j].             *)
<1>19. PICK ts : ts = t.entries
  OBVIOUS
<1>20. ASSUME NEW j \in 1 .. m
       PROVE  at[j] \in 1 .. L /\ ts[j].key = w[at[j]].key /\ ts[j].value = w[at[j]].value
  <2>1. at[j] \in 1 .. L /\ es[j] = w[at[j]]
    BY <1>8
  <2>2. ts[j].key = es[j].key /\ ts[j].value = es[j].value
    BY <1>10, <1>19
  <2> QED BY <2>1, <2>2
<1>11. PICK tt : tt = segments' /\ tt = <<t>>
  BY <1>1
<1>12. /\ tt \in Seq(WAL!Segment) /\ tt # <<>> /\ Len(tt) = 1 /\ tt[1] = t
       /\ 1 .. Len(tt) - 1 = {} /\ \A i \in 1 .. Len(tt) : i = 1
  BY <1>10, <1>11
<1>13. WAL!TypeOK'
  BY <1>2, <1>3, <1>11, <1>12 DEF WAL!TypeOK
<1>14. Followed(tt)
  BY <1>10, <1>12 DEF Followed
<1>15. KeyedBy(tt, keys)
  <2>1. ASSUME NEW j \in 1 .. m
        PROVE  ts[j].value \in 1 .. Len(keys) /\ ts[j].key = keys[ts[j].value]
    <3>1. PICK k : k = at[j]
      OBVIOUS
    <3>2. k \in 1 .. L /\ ts[j].key = w[k].key /\ ts[j].value = w[k].value
      BY <1>20, <3>1
    <3>3. w[k].value \in 1 .. Len(keys) /\ w[k].key = keys[w[k].value]
      BY <1>5, <3>2
    <3> QED BY <3>2, <3>3
  <2> QED BY <1>10, <1>12, <1>19, <2>1 DEF KeyedBy
<1>16. RisingIn(tt)
  <2>1. ASSUME NEW j \in 1 .. m, NEW l \in 1 .. m, j < l
        PROVE  t.entries[j].value < t.entries[l].value
    <3>1. PICK a, b : a = at[j] /\ b = at[l]
      OBVIOUS
    <3>2. a \in 1 .. L /\ b \in 1 .. L /\ a < b
      BY <1>8, <2>1, <3>1
    <3>3. ts[j].value = w[a].value /\ ts[l].value = w[b].value
      BY <1>20, <3>1
    <3>4. w[a].value < w[b].value
      BY <1>5, <3>2
    <3> QED BY <1>19, <3>3, <3>4
  <2>2. \A i, k \in 1 .. Len(tt) : \A j, l : Before(i, j, k, l) => j < l
    BY <1>12 DEF Before
  <2> QED BY <1>10, <1>12, <2>1, <2>2 DEF RisingIn
<1>17. ASSUME "restart" \notin calls'
       PROVE  KeptIn(tt, keys, dropped)
  <2> SUFFICES ASSUME NEW v \in 1 .. Len(keys), ~Replaced(keys, v), v \notin dropped
               PROVE  Found(tt, v)
    BY DEF KeptIn
  <2>1. Found(segments, v)
    BY <1>2, <1>17 DEF WalInv, KeptIn
  <2>2. PICK x \in 1 .. L : w[x].value = v
    BY <1>5, <2>1
  <2>3. ~WAL!Superseded(w, x)
    <3> SUFFICES ASSUME WAL!Superseded(w, x) PROVE FALSE
      OBVIOUS
    <3>1. w[x].key # NoKey /\ \E y \in x + 1 .. L : w[y].key = w[x].key
      BY <1>4 DEF WAL!Superseded
    <3>2. PICK y \in x + 1 .. L : w[y].key = w[x].key
      BY <3>1
    <3>3. y \in 1 .. L /\ x < y
      BY <1>5
    <3>4. /\ w[y].value \in 1 .. Len(keys) /\ keys[w[y].value] = keys[v]
          /\ v < w[y].value /\ keys[v] # NoKey
      BY <1>5, <2>2, <3>1, <3>2, <3>3
    <3>5. Len(keys) \in Nat
      BY WalInvFacts
    <3>6. w[y].value \in v + 1 .. Len(keys)
      BY <3>4, <3>5
    <3> QED BY <3>4, <3>6 DEF Replaced
  <2>4. PICK k \in 1 .. m : at[k] = x
    BY <1>8, <2>3
  <2>5. t.entries[k].value = v /\ k \in 1 .. Len(tt[1].entries) /\ 1 \in 1 .. Len(tt)
    <3>1. ts[k].value = v
      BY <1>20, <2>2, <2>4
    <3>2. k \in 1 .. Len(tt[1].entries) /\ 1 \in 1 .. Len(tt)
      BY <1>10, <1>12
    <3> QED BY <1>19, <3>1, <3>2
  <2> QED BY <1>12, <2>5 DEF Found
<1>18. calls' # {} /\ Len(keys) <= MaxAppends
  BY <1>2 DEF WalInv
<1> QED BY <1>2, <1>11, <1>13, <1>14, <1>15, <1>16, <1>17, <1>18 DEF WalInv

-----------------------------------------------------------------------------
(* Every step of the two logs keeps the invariant.                         *)
LEMMA WalStep ==
    ASSUME WalInv, [LogsNext]_<<which, vars, walVars>>
    PROVE  WalInv'
<1>1. CASE NextLog
  <2>1. WAL!Next
    BY <1>1 DEF NextLog
  <2>2. ASSUME NEW key \in WalKeys \cup {NoKey}, NEW size \in Sizes,
               WAL!AppendEntry(key, size)
        PROVE  WalInv'
    BY <2>2, WalAppend
  <2>3. CASE WAL!ApplyRetention
    BY <2>3, WalRetention
  <2>4. CASE WAL!Compact
    BY <2>4, WalCompact
  <2>5. ASSUME NEW o \in 1 .. MaxAppends, WAL!Truncate(o)
        PROVE  WalInv'
    BY <2>5, WalTruncate
  <2>6. CASE WAL!Restart
    BY <2>6, WalRestart
  <2>7. ASSUME NEW n \in 1 .. 2, WAL!Consume(n)
        PROVE  WalInv'
    BY <2>7, WalConsume
  <2>8. CASE WAL!SaveOffset \/ WAL!Tick
    BY <2>8, WalSaveTick
  <2> QED BY <2>1, <2>2, <2>3, <2>4, <2>5, <2>6, <2>7, <2>8 DEF WAL!Next
<1>2. CASE NextPartition
  BY <1>2, WalStutter DEF NextPartition
<1>3. CASE UNCHANGED <<which, vars, walVars>>
  BY <1>3, WalStutter
<1> QED BY <1>1, <1>2, <1>3 DEF LogsNext

(* The invariant of the write-ahead log holds in every reachable state.    *)
LEMMA WalInvariant == LogsSpec => []WalInv
<1>1. LogsInit => WalInv
  BY WalInvInit DEF LogsInit
<1>2. WalInv /\ [LogsNext]_<<which, vars, walVars>> => WalInv'
  BY WalStep
<1> QED BY <1>1, <1>2, PTL DEF LogsSpec

(* WriteAheadLog.read(offset, max_count), which goes from segment to       *)
(* segment by the offset that each one ends at, returns the first entries  *)
(* at or after offset, for any number of segments and however the log was  *)
(* compacted, shortened or restarted, unless truncate has been called.     *)
THEOREM LogReadsAreExact == LogsSpec => []LogReadExact
<1>1. WalInv => LogReadExact
  BY WalInvSuffices
<1> QED BY <1>1, WalInvariant, PTL

(* Until the process ends, a value that append has returned an offset for  *)
(* can be read, unless retention or truncate removed it or compact kept a  *)
(* later one with its key.                                                 *)
THEOREM NothingDisappears == LogsSpec => []Durable
<1>1. WalInv => Durable
  BY WalInvSuffices
<1> QED BY <1>1, WalInvariant, PTL

(* As long as nothing renumbers the log, what a consumer has not read is   *)
(* at or after its position: it can resume there and misses nothing.       *)
THEOREM ConsumersMissNothing == LogsSpec => []Resumable
<1>1. WalInv => Resumable
  BY WalInvSuffices
<1> QED BY <1>1, WalInvariant, PTL
=============================================================================
