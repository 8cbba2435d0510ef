---------------------------- MODULE GroupProofs ----------------------------
(***************************************************************************)
(* Proofs about the consumer group (ConsumerGroup): whoever joins, leaves  *)
(* or dies, and whatever the consumers do while a rebalance is under way,  *)
(* no two of them hold one partition, and after the rebalance each         *)
(* subscribed partition is held, for any numbers of consumers, topics and  *)
(* partitions and both strategies.  And no committed offset and no         *)
(* position passes a message that nobody was given, if polls may return    *)
(* as many messages as there are partitions.                               *)
(***************************************************************************)
EXTENDS ConsumerGroup, SequenceTheorems, FiniteSetTheorems, WellFoundedInduction, TLAPS

(* Every nonempty set of natural numbers has a least element: the form in  *)
(* which the functions below are followed along a sequence.                *)
LEMMA LeastNumber ==
    ASSUME NEW T, T \subseteq Nat, T # {}
    PROVE  \E x \in T : \A y \in T : x <= y
<1> DEFINE R == {ss \in Nat \X Nat : ss[1] < ss[2]}
<1>1. IsWellFoundedOn(R, Nat)
  BY NatLessThanWellFounded DEF OpToRel
<1>2. PICK x \in T : \A y \in T : ~ (<<y, x>> \in R)
  <2> HIDE DEF R
  <2> QED BY <1>1, WFMin
<1>3. \A y \in T : ~ (y < x)
  BY <1>2
<1> QED BY <1>3

(* A set of numbers that holds 0 and with each number the next holds all.  *)
LEMMA AllNumbers ==
    ASSUME NEW G, 0 \in G, \A n \in Nat : n \in G => n + 1 \in G
    PROVE  Nat \subseteq G
<1> DEFINE Bad == Nat \ G
<1> SUFFICES ASSUME Bad # {} PROVE FALSE
  OBVIOUS
<1>1. PICK x \in Bad : \A y \in Bad : x <= y
  <2>1. Bad \subseteq Nat
    OBVIOUS
  <2> HIDE DEF Bad
  <2> QED BY <2>1, LeastNumber
<1>2. x \in Nat /\ x # 0 /\ x \notin G
  OBVIOUS
<1>3. x - 1 \in Nat /\ ~(x <= x - 1) /\ (x - 1) + 1 = x
  BY <1>2
<1>4. x - 1 \in G
  BY <1>1, <1>3
<1> QED BY <1>2, <1>3, <1>4

-----------------------------------------------------------------------------
(* Sequences without repetitions: the elements of one that was extended.   *)
LEMMA Appended ==
    ASSUME NEW T, NEW q \in Seq(T), NEW e \in T
    PROVE  /\ Append(q, e) \in Seq(T)
           /\ Range(Append(q, e)) = Range(q) \cup {e}
           /\ IsInjective(q) /\ e \notin Range(q) => IsInjective(Append(q, e))
<1> DEFINE r == Append(q, e)
<1>1. /\ r \in Seq(T) /\ Len(r) = Len(q) + 1 /\ r[Len(q) + 1] = e
      /\ \A i \in 1 .. Len(q) : r[i] = q[i]
  BY AppendProperties
<1>2. DOMAIN q = 1 .. Len(q) /\ DOMAIN r = 1 .. Len(q) + 1 /\ Len(q) \in Nat
  BY <1>1, LenProperties
<1> HIDE DEF r
<1>3. Range(r) = Range(q) \cup {e}
  <2>1. ASSUME NEW i \in 1 .. Len(q) + 1
        PROVE  r[i] \in Range(q) \cup {e}
    <3>1. i \in 1 .. Len(q) \/ i = Len(q) + 1
      BY <1>2
    <3> QED BY <1>1, <1>2, <3>1 DEF Range
  <2>2. ASSUME NEW i \in 1 .. Len(q)
        PROVE  q[i] \in Range(r)
    <3>1. i \in 1 .. Len(q) + 1
      BY <1>2
    <3> QED BY <1>1, <1>2, <3>1 DEF Range
  <2>3. Len(q) + 1 \in 1 .. Len(q) + 1
    BY <1>2
  <2>4. e \in Range(r)
    BY <1>1, <1>2, <2>3 DEF Range
  <2> QED BY <1>2, <2>1, <2>2, <2>4 DEF Range
<1>4. ASSUME IsInjective(q), e \notin Range(q)
      PROVE  IsInjective(r)
  <2> SUFFICES ASSUME NEW i \in 1 .. Len(q) + 1, NEW j \in 1 .. Len(q) + 1, r[i] = r[j]
               PROVE  i = j
    BY <1>2 DEF IsInjective
  <2>1. (i \in 1 .. Len(q) \/ i = Len(q) + 1) /\ (j \in 1 .. Len(q) \/ j = Len(q) + 1)
    BY <1>2
  <2>2. \A k \in 1 .. Len(q) : q[k] # e
    BY <1>2, <1>4 DEF Range
  <2> QED BY <1>1, <1>2, <1>4, <2>1, <2>2 DEF IsInjective
<1> QED BY <1>1, <1>3, <1>4 DEF r

(* The same of two sequences one behind the other.                         *)
LEMMA Concatenated ==
    ASSUME NEW T, NEW q \in Seq(T), NEW e \in Seq(T)
    PROVE  /\ q \o e \in Seq(T)
           /\ Range(q \o e) = Range(q) \cup Range(e)
           /\ IsInjective(q) /\ IsInjective(e) /\ Range(q) \cap Range(e) = {}
                  => IsInjective(q \o e)
<1> DEFINE r == q \o e
<1>1. /\ r \in Seq(T) /\ Len(r) = Len(q) + Len(e)
      /\ \A i \in 1 .. Len(q) + Len(e) : r[i] = IF i <= Len(q) THEN q[i] ELSE e[i - Len(q)]
  BY ConcatProperties
<1>2. /\ DOMAIN q = 1 .. Len(q) /\ DOMAIN e = 1 .. Len(e) /\ DOMAIN r = 1 .. Len(q) + Len(e)
      /\ Len(q) \in Nat /\ Len(e) \in Nat
  BY <1>1, LenProperties
<1> HIDE DEF r
<1>3. ASSUME NEW i \in 1 .. Len(q) + Len(e)
      PROVE  \/ i \in 1 .. Len(q) /\ r[i] = q[i]
             \/ i - Len(q) \in 1 .. Len(e) /\ r[i] = e[i - Len(q)]
  BY <1>1, <1>2
<1>4. Range(r) = Range(q) \cup Range(e)
  <2>1. ASSUME NEW i \in 1 .. Len(q) + Len(e)
        PROVE  r[i] \in Range(q) \cup Range(e)
    BY <1>2, <1>3 DEF Range
  <2>2. ASSUME NEW i \in 1 .. Len(q)
        PROVE  q[i] \in Range(r)
    <3>1. i \in 1 .. Len(q) + Len(e) /\ i <= Len(q)
      BY <1>2
    <3>2. r[i] = q[i]
      BY <1>1, <3>1
    <3> QED BY <1>2, <3>1, <3>2 DEF Range
  <2>3. ASSUME NEW i \in 1 .. Len(e)
        PROVE  e[i] \in Range(r)
    <3>1. /\ i + Len(q) \in 1 .. Len(q) + Len(e) /\ ~(i + Len(q) <= Len(q))
          /\ (i + Len(q)) - Len(q) = i
      BY <1>2
    <3>2. r[i + Len(q)] = e[i]
      BY <1>1, <3>1
    <3> QED BY <1>2, <3>1, <3>2 DEF Range
  <2> QED BY <1>2, <2>1, <2>2, <2>3 DEF Range
<1>5. ASSUME IsInjective(q), IsInjective(e), Range(q) \cap Range(e) = {}
      PROVE  IsInjective(r)
  <2> SUFFICES ASSUME NEW i \in 1 .. Len(q) + Len(e), NEW j \in 1 .. Len(q) + Len(e), r[i] = r[j]
               PROVE  i = j
    BY <1>2 DEF IsInjective
  <2>1. \A k \in 1 .. Len(q), l \in 1 .. Len(e) : q[k] # e[l]
    BY <1>2, <1>5 DEF Range
  <2>2. \A k, l \in 1 .. Len(q) : q[k] = q[l] => k = l
    BY <1>2, <1>5 DEF IsInjective
  <2>3. \A k, l \in 1 .. Len(e) : e[k] = e[l] => k = l
    BY <1>2, <1>5 DEF IsInjective
  <2>4. /\ \/ i \in 1 .. Len(q) /\ r[i] = q[i]
           \/ i - Len(q) \in 1 .. Len(e) /\ r[i] = e[i - Len(q)]
        /\ \/ j \in 1 .. Len(q) /\ r[j] = q[j]
           \/ j - Len(q) \in 1 .. Len(e) /\ r[j] = e[j - Len(q)]
    BY <1>3
  <2>5. i - Len(q) = j - Len(q) => i = j
    BY <1>2
  <2> QED BY ONLY <2>1, <2>2, <2>3, <2>4, <2>5, r[i] = r[j]
<1> QED BY <1>1, <1>4, <1>5 DEF r

-----------------------------------------------------------------------------
(* f is the function that Keep computes, for the first n elements.         *)
KeptBy(f, s, S, n) ==
    f = [i \in 0 .. n |-> IF i = 0 THEN <<>>
                          ELSE IF s[i] \in S THEN Append(f[i - 1], s[i]) ELSE f[i - 1]]

(* There is such a function.                                               *)
LEMMA KeptExists ==
    ASSUME NEW s, NEW S, NEW n \in Nat
    PROVE  \E f : KeptBy(f, s, S, n)
<1> DEFINE G == {k \in Nat : \E f : KeptBy(f, s, S, k)}
<1>1. 0 \in G
  <2> DEFINE f == [i \in 0 .. 0 |-> <<>>]
  <2>1. KeptBy(f, s, S, 0)
    BY DEF KeptBy
  <2> QED BY <2>1
<1>2. ASSUME NEW k \in Nat, k \in G
      PROVE  k + 1 \in G
  <2>1. PICK g : KeptBy(g, s, S, k)
    BY <1>2
  <2> DEFINE e == IF s[k + 1] \in S THEN Append(g[k], s[k + 1]) ELSE g[k]
             f == [i \in 0 .. k + 1 |-> IF i = k + 1 THEN e ELSE g[i]]
  <2>2. \A i \in 0 .. k : g[i] = IF i = 0 THEN <<>>
                                 ELSE IF s[i] \in S THEN Append(g[i - 1], s[i]) ELSE g[i - 1]
    BY <2>1 DEF KeptBy
  <2>3. ASSUME NEW i \in 0 .. k + 1
        PROVE  f[i] = IF i = 0 THEN <<>>
                      ELSE IF s[i] \in S THEN Append(f[i - 1], s[i]) ELSE f[i - 1]
    <3>1. CASE i = k + 1
      <4>1. i # 0 /\ i - 1 = k /\ k \in 0 .. k + 1 /\ k # k + 1
        BY <3>1
      <4>2. f[i] = e /\ f[i - 1] = g[k]
        BY <3>1, <4>1
      <4> HIDE DEF f
      <4> QED BY <3>1, <4>1, <4>2
    <3>2. CASE i # k + 1
      <4>1. i \in 0 .. k /\ (i # 0 => i - 1 \in 0 .. k + 1 /\ i - 1 # k + 1)
        BY <3>2
      <4>2. f[i] = g[i] /\ (i # 0 => f[i - 1] = g[i - 1])
        BY <3>2, <4>1
      <4> HIDE DEF f
      <4> QED BY <2>2, <4>1, <4>2
    <3> QED BY <3>1, <3>2
  <2>4. f = [i \in 0 .. k + 1 |-> f[i]]
    OBVIOUS
  <2> HIDE DEF f
  <2>5. KeptBy(f, s, S, k + 1)
    BY <2>3, <2>4 DEF KeptBy
  <2> QED BY <2>5
<1> HIDE DEF G
<1>3. n \in G
  BY <1>1, <1>2, AllNumbers
<1> QED BY <1>3 DEF G

(* Keep(s, S) has the elements of s that are in S, and repeats none that s *)
(* does not repeat.                                                        *)
LEMMA KeepWorks ==
    ASSUME NEW T, NEW s \in Seq(T), NEW S
    PROVE  /\ Keep(s, S) \in Seq(T)
           /\ Range(Keep(s, S)) = Range(s) \cap S
           /\ IsInjective(s) => IsInjective(Keep(s, S))
<1> DEFINE f == CHOOSE kept : KeptBy(kept, s, S, Len(s))
<1>1. Keep(s, S) = f[Len(s)]
  BY DEF Keep, KeptBy
<1>2. KeptBy(f, s, S, Len(s))
  <2>1. Len(s) \in Nat
    BY LenProperties
  <2> QED BY <2>1, KeptExists
<1>3. Len(s) \in Nat /\ DOMAIN s = 1 .. Len(s) /\ \A i \in 1 .. Len(s) : s[i] \in T
  BY LenProperties, ElementOfSeq
<1> HIDE DEF f
<1>4. /\ f[0] = <<>>
      /\ \A i \in 1 .. Len(s) :
            f[i] = IF s[i] \in S THEN Append(f[i - 1], s[i]) ELSE f[i - 1]
  <2>1. \A i \in 0 .. Len(s) : f[i] = IF i = 0 THEN <<>>
                                      ELSE IF s[i] \in S THEN Append(f[i - 1], s[i]) ELSE f[i - 1]
    BY <1>2 DEF KeptBy
  <2>2. 0 \in 0 .. Len(s) /\ \A i \in 1 .. Len(s) : i \in 0 .. Len(s) /\ i # 0
    BY <1>3
  <2> QED BY ONLY <2>1, <2>2
<1> DEFINE Part(n) == {s[i] : i \in 1 .. n} \cap S
           Good(n) == /\ f[n] \in Seq(T)
                      /\ Range(f[n]) = Part(n)
                      /\ IsInjective(s) => IsInjective(f[n])
           G == {n \in Nat : n <= Len(s) => Good(n)}
<1>5. 0 \in G
  <2>1. f[0] \in Seq(T) /\ DOMAIN f[0] = {}
    BY <1>4
  <2>2. Part(0) = {}
    OBVIOUS
  <2> QED BY <2>1, <2>2 DEF Range, IsInjective
<1>6. ASSUME NEW n \in Nat, n \in G
      PROVE  n + 1 \in G
  <2> SUFFICES ASSUME n + 1 <= Len(s) PROVE Good(n + 1)
    OBVIOUS
  <2>1. n <= Len(s) /\ n + 1 \in 1 .. Len(s) /\ (n + 1) - 1 = n
    BY <1>3
  <2>2. f[n] \in Seq(T) /\ Range(f[n]) = Part(n) /\ (IsInjective(s) => IsInjective(f[n]))
    BY <1>6, <2>1
  <2>3. f[n + 1] = IF s[n + 1] \in S THEN Append(f[n], s[n + 1]) ELSE f[n]
    BY <1>4, <2>1
  <2>4. Part(n + 1) = IF s[n + 1] \in S THEN Part(n) \cup {s[n + 1]} ELSE Part(n)
    <3>1. \A i \in 1 .. n + 1 : i \in 1 .. n \/ i = n + 1
      OBVIOUS
    <3>2. n + 1 \in 1 .. n + 1 /\ \A i \in 1 .. n : i \in 1 .. n + 1
      OBVIOUS
    <3> QED BY <3>1, <3>2
  <2>5. IsInjective(s) => s[n + 1] \notin Part(n)
    <3>1. \A i \in 1 .. n : i \in 1 .. Len(s) /\ i # n + 1
      BY <1>3, <2>1
    <3> QED BY <1>3, <2>1, <3>1 DEF IsInjective
  <2>6. s[n + 1] \in T
    BY <1>3, <2>1
  <2> HIDE DEF Part
  <2>7. CASE s[n + 1] \in S
    <3>1. /\ Append(f[n], s[n + 1]) \in Seq(T)
          /\ Range(Append(f[n], s[n + 1])) = Range(f[n]) \cup {s[n + 1]}
          /\ IsInjective(f[n]) /\ s[n + 1] \notin Range(f[n]) => IsInjective(Append(f[n], s[n + 1]))
      BY ONLY <2>2, <2>6, Appended
    <3> QED BY <2>2, <2>3, <2>4, <2>5, <2>7, <3>1
  <2>8. CASE s[n + 1] \notin S
    BY <2>2, <2>3, <2>4, <2>8
  <2> QED BY <2>7, <2>8
<1>7. Len(s) \in G
  <2> HIDE DEF G
  <2> QED BY <1>3, <1>5, <1>6, AllNumbers
<1>8. Good(Len(s)) /\ Part(Len(s)) = Range(s) \cap S
  <2>1. Part(Len(s)) = Range(s) \cap S
    BY <1>3 DEF Range
  <2> QED BY <1>3, <1>7, <2>1
<1> QED BY <1>1, <1>8

-----------------------------------------------------------------------------
(* f is the function that FlattenSeq computes, for the first n sequences.  *)
FlattenedBy(f, ss, n) ==
    f = [i \in 1 .. n |-> IF i = 1 THEN ss[i] ELSE f[i - 1] \o ss[i]]

(* There is such a function.                                               *)
LEMMA FlattenedExists ==
    ASSUME NEW ss, NEW n \in Nat
    PROVE  \E f : FlattenedBy(f, ss, n)
<1> DEFINE G == {k \in Nat : \E f : FlattenedBy(f, ss, k)}
<1>1. 0 \in G
  <2> DEFINE f == [i \in 1 .. 0 |-> <<>>]
  <2>1. FlattenedBy(f, ss, 0)
    BY DEF FlattenedBy
  <2> QED BY <2>1
<1>2. ASSUME NEW k \in Nat, k \in G
      PROVE  k + 1 \in G
  <2>1. PICK g : FlattenedBy(g, ss, k)
    BY <1>2
  <2> DEFINE e == IF k = 0 THEN ss[1] ELSE g[k] \o ss[k + 1]
             f == [i \in 1 .. k + 1 |-> IF i = k + 1 THEN e ELSE g[i]]
  <2>2. \A i \in 1 .. k : g[i] = IF i = 1 THEN ss[i] ELSE g[i - 1] \o ss[i]
    BY <2>1 DEF FlattenedBy
  <2>3. ASSUME NEW i \in 1 .. k + 1
        PROVE  f[i] = IF i = 1 THEN ss[i] ELSE f[i - 1] \o ss[i]
    <3>1. CASE i = k + 1 /\ k = 0
      <4>1. i = 1 /\ f[i] = ss[1]
        BY <3>1
      <4> HIDE DEF f
      <4> QED BY <4>1
    <3>2. CASE i = k + 1 /\ k # 0
      <4>1. i # 1 /\ i - 1 = k /\ k \in 1 .. k + 1 /\ k # k + 1
        BY <3>2
      <4>2. f[i] = e /\ f[i - 1] = g[k]
        BY <3>2, <4>1
      <4>3. e = g[k] \o ss[i]
        BY <3>2
      <4> HIDE DEF f, e
      <4> QED BY <4>1, <4>2, <4>3
    <3>3. CASE i # k + 1
      <4>1. i \in 1 .. k /\ (i # 1 => i - 1 \in 1 .. k + 1 /\ i - 1 # k + 1)
        BY <3>3
      <4>2. f[i] = g[i] /\ (i # 1 => f[i - 1] = g[i - 1])
        BY <3>3, <4>1
      <4> HIDE DEF f
      <4> QED BY <2>2, <4>1, <4>2
    <3> QED BY <3>1, <3>2, <3>3
  <2>4. f = [i \in 1 .. k + 1 |-> f[i]]
    OBVIOUS
  <2> HIDE DEF f
  <2>5. FlattenedBy(f, ss, k + 1)
    BY <2>3, <2>4 DEF FlattenedBy
  <2> QED BY <2>5
<1> HIDE DEF G
<1>3. n \in G
  BY <1>1, <1>2, AllNumbers
<1> QED BY <1>3 DEF G

(* Flattening sequences that neither repeat an element nor share one gives *)
(* a sequence without repetitions.                                         *)
LEMMA FlattenWorks ==
    ASSUME NEW T, NEW ss \in Seq(Seq(T)),
           \A i \in DOMAIN ss : IsInjective(ss[i]),
           \A i, j \in DOMAIN ss : i # j => Range(ss[i]) \cap Range(ss[j]) = {}
    PROVE  FlattenSeq(ss) \in Seq(T) /\ IsInjective(FlattenSeq(ss))
<1>1. Len(ss) \in Nat /\ DOMAIN ss = 1 .. Len(ss) /\ \A i \in 1 .. Len(ss) : ss[i] \in Seq(T)
  BY LenProperties, ElementOfSeq
<1>2. CASE Len(ss) = 0
  <2>1. FlattenSeq(ss) = ss
    BY <1>2 DEF FlattenSeq
  <2>2. ss = <<>>
    BY <1>2, EmptySeq
  <2>3. FlattenSeq(ss) = <<>>
    BY <2>1, <2>2
  <2> QED BY <2>3 DEF IsInjective
<1>3. CASE Len(ss) # 0
  <2> DEFINE f == CHOOSE flatten : FlattenedBy(flatten, ss, Len(ss))
  <2>1. FlattenSeq(ss) = f[Len(ss)]
    BY <1>3 DEF FlattenSeq, FlattenedBy
  <2>2. FlattenedBy(f, ss, Len(ss))
    BY <1>1, FlattenedExists
  <2> HIDE DEF f
  <2>3. \A i \in 1 .. Len(ss) : f[i] = IF i = 1 THEN ss[i] ELSE f[i - 1] \o ss[i]
    BY <2>2 DEF FlattenedBy
  <2> DEFINE Part(n) == UNION {Range(ss[i]) : i \in 1 .. n}
             Good(n) == f[n] \in Seq(T) /\ Range(f[n]) = Part(n) /\ IsInjective(f[n])
             G == {n \in Nat : n # 0 /\ n <= Len(ss) => Good(n)}
  <2>4. 0 \in G
    OBVIOUS
  <2>5. ASSUME NEW n \in Nat, n \in G
        PROVE  n + 1 \in G
    <3> SUFFICES ASSUME n + 1 <= Len(ss) PROVE Good(n + 1)
      OBVIOUS
    <3>1. n + 1 \in 1 .. Len(ss) /\ (n + 1) - 1 = n /\ (n + 1 = 1 <=> n = 0) /\ n <= Len(ss)
      BY <1>1
    <3>2. Part(n + 1) = Part(n) \cup Range(ss[n + 1])
      <4>1. \A i \in 1 .. n + 1 : i \in 1 .. n \/ i = n + 1
        OBVIOUS
      <4>2. n + 1 \in 1 .. n + 1 /\ \A i \in 1 .. n : i \in 1 .. n + 1
        OBVIOUS
      <4> QED BY <4>1, <4>2
    <3>3. Part(n) \cap Range(ss[n + 1]) = {}
      <4>1. \A i \in 1 .. n : i \in 1 .. Len(ss) /\ i # n + 1
        BY <1>1, <3>1
      <4> QED BY <1>1, <3>1, <4>1
    <3>4. ss[n + 1] \in Seq(T) /\ IsInjective(ss[n + 1])
      BY <1>1, <3>1
    <3>5. CASE n = 0
      <4>1. Part(n) = {}
        BY <3>5
      <4>2. f[n + 1] = ss[n + 1]
        BY <2>3, <3>1, <3>5
      <4> HIDE DEF Part
      <4> QED BY <3>2, <3>4, <4>1, <4>2
    <3>6. CASE n # 0
      <4>1. f[n] \in Seq(T) /\ Range(f[n]) = Part(n) /\ IsInjective(f[n])
        BY <2>5, <3>1, <3>6
      <4>2. f[n + 1] = f[n] \o ss[n + 1]
        BY <2>3, <3>1, <3>6
      <4> HIDE DEF Part
      <4>3. /\ f[n] \o ss[n + 1] \in Seq(T)
            /\ Range(f[n] \o ss[n + 1]) = Range(f[n]) \cup Range(ss[n + 1])
            /\ IsInjective(f[n] \o ss[n + 1])
        BY ONLY <3>3, <3>4, <4>1, Concatenated
      <4> QED BY ONLY <3>2, <4>1, <4>2, <4>3 DEF Good
    <3> QED BY <3>5, <3>6
  <2>6. Len(ss) \in G
    <3> HIDE DEF G
    <3> QED BY <1>1, <2>4, <2>5, AllNumbers
  <2>7. Good(Len(ss))
    BY <1>1, <1>3, <2>6
  <2> QED BY <2>1, <2>7
<1> QED BY <1>2, <1>3

(* The partitions of the topics subscribed to are distinct, since each     *)
(* belongs to one topic.                                                   *)
LEMMA AllDistinct ==
    ASSUME NEW topics \in Seq(Topics), IsInjective(topics)
    PROVE  AllPartitions(topics) \in Seq(Partitions) /\ IsInjective(AllPartitions(topics))
<1> DEFINE ss == [i \in DOMAIN topics |-> PartitionsOf[topics[i]]]
<1>1. DOMAIN topics = 1 .. Len(topics) /\ Len(topics) \in Nat
      /\ \A i \in 1 .. Len(topics) : topics[i] \in Topics
  BY LenProperties, ElementOfSeq
<1>2. \A t \in Topics : PartitionsOf[t] \in Seq(Partitions)
  BY GroupAssumption
<1>3. \A t, u \in Topics : \A i \in DOMAIN PartitionsOf[t], j \in DOMAIN PartitionsOf[u] :
          PartitionsOf[t][i] = PartitionsOf[u][j] => t = u /\ i = j
  BY GroupAssumption
<1>4. /\ DOMAIN ss = 1 .. Len(topics)
      /\ \A i \in 1 .. Len(topics) : ss[i] = PartitionsOf[topics[i]]
  BY <1>1
<1>5. ss \in Seq(Seq(Partitions))
  <2>1. ss = [i \in 1 .. Len(topics) |-> PartitionsOf[topics[i]]]
    BY <1>1
  <2>2. \A i \in 1 .. Len(topics) : PartitionsOf[topics[i]] \in Seq(Partitions)
    BY <1>1, <1>2
  <2> QED BY <1>1, <2>1, <2>2, IsASeq
<1> HIDE DEF ss
<1>6. \A i \in DOMAIN ss : IsInjective(ss[i])
  BY <1>1, <1>3, <1>4 DEF IsInjective
<1>7. ASSUME NEW i \in DOMAIN ss, NEW j \in DOMAIN ss, i # j
      PROVE  Range(ss[i]) \cap Range(ss[j]) = {}
  <2>1. topics[i] \in Topics /\ topics[j] \in Topics /\ topics[i] # topics[j]
    BY <1>1, <1>4, <1>7 DEF IsInjective
  <2>2. ss[i] = PartitionsOf[topics[i]] /\ ss[j] = PartitionsOf[topics[j]]
    BY <1>4, <1>7
  <2> QED BY <1>3, <2>1, <2>2 DEF Range
<1>8. FlattenSeq(ss) \in Seq(Partitions) /\ IsInjective(FlattenSeq(ss))
  BY <1>5, <1>6, <1>7, FlattenWorks
<1> QED BY <1>8 DEF AllPartitions, ss

-----------------------------------------------------------------------------
(* Division with remainder, and that it is unique.                         *)
LEMMA DivMod ==
    ASSUME NEW a \in Nat, NEW n \in Nat, n > 0
    PROVE  a \div n \in Nat /\ a % n \in 0 .. n - 1 /\ a = (n * (a \div n)) + (a % n)
<1>1. a % n \in 0 .. n - 1 /\ a \div n \in Int /\ a = (n * (a \div n)) + (a % n)
  OBVIOUS
<1> DEFINE q == a \div n
           r == a % n
<1> HIDE DEF q, r
<1>2. q \in Nat
  <2> SUFFICES ASSUME q <= -1 PROVE FALSE
    BY <1>1 DEF q, r
  <2>1. q \in Int /\ r \in 0 .. n - 1 /\ a = (n * q) + r
    BY <1>1 DEF q, r
  <2>2. n * q <= n * (-1)
    BY <2>1
  <2> QED BY <2>1, <2>2
<1> QED BY <1>1, <1>2 DEF q, r

(* A quotient and a remainder below n are determined by the number they    *)
(* make up.                                                                *)
LEMMA DivUnique ==
    ASSUME NEW n \in Nat, n > 0, NEW q \in Int, NEW p \in Int,
           NEW r \in 0 .. n - 1, NEW s \in 0 .. n - 1, (n * q) + r = (n * p) + s
    PROVE  q = p /\ r = s
<1> DEFINE k == p - q
<1>1. k \in Int /\ n * k = (n * p) - (n * q)
  OBVIOUS
<1> HIDE DEF k
<1>2. n * k = r - s
  BY <1>1
<1>3. k < 1
  <2> SUFFICES ASSUME k >= 1 PROVE FALSE
    BY <1>1
  <2>1. n * k >= n * 1
    BY <1>1
  <2> QED BY <1>2, <2>1
<1>4. k > -1
  <2> SUFFICES ASSUME k <= -1 PROVE FALSE
    BY <1>1
  <2>1. n * k <= n * (-1)
    BY <1>1
  <2> QED BY <1>2, <2>1
<1>5. k = 0
  BY <1>1, <1>3, <1>4
<1>6. r - s = 0
  BY <1>2, <1>5
<1> QED BY <1>5, <1>6 DEF k

(* The ranges of _assign_range begin at 0, end with the last partition,    *)
(* and none begins before the one in front of it.                          *)
LEMMA RangeStarts ==
    ASSUME NEW ps \in Seq(Partitions), NEW n \in Nat, n > 0
    PROVE  /\ \A i \in Nat : i >= 1 => RangeStart(i, n, ps) \in Nat
           /\ RangeStart(1, n, ps) = 0
           /\ RangeStart(n + 1, n, ps) = Len(ps)
           /\ \A i, j \in Nat : 1 <= i /\ i <= j => RangeStart(i, n, ps) <= RangeStart(j, n, ps)
<1> DEFINE m == Len(ps)
           q == m \div n
           r == m % n
           St(i) == (i - 1) * q + Smaller(i - 1, r)
<1>1. m \in Nat
  BY LenProperties
<1>2. q \in Nat /\ r \in 0 .. n - 1 /\ m = (n * q) + r
  BY <1>1, DivMod
<1>3. \A i : RangeStart(i, n, ps) = St(i)
  BY DEF RangeStart
<1> HIDE DEF m, q, r
<1>4. ASSUME NEW i \in Nat, NEW j \in Nat, 1 <= i, i <= j
      PROVE  St(i) \in Nat /\ St(i) <= St(j)
  <2> DEFINE d == j - i
             a == (i - 1) * q
             b == (j - 1) * q
             e == d * q
  <2>1. d \in Nat /\ i - 1 \in Nat
    BY <1>4
  <2>2. b = a + e
    BY <1>2
  <2>3. a \in Nat /\ e \in Nat
    BY <1>2, <2>1
  <2>4. Smaller(i - 1, r) \in Nat /\ Smaller(j - 1, r) \in Nat /\ Smaller(i - 1, r) <= Smaller(j - 1, r)
    BY <1>2, <1>4 DEF Smaller
  <2> HIDE DEF a, b, e
  <2>5. a + Smaller(i - 1, r) \in Nat /\ a + Smaller(i - 1, r) <= b + Smaller(j - 1, r)
    BY ONLY <2>2, <2>3, <2>4
  <2> QED BY <2>5 DEF a, b
<1>5. St(1) = 0
  BY <1>2 DEF Smaller
<1>6. St(n + 1) = m
  <2>1. Smaller((n + 1) - 1, r) = r /\ (n + 1) - 1 = n
    BY <1>2 DEF Smaller
  <2>2. St(n + 1) = (n * q) + r
    BY <2>1
  <2> HIDE DEF St
  <2> QED BY <1>2, <2>2
<1>7. \A i \in Nat : i >= 1 => St(i) \in Nat
  BY <1>4
<1> HIDE DEF St
<1> QED BY <1>3, <1>4, <1>5, <1>6, <1>7 DEF m

(* What share i consists of, as indexes into the list of partitions.       *)
RangeSlots(i, n, ps) == RangeStart(i, n, ps) + 1 .. RangeStart(i + 1, n, ps)
RobinSlots(i, n, ps) == {k \in 1 .. Len(ps) : (k - 1) % n = i - 1}

(* The share of the i-th member under range assignment is what lies at its *)
(* slots of the list.                                                      *)
LEMMA RangeShares ==
    ASSUME NEW ps \in Seq(Partitions), NEW n \in Nat, n > 0, NEW i \in 1 .. n
    PROVE  /\ RangeShare(i, n, ps) \in Seq(Partitions)
           /\ RangeSlots(i, n, ps) \subseteq 1 .. Len(ps)
           /\ Range(RangeShare(i, n, ps)) = {ps[k] : k \in RangeSlots(i, n, ps)}
<1> DEFINE a == RangeStart(i, n, ps)
           b == RangeStart(i + 1, n, ps)
           sh == RangeShare(i, n, ps)
<1>1. i \in Nat /\ 1 <= i /\ i + 1 \in Nat /\ i <= i + 1 /\ i + 1 >= 1 /\ n + 1 \in Nat /\ i + 1 <= n + 1
  OBVIOUS
<1>2. a \in Nat /\ b \in Nat /\ a <= b /\ b <= Len(ps)
  <2>1. /\ \A k \in Nat : k >= 1 => RangeStart(k, n, ps) \in Nat
        /\ \A k, l \in Nat : 1 <= k /\ k <= l => RangeStart(k, n, ps) <= RangeStart(l, n, ps)
        /\ RangeStart(n + 1, n, ps) = Len(ps)
    BY RangeStarts
  <2> QED BY <1>1, <2>1
<1>3. sh = SubSeq(ps, a + 1, b)
  BY DEF RangeShare
<1>4. Len(ps) \in Nat
  BY LenProperties
<1> HIDE DEF a, b, sh
<1>5. \A k \in a + 1 .. b : k \in 1 .. Len(ps)
  BY <1>2, <1>4
<1>6. /\ sh \in Seq(Partitions) /\ Len(sh) = b - a
      /\ \A k \in 1 .. b - a : sh[k] = ps[a + k]
  <2>1. a + 1 \in 1 .. Len(ps) + 1 /\ b \in (a + 1) - 1 .. Len(ps)
    BY <1>2, <1>4
  <2>2. sh \in Seq(Partitions)
    BY <1>3, <1>5, <1>2, SubSeqProperties
  <2>3. Len(sh) = IF a + 1 <= b THEN b - (a + 1) + 1 ELSE 0
    BY <1>3, <1>2, <1>5, SubSeqProperties
  <2>4. Len(sh) = b - a
    BY <1>2, <2>3
  <2>5. \A k \in 1 .. b - (a + 1) + 1 : sh[k] = ps[(a + 1) + k - 1]
    BY <1>3, <1>2, <1>5, SubSeqProperties
  <2>6. \A k \in 1 .. b - a : k \in 1 .. b - (a + 1) + 1 /\ (a + 1) + k - 1 = a + k
    BY <1>2
  <2>7. \A k \in 1 .. b - a : sh[k] = ps[a + k]
    BY ONLY <2>5, <2>6
  <2> QED BY <2>2, <2>4, <2>7
<1>7. Range(sh) = {ps[k] : k \in a + 1 .. b}
  <2>1. DOMAIN sh = 1 .. b - a
    BY <1>6, LenProperties
  <2>2. ASSUME NEW k \in 1 .. b - a
        PROVE  sh[k] \in {ps[l] : l \in a + 1 .. b}
    <3>1. a + k \in a + 1 .. b
      BY <1>2
    <3> QED BY <1>6, <3>1
  <2>3. ASSUME NEW l \in a + 1 .. b
        PROVE  ps[l] \in Range(sh)
    <3>1. l - a \in 1 .. b - a /\ a + (l - a) = l
      BY <1>2
    <3>2. sh[l - a] = ps[l]
      BY <1>6, <3>1
    <3> QED BY <2>1, <3>1, <3>2 DEF Range
  <2> QED BY <2>1, <2>2, <2>3 DEF Range
<1> QED BY <1>5, <1>6, <1>7 DEF RangeSlots, a, b, sh

(* The same under round-robin assignment: every n-th entry from the i-th.  *)
LEMMA RobinShares ==
    ASSUME NEW ps \in Seq(Partitions), NEW n \in Nat, n > 0, NEW i \in 1 .. n
    PROVE  /\ RoundRobinShare(i, n, ps) \in Seq(Partitions)
           /\ Range(RoundRobinShare(i, n, ps)) = {ps[k] : k \in RobinSlots(i, n, ps)}
<1> DEFINE m == Len(ps)
           c == (m - i + n) \div n
           rest == (m - i + n) % n
           sh == RoundRobinShare(i, n, ps)
           At(k) == i + (k - 1) * n
<1>1. m \in Nat /\ i \in Nat /\ DOMAIN ps = 1 .. m /\ \A k \in 1 .. m : ps[k] \in Partitions
  BY LenProperties, ElementOfSeq
<1>2. c \in Nat /\ rest \in 0 .. n - 1 /\ m - i + n = (n * c) + rest
  <2>1. m - i + n \in Nat
    BY <1>1
  <2> QED BY <2>1, DivMod
<1>3. sh = [k \in 1 .. c |-> ps[At(k)]]
  BY DEF RoundRobinShare
<1> HIDE DEF m, c, rest, sh
<1>4. ASSUME NEW k \in 1 .. c
      PROVE  At(k) \in 1 .. m /\ (At(k) - 1) % n = i - 1
  <2> DEFINE e == (k - 1) * n
  <2>1. k - 1 \in Nat /\ c - k \in Nat
    BY <1>2
  <2>2. e \in Nat
    BY <2>1
  <2>3. n * c = e + n + (c - k) * n /\ (c - k) * n \in Nat
    BY <1>2, <2>1
  <2>4. e = n * (k - 1)
    BY <2>1
  <2> HIDE DEF e
  <2>5. i + e \in 1 .. m
    BY <1>1, <1>2, <2>2, <2>3
  <2>6. (i + e) - 1 \in Nat /\ (i + e) - 1 = (n * (k - 1)) + (i - 1) /\ i - 1 \in 0 .. n - 1
    BY <1>1, <2>2, <2>4
  <2> DEFINE a == (i + e) - 1
             q == a \div n
             r == a % n
  <2>7. q \in Nat /\ r \in 0 .. n - 1 /\ a = (n * q) + r
    BY <2>6, DivMod
  <2> HIDE DEF q, r
  <2>8. r = i - 1
    <3>1. (n * q) + r = (n * (k - 1)) + (i - 1)
      BY <2>6, <2>7
    <3>2. k - 1 \in Int /\ q \in Int
      BY <2>1, <2>7
    <3> DEFINE p == k - 1
               s == i - 1
    <3>3. /\ n \in Nat /\ n > 0 /\ (n * q) + r = (n * p) + s
          /\ q \in Int /\ p \in Int /\ r \in 0 .. n - 1 /\ s \in 0 .. n - 1
      BY <2>6, <2>7, <3>1, <3>2
    <3> HIDE DEF p, s
    <3>4. r = s
      BY ONLY <3>3, DivUnique
    <3> QED BY <3>4 DEF s
  <2> QED BY <2>5, <2>8 DEF e, r
<1>5. ASSUME NEW l \in 1 .. m, (l - 1) % n = i - 1
      PROVE  \E k \in 1 .. c : At(k) = l
  <2> DEFINE q == (l - 1) \div n
             p == q + 1
  <2>1. l - 1 \in Nat
    BY <1>1
  <2>2. q \in Nat /\ l - 1 = (n * q) + (i - 1)
    BY <1>5, <2>1, DivMod
  <2> HIDE DEF q
  <2>3. At(p) = l
    <3>1. (p - 1) * n = n * q
      BY <2>2
    <3> QED BY <1>1, <2>2, <3>1
  <2>4. p <= c
    <3> SUFFICES ASSUME q >= c PROVE FALSE
      BY <1>2, <2>2
    <3>1. n * q = (n * c) + (n * (q - c)) /\ n * (q - c) \in Nat
      BY <1>2, <2>2
    <3> DEFINE x == n * q
               y == n * c
               z == n * (q - c)
    <3>2. x = y + z /\ z \in Nat /\ y \in Int /\ l - 1 = x + (i - 1) /\ m - i + n = y + rest
      BY <1>2, <2>2, <3>1
    <3> HIDE DEF x, y, z
    <3> QED BY <1>1, <1>2, <3>2
  <2>5. p \in 1 .. c
    BY <1>2, <2>2, <2>4
  <2> QED BY <2>3, <2>5
<1> HIDE DEF At
<1>6. sh \in Seq(Partitions)
  <2>1. \A k \in 1 .. c : ps[At(k)] \in Partitions
    BY <1>1, <1>4
  <2> QED BY <1>2, <1>3, <2>1, IsASeq
<1>7. DOMAIN sh = 1 .. c /\ \A k \in 1 .. c : sh[k] = ps[At(k)]
  BY <1>3
<1>8. Range(sh) = {ps[k] : k \in {l \in 1 .. m : (l - 1) % n = i - 1}}
  <2> DEFINE slots == {l \in 1 .. m : (l - 1) % n = i - 1}
  <2>1. \A k \in 1 .. c : At(k) \in slots
    BY <1>4
  <2>2. \A l \in slots : \E k \in 1 .. c : At(k) = l
    BY <1>5
  <2> HIDE DEF slots
  <2>3. Range(sh) = {ps[k] : k \in slots}
    BY <1>7, <2>1, <2>2 DEF Range
  <2> QED BY <2>3 DEF slots
<1> QED BY <1>6, <1>8 DEF RobinSlots, sh, m

(* The indexes of share i, in the group's strategy.                        *)
Slots(i, n, ps) ==
    IF strategy = "round_robin" THEN RobinSlots(i, n, ps) ELSE RangeSlots(i, n, ps)

(* Every index belongs to exactly one of the n shares.                     *)
LEMMA SlotsPartition ==
    ASSUME NEW ps \in Seq(Partitions), NEW n \in Nat, n > 0
    PROVE  /\ \A i \in 1 .. n : Slots(i, n, ps) \subseteq 1 .. Len(ps)
           /\ \A i, j \in 1 .. n : i # j => Slots(i, n, ps) \cap Slots(j, n, ps) = {}
           /\ \A k \in 1 .. Len(ps) : \E i \in 1 .. n : k \in Slots(i, n, ps)
<1>1. Len(ps) \in Nat
  BY LenProperties
<1>2. CASE strategy = "round_robin"
  <2>1. \A i : Slots(i, n, ps) = RobinSlots(i, n, ps)
    BY <1>2 DEF Slots
  <2>2. ASSUME NEW i \in 1 .. n, NEW j \in 1 .. n, i # j
        PROVE  RobinSlots(i, n, ps) \cap RobinSlots(j, n, ps) = {}
    <3>1. i - 1 # j - 1
      BY <2>2
    <3> QED BY <3>1 DEF RobinSlots
  <2>3. ASSUME NEW k \in 1 .. Len(ps)
        PROVE  \E i \in 1 .. n : k \in RobinSlots(i, n, ps)
    <3> DEFINE r == (k - 1) % n
    <3>1. k - 1 \in Nat
      BY <1>1
    <3>2. r \in 0 .. n - 1
      BY <3>1, DivMod
    <3> HIDE DEF r
    <3>3. r + 1 \in 1 .. n /\ (r + 1) - 1 = r
      BY <3>2
    <3>4. k \in RobinSlots(r + 1, n, ps)
      BY <3>3 DEF RobinSlots, r
    <3> QED BY <3>3, <3>4
  <2>4. \A i : RobinSlots(i, n, ps) \subseteq 1 .. Len(ps)
    BY DEF RobinSlots
  <2> QED BY <2>1, <2>2, <2>3, <2>4
<1>3. CASE strategy # "round_robin"
  <2>1. \A i : Slots(i, n, ps) = RangeSlots(i, n, ps)
    BY <1>3 DEF Slots
  <2> DEFINE St(i) == RangeStart(i, n, ps)
  <2>2. /\ \A i \in Nat : i >= 1 => St(i) \in Nat
        /\ \A i, j \in Nat : 1 <= i /\ i <= j => St(i) <= St(j)
        /\ St(1) = 0 /\ St(n + 1) = Len(ps)
    BY RangeStarts
  <2>3. \A i : RangeSlots(i, n, ps) = St(i) + 1 .. St(i + 1)
    BY DEF RangeSlots
  <2> HIDE DEF St
  <2>4. ASSUME NEW i \in 1 .. n, NEW j \in 1 .. n, i < j
        PROVE  RangeSlots(i, n, ps) \cap RangeSlots(j, n, ps) = {}
    <3>1. i + 1 \in Nat /\ j \in Nat /\ i \in Nat /\ j + 1 \in Nat /\ 1 <= i + 1 /\ i + 1 <= j
      BY <2>4
    <3>2. St(i + 1) <= St(j) /\ St(i + 1) \in Nat /\ St(j) \in Nat
      BY <2>2, <3>1
    <3>3. St(i) \in Nat /\ St(j + 1) \in Nat
      BY <2>2, <3>1
    <3>4. ASSUME NEW x, x \in St(i) + 1 .. St(i + 1), x \in St(j) + 1 .. St(j + 1)
          PROVE  FALSE
      BY ONLY <3>2, <3>3, <3>4
    <3> QED BY <2>3, <3>4
  <2>5. ASSUME NEW k \in 1 .. Len(ps)
        PROVE  \E i \in 1 .. n : k \in RangeSlots(i, n, ps)
    <3> DEFINE B == {i \in Nat : i >= 1 /\ k <= St(i + 1)}
    <3>1. n \in B
      BY <1>1, <2>2
    <3>2. PICK i \in B : \A j \in B : i <= j
      <4>1. B \subseteq Nat
        OBVIOUS
      <4> HIDE DEF B
      <4> QED BY <3>1, <4>1, LeastNumber
    <3>3. i \in 1 .. n /\ k <= St(i + 1)
      BY <3>1, <3>2
    <3>4. St(i) < k
      <4>1. CASE i = 1
        BY <2>2, <4>1
      <4>2. CASE i # 1
        <5>1. i - 1 \in Nat /\ i - 1 >= 1 /\ ~(i <= i - 1) /\ (i - 1) + 1 = i
          BY <3>3, <4>2
        <5>2. i - 1 \notin B
          BY <3>2, <5>1
        <5>3. ~(k <= St(i))
          BY <5>1, <5>2
        <5>4. St(i) \in Nat /\ k \in Nat
          BY <1>1, <2>2, <3>3
        <5> QED BY <5>3, <5>4
      <4> QED BY <4>1, <4>2
    <3>5. St(i) \in Nat /\ St(i + 1) \in Nat /\ k \in Nat
      BY <1>1, <2>2, <3>3
    <3>6. k \in St(i) + 1 .. St(i + 1)
      BY <3>3, <3>4, <3>5
    <3> QED BY <2>3, <3>3, <3>6
  <2>6. \A i \in 1 .. n : RangeSlots(i, n, ps) \subseteq 1 .. Len(ps)
    BY RangeShares
  <2>7. \A i, j \in 1 .. n : i # j => i < j \/ j < i
    OBVIOUS
  <2> QED BY <2>1, <2>4, <2>5, <2>6, <2>7
<1> QED BY <1>2, <1>3

(* The shares are sequences of partitions, no two have one in common if    *)
(* the list repeats none, and together they have all of it.                *)
LEMMA SharesWork ==
    ASSUME NEW ps \in Seq(Partitions), NEW n \in Nat, n > 0
    PROVE  /\ \A i \in 1 .. n : Share(i, n, ps) \in Seq(Partitions)
           /\ IsInjective(ps) => \A i, j \in 1 .. n :
                 i # j => Range(Share(i, n, ps)) \cap Range(Share(j, n, ps)) = {}
           /\ UNION {Range(Share(i, n, ps)) : i \in 1 .. n} = Range(ps)
<1>1. ASSUME NEW i \in 1 .. n
      PROVE  /\ Share(i, n, ps) \in Seq(Partitions)
             /\ Range(Share(i, n, ps)) = {ps[k] : k \in Slots(i, n, ps)}
  <2>1. CASE strategy = "round_robin"
    BY <2>1, RobinShares DEF Share, Slots
  <2>2. CASE strategy # "round_robin"
    BY <2>2, RangeShares DEF Share, Slots
  <2> QED BY <2>1, <2>2
<1>2. DOMAIN ps = 1 .. Len(ps)
  BY LenProperties
<1>3. /\ \A i \in 1 .. n : Slots(i, n, ps) \subseteq 1 .. Len(ps)
      /\ \A i, j \in 1 .. n : i # j => Slots(i, n, ps) \cap Slots(j, n, ps) = {}
      /\ \A k \in 1 .. Len(ps) : \E i \in 1 .. n : k \in Slots(i, n, ps)
  BY SlotsPartition
<1>4. ASSUME IsInjective(ps), NEW i \in 1 .. n, NEW j \in 1 .. n, i # j
      PROVE  Range(Share(i, n, ps)) \cap Range(Share(j, n, ps)) = {}
  <2>1. \A k, l \in 1 .. Len(ps) : ps[k] = ps[l] => k = l
    BY <1>2, <1>4 DEF IsInjective
  <2>2. \A k \in Slots(i, n, ps), l \in Slots(j, n, ps) : ps[k] # ps[l]
    BY <1>3, <1>4, <2>1
  <2>3. ASSUME NEW x \in Range(Share(i, n, ps)), x \in Range(Share(j, n, ps))
        PROVE  FALSE
    <3>1. PICK k \in Slots(i, n, ps) : x = ps[k]
      BY <1>1
    <3>2. PICK l \in Slots(j, n, ps) : x = ps[l]
      BY <1>1, <2>3
    <3> QED BY ONLY <2>2, <3>1, <3>2
  <2> QED BY ONLY <2>3
<1>5. UNION {Range(Share(i, n, ps)) : i \in 1 .. n} = Range(ps)
  <2>1. ASSUME NEW i \in 1 .. n, NEW p \in Range(Share(i, n, ps))
        PROVE  p \in Range(ps)
    <3>1. PICK k \in Slots(i, n, ps) : p = ps[k]
      BY <1>1
    <3> QED BY <1>2, <1>3, <3>1 DEF Range
  <2>2. ASSUME NEW k \in 1 .. Len(ps)
        PROVE  \E i \in 1 .. n : ps[k] \in Range(Share(i, n, ps))
    BY <1>1, <1>3
  <2>3. \A p \in Range(ps) : \E k \in 1 .. Len(ps) : p = ps[k]
    BY <1>2 DEF Range
  <2> QED BY <2>1, <2>2, <2>3
<1> QED BY <1>1, <1>4, <1>5

(* Nobody gets anything of nothing.                                        *)
LEMMA EmptyShare ==
    ASSUME NEW n \in Nat, NEW i \in 1 .. n, NEW ps, ps = <<>>
    PROVE  Share(i, n, ps) = <<>>
<1>1. n > 0 /\ ps \in Seq(Partitions) /\ Range(ps) = {}
  BY DEF Range
<1> DEFINE sh == Share(i, n, ps)
<1>2. sh \in Seq(Partitions) /\ Range(sh) = {}
  <2>1. /\ \A j \in 1 .. n : Share(j, n, ps) \in Seq(Partitions)
        /\ UNION {Range(Share(j, n, ps)) : j \in 1 .. n} = Range(ps)
    BY <1>1, SharesWork, ZenonT(40)
  <2> QED BY <1>1, <2>1
<1> HIDE DEF sh
<1>3. Len(sh) \in Nat /\ DOMAIN sh = 1 .. Len(sh)
  BY <1>2, LenProperties
<1>4. Len(sh) = 0
  <2> SUFFICES ASSUME Len(sh) # 0 PROVE FALSE
    OBVIOUS
  <2>1. 1 \in DOMAIN sh
    BY <1>3
  <2> QED BY <1>2, <2>1 DEF Range
<1>5. sh = <<>>
  BY <1>2, <1>4, EmptySeq
<1> QED BY <1>5 DEF sh

-----------------------------------------------------------------------------
(* The inductive invariant.  ExclusiveOwner alone is not inductive: what a *)
(* step of a rebalance gives to a consumer must be free by then.           *)

(* Types of the group.                                                     *)
GroupTypes ==
    /\ members \in Seq(Consumers) /\ IsInjective(members)
    /\ subscribed \in Seq(Topics) /\ IsInjective(subscribed)
    /\ todo \in Seq(Steps)
    /\ assigned \in [Consumers -> Seq(Partitions)]

(* Consumer c has a step of the rebalance before step i.                   *)
Before(c, i) == \E j \in 1 .. i - 1 : todo[j].c = c

(* What a step assigns is free, or will have been revoked by an earlier    *)
(* step, and no two consumers are assigned the same.                       *)
Free ==
    /\ \A i \in DOMAIN todo : \A d \in Consumers :
          d # todo[i].c => \/ Before(d, i)
                           \/ Range(assigned[d]) \cap Range(todo[i].ps) = {}
    /\ \A i, j \in DOMAIN todo :
          todo[i].c # todo[j].c => Range(todo[i].ps) \cap Range(todo[j].ps) = {}

(* Who is not a member has nothing, or has only revocations to come.       *)
Outsiders ==
    \A d \in Consumers :
        d \notin Range(members) =>
            /\ assigned[d] = <<>> \/ Before(d, Len(todo) + 1)
            /\ \A i \in DOMAIN todo : todo[i].c = d => todo[i].ps = <<>>

(* A member has its share, or its last step will assign it.                *)
Target(i) == Share(i, Len(members), AllPartitions(subscribed))
Targets ==
    \A i \in DOMAIN members :
        \/ /\ assigned[members[i]] = Target(i)
           /\ \A k \in DOMAIN todo : todo[k].c # members[i]
        \/ \E k \in DOMAIN todo :
              /\ todo[k].c = members[i] /\ todo[k].ps = Target(i)
              /\ \A j \in DOMAIN todo : j > k => todo[j].c # members[i]

GroupInv == GroupTypes /\ ExclusiveOwner /\ Free /\ Outsiders /\ Targets

(* What a rebalance of the members ms and the partitions ps has to do, L,  *)
(* by its indexes: b steps that precede it, a revocation for each member,  *)
(* and, if there is anything to assign, an assignment for each.            *)
Listed(L, before, ms, ps, b, n) ==
    /\ Len(L) = b + n + (IF ps = <<>> THEN 0 ELSE n)
    /\ \A k \in 1 .. b : L[k] = before[k]
    /\ \A i \in 1 .. n : L[b + i].c = ms[i] /\ L[b + i].ps = <<>>
    /\ ps # <<>> => \A i \in 1 .. n : /\ L[b + n + i].c = ms[i]
                                      /\ L[b + n + i].ps = Share(i, n, ps)

(* The steps of a rebalance are listed in this order: those before it, one *)
(* revocation for each member, one assignment for each.                    *)
LEMMA RebalanceList ==
    ASSUME NEW before \in Seq(Steps), NEW ms \in Seq(Consumers),
           NEW topics \in Seq(Topics), IsInjective(topics)
    PROVE  /\ before \o RebalanceSteps(ms, topics) \in Seq(Steps)
           /\ Listed(before \o RebalanceSteps(ms, topics), before, ms, AllPartitions(topics),
                     Len(before), Len(ms))
<1> DEFINE n == Len(ms)
           b == Len(before)
           ps == AllPartitions(topics)
           R == [i \in DOMAIN ms |-> Revoke(ms[i])]
           A == IF ps = <<>> THEN <<>> ELSE [i \in DOMAIN ms |-> Assign(ms[i], Share(i, n, ps))]
           a == IF ps = <<>> THEN 0 ELSE n
           L == before \o (R \o A)
<1>1. RebalanceSteps(ms, topics) = R \o A
  BY DEF RebalanceSteps
<1>2. n \in Nat /\ b \in Nat /\ DOMAIN ms = 1 .. n /\ \A i \in 1 .. n : ms[i] \in Consumers
  BY LenProperties, ElementOfSeq
<1>3. ps \in Seq(Partitions)
  BY AllDistinct
<1> HIDE DEF ps
<1>4. R \in Seq(Steps) /\ Len(R) = n /\ \A i \in 1 .. n : R[i].c = ms[i] /\ R[i].ps = <<>>
  <2>1. \A i \in 1 .. n : Revoke(ms[i]) \in Steps /\ Revoke(ms[i]).c = ms[i] /\ Revoke(ms[i]).ps = <<>>
    BY <1>2 DEF Revoke, Steps
  <2>2. R = [i \in 1 .. n |-> Revoke(ms[i])]
    BY <1>2
  <2>3. R \in Seq(Steps)
    BY <1>2, <2>1, <2>2, IsASeq
  <2>4. DOMAIN R = 1 .. n
    BY <2>2
  <2>5. Len(R) = n
    BY <1>2, <2>3, <2>4, LenProperties
  <2> QED BY <2>1, <2>2, <2>3, <2>5
<1>5. /\ A \in Seq(Steps) /\ Len(A) = a /\ a \in Nat
      /\ ps # <<>> => \A i \in 1 .. n : A[i].c = ms[i] /\ A[i].ps = Share(i, n, ps)
  <2>1. CASE ps = <<>>
    BY <2>1
  <2>2. CASE ps # <<>>
    <3>1. ASSUME NEW i \in 1 .. n
          PROVE  /\ Assign(ms[i], Share(i, n, ps)) \in Steps
                 /\ Assign(ms[i], Share(i, n, ps)).c = ms[i]
                 /\ Assign(ms[i], Share(i, n, ps)).ps = Share(i, n, ps)
      <4>1. n > 0
        BY <1>2
      <4>2. Share(i, n, ps) \in Seq(Partitions)
        BY <1>2, <1>3, <4>1, SharesWork
      <4> QED BY <1>2, <4>2 DEF Assign, Steps
    <3>2. A = [i \in 1 .. n |-> Assign(ms[i], Share(i, n, ps))]
      BY <1>2, <2>2
    <3> HIDE DEF A
    <3>3. A \in Seq(Steps)
      BY <1>2, <3>1, <3>2, IsASeq
    <3>4. DOMAIN A = 1 .. n
      BY <3>2
    <3>5. Len(A) = n
      BY <1>2, <3>3, <3>4, LenProperties
    <3> QED BY <1>2, <2>2, <3>1, <3>2, <3>3, <3>5
  <2> QED BY <2>1, <2>2
<1> HIDE DEF R, A, a
<1>6. R \o A \in Seq(Steps) /\ Len(R \o A) = n + a
      /\ \A i \in 1 .. n + a : (R \o A)[i] = IF i <= n THEN R[i] ELSE A[i - n]
  <2>1. /\ R \o A \in Seq(Steps) /\ Len(R \o A) = Len(R) + Len(A)
        /\ \A i \in 1 .. Len(R) + Len(A) :
              (R \o A)[i] = IF i <= Len(R) THEN R[i] ELSE A[i - Len(R)]
    <3>1. R \in Seq(Steps) /\ A \in Seq(Steps)
      BY <1>4, <1>5
    <3> QED BY ONLY <3>1, ConcatProperties
  <2> DEFINE RA == R \o A
  <2> HIDE DEF RA, n
  <2>2. RA \in Seq(Steps) /\ Len(RA) = n + a
        /\ \A i \in 1 .. n + a : RA[i] = IF i <= n THEN R[i] ELSE A[i - n]
    BY <1>4, <1>5, <2>1 DEF RA
  <2> QED BY <2>2 DEF RA
<1> DEFINE RA == R \o A
<1> HIDE DEF RA, n, b
<1>7. before \o RA \in Seq(Steps) /\ Len(before \o RA) = b + (n + a)
      /\ \A i \in 1 .. b + (n + a) : (before \o RA)[i] = IF i <= b THEN before[i] ELSE RA[i - b]
  <2>1. RA \in Seq(Steps) /\ Len(RA) = n + a
    BY <1>6 DEF RA
  <2>2. /\ before \o RA \in Seq(Steps) /\ Len(before \o RA) = Len(before) + Len(RA)
        /\ \A i \in 1 .. Len(before) + Len(RA) :
              (before \o RA)[i] = IF i <= Len(before) THEN before[i] ELSE RA[i - Len(before)]
    BY <2>1, ConcatProperties
  <2> DEFINE LL == before \o RA
  <2> HIDE DEF LL
  <2>3. LL \in Seq(Steps) /\ Len(LL) = b + (n + a)
        /\ \A i \in 1 .. b + (n + a) : LL[i] = IF i <= b THEN before[i] ELSE RA[i - b]
    BY <2>1, <2>2 DEF LL, b
  <2> QED BY <2>3 DEF LL
<1> DEFINE LL == before \o RA
<1> HIDE DEF LL
<1>8. /\ LL \in Seq(Steps) /\ Len(LL) = b + n + a
      /\ \A i \in 1 .. b + n + a : LL[i] = IF i <= b THEN before[i] ELSE RA[i - b]
  <2>1. b + (n + a) = b + n + a
    BY <1>2, <1>5
  <2> QED BY <1>7, <2>1 DEF LL
<1>9. \A i \in 1 .. n + a : RA[i] = IF i <= n THEN R[i] ELSE A[i - n]
  BY <1>6 DEF RA
<1>10. \A k \in 1 .. b : LL[k] = before[k]
  <2>1. \A k \in 1 .. b : k \in 1 .. b + n + a /\ k <= b
    BY <1>2, <1>5
  <2> QED BY <1>8, <2>1
<1>11. \A i \in 1 .. n : LL[b + i].c = ms[i] /\ LL[b + i].ps = <<>>
  <2> SUFFICES ASSUME NEW i \in 1 .. n PROVE LL[b + i].c = ms[i] /\ LL[b + i].ps = <<>>
    OBVIOUS
  <2>1. b + i \in 1 .. b + n + a /\ ~(b + i <= b) /\ (b + i) - b = i /\ i \in 1 .. n + a /\ i <= n
    BY <1>2, <1>5
  <2>2. LL[b + i] = R[i]
    BY <1>8, <1>9, <2>1
  <2> QED BY <1>4, <2>2
<1>12. ASSUME ps # <<>>, NEW i \in 1 .. n
       PROVE  LL[b + n + i].c = ms[i] /\ LL[b + n + i].ps = Share(i, n, ps)
  <2>1. a = n
    BY <1>12 DEF a
  <2>2. /\ b + n + i \in 1 .. b + n + a /\ ~(b + n + i <= b) /\ (b + n + i) - b = n + i
        /\ n + i \in 1 .. n + a /\ ~(n + i <= n) /\ (n + i) - n = i
    BY <1>2, <2>1
  <2>3. LL[b + n + i] = A[i]
    BY <1>8, <1>9, <2>2
  <2> QED BY <1>5, <1>12, <2>3
<1>13. LL \in Seq(Steps) /\ Listed(LL, before, ms, ps, b, n)
  BY <1>8, <1>10, <1>11, <1>12 DEF Listed, a
<1> QED BY <1>1, <1>13 DEF LL, RA, ps, b, n

(* A method of the group begins: the invariant holds of what it has to do, *)
(* if the steps before the rebalance are revocations, of all those who     *)
(* hold something and are no longer members.                               *)
LEMMA RebalanceStarts ==
    ASSUME GroupInv, NEW before \in Seq(Steps), NEW ms \in Seq(Consumers), IsInjective(ms),
           NEW topics \in Seq(Topics), IsInjective(topics),
           Rebalance(before, ms, topics),
           \A k \in 1 .. Len(before) : before[k].ps = <<>> /\ before[k].c \notin Range(ms),
           \A d \in Consumers : \/ assigned[d] = <<>> \/ d \in Range(ms)
                                \/ \E k \in 1 .. Len(before) : before[k].c = d
    PROVE  GroupInv'
<1> DEFINE n == Len(ms)
           b == Len(before)
           ps == AllPartitions(topics)
           a == IF ps = <<>> THEN 0 ELSE n
           L == before \o RebalanceSteps(ms, topics)
<1>1. /\ members' = ms /\ subscribed' = topics /\ todo' = L
      /\ assigned' = assigned /\ strategy' = strategy
  BY DEF Rebalance, consumerVars
<1>2. L \in Seq(Steps) /\ Listed(L, before, ms, ps, b, n)
  BY RebalanceList
<1>3. /\ n \in Nat /\ b \in Nat /\ DOMAIN ms = 1 .. n /\ \A i \in 1 .. n : ms[i] \in Consumers
      /\ \A i, j \in 1 .. n : ms[i] = ms[j] => i = j
  BY LenProperties, ElementOfSeq DEF IsInjective
<1>4. ps \in Seq(Partitions) /\ IsInjective(ps)
  BY AllDistinct
<1>5. DOMAIN L = 1 .. Len(L)
  BY <1>2, LenProperties
<1>6. \A d : d \in Range(ms) <=> \E i \in 1 .. n : ms[i] = d
  BY <1>3 DEF Range
<1>7. \A i \in 1 .. n, p \in {ps} : Share(i, n, p)' = Share(i, n, p)
  BY <1>1 DEF Share
<1> DEFINE sh == [i \in 1 .. n |-> Share(i, n, ps)]
<1>8. /\ \A i \in 1 .. n : sh[i] = Share(i, n, ps)
      /\ \A i, j \in 1 .. n : i # j => Range(sh[i]) \cap Range(sh[j]) = {}
      /\ ps = <<>> => \A i \in 1 .. n : sh[i] = <<>>
  <2>1. \A i \in 1 .. n : sh[i] = Share(i, n, ps)
    OBVIOUS
  <2>2. ASSUME NEW i \in 1 .. n, NEW j \in 1 .. n, i # j
        PROVE  Range(sh[i]) \cap Range(sh[j]) = {}
    <3>1. n > 0
      BY <1>3
    <3>2. \A k, l \in 1 .. n : k # l => Range(Share(k, n, ps)) \cap Range(Share(l, n, ps)) = {}
      BY <1>3, <1>4, <3>1, SharesWork
    <3> QED BY <2>1, <2>2, <3>2
  <2>3. ASSUME ps = <<>>, NEW i \in 1 .. n
        PROVE  sh[i] = <<>>
    BY <1>3, <2>1, <2>3, EmptyShare
  <2> QED BY <2>1, <2>2, <2>3
<1>9. /\ Len(L) = b + n + a
      /\ \A k \in 1 .. b : L[k] = before[k]
      /\ \A i \in 1 .. n : L[b + i].c = ms[i] /\ L[b + i].ps = <<>>
      /\ ps # <<>> => \A i \in 1 .. n : L[b + n + i].c = ms[i] /\ L[b + n + i].ps = sh[i]
  BY <1>2, <1>8 DEF Listed
<1>10. Range(<<>>) = {}
  BY DEF Range
<1> HIDE DEF sh, ps, L
<1>11. (ps = <<>> /\ a = 0) \/ (ps # <<>> /\ a = n)
  BY DEF a
<1> HIDE DEF n, b, a
<1>12. ASSUME NEW k \in 1 .. Len(L)
       PROVE  \/ k \in 1 .. b
              \/ k - b \in 1 .. n /\ k = b + (k - b)
              \/ ps # <<>> /\ (k - b) - n \in 1 .. n /\ k = b + n + ((k - b) - n)
  BY <1>3, <1>9, <1>11
<1>13. ASSUME NEW k \in 1 .. Len(L)
       PROVE  \/ k \in 1 .. b /\ L[k].ps = <<>> /\ L[k].c \notin Range(ms)
              \/ /\ k - b \in 1 .. n /\ L[k].c = ms[k - b] /\ L[k].ps = <<>>
              \/ /\ ps # <<>> /\ (k - b) - n \in 1 .. n
                 /\ L[k].c = ms[(k - b) - n] /\ L[k].ps = sh[(k - b) - n]
  <2>1. CASE k \in 1 .. b
    BY <1>9, <2>1 DEF b
  <2>2. CASE k - b \in 1 .. n /\ k = b + (k - b)
    BY <1>9, <2>2
  <2>3. CASE ps # <<>> /\ (k - b) - n \in 1 .. n /\ k = b + n + ((k - b) - n)
    BY <1>9, <2>3
  <2> QED BY <1>12, <2>1, <2>2, <2>3
<1>14. GroupTypes'
  BY <1>1, <1>2 DEF GroupInv, GroupTypes
<1>15. ExclusiveOwner'
  BY <1>1 DEF GroupInv, ExclusiveOwner
<1>16. Free'
  <2>1. ASSUME NEW i \in 1 .. Len(L), NEW d \in Consumers, d # L[i].c
        PROVE  (\E j \in 1 .. i - 1 : L[j].c = d) \/ Range(assigned[d]) \cap Range(L[i].ps) = {}
    <3>1. CASE L[i].ps = <<>>
      BY <1>10, <3>1
    <3>2. CASE assigned[d] = <<>>
      BY <1>10, <3>2
    <3>3. CASE L[i].ps # <<>> /\ assigned[d] # <<>>
      <4>1. ps # <<>> /\ (i - b) - n \in 1 .. n
        BY <1>13, <3>3
      <4>2. CASE d \in Range(ms)
        <5>1. PICK k \in 1 .. n : ms[k] = d
          BY <1>6, <4>2
        <5>2. b + k \in 1 .. i - 1
          BY <1>3, <4>1
        <5>3. L[b + k].c = d
          BY <1>9, <5>1
        <5> QED BY <5>2, <5>3
      <4>3. CASE \E k \in 1 .. b : before[k].c = d
        <5>1. PICK k \in 1 .. b : before[k].c = d
          BY <4>3
        <5>2. k \in 1 .. i - 1
          BY <1>3, <4>1
        <5>3. L[k].c = d
          BY <1>9, <5>1
        <5> QED BY <5>2, <5>3
      <4> QED BY <3>3, <4>2, <4>3 DEF b
    <3> QED BY <3>1, <3>2, <3>3
  <2>2. ASSUME NEW i \in 1 .. Len(L), NEW j \in 1 .. Len(L), L[i].c # L[j].c
        PROVE  Range(L[i].ps) \cap Range(L[j].ps) = {}
    <3>1. CASE L[i].ps = <<>> \/ L[j].ps = <<>>
      BY <1>10, <3>1
    <3>2. CASE L[i].ps # <<>> /\ L[j].ps # <<>>
      <4> DEFINE k == (i - b) - n
                 l == (j - b) - n
      <4>1. k \in 1 .. n /\ L[i].c = ms[k] /\ L[i].ps = sh[k]
        BY <1>13, <3>2
      <4>2. l \in 1 .. n /\ L[j].c = ms[l] /\ L[j].ps = sh[l]
        BY <1>13, <3>2
      <4> HIDE DEF k, l
      <4> QED BY <1>8, <2>2, <4>1, <4>2
    <3> QED BY <3>1, <3>2
  <2> QED BY <1>1, <1>5, <2>1, <2>2 DEF Free, Before
<1>17. Outsiders'
  <2> SUFFICES ASSUME NEW d \in Consumers, d \notin Range(ms)
               PROVE  /\ assigned[d] = <<>> \/ \E j \in 1 .. (Len(L) + 1) - 1 : L[j].c = d
                      /\ \A i \in 1 .. Len(L) : L[i].c = d => L[i].ps = <<>>
    BY <1>1, <1>5 DEF Outsiders, Before
  <2>1. ASSUME assigned[d] # <<>>
        PROVE  \E j \in 1 .. (Len(L) + 1) - 1 : L[j].c = d
    <3>1. PICK k \in 1 .. b : before[k].c = d
      BY <2>1 DEF b
    <3>2. k \in 1 .. (Len(L) + 1) - 1
      BY <1>3, <1>9, <1>11
    <3> QED BY <1>9, <3>1, <3>2
  <2>2. ASSUME NEW i \in 1 .. Len(L), L[i].c = d
        PROVE  L[i].ps = <<>>
    BY <1>6, <1>13, <2>2
  <2> QED BY <2>1, <2>2
<1>18. Targets'
  <2>1. \A i \in 1 .. n : Target(i)' = sh[i]
    BY <1>1, <1>7, <1>8 DEF Target, Share, n, ps
  <2> DEFINE LastStep(i, k) == /\ L[k].c = ms[i] /\ L[k].ps = sh[i]
                               /\ \A j \in 1 .. Len(L) : j > k => L[j].c # ms[i]
  <2> SUFFICES ASSUME NEW i \in 1 .. n PROVE \E k \in 1 .. Len(L) : LastStep(i, k)
    <3>1. ASSUME \A i \in 1 .. n : \E k \in 1 .. Len(L) : LastStep(i, k)
          PROVE  \A i \in DOMAIN members' : \E k \in DOMAIN todo' :
                    /\ todo'[k].c = members'[i] /\ todo'[k].ps = Target(i)'
                    /\ \A j \in DOMAIN todo' : j > k => todo'[j].c # members'[i]
      <4> SUFFICES ASSUME NEW i \in DOMAIN members'
                   PROVE  \E k \in DOMAIN todo' :
                             /\ todo'[k].c = members'[i] /\ todo'[k].ps = Target(i)'
                             /\ \A j \in DOMAIN todo' : j > k => todo'[j].c # members'[i]
        OBVIOUS
      <4>1. i \in 1 .. n
        BY <1>1, <1>3
      <4>2. PICK k \in 1 .. Len(L) : LastStep(i, k)
        BY <3>1, <4>1
      <4>3. Target(i)' = sh[i]
        BY <2>1, <4>1
      <4>4. /\ todo'[k].c = members'[i] /\ todo'[k].ps = Target(i)'
            /\ \A j \in DOMAIN todo' : j > k => todo'[j].c # members'[i]
        BY <1>1, <1>5, <4>2, <4>3
      <4>5. k \in DOMAIN todo'
        BY <1>1, <1>5
      <4> QED BY ONLY <4>4, <4>5
    <3> QED BY <3>1 DEF Targets
  <2>2. CASE ps = <<>>
    <3>1. b + i \in 1 .. Len(L) /\ Len(L) = b + n
      BY <1>3, <1>9, <1>11, <2>2
    <3>2. L[b + i].c = ms[i] /\ L[b + i].ps = sh[i]
      BY <1>8, <1>9, <2>2
    <3>3. ASSUME NEW j \in 1 .. Len(L), j > b + i
          PROVE  L[j].c # ms[i]
      <4>1. j - b \in 1 .. n /\ j - b # i /\ j \notin 1 .. b
        BY <1>3, <3>1, <3>3
      <4>2. L[j].c = ms[j - b]
        BY <1>13, <2>2, <4>1
      <4> QED BY <1>3, <4>1, <4>2
    <3> QED BY <3>1, <3>2, <3>3
  <2>3. CASE ps # <<>>
    <3>1. b + n + i \in 1 .. Len(L) /\ Len(L) = b + n + n
      BY <1>3, <1>9, <1>11, <2>3
    <3>2. L[b + n + i].c = ms[i] /\ L[b + n + i].ps = sh[i]
      BY <1>9, <2>3
    <3>3. ASSUME NEW j \in 1 .. Len(L), j > b + n + i
          PROVE  L[j].c # ms[i]
      <4>1. (j - b) - n \in 1 .. n /\ (j - b) - n # i /\ j \notin 1 .. b /\ j - b \notin 1 .. n
        BY <1>3, <3>1, <3>3
      <4>2. L[j].c = ms[(j - b) - n]
        BY <1>13, <4>1
      <4> QED BY <1>3, <4>1, <4>2
    <3> QED BY <3>1, <3>2, <3>3
  <2> QED BY <2>2, <2>3
<1> QED BY <1>14, <1>15, <1>16, <1>17, <1>18 DEF GroupInv

(* A step of the rebalance: what it assigns is free, since nothing comes   *)
(* before it, and what the others wait for is not affected.                *)
LEMMA RebalanceContinues ==
    ASSUME GroupInv, RebalanceStep
    PROVE  GroupInv'
<1> DEFINE s == todo[1]
           m == Len(todo) - 1
           t == Tail(todo)
<1>1. /\ todo # <<>> /\ todo \in Seq(Steps) /\ assigned \in [Consumers -> Seq(Partitions)]
      /\ members' = members /\ subscribed' = subscribed /\ strategy' = strategy
      /\ todo' = t /\ assigned' = [assigned EXCEPT ![s.c] = s.ps]
  <2>1. /\ todo # <<>> /\ todo \in Seq(Steps) /\ assigned \in [Consumers -> Seq(Partitions)]
        /\ members' = members /\ subscribed' = subscribed /\ strategy' = strategy
        /\ todo' = t /\ assigned' = [assigned EXCEPT ![Head(todo).c] = Head(todo).ps]
    BY DEF RebalanceStep, GroupInv, GroupTypes
  <2>2. Head(todo) = s
    BY <2>1, HeadTailProperties
  <2> HIDE DEF s
  <2> QED BY <2>1, <2>2
<1>2. /\ Len(todo) \in Nat /\ DOMAIN todo = 1 .. Len(todo) /\ Len(todo) >= 1 /\ 1 \in DOMAIN todo
      /\ m \in Nat /\ DOMAIN todo = 1 .. m + 1 /\ Len(todo) = m + 1
  <2>1. Len(todo) \in Nat /\ DOMAIN todo = 1 .. Len(todo) /\ Len(todo) # 0
    BY <1>1, LenProperties, EmptySeq
  <2> QED BY <2>1
<1>3. s.c \in Consumers /\ s.ps \in Seq(Partitions)
  <2>1. s \in Steps
    BY <1>1, <1>2, ElementOfSeq
  <2> QED BY <2>1 DEF Steps
<1>4. t \in Seq(Steps) /\ Len(t) = m /\ \A i \in 1 .. m : t[i] = todo[i + 1]
  BY <1>1, HeadTailProperties
<1>5. DOMAIN t = 1 .. m
  BY <1>4, LenProperties
<1>6. /\ assigned'[s.c] = s.ps
      /\ \A d \in Consumers : d # s.c => assigned'[d] = assigned[d]
      /\ assigned' \in [Consumers -> Seq(Partitions)]
  BY <1>1, <1>3
<1> HIDE DEF s, t, m
<1>7. \A i \in 1 .. m : i + 1 \in DOMAIN todo /\ i + 1 > 1
  BY <1>2
<1>8. \A i \in DOMAIN todo : i = 1 \/ (i - 1 \in 1 .. m /\ (i - 1) + 1 = i /\ t[i - 1] = todo[i])
  <2> SUFFICES ASSUME NEW i \in DOMAIN todo, i # 1
               PROVE  i - 1 \in 1 .. m /\ (i - 1) + 1 = i /\ t[i - 1] = todo[i]
    OBVIOUS
  <2>1. i - 1 \in 1 .. m /\ (i - 1) + 1 = i
    BY <1>2
  <2> QED BY <1>4, <2>1
<1>9. \A d \in Consumers, i \in 1 .. m : Before(d, i + 1) /\ d # s.c => \E j \in 1 .. i - 1 : t[j].c = d
  <2> SUFFICES ASSUME NEW d \in Consumers, NEW i \in 1 .. m, d # s.c,
                      NEW j \in 1 .. (i + 1) - 1, todo[j].c = d
               PROVE  \E k \in 1 .. i - 1 : t[k].c = d
    BY DEF Before
  <2>1. j \in DOMAIN todo /\ j # 1
    BY <1>2 DEF s
  <2>2. j - 1 \in 1 .. m /\ t[j - 1].c = d
    BY <1>8, <2>1
  <2>3. j - 1 \in 1 .. i - 1
    BY <1>2, <2>1, <2>2
  <2> QED BY <2>2, <2>3
<1>10. GroupTypes'
  BY <1>1, <1>4, <1>6 DEF GroupInv, GroupTypes
<1>11. ASSUME NEW d \in Consumers, d # s.c
       PROVE  Range(assigned[d]) \cap Range(s.ps) = {}
  <2>1. ~Before(d, 1)
    BY DEF Before
  <2> QED BY <1>2, <1>11, <2>1 DEF GroupInv, Free, s
<1>12. ExclusiveOwner'
  <2> SUFFICES ASSUME NEW c \in Consumers, NEW d \in Consumers, c # d
               PROVE  Range(assigned'[c]) \cap Range(assigned'[d]) = {}
    BY DEF ExclusiveOwner
  <2>1. CASE c = s.c
    BY <1>6, <1>11, <2>1
  <2>2. CASE d = s.c
    BY <1>6, <1>11, <2>2
  <2>3. CASE c # s.c /\ d # s.c
    BY <1>6, <2>3 DEF GroupInv, ExclusiveOwner
  <2> QED BY <2>1, <2>2, <2>3
<1>13. Free'
  <2>1. ASSUME NEW i \in 1 .. m, NEW d \in Consumers, d # t[i].c
        PROVE  (\E j \in 1 .. i - 1 : t[j].c = d) \/ Range(assigned'[d]) \cap Range(t[i].ps) = {}
    <3>1. t[i] = todo[i + 1] /\ i + 1 \in DOMAIN todo
      BY <1>4, <1>7
    <3>2. CASE d = s.c
      <4>1. Range(s.ps) \cap Range(t[i].ps) = {}
        BY <1>2, <2>1, <3>1, <3>2 DEF GroupInv, Free, s
      <4> QED BY <1>6, <3>2, <4>1
    <3>3. CASE d # s.c
      <4>1. Before(d, i + 1) \/ Range(assigned[d]) \cap Range(t[i].ps) = {}
        BY <2>1, <3>1 DEF GroupInv, Free
      <4> QED BY <1>6, <1>9, <3>3, <4>1
    <3> QED BY <3>2, <3>3
  <2>2. ASSUME NEW i \in 1 .. m, NEW j \in 1 .. m, t[i].c # t[j].c
        PROVE  Range(t[i].ps) \cap Range(t[j].ps) = {}
    BY <1>4, <1>7, <2>2 DEF GroupInv, Free
  <2> QED BY <1>1, <1>5, <2>1, <2>2 DEF Free, Before
<1>14. Outsiders'
  <2> SUFFICES ASSUME NEW d \in Consumers, d \notin Range(members)
               PROVE  /\ assigned'[d] = <<>> \/ \E j \in 1 .. (m + 1) - 1 : t[j].c = d
                      /\ \A i \in 1 .. m : t[i].c = d => t[i].ps = <<>>
    BY <1>1, <1>4, <1>5 DEF Outsiders, Before
  <2>1. /\ assigned[d] = <<>> \/ Before(d, Len(todo) + 1)
        /\ \A i \in DOMAIN todo : todo[i].c = d => todo[i].ps = <<>>
    BY DEF GroupInv, Outsiders
  <2>2. \A i \in 1 .. m : t[i].c = d => t[i].ps = <<>>
    BY <1>4, <1>7, <2>1
  <2>3. CASE d = s.c
    BY <1>2, <1>6, <2>1, <2>2, <2>3 DEF s
  <2>4. CASE d # s.c
    <3>1. ASSUME Before(d, Len(todo) + 1)
          PROVE  \E j \in 1 .. (m + 1) - 1 : t[j].c = d
      <4>1. PICK j \in 1 .. (Len(todo) + 1) - 1 : todo[j].c = d
        BY <3>1 DEF Before
      <4>2. j \in DOMAIN todo /\ j # 1
        BY <1>2, <2>4, <4>1 DEF s
      <4>3. j - 1 \in 1 .. m /\ t[j - 1].c = d
        BY <1>8, <4>1, <4>2
      <4>4. j - 1 \in 1 .. (m + 1) - 1
        BY <1>2, <4>3
      <4> QED BY <4>3, <4>4
    <3> QED BY <1>6, <2>1, <2>2, <2>4, <3>1
  <2> QED BY <2>3, <2>4
<1>15. Targets'
  <2>1. \A i : Target(i)' = Target(i)
    BY <1>1 DEF Target, Share
  <2> SUFFICES ASSUME NEW i \in DOMAIN members
               PROVE  \/ /\ assigned'[members[i]] = Target(i)
                         /\ \A k \in 1 .. m : t[k].c # members[i]
                      \/ \E k \in 1 .. m :
                            /\ t[k].c = members[i] /\ t[k].ps = Target(i)
                            /\ \A j \in 1 .. m : j > k => t[j].c # members[i]
    BY <1>1, <1>5, <2>1, SMTT(30) DEF Targets
  <2>2. members[i] \in Consumers
    BY LenProperties, ElementOfSeq DEF GroupInv, GroupTypes
  <2>3. CASE /\ assigned[members[i]] = Target(i)
             /\ \A k \in DOMAIN todo : todo[k].c # members[i]
    <3>1. members[i] # s.c
      BY <1>2, <2>3 DEF s
    <3>2. \A k \in 1 .. m : t[k].c # members[i]
      BY <1>4, <1>7, <2>3
    <3> QED BY <1>6, <2>2, <2>3, <3>1, <3>2
  <2>4. ASSUME NEW k \in DOMAIN todo,
               todo[k].c = members[i], todo[k].ps = Target(i),
               \A j \in DOMAIN todo : j > k => todo[j].c # members[i]
        PROVE  \/ /\ assigned'[members[i]] = Target(i)
                  /\ \A l \in 1 .. m : t[l].c # members[i]
               \/ \E l \in 1 .. m :
                     /\ t[l].c = members[i] /\ t[l].ps = Target(i)
                     /\ \A j \in 1 .. m : j > l => t[j].c # members[i]
    <3>1. CASE k = 1
      <4>1. \A l \in 1 .. m : t[l].c # members[i]
        BY <1>4, <1>7, <2>4, <3>1
      <4>2. s.c = members[i] /\ s.ps = Target(i)
        BY <2>4, <3>1 DEF s
      <4> QED BY <1>6, <4>1, <4>2
    <3>2. CASE k # 1
      <4>1. k - 1 \in 1 .. m /\ t[k - 1] = todo[k]
        BY <1>8, <3>2
      <4>2. ASSUME NEW j \in 1 .. m, j > k - 1
            PROVE  t[j].c # members[i]
        <5>1. j + 1 \in DOMAIN todo /\ j + 1 > k
          BY <1>2, <4>2
        <5> QED BY <1>4, <2>4, <5>1
      <4> QED BY <2>4, <4>1, <4>2
    <3> QED BY <3>1, <3>2
  <2> QED BY <2>3, <2>4 DEF GroupInv, Targets
<1> QED BY <1>10, <1>12, <1>13, <1>14, <1>15 DEF GroupInv

(* Between rebalances only members hold partitions.                        *)
LEMMA HoldersAreMembers ==
    ASSUME GroupInv, todo = <<>>, NEW d \in Consumers
    PROVE  assigned[d] = <<>> \/ d \in Range(members)
<1>1. Len(todo) = 0
  OBVIOUS
<1>2. ~Before(d, Len(todo) + 1)
  BY <1>1 DEF Before
<1> QED BY <1>2 DEF GroupInv, Outsiders

(* No two consumers have the same consumer_id.                             *)
OwnIds == \A c, d \in Consumers : Id[c] = Id[d] => c = d

(* A join begins a rebalance in which nobody holds anything unrevoked;     *)
(* this is where two consumers with one id would break the invariant.      *)
LEMMA JoinKeeps ==
    ASSUME OwnIds, GroupInv, NEW c \in Consumers, Join(c)
    PROVE  GroupInv'
<1> DEFINE same == {i \in DOMAIN members : Id[members[i]] = Id[c]}
           ms == IF same = {} THEN Append(members, c)
                 ELSE [i \in DOMAIN members |-> IF i \in same THEN c ELSE members[i]]
<1>1. Rebalance(<<>>, ms, subscribed) /\ todo = <<>>
  BY DEF Join, Rebalance
<1>2. /\ members \in Seq(Consumers) /\ IsInjective(members)
      /\ subscribed \in Seq(Topics) /\ IsInjective(subscribed)
  BY DEF GroupInv, GroupTypes
<1>3. DOMAIN members = 1 .. Len(members) /\ \A i \in DOMAIN members : members[i] \in Consumers
  BY <1>2, LenProperties, ElementOfSeq
<1>4. ms \in Seq(Consumers) /\ IsInjective(ms) /\ Range(members) \subseteq Range(ms)
  <2>1. CASE same = {}
    <3>1. c \notin Range(members)
      BY <2>1 DEF Range
    <3>2. ms = Append(members, c)
      BY <2>1
    <3> HIDE DEF ms
    <3> QED BY <1>2, <3>1, <3>2, Appended
  <2>2. CASE same # {}
    <3>1. \A i \in same : members[i] = c
      BY <1>3 DEF OwnIds
    <3>2. ms = [i \in DOMAIN members |-> members[i]]
      BY <2>2, <3>1
    <3>3. ms = members
      BY <1>2, <3>2
    <3> HIDE DEF ms
    <3> QED BY <1>2, <3>3
  <2> QED BY <2>1, <2>2
<1> HIDE DEF ms
<1>5. <<>> \in Seq(Steps) /\ Len(<<>>) = 0
  OBVIOUS
<1>6. \A d \in Consumers : assigned[d] = <<>> \/ d \in Range(ms)
  BY <1>1, <1>4, HoldersAreMembers
<1> DEFINE none == <<>>
<1>7. /\ none \in Seq(Steps) /\ Rebalance(none, ms, subscribed)
      /\ \A k \in 1 .. Len(none) : none[k].ps = <<>> /\ none[k].c \notin Range(ms)
  BY <1>1, <1>5
<1> HIDE DEF none
<1> QED BY <1>2, <1>4, <1>6, <1>7, RebalanceStarts

(* A leave begins with the revocation of the one who leaves.               *)
LEMMA LeaveKeeps ==
    ASSUME GroupInv, NEW c \in Consumers, Leave(c)
    PROVE  GroupInv'
<1> DEFINE ms == Keep(members, Consumers \ {c})
           before == <<Revoke(c)>>
<1>1. Rebalance(before, ms, subscribed) /\ todo = <<>>
  BY DEF Leave, Rebalance
<1>2. /\ members \in Seq(Consumers) /\ IsInjective(members)
      /\ subscribed \in Seq(Topics) /\ IsInjective(subscribed)
  BY DEF GroupInv, GroupTypes
<1>3. ms \in Seq(Consumers) /\ Range(ms) = Range(members) \cap (Consumers \ {c}) /\ IsInjective(ms)
  BY <1>2, KeepWorks
<1> HIDE DEF ms
<1>4. /\ before \in Seq(Steps) /\ Len(before) = 1 /\ before[1].c = c /\ before[1].ps = <<>>
  BY DEF Revoke, Steps
<1> HIDE DEF before
<1>5. \A k \in 1 .. Len(before) : before[k].ps = <<>> /\ before[k].c \notin Range(ms)
  BY <1>3, <1>4
<1>6. ASSUME NEW d \in Consumers
      PROVE  \/ assigned[d] = <<>> \/ d \in Range(ms)
             \/ \E k \in 1 .. Len(before) : before[k].c = d
  <2>1. assigned[d] = <<>> \/ d \in Range(members)
    BY <1>1, HoldersAreMembers
  <2>2. 1 \in 1 .. Len(before)
    BY <1>4
  <2> QED BY <1>3, <1>4, <2>1, <2>2
<1> QED BY <1>1, <1>2, <1>3, <1>4, <1>5, <1>6, RebalanceStarts

(* The removal of dead members begins with their revocations.              *)
LEMMA RemoveKeeps ==
    ASSUME GroupInv, RemoveDeadMembers
    PROVE  GroupInv'
<1> DEFINE ms == Keep(members, Alive)
           dead == Keep(members, Consumers \ Alive)
           before == [i \in DOMAIN dead |-> Revoke(dead[i])]
<1>1. Rebalance(before, ms, subscribed) /\ todo = <<>>
  BY DEF RemoveDeadMembers, Rebalance
<1>2. /\ members \in Seq(Consumers) /\ IsInjective(members)
      /\ subscribed \in Seq(Topics) /\ IsInjective(subscribed)
  BY DEF GroupInv, GroupTypes
<1>3. ms \in Seq(Consumers) /\ Range(ms) = Range(members) \cap Alive /\ IsInjective(ms)
  BY <1>2, KeepWorks
<1>4. dead \in Seq(Consumers) /\ Range(dead) = Range(members) \cap (Consumers \ Alive)
  BY <1>2, KeepWorks
<1> HIDE DEF ms, dead
<1>5. /\ DOMAIN dead = 1 .. Len(dead) /\ Len(dead) \in Nat
      /\ \A i \in 1 .. Len(dead) : dead[i] \in Consumers
  BY <1>4, LenProperties, ElementOfSeq
<1>6. /\ before \in Seq(Steps) /\ DOMAIN before = 1 .. Len(dead)
      /\ \A i \in 1 .. Len(dead) : before[i].c = dead[i] /\ before[i].ps = <<>>
  <2>1. \A i \in 1 .. Len(dead) : Revoke(dead[i]) \in Steps /\ Revoke(dead[i]).c = dead[i]
                                  /\ Revoke(dead[i]).ps = <<>>
    BY <1>5 DEF Revoke, Steps
  <2>2. before = [i \in 1 .. Len(dead) |-> Revoke(dead[i])]
    BY <1>5
  <2> HIDE DEF before
  <2>3. before \in Seq(Steps)
    BY <1>5, <2>1, <2>2, IsASeq
  <2> QED BY <2>1, <2>2, <2>3
<1> HIDE DEF before
<1>7. Len(before) = Len(dead)
  BY <1>5, <1>6, LenProperties
<1>8. \A k \in 1 .. Len(before) : before[k].ps = <<>> /\ before[k].c \notin Range(ms)
  BY <1>3, <1>4, <1>5, <1>6, <1>7 DEF Range
<1>9. ASSUME NEW d \in Consumers
      PROVE  \/ assigned[d] = <<>> \/ d \in Range(ms)
             \/ \E k \in 1 .. Len(before) : before[k].c = d
  <2>1. assigned[d] = <<>> \/ d \in Range(members)
    BY <1>1, HoldersAreMembers
  <2>2. d \in Range(dead) => \E k \in 1 .. Len(dead) : before[k].c = d
    BY <1>5, <1>6 DEF Range
  <2> QED BY <1>3, <1>4, <1>7, <2>1, <2>2
<1> QED BY <1>1, <1>2, <1>3, <1>6, <1>8, <1>9, RebalanceStarts

(* Subscribing to a topic and unsubscribing change the list of partitions  *)
(* only, and rebalance the same members.                                   *)
LEMMA TopicsKeep ==
    ASSUME GroupInv, NEW t \in Topics, Subscribe(t) \/ Unsubscribe(t)
    PROVE  GroupInv'
<1>1. /\ members \in Seq(Consumers) /\ IsInjective(members)
      /\ subscribed \in Seq(Topics) /\ IsInjective(subscribed)
  BY DEF GroupInv, GroupTypes
<1>2. PICK ts : /\ ts \in Seq(Topics) /\ IsInjective(ts)
                /\ Rebalance(<<>>, members, ts) /\ todo = <<>>
  <2>1. CASE Subscribe(t)
    <3> DEFINE ts == IF t \in Range(subscribed) THEN subscribed ELSE Append(subscribed, t)
    <3>1. Rebalance(<<>>, members, ts) /\ todo = <<>>
      BY <2>1 DEF Subscribe, Rebalance
    <3>2. ts \in Seq(Topics) /\ IsInjective(ts)
      BY <1>1, Appended
    <3> HIDE DEF ts
    <3> QED BY <3>1, <3>2
  <2>2. CASE Unsubscribe(t)
    <3> DEFINE ts == Keep(subscribed, Topics \ {t})
    <3>1. Rebalance(<<>>, members, ts) /\ todo = <<>>
      BY <2>2 DEF Unsubscribe, Rebalance
    <3>2. ts \in Seq(Topics) /\ IsInjective(ts)
      BY <1>1, KeepWorks
    <3> HIDE DEF ts
    <3> QED BY <3>1, <3>2
  <2> QED BY <2>1, <2>2
<1>3. <<>> \in Seq(Steps) /\ Len(<<>>) = 0
  OBVIOUS
<1>4. \A d \in Consumers : assigned[d] = <<>> \/ d \in Range(members)
  BY <1>2, HoldersAreMembers
<1> DEFINE none == <<>>
<1>5. /\ none \in Seq(Steps) /\ Rebalance(none, members, ts)
      /\ \A k \in 1 .. Len(none) : none[k].ps = <<>> /\ none[k].c \notin Range(members)
  BY <1>2, <1>3
<1> HIDE DEF none
<1> QED BY <1>1, <1>2, <1>4, <1>5, RebalanceStarts

(* Polls, commits, seeks, closes, timeouts and the partitions' own         *)
(* operations change neither the group nor what anybody is assigned.       *)
LEMMA OthersKeep ==
    ASSUME GroupInv, UNCHANGED <<groupVars, assigned>>
    PROVE  GroupInv'
<1>1. /\ strategy' = strategy /\ members' = members /\ subscribed' = subscribed
      /\ todo' = todo /\ assigned' = assigned
  BY DEF groupVars
<1>2. \A i : Target(i)' = Target(i)
  BY <1>1 DEF Target, Share
<1>3. GroupTypes' /\ ExclusiveOwner'
  BY <1>1 DEF GroupInv, GroupTypes, ExclusiveOwner
<1>5. Free'
  BY <1>1 DEF GroupInv, Free, Before
<1>6. Outsiders'
  BY <1>1 DEF GroupInv, Outsiders, Before
<1>4. Targets'
  BY <1>1, <1>2 DEF GroupInv, Targets
<1> QED BY <1>3, <1>4, <1>5, <1>6 DEF GroupInv

(* Every step keeps the invariant.                                         *)
LEMMA GroupStep ==
    ASSUME OwnIds, GroupInv, [Next]_vars
    PROVE  GroupInv'
<1>1. CASE GroupNext
  BY <1>1, JoinKeeps, LeaveKeeps, TopicsKeep, RemoveKeeps, RebalanceContinues DEF GroupNext
<1>2. ASSUME NEW c \in Consumers, ConsumerNext(c)
      PROVE  GroupInv'
  <2>1. UNCHANGED <<groupVars, assigned>>
    BY <1>2 DEF ConsumerNext, Poll, Commit, Close, SessionTimeout, consumerVars
  <2> QED BY <2>1, OthersKeep
<1>3. ASSUME NEW c \in Consumers, SeekNext(c)
      PROVE  GroupInv'
  <2>1. UNCHANGED <<groupVars, assigned>>
    BY <1>3 DEF SeekNext, Seek, SeekToBeginning, SeekToEnd, SeekTo
  <2> QED BY <2>1, OthersKeep
<1>4. ASSUME NEW p \in Partitions, Publish(p) \/ Expire(p)
      PROVE  GroupInv'
  <2>1. UNCHANGED <<groupVars, assigned>>
    BY <1>4 DEF Publish, Expire, consumerVars
  <2> QED BY <2>1, OthersKeep
<1>5. CASE UNCHANGED vars
  <2>1. UNCHANGED <<groupVars, assigned>>
    BY <1>5 DEF vars, consumerVars
  <2> QED BY <2>1, OthersKeep
<1> QED BY <1>1, <1>2, <1>3, <1>4, <1>5 DEF Next

(* The invariant holds initially.                                          *)
LEMMA GroupInit == Init => GroupInv
<1> SUFFICES ASSUME Init PROVE GroupInv
  OBVIOUS
<1>1. /\ members = <<>> /\ subscribed = <<>> /\ todo = <<>>
      /\ assigned = [c \in Consumers |-> <<>>]
  BY DEF Init
<1>2. DOMAIN <<>> = {} /\ Range(<<>>) = {} /\ IsInjective(<<>>)
  BY DEF Range, IsInjective
<1>3. \A c \in Consumers : assigned[c] = <<>>
  BY <1>1
<1>4. GroupTypes
  BY <1>1, <1>2 DEF GroupTypes
<1>5. ExclusiveOwner
  BY <1>2, <1>3 DEF ExclusiveOwner
<1>6. Free /\ Outsiders /\ Targets
  BY <1>1, <1>2, <1>3 DEF Free, Outsiders, Targets
<1> QED BY <1>4, <1>5, <1>6 DEF GroupInv

(* At no instant, not even half way through a rebalance, do two consumers  *)
(* hold the same partition (consumer.py 208-209), if no consumer takes the *)
(* id of another: join would replace a member without revoking it (240).   *)
THEOREM OneOwner ==
    ASSUME OwnIds
    PROVE  Spec => []ExclusiveOwner
<1>1. Init => GroupInv
  BY GroupInit
<1>2. GroupInv /\ [Next]_vars => GroupInv'
  BY GroupStep
<1>3. GroupInv => ExclusiveOwner
  BY DEF GroupInv
<1> QED BY <1>1, <1>2, <1>3, PTL DEF Spec

(* When no rebalance is under way, what the members have is their shares.  *)
LEMMA SharesCover == GroupInv => FullCoverage
<1> SUFFICES ASSUME GroupInv, todo = <<>>, members # <<>>
             PROVE  UNION {Range(assigned[c]) : c \in Range(members)}
                        = Range(AllPartitions(subscribed))
  BY DEF FullCoverage
<1> DEFINE n == Len(members)
           ps == AllPartitions(subscribed)
<1>1. /\ members \in Seq(Consumers) /\ subscribed \in Seq(Topics) /\ IsInjective(subscribed)
      /\ DOMAIN todo = {}
  BY DEF GroupInv, GroupTypes
<1>2. n \in Nat /\ n > 0 /\ DOMAIN members = 1 .. n
  BY <1>1, LenProperties, EmptySeq
<1>3. ps \in Seq(Partitions)
  BY <1>1, AllDistinct
<1>4. UNION {Range(Share(i, n, ps)) : i \in 1 .. n} = Range(ps)
  BY <1>2, <1>3, SharesWork
<1>5. \A i \in 1 .. n : assigned[members[i]] = Share(i, n, ps)
  BY <1>1, <1>2 DEF GroupInv, Targets, Target
<1> HIDE DEF n, ps
<1>6. UNION {Range(assigned[c]) : c \in Range(members)}
          = UNION {Range(assigned[members[i]]) : i \in 1 .. n}
  <2>1. Range(members) = {members[i] : i \in 1 .. n}
    BY <1>2 DEF Range
  <2>2. \A c \in Range(members) : \E i \in 1 .. n : c = members[i]
    BY <2>1
  <2>3. \A i \in 1 .. n : members[i] \in Range(members)
    BY <2>1
  <2> QED BY ONLY <2>2, <2>3
<1>7. UNION {Range(assigned[members[i]]) : i \in 1 .. n} = UNION {Range(Share(i, n, ps)) : i \in 1 .. n}
  BY <1>5
<1> QED BY <1>4, <1>6, <1>7 DEF ps

(* After each rebalance every partition subscribed to is held by a member, *)
(* and nothing else is, whatever the strategy and the numbers of members   *)
(* and partitions (consumer.py 264-322).                                   *)
THEOREM AllCovered ==
    ASSUME OwnIds
    PROVE  Spec => []FullCoverage
<1>1. Init => GroupInv
  BY GroupInit
<1>2. GroupInv /\ [Next]_vars => GroupInv'
  BY GroupStep
<1>3. GroupInv => FullCoverage
  BY SharesCover
<1> QED BY <1>1, <1>2, <1>3, PTL DEF Spec

-----------------------------------------------------------------------------
(* Nothing is skipped.  Everything that poll reads is returned if it may   *)
(* return as many messages as there are partitions.                        *)
EnoughRoom ==
    /\ IsFiniteSet(Partitions)
    /\ \A limit \in Limits : Cardinality(Partitions) <= limit

(* A list that is not longer than that.                                    *)
Short(ps) == Len(ps) <= Cardinality(Partitions)

(* A list of different partitions is one.                                  *)
LEMMA DistinctIsShort ==
    ASSUME EnoughRoom, NEW ps \in Seq(Partitions), IsInjective(ps)
    PROVE  Short(ps)
<1>1. /\ Len(ps) \in Nat /\ DOMAIN ps = 1 .. Len(ps)
      /\ \A i \in 1 .. Len(ps) : ps[i] \in Partitions
  BY LenProperties, ElementOfSeq
<1>2. \A i, j \in 1 .. Len(ps) : ps[i] = ps[j] => i = j
  BY <1>1 DEF IsInjective
<1>3. ps \in [1 .. Len(ps) -> Partitions]
  BY <1>1
<1>4. ps \in Injection(1 .. Len(ps), Partitions)
  BY <1>2, <1>3 DEF Injection, IsInjective
<1>5. Cardinality(1 .. Len(ps)) <= Cardinality(Partitions)
  <2>1. PICK S, T, f : S = 1 .. Len(ps) /\ T = Partitions /\ f = ps
    OBVIOUS
  <2>2. IsFiniteSet(T) /\ f \in Injection(S, T)
    BY <1>4, <2>1 DEF EnoughRoom
  <2>3. Cardinality(S) <= Cardinality(T)
    BY ONLY <2>2, FS_Injection
  <2> QED BY <2>1, <2>3
<1>6. Cardinality(1 .. Len(ps)) = Len(ps)
  <2>1. 1 \in Int /\ Len(ps) \in Int
    BY <1>1
  <2>2. Cardinality(1 .. Len(ps)) = IF 1 > Len(ps) THEN 0 ELSE Len(ps) - 1 + 1
    BY <2>1, FS_Interval
  <2> QED BY <1>1, <2>2
<1> QED BY <1>5, <1>6 DEF Short

(* A share is not longer than what is shared.                              *)
LEMMA ShareIsShorter ==
    ASSUME NEW ps \in Seq(Partitions), NEW n \in Nat, n > 0, NEW i \in 1 .. n
    PROVE  Len(Share(i, n, ps)) <= Len(ps)
<1> DEFINE m == Len(ps)
<1>1. m \in Nat /\ i \in Nat /\ 1 <= i /\ i <= n
  BY LenProperties
<1>2. CASE strategy = "round_robin"
  <2> DEFINE c == (m - i + n) \div n
             rest == (m - i + n) % n
  <2>1. m - i + n \in Nat
    BY <1>1
  <2>2. c \in Nat /\ rest \in 0 .. n - 1 /\ m - i + n = (n * c) + rest
    BY <2>1, DivMod
  <2>3. Len(Share(i, n, ps)) = c
    <3>1. Share(i, n, ps) = [k \in 1 .. c |-> ps[i + (k - 1) * n]]
      BY <1>2 DEF Share, RoundRobinShare
    <3> HIDE DEF c
    <3> QED BY <2>2, <3>1
  <2> HIDE DEF c, rest, m
  <2>4. c <= m
    <3>1. CASE c = 0
      BY <1>1, <3>1
    <3>2. CASE c # 0
      <4> DEFINE d == c - 1
                 k == n - 1
      <4>1. d \in Nat /\ k \in Nat /\ c = d + 1 /\ n = k + 1
        BY <2>2, <3>2
      <4>2. n * c = n * d + n /\ n * d = k * d + d
        BY ONLY <4>1, n \in Nat
      <4>3. k * d \in Nat
        BY ONLY <4>1
      <4> HIDE DEF d, k
      <4>4. PICK y, z : y = k * d /\ z = n * c
        OBVIOUS
      <4>5. z = y + d + n /\ y \in Nat /\ m - i + n = z + rest
        BY <2>2, <4>2, <4>3, <4>4
      <4> QED BY ONLY <1>1, <2>2, <4>1, <4>5, n \in Nat
    <3> QED BY <3>1, <3>2
  <2> QED BY <2>3, <2>4 DEF m
<1>3. CASE strategy # "round_robin"
  <2> DEFINE a == RangeStart(i, n, ps)
             b == RangeStart(i + 1, n, ps)
             sh == RangeShare(i, n, ps)
  <2>1. /\ \A k \in Nat : k >= 1 => RangeStart(k, n, ps) \in Nat
        /\ RangeStart(n + 1, n, ps) = m
        /\ \A k, l \in Nat : 1 <= k /\ k <= l => RangeStart(k, n, ps) <= RangeStart(l, n, ps)
    BY RangeStarts
  <2>2. /\ i \in Nat /\ i + 1 \in Nat /\ n + 1 \in Nat /\ i >= 1 /\ i + 1 >= 1 /\ 1 <= i
        /\ i <= i + 1 /\ 1 <= i + 1 /\ i + 1 <= n + 1
    BY <1>1
  <2>3. a \in Nat /\ b \in Nat /\ a <= b /\ b <= m
    BY <2>1, <2>2
  <2>4. sh = SubSeq(ps, a + 1, b)
    BY DEF RangeShare
  <2> HIDE DEF a, b, sh
  <2>5. Len(sh) = b - a
    <3>1. CASE a = b
      <4>1. sh = <<>>
        BY <1>1, <2>3, <2>4, <3>1
      <4> QED BY <2>3, <3>1, <4>1
    <3>2. CASE a # b
      BY <1>1, <2>3, <2>4, <3>2, SubSeqProperties
    <3> QED BY <3>1, <3>2
  <2>6. Len(sh) <= m
    BY <1>1, <2>3, <2>5
  <2> QED BY <1>3, <2>6 DEF Share, sh
<1> QED BY <1>2, <1>3

(* What a rebalance assigns are short lists.                               *)
LEMMA AssignedShort ==
    ASSUME EnoughRoom, NEW n \in Nat, n > 0, NEW i \in 1 .. n,
           NEW topics \in Seq(Topics), IsInjective(topics)
    PROVE  Short(Share(i, n, AllPartitions(topics)))
<1> DEFINE ps == AllPartitions(topics)
           sh == Share(i, n, ps)
<1>1. ps \in Seq(Partitions) /\ IsInjective(ps)
  BY AllDistinct
<1>2. Short(ps)
  <2> HIDE DEF ps
  <2> QED BY <1>1, DistinctIsShort
<1>3. sh \in Seq(Partitions) /\ Len(sh) <= Len(ps)
  <2> HIDE DEF ps
  <2> QED BY <1>1, SharesWork, ShareIsShorter
<1> HIDE DEF ps, sh
<1>4. Len(sh) \in Nat /\ Len(ps) \in Nat /\ Cardinality(Partitions) \in Nat
  BY <1>1, <1>3, LenProperties, FS_CardinalityType DEF EnoughRoom
<1>5. Short(sh)
  BY <1>2, <1>3, <1>4 DEF Short
<1> QED BY <1>5 DEF sh, ps

(* The partitions' offsets, the positions and the ghosts.                  *)
PositionTypes ==
    /\ position \in [Consumers -> [Partitions -> Nat \cup {-1}]]
    /\ committed \in [Partitions -> Nat]
    /\ first \in [Partitions -> Nat]
    /\ end \in [Partitions -> Nat]
    /\ returned \in [Partitions -> SUBSET Int]
    /\ passed \in [Partitions -> SUBSET Int]

(* The interval B is what poll reads of a partition, at most n messages.   *)
IsBatch(B, start, stop, n) ==
    /\ start \in Nat /\ stop \in Int /\ B = start .. stop - 1
    /\ n \in Nat /\ stop <= start + n
    /\ Cardinality(B) \in 0 .. n
    /\ B # {} => Max(B) = stop - 1 /\ Min(B) = start /\ start < stop

(* Partition.read returns such an interval, which starts at the position   *)
(* or at the first message there is.                                       *)
LEMMA BatchFacts ==
    ASSUME PositionTypes, NEW p \in Partitions, NEW o \in Nat, NEW n \in Nat,
           NEW B, B = ReadOffsets(p, o, n)
    PROVE  /\ Max2(o, first[p]) \in Nat
           /\ \E stop : IsBatch(B, Max2(o, first[p]), stop, n)
<1>1. first[p] \in Nat /\ end[p] \in Nat
  BY DEF PositionTypes
<1>2. PICK a, b : a = Max2(o, first[p]) /\ b = Smaller(a + n, end[p])
  OBVIOUS
<1>3. a \in Nat /\ b \in Int /\ b <= a + n
  BY <1>1, <1>2 DEF Max2, Smaller
<1>4. B = a .. b - 1
  BY <1>2 DEF ReadOffsets
<1>5. Cardinality(B) = IF a > b - 1 THEN 0 ELSE (b - 1) - a + 1
  <2>1. a \in Int /\ b - 1 \in Int
    BY <1>3
  <2> QED BY ONLY <1>4, <2>1, FS_Interval
<1>6. Cardinality(B) \in 0 .. n
  BY <1>3, <1>5
<1>7. ASSUME B # {}
      PROVE  Max(B) = b - 1 /\ Min(B) = a /\ a < b
  <2>1. a <= b - 1 /\ a \in B /\ b - 1 \in B /\ \A x \in B : x \in Int /\ a <= x /\ x <= b - 1
    BY <1>3, <1>4, <1>7
  <2>2. PICK u, v : u = Max(B) /\ v = Min(B)
    OBVIOUS
  <2>3. u \in B /\ \A y \in B : u >= y
    <3>1. \E x \in B : \A y \in B : x >= y
      BY <1>3, <2>1
    <3> QED BY <2>2, <3>1 DEF Max
  <2>4. v \in B /\ \A y \in B : v <= y
    <3>1. \E x \in B : \A y \in B : x <= y
      BY <1>3, <2>1
    <3> QED BY <2>2, <3>1 DEF Min
  <2>5. u >= b - 1 /\ u <= b - 1 /\ u \in Int /\ v <= a /\ a <= v /\ v \in Int
    BY <2>1, <2>3, <2>4
  <2>6. u = b - 1 /\ v = a /\ a < b
    BY ONLY <1>3, <2>1, <2>5
  <2> QED BY <2>2, <2>6
<1>8. IsBatch(B, a, b, n)
  BY <1>3, <1>4, <1>6, <1>7 DEF IsBatch
<1> QED BY <1>2, <1>3, <1>8

(* f is the function that ReadBefore computes, for the first n partitions. *)
ReadBy(f, c, limit, n) ==
    f = [j \in 0 .. n |-> IF j = 0 THEN 0
                          ELSE f[j - 1] + Cardinality(Batch(c, assigned[c][j], limit))]

(* There is such a function.                                               *)
LEMMA ReadByExists ==
    ASSUME NEW c, NEW limit, NEW n \in Nat
    PROVE  \E f : ReadBy(f, c, limit, n)
<1> DEFINE Size(j) == Cardinality(Batch(c, assigned[c][j], limit))
           G == {k \in Nat : \E f : ReadBy(f, c, limit, k)}
<1>1. 0 \in G
  <2> DEFINE f == [j \in 0 .. 0 |-> 0]
  <2>1. ReadBy(f, c, limit, 0)
    BY DEF ReadBy
  <2> QED BY <2>1
<1>2. ASSUME NEW k \in Nat, k \in G
      PROVE  k + 1 \in G
  <2>1. PICK g : ReadBy(g, c, limit, k)
    BY <1>2
  <2> DEFINE e == g[k] + Size(k + 1)
             f == [j \in 0 .. k + 1 |-> IF j = k + 1 THEN e ELSE g[j]]
  <2>2. \A j \in 0 .. k : g[j] = IF j = 0 THEN 0 ELSE g[j - 1] + Size(j)
    BY <2>1 DEF ReadBy
  <2> HIDE DEF Size
  <2>3. ASSUME NEW j \in 0 .. k + 1
        PROVE  f[j] = IF j = 0 THEN 0 ELSE f[j - 1] + Size(j)
    <3>1. CASE j = k + 1
      <4>1. j # 0 /\ j - 1 = k /\ k \in 0 .. k + 1 /\ k # k + 1
        BY <3>1
      <4>2. f[j] = e /\ f[j - 1] = g[k]
        BY <3>1, <4>1
      <4> HIDE DEF f
      <4> QED BY <3>1, <4>1, <4>2
    <3>2. CASE j # k + 1
      <4>1. j \in 0 .. k /\ (j # 0 => j - 1 \in 0 .. k + 1 /\ j - 1 # k + 1)
        BY <3>2
      <4>2. f[j] = g[j] /\ (j # 0 => f[j - 1] = g[j - 1])
        BY <3>2, <4>1
      <4> HIDE DEF f
      <4> QED BY <2>2, <4>1, <4>2
    <3> QED BY <3>1, <3>2
  <2>4. f = [j \in 0 .. k + 1 |-> f[j]]
    OBVIOUS
  <2> HIDE DEF f
  <2>5. ReadBy(f, c, limit, k + 1)
    BY <2>3, <2>4 DEF ReadBy, Size
  <2> QED BY <2>5
<1> HIDE DEF G
<1>3. n \in G
  BY <1>1, <1>2, AllNumbers
<1> QED BY <1>3 DEF G

(* If no batch has more than n messages, those of the first i - 1          *)
(* partitions have no more than i - 1 times as many.                       *)
LEMMA ReadBeforeBound ==
    ASSUME NEW c, NEW limit, NEW n \in Nat, NEW k \in Nat, NEW i \in 1 .. k,
           \A j \in 1 .. k : Cardinality(Batch(c, assigned[c][j], limit)) \in 0 .. n
    PROVE  ReadBefore(c, i, limit) \in 0 .. (i - 1) * n
<1> DEFINE m == i - 1
           Size(j) == Cardinality(Batch(c, assigned[c][j], limit))
           g == CHOOSE read : ReadBy(read, c, limit, m)
<1>1. m \in Nat /\ m < k
  OBVIOUS
<1>2. ReadBefore(c, i, limit) = g[m]
  BY DEF ReadBefore, ReadBy
<1>3. ReadBy(g, c, limit, m)
  <2> HIDE DEF m
  <2> QED BY <1>1, ReadByExists
<1> HIDE DEF g
<1>4. PICK f : ReadBy(f, c, limit, m) /\ ReadBefore(c, i, limit) = f[m]
  BY <1>2, <1>3
<1>5. \A j \in 0 .. m : f[j] = IF j = 0 THEN 0 ELSE f[j - 1] + Size(j)
  BY <1>4 DEF ReadBy
<1>6. \A j \in 1 .. k : Size(j) \in 0 .. n
  OBVIOUS
<1> HIDE DEF m, Size
<1> DEFINE G == {j \in Nat : j <= m => f[j] \in 0 .. j * n}
<1>7. 0 \in G
  <2>1. 0 \in 0 .. m /\ 0 * n = 0
    BY <1>1
  <2> QED BY <1>5, <2>1
<1>8. ASSUME NEW j \in Nat, j \in G PROVE j + 1 \in G
  <2> SUFFICES ASSUME j + 1 <= m PROVE f[j + 1] \in 0 .. (j + 1) * n
    OBVIOUS
  <2>1. j + 1 \in 0 .. m /\ j + 1 # 0 /\ (j + 1) - 1 = j /\ j <= m /\ j + 1 \in 1 .. k
    BY <1>1
  <2>2. f[j] \in 0 .. j * n /\ f[j + 1] = f[j] + Size(j + 1) /\ Size(j + 1) \in 0 .. n
    BY <1>5, <1>6, <1>8, <2>1
  <2>3. (j + 1) * n = j * n + n /\ j * n \in Nat
    BY ONLY j \in Nat, n \in Nat
  <2>4. PICK x, y, a, b, z : /\ x = j * n /\ y = (j + 1) * n /\ a = f[j] /\ b = Size(j + 1)
                             /\ z = f[j + 1]
    OBVIOUS
  <2>5. y = x + n /\ x \in Nat /\ a \in 0 .. x /\ b \in 0 .. n /\ z = a + b
    BY <2>2, <2>3, <2>4
  <2>6. z \in 0 .. y
    BY ONLY <2>5, n \in Nat
  <2> QED BY <2>4, <2>6
<1>9. m \in G
  <2> HIDE DEF G
  <2> QED BY <1>1, <1>7, <1>8, AllNumbers
<1> QED BY <1>1, <1>4, <1>9 DEF m

(* The room that poll has for each of k partitions.                        *)
LEMMA RoomOfEach ==
    ASSUME NEW limit \in Nat, NEW k \in Nat, k > 0, k <= limit,
           NEW n, n = Max2(1, limit \div k)
    PROVE  n \in Nat /\ n >= 1 /\ k * n <= limit
<1>1. PICK q, r : q = limit \div k /\ r = limit % k
  OBVIOUS
<1>2. q \in Nat /\ r \in 0 .. k - 1 /\ limit = (k * q) + r
  BY <1>1, DivMod
<1>3. q # 0
  <2> SUFFICES ASSUME q = 0 PROVE FALSE
    OBVIOUS
  <2>1. k * q = 0
    BY <1>2
  <2> QED BY ONLY <1>2, <2>1, k \in Nat, k <= limit, limit \in Nat
<1>4. n = q
  BY <1>1, <1>2, <1>3 DEF Max2
<1>5. PICK z : z = k * q
  OBVIOUS
<1>6. z \in Int /\ limit = z + r
  BY <1>2, <1>5
<1>7. z <= limit
  BY ONLY <1>2, <1>6, k \in Nat
<1> QED BY <1>2, <1>3, <1>4, <1>5, <1>7

(* What poll reads of a partition it returns.                              *)
LEMMA PollReturns ==
    ASSUME EnoughRoom, PositionTypes, NEW c \in Consumers, NEW limit \in Limits,
           assigned[c] \in Seq(Partitions), assigned[c] # <<>>, Short(assigned[c]),
           NEW p \in Range(assigned[c])
    PROVE  /\ p \in Partitions
           /\ PositionOf(c, p) \in Nat /\ Max2(PositionOf(c, p), first[p]) \in Nat
           /\ \E stop, n : IsBatch(Batch(c, p, limit), Max2(PositionOf(c, p), first[p]), stop, n)
           /\ Batch(c, p, limit) \subseteq PollResult(c, p, limit)
<1>1. PICK s, k, n : s = assigned[c] /\ k = Len(s) /\ n = Max2(1, limit \div k)
  OBVIOUS
<1>2. /\ k \in Nat /\ k > 0 /\ DOMAIN s = 1 .. k /\ s \in Seq(Partitions)
      /\ \A j \in 1 .. k : s[j] \in Partitions
  BY <1>1, LenProperties, EmptySeq, ElementOfSeq
<1>3. limit \in Nat
  BY GroupAssumption
<1>4. k <= limit
  <2>1. k <= Cardinality(Partitions) /\ Cardinality(Partitions) <= limit
    BY <1>1 DEF Short, EnoughRoom
  <2>2. Cardinality(Partitions) \in Nat
    BY FS_CardinalityType DEF EnoughRoom
  <2> QED BY <1>2, <1>3, <2>1, <2>2
<1>5. n \in Nat /\ n >= 1 /\ k * n <= limit
  BY <1>1, <1>2, <1>3, <1>4, RoomOfEach
<1>6. ASSUME NEW q \in Partitions
      PROVE  /\ PositionOf(c, q) \in Nat /\ Max2(PositionOf(c, q), first[q]) \in Nat
             /\ \E stop : IsBatch(Batch(c, q, limit), Max2(PositionOf(c, q), first[q]), stop, n)
  <2>1. PICK o, B : o = PositionOf(c, q) /\ B = Batch(c, q, limit)
    OBVIOUS
  <2>2. o \in Nat
    BY <2>1 DEF PositionTypes, PositionOf
  <2>3. B = ReadOffsets(q, o, n)
    BY <1>1, <2>1 DEF Batch
  <2>4. Max2(o, first[q]) \in Nat /\ \E stop : IsBatch(B, Max2(o, first[q]), stop, n)
    BY <1>5, <2>2, <2>3, BatchFacts
  <2> QED BY <2>1, <2>2, <2>4
<1>7. PICK i \in 1 .. k : s[i] = p
  BY <1>1, <1>2 DEF Range
<1>8. p \in Partitions
  BY <1>2, <1>7
<1>9. ReadBefore(c, i, limit) \in 0 .. (i - 1) * n
  <2>1. \A j \in 1 .. k : Cardinality(Batch(c, assigned[c][j], limit)) \in 0 .. n
    BY <1>1, <1>2, <1>6 DEF IsBatch
  <2> QED BY <1>2, <1>5, <2>1, ReadBeforeBound
<1>10. PICK a, z, B : /\ a = Max2(PositionOf(c, p), first[p]) /\ B = Batch(c, p, limit)
                      /\ IsBatch(B, a, z, n)
  BY <1>6, <1>8
<1>11. ASSUME NEW o \in B
       PROVE  ReadBefore(c, i, limit) + o - Min(B) < limit
  <2>1. /\ a \in Nat /\ z \in Int /\ z <= a + n /\ o \in a .. z - 1 /\ Min(B) = a
    BY <1>10 DEF IsBatch
  <2>2. PICK x, y, u, v : /\ x = (i - 1) * n /\ y = k * n /\ u = (k - i) * n
                          /\ v = ReadBefore(c, i, limit)
    OBVIOUS
  <2>3. k * n = (i - 1) * n + n + (k - i) * n /\ (i - 1) * n \in Nat /\ (k - i) * n \in Nat
    <3>1. PICK d, e : d = i - 1 /\ e = k - i
      OBVIOUS
    <3>2. d \in Nat /\ e \in Nat /\ k = d + 1 + e
      BY <1>2, <3>1
    <3>3. k * n = d * n + n + e * n /\ d * n \in Nat /\ e * n \in Nat
      BY ONLY <1>5, <3>2
    <3> QED BY <3>1, <3>3
  <2>4. y = x + n + u /\ x \in Nat /\ u \in Nat /\ v \in 0 .. x /\ y <= limit
    BY <1>5, <1>9, <2>2, <2>3
  <2>5. v + o - a < limit
    BY ONLY <1>3, <1>5, <2>1, <2>4
  <2> QED BY <2>1, <2>2, <2>5
<1>12. i \in {j \in DOMAIN assigned[c] : assigned[c][j] = p}
  BY <1>1, <1>2, <1>7
<1>13. B \subseteq PollResult(c, p, limit)
  BY <1>10, <1>11, <1>12 DEF PollResult
<1> QED BY <1>6, <1>8, <1>10, <1>13

-----------------------------------------------------------------------------
(* The inductive invariant.  Positions and committed offsets only pass     *)
(* what was returned or passed over as long as the lists that consumers    *)
(* have or are about to get are short, and what the retention has removed  *)
(* counts as passed over.                                                  *)
GroupLists ==
    /\ members \in Seq(Consumers)
    /\ subscribed \in Seq(Topics) /\ IsInjective(subscribed)
    /\ todo \in Seq(Steps)
    /\ \A i \in 1 .. Len(todo) : Short(todo[i].ps)
HeldLists ==
    /\ assigned \in [Consumers -> Seq(Partitions)]
    /\ \A c \in Consumers : Short(assigned[c])
Removed == \A p \in Partitions : 0 .. first[p] - 1 \subseteq passed[p]

SkipInv == GroupLists /\ HeldLists /\ PositionTypes /\ Removed /\ NoSilentSkip

(* A method of the group changes the lists only.                           *)
LEMMA RebalanceSkips ==
    ASSUME EnoughRoom, SkipInv, NEW before \in Seq(Steps), NEW ms \in Seq(Consumers),
           NEW topics \in Seq(Topics), IsInjective(topics),
           Rebalance(before, ms, topics),
           \A k \in 1 .. Len(before) : before[k].ps = <<>>
    PROVE  SkipInv'
<1>1. PICK L, ps, n, b : /\ L = before \o RebalanceSteps(ms, topics) /\ ps = AllPartitions(topics)
                         /\ n = Len(ms) /\ b = Len(before)
  OBVIOUS
<1>2. /\ members' = ms /\ subscribed' = topics /\ todo' = L
      /\ assigned' = assigned /\ position' = position
      /\ committed' = committed /\ first' = first /\ end' = end
      /\ returned' = returned /\ passed' = passed
  BY <1>1 DEF Rebalance, consumerVars, logVars, ghostVars
<1>3. L \in Seq(Steps) /\ Listed(L, before, ms, ps, b, n)
  <2>1. /\ before \o RebalanceSteps(ms, topics) \in Seq(Steps)
        /\ Listed(before \o RebalanceSteps(ms, topics), before, ms, AllPartitions(topics),
                  Len(before), Len(ms))
    BY RebalanceList
  <2> QED BY <1>1, <2>1
<1>4. n \in Nat /\ b \in Nat
  BY <1>1, LenProperties
<1>5. Short(<<>>)
  <2>1. Cardinality(Partitions) \in Nat
    BY FS_CardinalityType DEF EnoughRoom
  <2> QED BY <2>1 DEF Short
<1>6. \A i \in 1 .. n : Short(Share(i, n, ps))
  <2>1. ASSUME NEW i \in 1 .. n PROVE Short(Share(i, n, AllPartitions(topics)))
    <3>1. n > 0
      BY <1>4
    <3> QED BY <1>4, <3>1, AssignedShort
  <2> QED BY <1>1, <2>1
<1>7. ASSUME NEW j \in 1 .. Len(L) PROVE Short(L[j].ps)
  <2>1. Len(L) = b + n + (IF ps = <<>> THEN 0 ELSE n)
    BY <1>3 DEF Listed
  <2>2. CASE j \in 1 .. b
    <3>1. L[j] = before[j] /\ before[j].ps = <<>>
      BY <1>1, <1>3, <2>2 DEF Listed
    <3> QED BY <1>5, <3>1
  <2>3. CASE j - b \in 1 .. n
    <3>1. b + (j - b) = j
      BY <1>4
    <3>2. L[b + (j - b)].ps = <<>>
      BY <1>3, <2>3 DEF Listed
    <3> QED BY <1>5, <3>1, <3>2
  <2>4. CASE ps # <<>> /\ (j - b) - n \in 1 .. n
    <3>1. b + n + ((j - b) - n) = j
      BY <1>4
    <3>2. L[b + n + ((j - b) - n)].ps = Share((j - b) - n, n, ps)
      BY <1>3, <2>4 DEF Listed
    <3> QED BY <1>6, <2>4, <3>1, <3>2
  <2> QED BY <1>4, <2>1, <2>2, <2>3, <2>4
<1>8. GroupLists'
  BY <1>2, <1>3, <1>7 DEF GroupLists
<1>9. HeldLists' /\ PositionTypes' /\ Removed' /\ NoSilentSkip'
  BY <1>2 DEF SkipInv, HeldLists, PositionTypes, Removed, NoSilentSkip, Short
<1> QED BY <1>8, <1>9 DEF SkipInv

(* A step of a rebalance gives a consumer a short list, and a position in  *)
(* a new partition only where the group has committed it.                  *)
LEMMA StepSkips ==
    ASSUME EnoughRoom, SkipInv, RebalanceStep
    PROVE  SkipInv'
<1>1. PICK s : s = Head(todo)
  OBVIOUS
<1>2. /\ todo # <<>> /\ todo' = Tail(todo)
      /\ assigned' = [assigned EXCEPT ![s.c] = s.ps]
      /\ position' = [position EXCEPT ![s.c] = AssignedPositions(s.c, s.ps)]
      /\ members' = members /\ subscribed' = subscribed
      /\ committed' = committed /\ first' = first /\ end' = end
      /\ returned' = returned /\ passed' = passed
  BY <1>1 DEF RebalanceStep, logVars, ghostVars
<1>3. /\ todo \in Seq(Steps) /\ Len(todo) \in Nat /\ Len(todo) # 0 /\ s = todo[1]
      /\ \A i \in 1 .. Len(todo) : Short(todo[i].ps)
  BY <1>1, <1>2, LenProperties, EmptySeq DEF SkipInv, GroupLists
<1>4. s \in Steps /\ s.c \in Consumers /\ s.ps \in Seq(Partitions) /\ Short(s.ps)
  <2>1. 1 \in 1 .. Len(todo)
    BY <1>3
  <2>2. s \in Steps /\ Short(s.ps)
    BY <1>3, <2>1, ElementOfSeq
  <2> QED BY <2>2 DEF Steps
<1>5. GroupLists'
  <2>1. /\ Tail(todo) \in Seq(Steps) /\ Len(Tail(todo)) = Len(todo) - 1
        /\ \A i \in 1 .. Len(todo) - 1 : Tail(todo)[i] = todo[i + 1]
    BY <1>2, <1>3, HeadTailProperties
  <2>2. ASSUME NEW i \in 1 .. Len(Tail(todo)) PROVE Short(Tail(todo)[i].ps)
    <3>1. i \in 1 .. Len(todo) - 1 /\ i + 1 \in 1 .. Len(todo)
      BY <1>3, <2>1
    <3> QED BY <1>3, <2>1, <3>1
  <2> QED BY <1>2, <2>1, <2>2 DEF SkipInv, GroupLists, Short
<1>6. HeldLists'
  <2>1. assigned \in [Consumers -> Seq(Partitions)] /\ \A c \in Consumers : Short(assigned[c])
    BY DEF SkipInv, HeldLists
  <2>2. \A c \in Consumers : assigned'[c] = IF c = s.c THEN s.ps ELSE assigned[c]
    BY <1>2, <2>1
  <2>3. assigned' \in [Consumers -> Seq(Partitions)]
    BY <1>2, <1>4, <2>1
  <2> QED BY <1>4, <2>1, <2>2, <2>3 DEF HeldLists, Short
<1> DEFINE pos == AssignedPositions(s.c, s.ps)
<1>7. PositionTypes
  BY DEF SkipInv
<1>8. \A p \in Partitions : pos[p] = committed[p] \/ pos[p] = position[s.c][p]
  BY DEF AssignedPositions
<1>9. pos \in [Partitions -> Nat \cup {-1}]
  BY <1>4, <1>7 DEF PositionTypes, AssignedPositions
<1> HIDE DEF pos
<1>10. PositionTypes'
  <2>1. position' \in [Consumers -> [Partitions -> Nat \cup {-1}]]
    BY <1>2, <1>7, <1>9 DEF PositionTypes, pos
  <2> QED BY <1>2, <1>7, <2>1 DEF PositionTypes
<1>11. NoSilentSkip'
  <2>1. \A p \in Partitions :
           /\ 0 .. committed[p] - 1 \subseteq returned[p] \cup passed[p]
           /\ \A c \in Consumers : 0 .. position[c][p] - 1 \subseteq returned[p] \cup passed[p]
    BY DEF SkipInv, NoSilentSkip
  <2>2. \A c \in Consumers : position'[c] = IF c = s.c THEN pos ELSE position[c]
    BY <1>2, <1>7 DEF PositionTypes, pos
  <2>3. ASSUME NEW p \in Partitions, NEW c \in Consumers
        PROVE  0 .. position'[c][p] - 1 \subseteq returned[p] \cup passed[p]
    <3>1. position'[c][p] = committed[p] \/ \E d \in Consumers : position'[c][p] = position[d][p]
      BY <1>4, <1>8, <2>2
    <3> QED BY <2>1, <3>1
  <2> QED BY <1>2, <2>1, <2>3 DEF NoSilentSkip
<1>12. Removed'
  BY <1>2 DEF SkipInv, Removed
<1> QED BY <1>5, <1>6, <1>10, <1>11, <1>12 DEF SkipInv

(* What holds of the positions holds of what is committed for them.        *)
LEMMA CommittedPasses ==
    ASSUME PositionTypes, NEW c, NEW pos, pos \in [Partitions -> Nat \cup {-1}],
           NEW R, NoSilentSkip,
           \A p \in Partitions : returned[p] \cup passed[p] \subseteq R[p],
           \A p \in Partitions : 0 .. pos[p] - 1 \subseteq R[p]
    PROVE  /\ Committed(c, pos) \in [Partitions -> Nat]
           /\ \A p \in Partitions : 0 .. Committed(c, pos)[p] - 1 \subseteq R[p]
<1>1. \A p \in Partitions : pos[p] \in Nat \cup {-1} /\ committed[p] \in Nat
  BY DEF PositionTypes
<1>2. Committed(c, pos) \in [Partitions -> Nat]
  BY <1>1 DEF Committed
<1>3. ASSUME NEW p \in Partitions
      PROVE  0 .. Committed(c, pos)[p] - 1 \subseteq R[p]
  <2>1. \/ Committed(c, pos)[p] = committed[p]
        \/ Committed(c, pos)[p] = pos[p]
        \/ Committed(c, pos)[p] = 0
    BY DEF Committed
  <2>2. 0 .. committed[p] - 1 \subseteq R[p]
    BY DEF NoSilentSkip
  <2>3. 0 .. 0 - 1 \subseteq R[p]
    OBVIOUS
  <2> QED BY <2>1, <2>2, <2>3
<1> QED BY <1>2, <1>3

(* poll moves the positions behind what it returns.                        *)
LEMMA PollSkips ==
    ASSUME EnoughRoom, SkipInv, NEW c \in Consumers, NEW limit \in Limits,
           NEW a \in BOOLEAN, Poll(c, limit, a)
    PROVE  SkipInv'
<1>1. /\ members' = members /\ subscribed' = subscribed /\ todo' = todo
      /\ assigned' = assigned /\ first' = first /\ end' = end /\ passed' = passed
  BY DEF Poll, groupVars
<1>2. /\ PositionTypes /\ NoSilentSkip /\ Removed
      /\ assigned \in [Consumers -> Seq(Partitions)] /\ Short(assigned[c])
  BY DEF SkipInv, HeldLists
<1>3. GroupLists' /\ HeldLists' /\ Removed'
  BY <1>1 DEF SkipInv, GroupLists, HeldLists, Removed, Short
<1>4. CASE assigned[c] = <<>>
  <2>1. position' = position /\ returned' = returned /\ committed' = committed
    BY <1>4 DEF Poll
  <2>2. PositionTypes' /\ NoSilentSkip'
    BY <1>1, <1>2, <2>1 DEF PositionTypes, NoSilentSkip
  <2> QED BY <1>3, <2>2 DEF SkipInv
<1>5. CASE assigned[c] # <<>>
  <2> DEFINE pos == PolledPositions(c, limit)
             new == [p \in Partitions |-> returned[p] \cup PollResult(c, p, limit)]
             R == [p \in Partitions |-> new[p] \cup passed[p]]
  <2>1. /\ position' = [position EXCEPT ![c] = pos] /\ returned' = new
        /\ committed' = IF a THEN Committed(c, pos) ELSE committed
    BY <1>5 DEF Poll
  <2>2. /\ position \in [Consumers -> [Partitions -> Nat \cup {-1}]]
        /\ committed \in [Partitions -> Nat]
        /\ returned \in [Partitions -> SUBSET Int] /\ passed \in [Partitions -> SUBSET Int]
        /\ \A p \in Partitions : first[p] \in Nat
    BY <1>2 DEF PositionTypes
  <2>3. \A p \in Partitions : R[p] = returned[p] \cup PollResult(c, p, limit) \cup passed[p]
    OBVIOUS
  <2>4. ASSUME NEW p \in Partitions
        PROVE  pos[p] \in Nat \cup {-1} /\ 0 .. pos[p] - 1 \subseteq R[p]
    <3>1. CASE ~(p \in Range(assigned[c]) /\ Batch(c, p, limit) # {})
      <4>1. pos[p] = position[c][p]
        BY <3>1 DEF PolledPositions
      <4>2. 0 .. position[c][p] - 1 \subseteq returned[p] \cup passed[p]
        BY <1>2 DEF NoSilentSkip
      <4> HIDE DEF pos, R
      <4> QED BY <2>2, <2>3, <4>1, <4>2
    <3>2. CASE p \in Range(assigned[c]) /\ Batch(c, p, limit) # {}
      <4>1. PICK B, o, start : /\ B = Batch(c, p, limit) /\ o = PositionOf(c, p)
                               /\ start = Max2(o, first[p])
        OBVIOUS
      <4>2. /\ o \in Nat /\ start \in Nat /\ \E stop, n : IsBatch(B, start, stop, n)
            /\ B \subseteq PollResult(c, p, limit)
        BY <1>2, <1>5, <3>2, <4>1, PollReturns
      <4>3. PICK stop, n : IsBatch(B, start, stop, n)
        BY <4>2
      <4>4. pos[p] = Max(B) + 1
        BY <3>2, <4>1 DEF PolledPositions
      <4>5. Max(B) = stop - 1 /\ start < stop /\ B = start .. stop - 1 /\ stop \in Int
        BY <3>2, <4>1, <4>3 DEF IsBatch
      <4>6. pos[p] = stop /\ stop \in Nat
        BY <4>2, <4>4, <4>5
      <4>7. 0 .. o - 1 \subseteq returned[p] \cup passed[p]
        <5>1. o = position[c][p] \/ o = 0
          BY <4>1 DEF PositionOf
        <5>2. 0 .. position[c][p] - 1 \subseteq returned[p] \cup passed[p]
          BY <1>2 DEF NoSilentSkip
        <5>3. 0 .. 0 - 1 = {}
          OBVIOUS
        <5> QED BY <5>1, <5>2, <5>3
      <4>8. 0 .. first[p] - 1 \subseteq passed[p]
        BY <1>2 DEF Removed
      <4>9. start = o \/ start = first[p]
        BY <4>1 DEF Max2
      <4>10. 0 .. start - 1 \subseteq returned[p] \cup passed[p]
        BY <4>7, <4>8, <4>9
      <4>11. 0 .. stop - 1 \subseteq (0 .. start - 1) \cup B
        BY <4>2, <4>5
      <4> HIDE DEF pos, R
      <4>12. 0 .. stop - 1 \subseteq R[p]
        BY <2>3, <4>2, <4>10, <4>11
      <4> QED BY <4>6, <4>12
    <3> QED BY <3>1, <3>2
  <2>5. pos \in [Partitions -> Nat \cup {-1}]
    <3>1. pos = [p \in Partitions |-> pos[p]]
      BY DEF PolledPositions
    <3> HIDE DEF pos, R
    <3> QED BY <2>4, <3>1
  <2>6. \A p \in Partitions : returned[p] \cup passed[p] \subseteq R[p]
    OBVIOUS
  <2>7. new \in [Partitions -> SUBSET Int]
    <3>1. ASSUME NEW p \in Partitions PROVE PollResult(c, p, limit) \subseteq Int
      <4>1. Batch(c, p, limit) \subseteq Int
        BY DEF Batch, ReadOffsets
      <4> QED BY <4>1 DEF PollResult
    <3> QED BY <2>2, <3>1
  <2>8. \A p \in Partitions : R[p] = returned'[p] \cup passed'[p]
    BY <1>1, <2>1
  <2> HIDE DEF pos, new, R
  <2>9. /\ Committed(c, pos) \in [Partitions -> Nat]
        /\ \A p \in Partitions : 0 .. Committed(c, pos)[p] - 1 \subseteq R[p]
    BY <1>2, <2>4, <2>5, <2>6, CommittedPasses
  <2>10. PositionTypes'
    BY <1>1, <1>2, <2>1, <2>2, <2>5, <2>7, <2>9 DEF PositionTypes
  <2>11. ASSUME NEW p \in Partitions
         PROVE  /\ 0 .. committed'[p] - 1 \subseteq R[p]
                /\ \A d \in Consumers : 0 .. position'[d][p] - 1 \subseteq R[p]
    <3>1. /\ 0 .. committed[p] - 1 \subseteq R[p]
          /\ \A d \in Consumers : 0 .. position[d][p] - 1 \subseteq R[p]
      BY <1>2, <2>6 DEF NoSilentSkip
    <3>2. \A d \in Consumers : position'[d] = IF d = c THEN pos ELSE position[d]
      BY <2>1, <2>2
    <3>3. \A d \in Consumers : position'[d][p] = pos[p] \/ position'[d][p] = position[d][p]
      BY <3>2
    <3>4. committed'[p] = Committed(c, pos)[p] \/ committed'[p] = committed[p]
      BY <2>1
    <3> QED BY <2>4, <2>9, <3>1, <3>3, <3>4
  <2>12. NoSilentSkip'
    BY <2>8, <2>11 DEF NoSilentSkip
  <2> QED BY <1>3, <2>10, <2>12 DEF SkipInv
<1> QED BY <1>4, <1>5

(* Commits and closes commit positions, which is where the group goes on.  *)
LEMMA CommitSkips ==
    ASSUME SkipInv, NEW c \in Consumers, Commit(c) \/ Close(c)
    PROVE  SkipInv'
<1>1. /\ members' = members /\ subscribed' = subscribed /\ todo' = todo
      /\ assigned' = assigned /\ position' = position /\ first' = first /\ end' = end
      /\ returned' = returned /\ passed' = passed /\ committed' = Committed(c, position[c])
  BY DEF Commit, Close, groupVars, consumerVars, ghostVars
<1>2. PositionTypes /\ NoSilentSkip
  BY DEF SkipInv
<1>3. GroupLists' /\ HeldLists' /\ Removed'
  BY <1>1 DEF SkipInv, GroupLists, HeldLists, Removed, Short
<1>4. PICK pos, R : /\ pos = position[c]
                    /\ R = [p \in Partitions |-> returned[p] \cup passed[p]]
  OBVIOUS
<1>5. /\ pos \in [Partitions -> Nat \cup {-1}]
      /\ \A p \in Partitions : R[p] = returned[p] \cup passed[p] /\ 0 .. pos[p] - 1 \subseteq R[p]
  BY <1>2, <1>4 DEF PositionTypes, NoSilentSkip
<1>6. /\ Committed(c, pos) \in [Partitions -> Nat]
      /\ \A p \in Partitions : 0 .. Committed(c, pos)[p] - 1 \subseteq R[p]
  BY <1>2, <1>5, CommittedPasses
<1>7. PositionTypes'
  BY <1>1, <1>2, <1>4, <1>6 DEF PositionTypes
<1>8. NoSilentSkip'
  BY <1>1, <1>2, <1>4, <1>5, <1>6 DEF NoSilentSkip
<1> QED BY <1>3, <1>7, <1>8 DEF SkipInv

(* A seek passes over whatever is before the offset it goes to.            *)
LEMMA SeekSkips ==
    ASSUME SkipInv, NEW c \in Consumers, NEW to, SeekTo(c, to),
           \A p \in DOMAIN to : p \in Partitions /\ to[p] \in Nat
    PROVE  SkipInv'
<1>1. /\ members' = members /\ subscribed' = subscribed /\ todo' = todo
      /\ assigned' = assigned /\ committed' = committed /\ first' = first /\ end' = end
      /\ returned' = returned
      /\ passed' = [p \in Partitions |->
             IF p \in DOMAIN to THEN passed[p] \cup 0 .. to[p] - 1 ELSE passed[p]]
      /\ position' = [position EXCEPT ![c] =
             [p \in Partitions |-> IF p \in DOMAIN to THEN to[p] ELSE @[p]]]
  BY DEF SeekTo, groupVars, logVars
<1>2. PositionTypes /\ NoSilentSkip /\ Removed
  BY DEF SkipInv
<1>3. /\ position \in [Consumers -> [Partitions -> Nat \cup {-1}]]
      /\ passed \in [Partitions -> SUBSET Int]
  BY <1>2 DEF PositionTypes
<1>4. GroupLists' /\ HeldLists'
  BY <1>1 DEF SkipInv, GroupLists, HeldLists, Short
<1>5. \A p \in Partitions : passed[p] \subseteq passed'[p]
  BY <1>1
<1>6. Removed'
  BY <1>1, <1>2, <1>5 DEF Removed
<1>7. \A p \in Partitions :
         p \in DOMAIN to => position'[c][p] = to[p] /\ 0 .. to[p] - 1 \subseteq passed'[p]
  BY <1>1, <1>3
<1>8. \A d \in Consumers, p \in Partitions :
         d # c \/ p \notin DOMAIN to => position'[d][p] = position[d][p]
  BY <1>1, <1>3
<1>9. PositionTypes'
  <2>1. passed' \in [Partitions -> SUBSET Int]
    <3>1. ASSUME NEW p \in Partitions PROVE passed'[p] \subseteq Int
      BY <1>1, <1>3
    <3>2. passed' = [p \in Partitions |-> passed'[p]]
      BY <1>1
    <3> QED BY <3>1, <3>2
  <2>2. position' \in [Consumers -> [Partitions -> Nat \cup {-1}]]
    <3> DEFINE pos == [p \in Partitions |-> IF p \in DOMAIN to THEN to[p] ELSE position[c][p]]
    <3>1. pos \in [Partitions -> Nat \cup {-1}]
      BY <1>3
    <3>2. position' = [position EXCEPT ![c] = pos]
      BY <1>1, <1>3
    <3> HIDE DEF pos
    <3> QED BY <1>3, <3>1, <3>2
  <2> QED BY <1>1, <1>2, <2>1, <2>2 DEF PositionTypes
<1>10. ASSUME NEW p \in Partitions
       PROVE  /\ 0 .. committed'[p] - 1 \subseteq returned'[p] \cup passed'[p]
              /\ \A d \in Consumers : 0 .. position'[d][p] - 1 \subseteq returned'[p] \cup passed'[p]
  <2>1. /\ 0 .. committed[p] - 1 \subseteq returned[p] \cup passed[p]
        /\ \A d \in Consumers : 0 .. position[d][p] - 1 \subseteq returned[p] \cup passed[p]
    BY <1>2 DEF NoSilentSkip
  <2>2. returned[p] \cup passed[p] \subseteq returned'[p] \cup passed'[p]
    BY <1>1, <1>5
  <2>3. ASSUME NEW d \in Consumers
        PROVE  0 .. position'[d][p] - 1 \subseteq returned'[p] \cup passed'[p]
    <3>1. CASE d = c /\ p \in DOMAIN to
      BY <1>7, <3>1
    <3>2. CASE ~(d = c /\ p \in DOMAIN to)
      <4>1. position'[d][p] = position[d][p]
        BY <1>8, <3>2
      <4> QED BY <2>1, <2>2, <4>1
    <3> QED BY <3>1, <3>2
  <2> QED BY <1>1, <2>1, <2>2, <2>3
<1>11. NoSilentSkip'
  BY <1>10 DEF NoSilentSkip
<1> QED BY <1>4, <1>6, <1>9, <1>11 DEF SkipInv

(* So does each of the three ways of seeking.                              *)
LEMMA SeeksSkip ==
    ASSUME SkipInv, NEW c \in Consumers, SeekNext(c)
    PROVE  SkipInv'
<1>1. /\ \A p \in Partitions : first[p] \in Nat /\ end[p] \in Nat
      /\ Range(assigned[c]) \subseteq Partitions
  <2>1. assigned[c] \in Seq(Partitions)
    BY DEF SkipInv, HeldLists
  <2>2. DOMAIN assigned[c] = 1 .. Len(assigned[c])
    BY <2>1, LenProperties
  <2>3. \A i \in 1 .. Len(assigned[c]) : assigned[c][i] \in Partitions
    BY <2>1, ElementOfSeq
  <2> QED BY <2>2, <2>3 DEF SkipInv, PositionTypes, Range
<1>2. ASSUME NEW p \in Partitions, NEW o \in Offsets, Seek(c, p, o)
      PROVE  SkipInv'
  <2>1. PICK to : to = [x \in {p} |-> o]
    OBVIOUS
  <2>2. SeekTo(c, to) /\ \A q \in DOMAIN to : q \in Partitions /\ to[q] \in Nat
    BY <1>2, <2>1 DEF Seek, Offsets
  <2> QED BY <2>2, SeekSkips
<1>3. CASE SeekToBeginning(c)
  <2>1. PICK to : to = [p \in Range(assigned[c]) |-> first[p]]
    OBVIOUS
  <2>2. SeekTo(c, to) /\ \A q \in DOMAIN to : q \in Partitions /\ to[q] \in Nat
    BY <1>1, <1>3, <2>1 DEF SeekToBeginning
  <2> QED BY <2>2, SeekSkips
<1>4. CASE SeekToEnd(c)
  <2>1. PICK to : to = [p \in Range(assigned[c]) |-> end[p]]
    OBVIOUS
  <2>2. SeekTo(c, to) /\ \A q \in DOMAIN to : q \in Partitions /\ to[q] \in Nat
    BY <1>1, <1>4, <2>1 DEF SeekToEnd
  <2> QED BY <2>2, SeekSkips
<1> QED BY <1>2, <1>3, <1>4 DEF SeekNext

(* A publish only adds a message; one that expires is passed over.         *)
LEMMA PartitionSkips ==
    ASSUME SkipInv, NEW p \in Partitions, Publish(p) \/ Expire(p)
    PROVE  SkipInv'
<1>1. PositionTypes /\ NoSilentSkip /\ Removed
  BY DEF SkipInv
<1>2. /\ members' = members /\ subscribed' = subscribed /\ todo' = todo
      /\ assigned' = assigned /\ position' = position /\ committed' = committed
      /\ returned' = returned
  BY DEF Publish, Expire, groupVars, consumerVars, ghostVars
<1>3. GroupLists' /\ HeldLists'
  BY <1>2 DEF SkipInv, GroupLists, HeldLists, Short
<1>4. CASE Publish(p)
  <2>1. first' = first /\ passed' = passed /\ end' = [end EXCEPT ![p] = @ + 1]
    BY <1>4 DEF Publish, ghostVars
  <2>2. PositionTypes' /\ Removed' /\ NoSilentSkip'
    BY <1>1, <1>2, <2>1 DEF PositionTypes, Removed, NoSilentSkip
  <2> QED BY <1>3, <2>2 DEF SkipInv
<1>5. CASE Expire(p)
  <2>1. /\ end' = end /\ first' = [first EXCEPT ![p] = first[p] + 1]
        /\ passed' = [passed EXCEPT ![p] = passed[p] \cup {first[p]}]
    BY <1>5 DEF Expire
  <2>2. first \in [Partitions -> Nat] /\ passed \in [Partitions -> SUBSET Int]
    BY <1>1 DEF PositionTypes
  <2>3. first' \in [Partitions -> Nat] /\ passed' \in [Partitions -> SUBSET Int]
    <3>1. first[p] + 1 \in Nat /\ passed[p] \cup {first[p]} \subseteq Int
      BY <2>2
    <3> QED BY <2>1, <2>2, <3>1
  <2>4. PositionTypes'
    BY <1>1, <1>2, <2>1, <2>3 DEF PositionTypes
  <2>5. \A q \in Partitions : passed[q] \subseteq passed'[q]
    BY <2>1, <2>2
  <2>6. NoSilentSkip'
    BY <1>1, <1>2, <2>5 DEF NoSilentSkip
  <2>7. ASSUME NEW q \in Partitions PROVE 0 .. first'[q] - 1 \subseteq passed'[q]
    <3>1. 0 .. first[q] - 1 \subseteq passed[q]
      BY <1>1 DEF Removed
    <3>2. CASE q = p
      <4>1. first'[p] = first[p] + 1 /\ passed'[p] = passed[p] \cup {first[p]}
        BY <2>1, <2>2
      <4>2. \A o \in 0 .. (first[p] + 1) - 1 : o \in 0 .. first[p] - 1 \/ o = first[p]
        BY <2>2
      <4> QED BY <3>1, <3>2, <4>1, <4>2
    <3>3. CASE q # p
      <4>1. first'[q] = first[q]
        BY <2>1, <2>2, <3>3
      <4> QED BY <2>5, <3>1, <4>1
    <3> QED BY <3>2, <3>3
  <2>8. Removed'
    BY <2>7 DEF Removed
  <2> QED BY <1>3, <2>4, <2>6, <2>8 DEF SkipInv
<1> QED BY <1>4, <1>5

(* The methods of the group rebalance.                                     *)
LEMMA MethodsSkip ==
    ASSUME EnoughRoom, SkipInv, GroupNext
    PROVE  SkipInv'
<1>1. /\ members \in Seq(Consumers) /\ subscribed \in Seq(Topics) /\ IsInjective(subscribed)
  BY DEF SkipInv, GroupLists
<1>2. DOMAIN members = 1 .. Len(members) /\ \A i \in DOMAIN members : members[i] \in Consumers
  BY <1>1, LenProperties, ElementOfSeq
<1>3. ASSUME NEW ms \in Seq(Consumers), NEW ts \in Seq(Topics), IsInjective(ts),
             Rebalance(<<>>, ms, ts)
      PROVE  SkipInv'
  <2> DEFINE none == <<>>
  <2>1. /\ none \in Seq(Steps) /\ Rebalance(none, ms, ts)
        /\ \A k \in 1 .. Len(none) : none[k].ps = <<>>
    BY <1>3
  <2> HIDE DEF none
  <2> QED BY <1>3, <2>1, RebalanceSkips
<1>4. ASSUME NEW c \in Consumers, Join(c)
      PROVE  SkipInv'
  <2> DEFINE same == {i \in DOMAIN members : Id[members[i]] = Id[c]}
             ms == IF same = {} THEN Append(members, c)
                   ELSE [i \in DOMAIN members |-> IF i \in same THEN c ELSE members[i]]
  <2>1. Rebalance(<<>>, ms, subscribed)
    BY <1>4 DEF Join
  <2>2. ms \in Seq(Consumers)
    <3>1. CASE same = {}
      <4>1. ms = Append(members, c)
        BY <3>1
      <4> HIDE DEF ms
      <4> QED BY <1>1, <4>1, AppendProperties
    <3>2. CASE same # {}
      <4>1. ms = [i \in 1 .. Len(members) |-> IF i \in same THEN c ELSE members[i]]
        BY <1>2, <3>2
      <4>2. \A i \in 1 .. Len(members) : (IF i \in same THEN c ELSE members[i]) \in Consumers
        BY <1>2
      <4>3. Len(members) \in Nat
        BY <1>1, LenProperties
      <4> HIDE DEF ms, same
      <4> QED BY <4>1, <4>2, <4>3, IsASeq
    <3> QED BY <3>1, <3>2
  <2> HIDE DEF ms
  <2> QED BY <1>1, <1>3, <2>1, <2>2
<1>5. ASSUME NEW c \in Consumers, Leave(c)
      PROVE  SkipInv'
  <2> DEFINE ms == Keep(members, Consumers \ {c})
             before == <<Revoke(c)>>
  <2>1. Rebalance(before, ms, subscribed)
    BY <1>5 DEF Leave
  <2>2. ms \in Seq(Consumers)
    BY <1>1, KeepWorks
  <2>3. before \in Seq(Steps) /\ Len(before) = 1 /\ before[1].ps = <<>>
    BY DEF Revoke, Steps
  <2> HIDE DEF ms, before
  <2>4. \A k \in 1 .. Len(before) : before[k].ps = <<>>
    BY <2>3
  <2> QED BY <1>1, <2>1, <2>2, <2>3, <2>4, RebalanceSkips
<1>6. ASSUME NEW t \in Topics, Subscribe(t)
      PROVE  SkipInv'
  <2> DEFINE ts == IF t \in Range(subscribed) THEN subscribed ELSE Append(subscribed, t)
  <2>1. Rebalance(<<>>, members, ts)
    BY <1>6 DEF Subscribe
  <2>2. ts \in Seq(Topics) /\ IsInjective(ts)
    BY <1>1, Appended
  <2> HIDE DEF ts
  <2> QED BY <1>1, <1>3, <2>1, <2>2
<1>7. ASSUME NEW t \in Topics, Unsubscribe(t)
      PROVE  SkipInv'
  <2> DEFINE ts == Keep(subscribed, Topics \ {t})
  <2>1. Rebalance(<<>>, members, ts)
    BY <1>7 DEF Unsubscribe
  <2>2. ts \in Seq(Topics) /\ IsInjective(ts)
    BY <1>1, KeepWorks
  <2> HIDE DEF ts
  <2> QED BY <1>1, <1>3, <2>1, <2>2
<1>8. CASE RemoveDeadMembers
  <2> DEFINE ms == Keep(members, Alive)
             dead == Keep(members, Consumers \ Alive)
             before == [i \in DOMAIN dead |-> Revoke(dead[i])]
  <2>1. Rebalance(before, ms, subscribed)
    BY <1>8 DEF RemoveDeadMembers
  <2>2. ms \in Seq(Consumers) /\ dead \in Seq(Consumers)
    BY <1>1, KeepWorks
  <2> HIDE DEF ms, dead
  <2>3. /\ DOMAIN dead = 1 .. Len(dead) /\ Len(dead) \in Nat
        /\ \A i \in 1 .. Len(dead) : dead[i] \in Consumers
    BY <2>2, LenProperties, ElementOfSeq
  <2>4. \A i \in 1 .. Len(dead) : Revoke(dead[i]) \in Steps /\ Revoke(dead[i]).ps = <<>>
    BY <2>3 DEF Revoke, Steps
  <2>5. before = [i \in 1 .. Len(dead) |-> Revoke(dead[i])]
    BY <2>3
  <2> HIDE DEF before
  <2>6. before \in Seq(Steps)
    BY <2>3, <2>4, <2>5, IsASeq
  <2>7. Len(before) = Len(dead)
    BY <2>3, <2>5, <2>6, LenProperties
  <2>8. \A k \in 1 .. Len(before) : before[k].ps = <<>>
    BY <2>4, <2>5, <2>7
  <2> QED BY <1>1, <2>1, <2>2, <2>6, <2>8, RebalanceSkips
<1> QED BY <1>4, <1>5, <1>6, <1>7, <1>8, StepSkips DEF GroupNext

(* The invariant holds initially.                                          *)
LEMMA SkipInit ==
    ASSUME EnoughRoom, Init
    PROVE  SkipInv
<1>1. /\ members = <<>> /\ subscribed = <<>> /\ todo = <<>>
      /\ assigned = [c \in Consumers |-> <<>>]
      /\ position = [c \in Consumers |-> [p \in Partitions |-> -1]]
      /\ committed = [p \in Partitions |-> 0] /\ first = [p \in Partitions |-> 0]
      /\ end = [p \in Partitions |-> 0]
      /\ returned = [p \in Partitions |-> {}] /\ passed = [p \in Partitions |-> {}]
  BY DEF Init
<1>2. Short(<<>>)
  <2>1. Cardinality(Partitions) \in Nat
    BY FS_CardinalityType DEF EnoughRoom
  <2> QED BY <2>1 DEF Short
<1>3. IsInjective(<<>>)
  BY DEF IsInjective
<1>4. GroupLists
  BY <1>1, <1>3 DEF GroupLists
<1>5. HeldLists
  BY <1>1, <1>2 DEF HeldLists
<1>6. PositionTypes
  BY <1>1 DEF PositionTypes
<1>7. 0 .. 0 - 1 = {} /\ 0 .. -1 - 1 = {}
  OBVIOUS
<1>8. Removed /\ NoSilentSkip
  BY <1>1, <1>7 DEF Removed, NoSilentSkip
<1> QED BY <1>4, <1>5, <1>6, <1>8 DEF SkipInv

(* Every step keeps it.                                                    *)
LEMMA SkipStep ==
    ASSUME EnoughRoom, SkipInv, [Next]_vars
    PROVE  SkipInv'
<1>1. ASSUME NEW c \in Consumers, ConsumerNext(c)
      PROVE  SkipInv'
  <2>1. CASE SessionTimeout(c)
    BY <2>1 DEF SessionTimeout, groupVars, logVars, ghostVars, SkipInv, GroupLists, HeldLists,
                PositionTypes, Removed, NoSilentSkip, Short
  <2> QED BY <1>1, <2>1, PollSkips, CommitSkips DEF ConsumerNext
<1>2. CASE UNCHANGED vars
  BY <1>2 DEF vars, groupVars, consumerVars, logVars, ghostVars, SkipInv, GroupLists, HeldLists,
              PositionTypes, Removed, NoSilentSkip, Short
<1> QED BY <1>1, <1>2, MethodsSkip, SeeksSkip, PartitionSkips DEF Next

(* The committed offsets and the positions only pass what some poll has    *)
(* returned or what a seek or the retention has passed over (consumer.py   *)
(* 104-147), whoever joins, leaves or dies in between, if every poll may   *)
(* return as many messages as there are partitions: one that may not reads *)
(* at least one of each partition and drops those beyond its limit (127).  *)
THEOREM AtLeastOnce ==
    ASSUME EnoughRoom
    PROVE  Spec => []NoSilentSkip
<1>1. Init => SkipInv
  BY SkipInit
<1>2. SkipInv /\ [Next]_vars => SkipInv'
  BY SkipStep
<1>3. SkipInv => NoSilentSkip
  BY DEF SkipInv
<1> QED BY <1>1, <1>2, <1>3, PTL DEF Spec

=============================================================================
