--------------------------- MODULE DeliveryProofs ---------------------------
(***************************************************************************)
(* Proofs about the parts that messages pass through, as parts of the      *)
(* composition (Parts): the acknowledgment manager with the dead letter    *)
(* queue, for every set of messages, every max_attempts and every size of  *)
(* the queue; the priority queue, with its refinement of PointToPoint, for *)
(* any number of messages, levels and workers; and deduplication, for any  *)
(* number of ids and threads and every window_size.                        *)
(***************************************************************************)
EXTENDS Parts, TLAPS

-----------------------------------------------------------------------------
(* What appending, dropping the oldest and dropping the n oldest elements  *)
(* do to the contents of a sequence without repetitions.                   *)

(* append, for a value that is not in the sequence yet.                    *)
LEMMA AppendRange ==
    ASSUME NEW S, NEW s \in Seq(S), NEW x \in S
    PROVE  /\ Append(s, x) \in Seq(S)
           /\ Range(Append(s, x)) = Range(s) \cup {x}
           /\ IsInjective(s) /\ x \notin Range(s) => IsInjective(Append(s, x))
<1> DEFINE t == Append(s, x)
<1>1. /\ t \in Seq(S)
      /\ DOMAIN t = 1 .. Len(s) + 1
      /\ \A j \in 1 .. Len(s) + 1 : t[j] = IF j = Len(s) + 1 THEN x ELSE s[j]
      /\ DOMAIN s = 1 .. Len(s) /\ Len(s) \in Nat
  OBVIOUS
<1> HIDE DEF t
<1>2. Range(t) = Range(s) \cup {x}
  BY <1>1 DEF Range
<1>3. ASSUME IsInjective(s), x \notin Range(s) PROVE IsInjective(t)
  BY <1>1, <1>3 DEF IsInjective, Range
<1> QED BY <1>1, <1>2, <1>3 DEF t

(* Taking the n oldest elements off the front.                             *)
LEMMA SuffixRange ==
    ASSUME NEW S, NEW s \in Seq(S), NEW n \in 1 .. Len(s), IsInjective(s)
    PROVE  /\ SubSeq(s, n + 1, Len(s)) \in Seq(S)
           /\ IsInjective(SubSeq(s, n + 1, Len(s)))
           /\ {s[i] : i \in 1 .. n} \subseteq Range(s)
           /\ {s[i] : i \in 1 .. n} \subseteq S
           /\ Range(SubSeq(s, n + 1, Len(s))) = Range(s) \ {s[i] : i \in 1 .. n}
<1> DEFINE r == SubSeq(s, n + 1, Len(s))
           gone == {s[i] : i \in 1 .. n}
<1>1. /\ r \in Seq(S) /\ DOMAIN r = 1 .. Len(s) - n
      /\ \A j \in 1 .. Len(s) - n : r[j] = s[n + j]
      /\ DOMAIN s = 1 .. Len(s) /\ Len(s) \in Nat
      /\ \A j \in 1 .. Len(s) : s[j] \in S
  OBVIOUS
<1>2. \A i, j \in 1 .. Len(s) : s[i] = s[j] => i = j
  BY <1>1 DEF IsInjective
<1> HIDE DEF r
<1>3. IsInjective(r)
  BY <1>1, <1>2 DEF IsInjective
<1>4. gone \subseteq Range(s) /\ gone \subseteq S
  <2>1. \A i \in 1 .. n : i \in 1 .. Len(s)
    BY <1>1
  <2>2. \A i \in 1 .. n : s[i] \in Range(s) /\ s[i] \in S
    BY <1>1, <2>1 DEF Range
  <2> QED BY <2>2
<1>5. ASSUME NEW x \in Range(r) PROVE x \in Range(s) \ gone
  <2>1. PICK j \in 1 .. Len(s) - n : r[j] = x
    BY <1>1, <1>5 DEF Range
  <2>2. n + j \in 1 .. Len(s) /\ s[n + j] = x
    BY <1>1, <2>1
  <2>3. \A i \in 1 .. n : i \in 1 .. Len(s) /\ i # n + j
    BY <1>1
  <2>4. \A i \in 1 .. n : s[i] # x
    BY <1>2, <2>2, <2>3
  <2>5. x \in Range(s)
    BY <1>1, <2>2 DEF Range
  <2> QED BY <2>4, <2>5
<1>6. ASSUME NEW x \in Range(s), x \notin gone PROVE x \in Range(r)
  <2>1. PICK k \in 1 .. Len(s) : s[k] = x
    BY <1>1, <1>6 DEF Range
  <2>2. k > n
    BY <1>6, <2>1
  <2>3. k - n \in 1 .. Len(s) - n /\ r[k - n] = x
    BY <1>1, <2>1, <2>2
  <2> QED BY <1>1, <2>3 DEF Range
<1>7. Range(r) = Range(s) \ gone
  BY <1>5, <1>6
<1> QED BY <1>1, <1>3, <1>4, <1>7 DEF r

-----------------------------------------------------------------------------
(* Redelivery.  Six sets are the places of a message.                      *)
Placed(a, b, c, d, e, f) ==
    /\ a \cup b \cup c \cup d \cup e \cup f = Tracked
    /\ a \cap (b \cup c \cup d \cup e \cup f) = {}
    /\ b \cap (c \cup d \cup e \cup f) = {}
    /\ c \cap (d \cup e \cup f) = {}
    /\ d \cap (e \cup f) = {}
    /\ e \cap f = {}

(* OnePlace is not inductive alone.  A message is untracked by the timeout *)
(* loop only if it is still pending, which the types say of sweep and of   *)
(* expired, and that rests on the lock: nobody acknowledges or tracks      *)
(* while the loop has ids left.  The bound on attempts rests on the count  *)
(* of deliveries, which a replay resets only for messages in the queue.    *)
RedeliveryInv ==
    /\ RD!TypeOK
    /\ Placed(ready, RD!Pending, timedOut, acked, Range(entries), removed)
    /\ IsInjective(entries)
    /\ \A m \in Tracked : attempts[m] <= deliveries[m]
    /\ sweep # {} => lock = "sweep"

(* The invariant is what OnePlace says, and more.                          *)
LEMMA RedeliveryPlaces == RedeliveryInv => RD!OnePlace
<1> SUFFICES ASSUME RedeliveryInv PROVE RD!OnePlace
  OBVIOUS
<1> DEFINE p == <<ready, RD!Pending, timedOut, acked, RD!Range(entries), removed>>
<1>1. RD!Range(entries) = Range(entries) /\ RD!IsInjective(entries)
  BY DEF RD!Range, Range, RD!IsInjective, IsInjective, RedeliveryInv
<1>2. /\ DOMAIN p = 1 .. 6
      /\ Placed(p[1], p[2], p[3], p[4], p[5], p[6])
  BY <1>1 DEF RedeliveryInv
<1> HIDE DEF p
<1>3. UNION RD!Range(p) = Tracked
  <2>1. ASSUME NEW x PROVE x \in UNION RD!Range(p) <=> \E i \in 1 .. 6 : x \in p[i]
    BY <1>2 DEF RD!Range
  <2>2. Tracked = p[1] \cup p[2] \cup p[3] \cup p[4] \cup p[5] \cup p[6]
    BY <1>2 DEF Placed
  <2> QED BY <2>1, <2>2
<1>4. \A i, j \in DOMAIN p : i # j => p[i] \cap p[j] = {}
  <2>1. \A i, j \in 1 .. 6 : i < j => p[i] \cap p[j] = {}
    BY <1>2 DEF Placed
  <2> QED BY <1>2, <2>1
<1> QED BY <1>1, <1>3, <1>4 DEF RD!OnePlace, p

(* The dead letter queue takes m, and evicts its oldest entry if it is     *)
(* full.                                                                   *)
LEMMA AddEffect ==
    ASSUME RedeliveryInv, NEW m \in Tracked, m \notin Range(entries), RD!Add(m)
    PROVE  \E gone \in SUBSET Range(entries) :
              /\ Range(entries') = (Range(entries) \ gone) \cup {m}
              /\ removed' = removed \cup gone
              /\ entries' \in Seq(Tracked) /\ IsInjective(entries')
              /\ adding' = m /\ UNCHANGED tagged
<1>0. /\ entries \in Seq(Tracked) /\ IsInjective(entries) /\ DlqSize \in Nat
      /\ adding' = m /\ UNCHANGED tagged
  BY PartsAssumption DEF RedeliveryInv, RD!TypeOK, RD!RedeliveryAssumption, RD!Add
<1>1. CASE DlqSize > 0 /\ Len(entries) = DlqSize
  <2> DEFINE t == Tail(entries)
  <2>1. 1 \in 1 .. Len(entries)
    BY <1>0, <1>1
  <2>2. t = SubSeq(entries, 1 + 1, Len(entries))
    BY <1>0, <2>1
  <2>6. {entries[i] : i \in 1 .. 1} = {Head(entries)}
    <3>1. Head(entries) = entries[1] /\ \A i : i \in 1 .. 1 <=> i = 1
      BY <1>0, <2>1
    <3> QED BY <3>1
  <2> HIDE DEF t
  <2>3. /\ t \in Seq(Tracked) /\ IsInjective(t)
        /\ {Head(entries)} \subseteq Range(entries)
        /\ Range(t) = Range(entries) \ {Head(entries)}
    <3>1. LET r == SubSeq(entries, 1 + 1, Len(entries))
              gone == {entries[i] : i \in 1 .. 1}
          IN  /\ r \in Seq(Tracked) /\ IsInjective(r)
              /\ gone \subseteq Range(entries) /\ gone \subseteq Tracked
              /\ Range(r) = Range(entries) \ gone
      BY <1>0, <2>1, SuffixRange
    <3> QED BY <2>2, <2>6, <3>1
  <2>4. /\ Append(t, m) \in Seq(Tracked) /\ Range(Append(t, m)) = Range(t) \cup {m}
        /\ IsInjective(Append(t, m))
    BY <2>3, AppendRange
  <2>5. entries' = Append(t, m) /\ removed' = removed \cup {Head(entries)}
    BY <1>1 DEF RD!Add, t
  <2> QED BY <1>0, <2>3, <2>4, <2>5
<1>2. CASE ~ (DlqSize > 0 /\ Len(entries) = DlqSize)
  <2>1. entries' = Append(entries, m) /\ removed' = removed
    BY <1>2 DEF RD!Add
  <2>2. /\ Append(entries, m) \in Seq(Tracked)
        /\ Range(Append(entries, m)) = Range(entries) \cup {m}
        /\ IsInjective(Append(entries, m))
    BY <1>0, AppendRange
  <2>3. {} \in SUBSET Range(entries)
    OBVIOUS
  <2> QED BY <1>0, <2>1, <2>2, <2>3
<1> QED BY <1>1, <1>2

(* What Untrack does to the pending messages.                              *)
LEMMA UntrackEffect ==
    ASSUME RedeliveryInv, NEW m \in RD!Pending, RD!Untrack(m), deliveries' = deliveries
    PROVE  /\ m \in Tracked /\ m \notin Range(entries)
           /\ RD!Pending' = RD!Pending \ {m}
           /\ attempts' \in [Tracked -> 0 .. MaxDeliveries]
           /\ expired' = expired \ {m} /\ expired' \subseteq RD!Pending'
           /\ \A x \in Tracked : attempts'[x] <= deliveries'[x]
           /\ deliveries' \in [Tracked -> 0 .. MaxDeliveries]
<1>1. /\ attempts \in [Tracked -> 0 .. MaxDeliveries] /\ MaxDeliveries \in Nat
      /\ deliveries \in [Tracked -> 0 .. MaxDeliveries]
      /\ expired \subseteq RD!Pending
      /\ \A x \in Tracked : attempts[x] <= deliveries[x]
      /\ attempts' = [attempts EXCEPT ![m] = 0] /\ expired' = expired \ {m}
  BY PartsAssumption DEF RedeliveryInv, RD!TypeOK, RD!Untrack, RD!RedeliveryAssumption
<1>2. m \in Tracked
  BY DEF RD!Pending
<1>3. m \notin Range(entries)
  BY DEF RedeliveryInv, Placed
<1>4. RD!Pending' = RD!Pending \ {m}
  BY <1>1, <1>2 DEF RD!Pending
<1> QED BY <1>1, <1>2, <1>3, <1>4

(* In the beginning every message is with the application.                 *)
LEMMA RedeliveryInit == RD!Init => RedeliveryInv
<1> SUFFICES ASSUME RD!Init PROVE RedeliveryInv
  OBVIOUS
<1>0. MaxDeliveries \in Nat
  BY PartsAssumption DEF RD!RedeliveryAssumption
<1>1. RD!Pending = {} /\ Range(entries) = {} /\ IsInjective(entries)
  BY DEF RD!Init, RD!Pending, Range, IsInjective
<1>2. RD!TypeOK
  BY <1>0, <1>1 DEF RD!Init, RD!TypeOK
<1>3. Placed(ready, RD!Pending, timedOut, acked, Range(entries), removed)
  BY <1>1 DEF RD!Init, Placed
<1> QED BY <1>0, <1>1, <1>2, <1>3 DEF RD!Init, RedeliveryInv

(* Every critical section, and every step of the dead letter queue and of  *)
(* the timeout loop between them, keeps the invariant.                     *)
LEMMA RedeliveryStep == RedeliveryInv /\ [RD!Next]_(RD!vars) => RedeliveryInv'
<1> SUFFICES ASSUME RedeliveryInv, [RD!Next]_(RD!vars) PROVE RedeliveryInv'
  OBVIOUS
<1> DEFINE P == RD!Pending
           E == Range(entries)
<1>0. /\ ready \subseteq Tracked /\ attempts \in [Tracked -> 0 .. MaxDeliveries]
      /\ expired \subseteq P /\ lock \in {"free", "nack", "sweep"}
      /\ sweep \subseteq expired /\ timedOut \subseteq Tracked
      /\ adding \in Tracked \cup {NoMessage} /\ entries \in Seq(Tracked)
      /\ tagged \subseteq Tracked /\ acked \subseteq Tracked /\ removed \subseteq Tracked
      /\ deliveries \in [Tracked -> 0 .. MaxDeliveries] /\ MaxDeliveries \in Nat
  BY PartsAssumption DEF RedeliveryInv, RD!TypeOK, RD!RedeliveryAssumption
<1>1. /\ Placed(ready, P, timedOut, acked, E, removed) /\ IsInjective(entries)
      /\ \A m \in Tracked : attempts[m] <= deliveries[m]
      /\ sweep # {} => lock = "sweep"
      /\ P \subseteq Tracked /\ E \subseteq Tracked
  BY DEF RedeliveryInv, Placed
<1>2. ASSUME NEW m \in Tracked, RD!Track(m) PROVE RedeliveryInv'
  <2>1. /\ lock = "free" /\ m \in ready \cup P /\ deliveries[m] < MaxDeliveries
        /\ attempts' = [attempts EXCEPT ![m] = attempts[m] + 1]
        /\ expired' = expired \ {m} /\ ready' = ready \ {m}
        /\ deliveries' = [deliveries EXCEPT ![m] = deliveries[m] + 1]
        /\ UNCHANGED <<lock, sweep, timedOut, entries, tagged, removed, adding, acked>>
    BY <1>2 DEF RD!Track, RD!dlqVars
  <2>2. sweep = {}
    BY <1>1, <2>1
  <2>3. /\ attempts' \in [Tracked -> 0 .. MaxDeliveries]
        /\ deliveries' \in [Tracked -> 0 .. MaxDeliveries]
        /\ \A x \in Tracked : attempts'[x] <= deliveries'[x]
    BY <1>0, <1>1, <2>1
  <2>4. RD!Pending' = P \cup {m}
    BY <1>0, <2>1 DEF RD!Pending
  <2>5. RD!TypeOK'
    BY <1>0, <2>1, <2>2, <2>3, <2>4 DEF RD!TypeOK
  <2>6. Placed(ready, RD!Pending, timedOut, acked, E, removed)'
    BY <1>1, <2>1, <2>4 DEF Placed
  <2> QED BY <1>1, <2>1, <2>2, <2>3, <2>5, <2>6 DEF RedeliveryInv
<1>3. ASSUME NEW m \in Tracked, RD!Acknowledge(m) PROVE RedeliveryInv'
  <2>1. /\ lock = "free" /\ m \in P /\ RD!Untrack(m) /\ acked' = acked \cup {m}
        /\ UNCHANGED <<ready, lock, sweep, timedOut, entries, tagged, removed, adding,
                       deliveries>>
    BY <1>3 DEF RD!Acknowledge, RD!dlqVars
  <2>2. /\ RD!Pending' = P \ {m} /\ attempts' \in [Tracked -> 0 .. MaxDeliveries]
        /\ expired' \subseteq RD!Pending' /\ \A x \in Tracked : attempts'[x] <= deliveries'[x]
        /\ deliveries' \in [Tracked -> 0 .. MaxDeliveries]
    BY <2>1, UntrackEffect
  <2>3. sweep = {}
    BY <1>1, <2>1
  <2>4. RD!TypeOK'
    BY <1>0, <2>1, <2>2, <2>3 DEF RD!TypeOK
  <2>5. Placed(ready, RD!Pending, timedOut, acked, E, removed)'
    BY <1>1, <2>1, <2>2 DEF Placed
  <2> QED BY <1>1, <2>1, <2>2, <2>3, <2>4, <2>5 DEF RedeliveryInv
<1>4. ASSUME NEW m \in Tracked, RD!NegativeAcknowledge(m) PROVE RedeliveryInv'
  <2>1. /\ lock = "free" /\ m \in P /\ RD!Untrack(m)
        /\ UNCHANGED <<sweep, timedOut, acked, deliveries>>
    BY <1>4 DEF RD!NegativeAcknowledge
  <2>2. /\ RD!Pending' = P \ {m} /\ attempts' \in [Tracked -> 0 .. MaxDeliveries]
        /\ expired' \subseteq RD!Pending' /\ \A x \in Tracked : attempts'[x] <= deliveries'[x]
        /\ deliveries' \in [Tracked -> 0 .. MaxDeliveries] /\ m \notin E
    BY <2>1, UntrackEffect
  <2>3. sweep = {}
    BY <1>1, <2>1
  <2>4. CASE RD!Add(m) /\ lock' = "nack" /\ UNCHANGED ready
    <3>1. PICK gone \in SUBSET E :
              /\ Range(entries') = (E \ gone) \cup {m}
              /\ removed' = removed \cup gone
              /\ entries' \in Seq(Tracked) /\ IsInjective(entries')
              /\ adding' = m /\ UNCHANGED tagged
      BY <2>2, <2>4, AddEffect
    <3>2. RD!TypeOK'
      BY <1>0, <1>1, <2>1, <2>2, <2>3, <2>4, <3>1 DEF RD!TypeOK
    <3>3. Placed(ready, RD!Pending, timedOut, acked, E, removed)'
      BY <1>1, <2>1, <2>2, <2>4, <3>1 DEF Placed
    <3> QED BY <2>1, <2>2, <2>3, <3>1, <3>2, <3>3 DEF RedeliveryInv
  <2>5. CASE ready' = ready \cup {m} /\ UNCHANGED <<lock, entries, tagged, removed, adding>>
    <3>1. RD!TypeOK'
      BY <1>0, <2>1, <2>2, <2>3, <2>5 DEF RD!TypeOK
    <3>2. Placed(ready, RD!Pending, timedOut, acked, E, removed)'
      BY <1>1, <2>1, <2>2, <2>5 DEF Placed
    <3> QED BY <1>1, <2>1, <2>2, <2>3, <2>5, <3>1, <3>2 DEF RedeliveryInv
  <2> QED BY <1>4, <2>4, <2>5 DEF RD!NegativeAcknowledge, RD!dlqVars
<1>5. ASSUME NEW m \in Tracked, RD!Expire(m) PROVE RedeliveryInv'
  <2>1. /\ m \in P /\ expired' = expired \cup {m}
        /\ UNCHANGED <<ready, attempts, lock, sweep, timedOut, entries, tagged, removed,
                       adding, acked, deliveries>>
    BY <1>5 DEF RD!Expire, RD!dlqVars
  <2>2. RD!Pending' = P
    BY <2>1 DEF RD!Pending
  <2>3. RD!TypeOK'
    BY <1>0, <2>1, <2>2 DEF RD!TypeOK
  <2> QED BY <1>1, <2>1, <2>2, <2>3 DEF RedeliveryInv
<1>6. ASSUME NEW m \in Tracked, RD!SweepOne(m) PROVE RedeliveryInv'
  <2>1. /\ m \in sweep /\ m \in P /\ sweep' = sweep \ {m} /\ RD!Untrack(m)
        /\ UNCHANGED <<ready, lock, acked, deliveries>>
    BY <1>0, <1>6 DEF RD!SweepOne
  <2>2. /\ RD!Pending' = P \ {m} /\ attempts' \in [Tracked -> 0 .. MaxDeliveries]
        /\ expired' = expired \ {m} /\ expired' \subseteq RD!Pending'
        /\ \A x \in Tracked : attempts'[x] <= deliveries'[x]
        /\ deliveries' \in [Tracked -> 0 .. MaxDeliveries] /\ m \notin E
    BY <2>1, UntrackEffect
  <2>3. sweep' \subseteq expired' /\ (sweep' # {} => lock' = "sweep")
    BY <1>0, <1>1, <2>1, <2>2
  <2>4. CASE RD!Add(m) /\ UNCHANGED timedOut
    <3>1. PICK gone \in SUBSET E :
              /\ Range(entries') = (E \ gone) \cup {m}
              /\ removed' = removed \cup gone
              /\ entries' \in Seq(Tracked) /\ IsInjective(entries')
              /\ adding' = m /\ UNCHANGED tagged
      BY <2>2, <2>4, AddEffect
    <3>2. RD!TypeOK'
      BY <1>0, <1>1, <2>1, <2>2, <2>3, <2>4, <3>1 DEF RD!TypeOK
    <3>3. Placed(ready, RD!Pending, timedOut, acked, E, removed)'
      BY <1>1, <2>1, <2>2, <2>4, <3>1 DEF Placed
    <3> QED BY <2>2, <2>3, <3>1, <3>2, <3>3 DEF RedeliveryInv
  <2>5. CASE timedOut' = timedOut \cup {m} /\ UNCHANGED <<entries, tagged, removed, adding>>
    <3>1. RD!TypeOK'
      BY <1>0, <2>1, <2>2, <2>3, <2>5 DEF RD!TypeOK
    <3>2. Placed(ready, RD!Pending, timedOut, acked, E, removed)'
      BY <1>1, <2>1, <2>2, <2>5 DEF Placed
    <3> QED BY <1>1, <2>2, <2>3, <2>5, <3>1, <3>2 DEF RedeliveryInv
  <2> QED BY <1>6, <2>4, <2>5 DEF RD!SweepOne, RD!dlqVars
<1>7. ASSUME RD!CheckTimeouts PROVE RedeliveryInv'
  <2>1. /\ lock' = "sweep" /\ sweep' = expired
        /\ UNCHANGED <<ready, attempts, expired, timedOut, entries, tagged, removed,
                       adding, acked, deliveries>>
    BY <1>7 DEF RD!CheckTimeouts, RD!dlqVars
  <2>2. RD!Pending' = P
    BY <2>1 DEF RD!Pending
  <2>3. RD!TypeOK'
    BY <1>0, <2>1, <2>2 DEF RD!TypeOK
  <2> QED BY <1>1, <2>1, <2>2, <2>3 DEF RedeliveryInv
<1>8. ASSUME RD!SweepDone PROVE RedeliveryInv'
  <2>1. /\ sweep = {} /\ lock' = "free" /\ ready' = ready \cup timedOut /\ timedOut' = {}
        /\ UNCHANGED <<attempts, expired, sweep, entries, tagged, removed, adding, acked,
                       deliveries>>
    BY <1>8 DEF RD!SweepDone, RD!dlqVars
  <2>2. RD!Pending' = P
    BY <2>1 DEF RD!Pending
  <2>3. RD!TypeOK'
    BY <1>0, <2>1, <2>2 DEF RD!TypeOK
  <2>4. Placed(ready, RD!Pending, timedOut, acked, E, removed)'
    BY <1>1, <2>1, <2>2 DEF Placed
  <2> QED BY <1>1, <2>1, <2>3, <2>4 DEF RedeliveryInv
<1>9. ASSUME RD!Tag PROVE RedeliveryInv'
  <2>1. /\ adding # NoMessage /\ tagged' = tagged \cup {adding} /\ adding' = NoMessage
        /\ lock' = IF lock = "nack" THEN "free" ELSE lock
        /\ UNCHANGED <<ready, attempts, expired, sweep, timedOut, entries, acked, removed,
                       deliveries>>
    BY <1>9 DEF RD!Tag
  <2>2. RD!Pending' = P
    BY <2>1 DEF RD!Pending
  <2>3. RD!TypeOK'
    BY <1>0, <2>1, <2>2 DEF RD!TypeOK
  <2>4. sweep' # {} => lock' = "sweep"
    BY <1>1, <2>1
  <2> QED BY <1>1, <2>1, <2>2, <2>3, <2>4 DEF RedeliveryInv
<1>10. ASSUME NEW n \in 1 .. Len(entries), RD!Replay(n) PROVE RedeliveryInv'
  <2> DEFINE gone == {entries[i] : i \in 1 .. n}
             r == SubSeq(entries, n + 1, Len(entries))
  <2>1. /\ entries' = r /\ tagged' = tagged \ gone /\ ready' = ready \cup gone
        /\ deliveries' = [m \in Tracked |-> IF m \in gone THEN 0 ELSE deliveries[m]]
        /\ UNCHANGED <<attempts, expired, lock, sweep, timedOut, adding, acked, removed>>
    BY <1>10 DEF RD!Replay
  <2>2. /\ r \in Seq(Tracked) /\ IsInjective(r) /\ gone \subseteq E
        /\ gone \subseteq Tracked /\ Range(r) = E \ gone
    <3>1. entries \in Seq(Tracked) /\ IsInjective(entries)
      BY <1>0, <1>1
    <3> HIDE DEF E
    <3>2. n \in 1 .. Len(entries)
      OBVIOUS
    <3> HIDE DEF gone, r
    <3>3. /\ SubSeq(entries, n + 1, Len(entries)) \in Seq(Tracked)
          /\ IsInjective(SubSeq(entries, n + 1, Len(entries)))
          /\ {entries[i] : i \in 1 .. n} \subseteq Range(entries)
          /\ {entries[i] : i \in 1 .. n} \subseteq Tracked
          /\ Range(SubSeq(entries, n + 1, Len(entries)))
               = Range(entries) \ {entries[i] : i \in 1 .. n}
      BY <3>1, <3>2, SuffixRange
    <3> QED BY <3>3, Zenon DEF E, gone, r
  <2> HIDE DEF gone, r
  <2>3. RD!Pending' = P
    BY <2>1 DEF RD!Pending
  <2>4. \A m \in gone : attempts[m] = 0
    <3>1. \A m \in gone : m \in Tracked /\ m \notin P
      BY <1>1, <2>2 DEF Placed
    <3>2. \A m \in Tracked : attempts[m] \in Nat
      BY <1>0
    <3> QED BY <3>1, <3>2 DEF RD!Pending
  <2>5. /\ deliveries' \in [Tracked -> 0 .. MaxDeliveries]
        /\ \A m \in Tracked : attempts'[m] <= deliveries'[m]
    BY <1>0, <1>1, <2>1, <2>4
  <2>6. RD!TypeOK'
    BY <1>0, <2>1, <2>2, <2>3, <2>5 DEF RD!TypeOK
  <2>7. Placed(ready, RD!Pending, timedOut, acked, E, removed)'
    BY <1>1, <2>1, <2>2, <2>3 DEF Placed
  <2> QED BY <1>1, <2>1, <2>2, <2>5, <2>6, <2>7 DEF RedeliveryInv
<1>11. ASSUME NEW n \in 1 .. Len(entries), RD!Discard(n) PROVE RedeliveryInv'
  <2> DEFINE gone == {entries[i] : i \in 1 .. n}
             r == SubSeq(entries, n + 1, Len(entries))
  <2>1. /\ entries' = r /\ removed' = removed \cup gone
        /\ UNCHANGED <<ready, attempts, expired, lock, sweep, timedOut, adding, tagged,
                       acked, deliveries>>
    BY <1>11 DEF RD!Discard
  <2>2. /\ r \in Seq(Tracked) /\ IsInjective(r) /\ gone \subseteq E
        /\ gone \subseteq Tracked /\ Range(r) = E \ gone
    <3>1. entries \in Seq(Tracked) /\ IsInjective(entries)
      BY <1>0, <1>1
    <3> HIDE DEF E
    <3>2. n \in 1 .. Len(entries)
      OBVIOUS
    <3> HIDE DEF gone, r
    <3>3. /\ SubSeq(entries, n + 1, Len(entries)) \in Seq(Tracked)
          /\ IsInjective(SubSeq(entries, n + 1, Len(entries)))
          /\ {entries[i] : i \in 1 .. n} \subseteq Range(entries)
          /\ {entries[i] : i \in 1 .. n} \subseteq Tracked
          /\ Range(SubSeq(entries, n + 1, Len(entries)))
               = Range(entries) \ {entries[i] : i \in 1 .. n}
      BY <3>1, <3>2, SuffixRange
    <3> QED BY <3>3, Zenon DEF E, gone, r
  <2> HIDE DEF gone, r
  <2>3. RD!Pending' = P
    BY <2>1 DEF RD!Pending
  <2>4. RD!TypeOK'
    BY <1>0, <2>1, <2>2, <2>3 DEF RD!TypeOK
  <2>5. Placed(ready, RD!Pending, timedOut, acked, E, removed)'
    BY <1>1, <2>1, <2>2, <2>3 DEF Placed
  <2> QED BY <1>1, <2>1, <2>2, <2>4, <2>5 DEF RedeliveryInv
<1>12. ASSUME UNCHANGED RD!vars PROVE RedeliveryInv'
  <2>1. UNCHANGED <<ready, attempts, expired, lock, sweep, timedOut, entries, tagged,
                    removed, adding, acked, deliveries>>
    BY <1>12 DEF RD!vars, RD!dlqVars
  <2>2. RD!Pending' = P
    BY <2>1 DEF RD!Pending
  <2>3. RD!TypeOK'
    BY <1>0, <2>1, <2>2 DEF RD!TypeOK
  <2> QED BY <1>1, <2>1, <2>2, <2>3 DEF RedeliveryInv
<1> QED BY <1>2, <1>3, <1>4, <1>5, <1>6, <1>7, <1>8, <1>9, <1>10, <1>11, <1>12
        DEF RD!Next

(* Whatever nacks, timeouts, evictions, replays and purges run at the same *)
(* time, every message is in exactly one place, for any number of messages *)
(* and any limits (ack.py 96-163, dlq.py 69-135).                          *)
THEOREM RedeliverySafe == RD!Spec => []RD!OnePlace
  BY RedeliveryInit, RedeliveryStep, RedeliveryPlaces, PTL DEF RD!Spec

(* The same of the instance that TLC checks.                               *)
THEOREM EveryMessageInOnePlace == Spec => []OnePlace
<1>1. Init => RedeliveryInv
  BY RedeliveryInit DEF Init
<1>2. [Next]_vars => [RD!Next]_(RD!vars)
  BY DEF Next, vars, NextPriority, NextBackpressure, NextDeduplication, NextRedelivery,
         NextLifecycle, NextPipeline, NextSchemas, NextRetry, rdVars, RD!vars, RD!dlqVars
<1>3. RedeliveryInv => OnePlace
  BY RedeliveryPlaces DEF OnePlace
<1> QED BY <1>1, <1>2, <1>3, RedeliveryStep, PTL DEF Spec

-----------------------------------------------------------------------------
(* PriorityQueue.  Every step does one of five things to the messages.     *)
Accepts(m) ==
    /\ m \in Messages /\ m \notin Range(accepted)
    /\ PQ!Push(m)
    /\ accepted' = Append(accepted, m)
    /\ UNCHANGED <<inFlight, pqAcked, pqSeen>>

Returns(i) ==
    /\ i \in DOMAIN inFlight
    /\ PQ!LeaveFlight(i)
    /\ PQ!Push(inFlight[i])
    /\ UNCHANGED <<pqAcked, accepted, pqSeen>>

Delivers ==
    /\ heap # <<>>
    /\ heap' = Tail(heap)
    /\ inFlight' = Append(inFlight, Head(heap))
    /\ pqSeen' = pqSeen \cup {Head(heap)}
    /\ UNCHANGED <<pqAcked, accepted>>

Settles(i) ==
    /\ i \in DOMAIN inFlight
    /\ PQ!LeaveFlight(i)
    /\ pqAcked' = pqAcked \cup {inFlight[i]}
    /\ UNCHANGED <<heap, accepted, pqSeen>>

(* Each step of the priority queue is one of these four, or leaves its     *)
(* contents alone.                                                         *)
LEMMA QueueSteps ==
    ASSUME [PQ!Next]_(PQ!vars)
    PROVE  \/ \E m \in Messages : Accepts(m)
           \/ \E i \in DOMAIN inFlight : Returns(i) \/ Settles(i)
           \/ Delivers
           \/ UNCHANGED <<heap, inFlight, pqAcked, accepted, pqSeen>>
<1>1. ASSUME NEW m \in Messages, PQ!Enqueue(m) PROVE Accepts(m)
  BY <1>1 DEF PQ!Enqueue, Accepts, PQ!Range, Range
<1>2. ASSUME NEW w \in Workers, PQ!RequeueOne(w) PROVE \E i \in DOMAIN inFlight : Returns(i)
  BY <1>2 DEF PQ!RequeueOne, Returns
<1>3. ASSUME NEW w \in Workers, PQ!Pop(w)
      PROVE  Delivers \/ UNCHANGED <<heap, inFlight, pqAcked, accepted, pqSeen>>
  BY <1>3 DEF PQ!Pop, Delivers
<1>4. ASSUME NEW w \in Workers, NEW m \in Messages, PQ!Acknowledge(w, m)
      PROVE  \/ \E i \in DOMAIN inFlight : Settles(i)
             \/ UNCHANGED <<heap, inFlight, pqAcked, accepted, pqSeen>>
  BY <1>4 DEF PQ!Acknowledge, Settles
<1>5. ASSUME NEW w \in Workers, NEW m \in Messages, PQ!Nack(w, m)
      PROVE  \/ \E i \in DOMAIN inFlight : Returns(i)
             \/ UNCHANGED <<heap, inFlight, pqAcked, accepted, pqSeen>>
  BY <1>5 DEF PQ!Nack, Returns
<1> QED BY <1>1, <1>2, <1>3, <1>4, <1>5
        DEF PQ!Next, PQ!Dequeue, PQ!CallDequeue, PQ!Sweep, PQ!SweepDone, PQ!Expire, PQ!vars

(* Every accepted message is in one place; those in flight or acknowledged *)
(* have been delivered.  The second part is what keeps the order of first  *)
(* deliveries: of two waiting messages of one priority that were never     *)
(* delivered, the one enqueued first is nearer to the top of the heap.     *)
(* Messages pushed again need no place in it, for they were delivered.     *)
QueuePlaces ==
    /\ heap \in Seq(Messages) /\ inFlight \in Seq(Messages) /\ accepted \in Seq(Messages)
    /\ IsInjective(heap) /\ IsInjective(inFlight)
    /\ Range(heap) \cap (Range(inFlight) \cup pqAcked) = {}
    /\ Range(inFlight) \cap pqAcked = {}
    /\ Range(heap) \cup Range(inFlight) \cup pqAcked = Range(accepted)
    /\ Range(inFlight) \cup pqAcked \subseteq pqSeen
    /\ pqSeen \subseteq Range(accepted)

Older(i, j) ==
    /\ i < j /\ Priority[accepted[i]] = Priority[accepted[j]]

HeapOrder ==
    \A i, j \in DOMAIN accepted : \A p, q \in DOMAIN heap :
        /\ Older(i, j)
        /\ heap[p] = accepted[i] /\ accepted[i] \notin pqSeen
        /\ heap[q] = accepted[j] /\ accepted[j] \notin pqSeen
        => p < q

FirstInOrder ==
    \A i, j \in DOMAIN accepted :
        Older(i, j) /\ accepted[j] \in pqSeen => accepted[i] \in pqSeen

(* heappush puts m behind the k messages of at least its priority.         *)
LEMMA PushPlace ==
    ASSUME NEW m \in Messages, heap \in Seq(Messages), PQ!Push(m)
    PROVE  \E k \in 0 .. Len(heap) :
              /\ heap' \in Seq(Messages) /\ DOMAIN heap' = 1 .. Len(heap) + 1
              /\ \A q \in 1 .. Len(heap) + 1 :
                    heap'[q] = IF q <= k THEN heap[q] ELSE IF q = k + 1 THEN m ELSE heap[q - 1]
              /\ \A q \in 1 .. Len(heap) : q <= k <=> Priority[heap[q]] >= Priority[m]
<1>1. PICK k \in 0 .. Len(heap) :
          /\ \A q \in 1 .. Len(heap) : q <= k <=> Priority[heap[q]] >= Priority[m]
          /\ heap' = SubSeq(heap, 1, k) \o <<m>> \o SubSeq(heap, k + 1, Len(heap))
  BY DEF PQ!Push
<1> DEFINE a == SubSeq(heap, 1, k)
           b == SubSeq(heap, k + 1, Len(heap))
           am == a \o <<m>>
<1>2. a \in Seq(Messages) /\ Len(a) = k /\ \A q \in 1 .. k : a[q] = heap[q]
  OBVIOUS
<1>3. /\ b \in Seq(Messages) /\ Len(b) = Len(heap) - k
      /\ \A q \in 1 .. Len(heap) - k : b[q] = heap[k + q]
  OBVIOUS
<1> HIDE DEF a, b
<1>4. /\ am \in Seq(Messages) /\ Len(am) = k + 1
      /\ \A q \in 1 .. k : am[q] = heap[q]
      /\ am[k + 1] = m
  <2>1. am \in Seq(Messages) /\ Len(am) = Len(a) + 1
    BY <1>2
  <2>2. \A q \in 1 .. Len(a) : am[q] = a[q]
    BY <1>2
  <2>3. am[Len(a) + 1] = m
    BY <1>2
  <2> QED BY <1>2, <2>1, <2>2, <2>3
<1> HIDE DEF am
<1> DEFINE h == am \o b
<1>5. /\ h \in Seq(Messages) /\ Len(h) = Len(am) + Len(b)
      /\ \A q \in 1 .. Len(am) + Len(b) :
            h[q] = IF q <= Len(am) THEN am[q] ELSE b[q - Len(am)]
  <2>1. am \in Seq(Messages) /\ b \in Seq(Messages)
    BY <1>3, <1>4
  <2> QED BY <2>1
<1>6. heap' = h
  BY <1>1 DEF a, b, am
<1> HIDE DEF h
<1>7. /\ Len(heap) \in Nat /\ DOMAIN h = 1 .. Len(heap) + 1
      /\ \A q \in 1 .. Len(heap) + 1 : h[q] = IF q <= k + 1 THEN am[q] ELSE b[q - (k + 1)]
  <2>1. Len(heap) \in Nat /\ Len(am) + Len(b) = Len(heap) + 1 /\ Len(am) = k + 1
    <3>1. Len(heap) \in Nat /\ k \in Int
      OBVIOUS
    <3>2. Len(am) = k + 1 /\ Len(b) = Len(heap) - k
      BY <1>3, <1>4, Zenon
    <3> QED BY <3>1, <3>2
  <2>2. DOMAIN h = 1 .. Len(heap) + 1
    BY <1>5, <2>1
  <2>3. \A q \in 1 .. Len(heap) + 1 : h[q] = IF q <= k + 1 THEN am[q] ELSE b[q - (k + 1)]
    BY <1>5, <2>1, Zenon
  <2> QED BY <2>1, <2>2, <2>3
<1>8. ASSUME NEW q \in 1 .. Len(heap) + 1
      PROVE  h[q] = IF q <= k THEN heap[q] ELSE IF q = k + 1 THEN m ELSE heap[q - 1]
  <2>1. CASE q <= k
    BY <1>4, <1>7, <2>1
  <2>2. CASE q = k + 1
    BY <1>4, <1>7, <2>2
  <2>3. CASE q > k + 1
    <3>1. q - (k + 1) \in 1 .. Len(heap) - k /\ k + (q - (k + 1)) = q - 1
      BY <1>7, <2>3
    <3>2. h[q] = b[q - (k + 1)]
      BY <1>7, <2>3
    <3> QED BY <1>3, <2>3, <3>1, <3>2
  <2> QED BY <1>7, <2>1, <2>2, <2>3
<1> QED BY <1>1, <1>5, <1>6, <1>7, <1>8

(* heappush adds m to the heap and nothing else.                           *)
LEMMA PushRange ==
    ASSUME NEW m \in Messages, heap \in Seq(Messages), PQ!Push(m)
    PROVE  /\ heap' \in Seq(Messages)
           /\ Range(heap') = Range(heap) \cup {m}
           /\ IsInjective(heap) /\ m \notin Range(heap) => IsInjective(heap')
<1>1. PICK k \in 0 .. Len(heap) :
          /\ heap' \in Seq(Messages) /\ DOMAIN heap' = 1 .. Len(heap) + 1
          /\ \A q \in 1 .. Len(heap) + 1 :
                heap'[q] = IF q <= k THEN heap[q] ELSE IF q = k + 1 THEN m ELSE heap[q - 1]
  BY PushPlace
<1>2. DOMAIN heap = 1 .. Len(heap) /\ Len(heap) \in Nat
  OBVIOUS
<1>3. ASSUME NEW x \in Range(heap') PROVE x \in Range(heap) \cup {m}
  <2>1. PICK q \in 1 .. Len(heap) + 1 : heap'[q] = x
    BY <1>1, <1>3 DEF Range
  <2>2. \/ x = m
        \/ q \in 1 .. Len(heap) /\ x = heap[q]
        \/ q - 1 \in 1 .. Len(heap) /\ x = heap[q - 1]
    BY <1>1, <1>2, <2>1
  <2> QED BY <1>2, <2>2 DEF Range
<1>4. ASSUME NEW x \in Range(heap) PROVE x \in Range(heap')
  <2>1. PICK q \in 1 .. Len(heap) : heap[q] = x
    BY <1>2, <1>4 DEF Range
  <2>2. \/ q \in 1 .. Len(heap) + 1 /\ heap'[q] = x
        \/ q + 1 \in 1 .. Len(heap) + 1 /\ heap'[q + 1] = x
    BY <1>1, <1>2, <2>1
  <2> QED BY <1>1, <2>2 DEF Range
<1>5. m \in Range(heap')
  <2>1. k + 1 \in 1 .. Len(heap) + 1 /\ heap'[k + 1] = m
    BY <1>1, <1>2
  <2> QED BY <1>1, <2>1 DEF Range
<1>6. ASSUME IsInjective(heap), m \notin Range(heap) PROVE IsInjective(heap')
  <2>1. \A q \in 1 .. Len(heap) : heap[q] # m
    BY <1>2, <1>6 DEF Range
  <2>2. \A p, q \in 1 .. Len(heap) : heap[p] = heap[q] => p = q
    BY <1>2, <1>6 DEF IsInjective
  <2>3. ASSUME NEW p \in 1 .. Len(heap) + 1, NEW q \in 1 .. Len(heap) + 1, p < q,
               heap'[p] = heap'[q]
        PROVE  FALSE
    <3>1. CASE p = k + 1
      BY <1>1, <1>2, <2>1, <2>3, <3>1
    <3>2. CASE q = k + 1
      BY <1>1, <1>2, <2>1, <2>3, <3>2
    <3>3. CASE p # k + 1 /\ q # k + 1
      BY <1>1, <1>2, <2>2, <2>3, <3>3
    <3> QED BY <3>1, <3>2, <3>3
  <2>4. \A p, q \in 1 .. Len(heap) + 1 : heap'[p] = heap'[q] => ~ (p < q) /\ ~ (q < p)
    BY <2>3
  <2> QED BY <1>1, <1>2, <2>4 DEF IsInjective
<1> QED BY <1>1, <1>3, <1>4, <1>5, <1>6

(* _in_flight loses the message whose delivery has ended and nothing else. *)
LEMMA LeaveFlightRange ==
    ASSUME NEW i \in DOMAIN inFlight, inFlight \in Seq(Messages), IsInjective(inFlight),
           PQ!LeaveFlight(i)
    PROVE  /\ inFlight' \in Seq(Messages) /\ IsInjective(inFlight')
           /\ inFlight[i] \in Messages /\ inFlight[i] \in Range(inFlight)
           /\ Range(inFlight') = Range(inFlight) \ {inFlight[i]}
<1> DEFINE a == SubSeq(inFlight, 1, i - 1)
           b == SubSeq(inFlight, i + 1, Len(inFlight))
           t == a \o b
<1>0. i \in 1 .. Len(inFlight) /\ DOMAIN inFlight = 1 .. Len(inFlight) /\ Len(inFlight) \in Nat
  OBVIOUS
<1>1. a \in Seq(Messages) /\ Len(a) = i - 1 /\ \A j \in 1 .. i - 1 : a[j] = inFlight[j]
  BY <1>0
<1>2. /\ b \in Seq(Messages) /\ Len(b) = Len(inFlight) - i
      /\ \A j \in 1 .. Len(inFlight) - i : b[j] = inFlight[i + j]
  BY <1>0
<1>3. inFlight' = t
  BY DEF PQ!LeaveFlight
<1> HIDE DEF a, b
<1>4. /\ t \in Seq(Messages) /\ Len(t) = Len(a) + Len(b)
      /\ \A j \in 1 .. Len(a) + Len(b) : t[j] = IF j <= Len(a) THEN a[j] ELSE b[j - Len(a)]
  <2>1. a \in Seq(Messages) /\ b \in Seq(Messages)
    BY <1>1, <1>2
  <2> QED BY <2>1
<1> HIDE DEF t
<1>5. /\ DOMAIN t = 1 .. Len(inFlight) - 1
      /\ \A j \in 1 .. Len(inFlight) - 1 :
            t[j] = IF j < i THEN inFlight[j] ELSE inFlight[j + 1]
  <2>1. Len(a) = i - 1 /\ Len(b) = Len(inFlight) - i
    BY <1>1, <1>2
  <2>2. Len(a) + Len(b) = Len(inFlight) - 1
    BY <1>0, <2>1
  <2>3. DOMAIN t = 1 .. Len(inFlight) - 1
    BY <1>4, <2>2
  <2>4. ASSUME NEW j \in 1 .. Len(inFlight) - 1
        PROVE  t[j] = IF j < i THEN inFlight[j] ELSE inFlight[j + 1]
    <3>1. t[j] = IF j <= i - 1 THEN a[j] ELSE b[j - (i - 1)]
      BY <1>4, <2>1, <2>2
    <3>2. CASE j < i
      BY <1>0, <1>1, <3>1, <3>2
    <3>3. CASE ~ (j < i)
      <4>1. j - (i - 1) \in 1 .. Len(inFlight) - i /\ i + (j - (i - 1)) = j + 1
        BY <1>0, <3>3
      <4> QED BY <1>0, <1>2, <3>1, <3>3, <4>1
    <3> QED BY <3>2, <3>3
  <2> QED BY <2>3, <2>4
<1>6. \A j, k \in 1 .. Len(inFlight) : inFlight[j] = inFlight[k] => j = k
  BY <1>0 DEF IsInjective
<1>7. IsInjective(t)
  BY <1>0, <1>5, <1>6 DEF IsInjective
<1>8. inFlight[i] \in Messages /\ inFlight[i] \in Range(inFlight)
  BY <1>0 DEF Range
<1>9. ASSUME NEW x \in Range(t) PROVE x \in Range(inFlight) \ {inFlight[i]}
  BY <1>0, <1>5, <1>6, <1>9 DEF Range
<1>10. ASSUME NEW x \in Range(inFlight), x # inFlight[i] PROVE x \in Range(t)
  <2>1. PICK k \in 1 .. Len(inFlight) : inFlight[k] = x /\ k # i
    BY <1>0, <1>10 DEF Range
  <2>2. CASE k < i
    <3>1. k \in 1 .. Len(inFlight) - 1 /\ t[k] = x
      BY <1>0, <1>5, <2>1, <2>2
    <3> QED BY <1>5, <3>1 DEF Range
  <2>3. CASE k > i
    <3>1. k - 1 \in 1 .. Len(inFlight) - 1 /\ t[k - 1] = x
      BY <1>0, <1>5, <2>1, <2>3
    <3> QED BY <1>5, <3>1 DEF Range
  <2> QED BY <1>0, <2>1, <2>2, <2>3
<1>11. Range(t) = Range(inFlight) \ {inFlight[i]}
  BY <1>9, <1>10
<1> QED BY <1>3, <1>4, <1>7, <1>8, <1>11

(* heappop takes the top of the heap.                                      *)
LEMMA PopRange ==
    ASSUME NEW s \in Seq(Messages), s # <<>>, IsInjective(s)
    PROVE  /\ Tail(s) \in Seq(Messages) /\ IsInjective(Tail(s))
           /\ Head(s) \in Messages /\ Head(s) \in Range(s) /\ Head(s) = s[1]
           /\ Range(Tail(s)) = Range(s) \ {Head(s)}
           /\ DOMAIN Tail(s) = 1 .. Len(s) - 1 /\ Len(s) >= 1
           /\ \A q \in 1 .. Len(s) - 1 : Tail(s)[q] = s[q + 1]
<1>1. 1 \in 1 .. Len(s) /\ Len(s) \in Nat /\ Head(s) = s[1]
  OBVIOUS
<1>2. Tail(s) = SubSeq(s, 1 + 1, Len(s))
  OBVIOUS
<1>3. {s[i] : i \in 1 .. 1} = {Head(s)}
  <2>1. \A i : i \in 1 .. 1 <=> i = 1
    OBVIOUS
  <2> QED BY <1>1, <2>1
<1>4. LET r == SubSeq(s, 1 + 1, Len(s))
          gone == {s[i] : i \in 1 .. 1}
      IN  /\ r \in Seq(Messages) /\ IsInjective(r)
          /\ gone \subseteq Range(s) /\ gone \subseteq Messages
          /\ Range(r) = Range(s) \ gone
  BY <1>1, SuffixRange
<1>5. /\ Tail(s) \in Seq(Messages) /\ IsInjective(Tail(s))
      /\ Head(s) \in Messages /\ Head(s) \in Range(s)
      /\ Range(Tail(s)) = Range(s) \ {Head(s)}
  BY <1>2, <1>3, <1>4, Zenon
<1>6. /\ DOMAIN Tail(s) = 1 .. Len(s) - 1 /\ Len(s) >= 1
      /\ \A q \in 1 .. Len(s) - 1 : Tail(s)[q] = s[q + 1]
  BY <1>1
<1> QED BY <1>1, <1>5, <1>6

(* Every accepted message stays in one place.                              *)
LEMMA QueuePlacesStep ==
    ASSUME QueuePlaces, [PQ!Next]_(PQ!vars)
    PROVE  QueuePlaces'
<1>0. /\ heap \in Seq(Messages) /\ inFlight \in Seq(Messages) /\ accepted \in Seq(Messages)
      /\ IsInjective(heap) /\ IsInjective(inFlight)
  BY DEF QueuePlaces
<1>1. ASSUME NEW m \in Messages, Accepts(m) PROVE QueuePlaces'
  <2>1. m \notin Range(accepted) /\ m \notin Range(heap)
    BY <1>1 DEF Accepts, QueuePlaces
  <2>2. heap' \in Seq(Messages) /\ Range(heap') = Range(heap) \cup {m} /\ IsInjective(heap')
    BY <1>0, <1>1, <2>1, PushRange DEF Accepts
  <2>3. accepted' \in Seq(Messages) /\ Range(accepted') = Range(accepted) \cup {m}
    BY <1>0, <1>1, AppendRange DEF Accepts
  <2>4. UNCHANGED <<inFlight, pqAcked, pqSeen>>
    BY <1>1 DEF Accepts
  <2> QED BY <2>1, <2>2, <2>3, <2>4 DEF QueuePlaces
<1>2. ASSUME NEW i \in DOMAIN inFlight, Returns(i) PROVE QueuePlaces'
  <2> DEFINE m == inFlight[i]
  <2>1. /\ inFlight' \in Seq(Messages) /\ IsInjective(inFlight') /\ m \in Messages
        /\ m \in Range(inFlight) /\ Range(inFlight') = Range(inFlight) \ {m}
    BY <1>0, <1>2, LeaveFlightRange DEF Returns
  <2>2. PQ!Push(m) /\ UNCHANGED <<pqAcked, accepted, pqSeen>>
    BY <1>2 DEF Returns
  <2> HIDE DEF m
  <2>3. m \notin Range(heap)
    BY <2>1 DEF QueuePlaces
  <2>4. heap' \in Seq(Messages) /\ Range(heap') = Range(heap) \cup {m} /\ IsInjective(heap')
    BY <1>0, <2>1, <2>2, <2>3, PushRange
  <2> QED BY <2>1, <2>2, <2>3, <2>4 DEF QueuePlaces
<1>3. ASSUME Delivers PROVE QueuePlaces'
  <2> DEFINE m == Head(heap)
  <2>1. /\ heap' \in Seq(Messages) /\ IsInjective(heap')
        /\ m \in Messages /\ m \in Range(heap) /\ Range(heap') = Range(heap) \ {m}
    BY <1>0, <1>3, PopRange DEF Delivers
  <2>2. /\ inFlight' = Append(inFlight, m) /\ pqSeen' = pqSeen \cup {m}
        /\ UNCHANGED <<pqAcked, accepted>>
    BY <1>3 DEF Delivers
  <2> HIDE DEF m
  <2>3. m \notin Range(inFlight)
    BY <2>1 DEF QueuePlaces
  <2>4. /\ inFlight' \in Seq(Messages) /\ Range(inFlight') = Range(inFlight) \cup {m}
        /\ IsInjective(inFlight')
    BY <1>0, <2>1, <2>2, <2>3, AppendRange
  <2> QED BY <2>1, <2>2, <2>3, <2>4 DEF QueuePlaces
<1>4. ASSUME NEW i \in DOMAIN inFlight, Settles(i) PROVE QueuePlaces'
  <2> DEFINE m == inFlight[i]
  <2>1. /\ inFlight' \in Seq(Messages) /\ IsInjective(inFlight')
        /\ m \in Range(inFlight) /\ Range(inFlight') = Range(inFlight) \ {m}
    BY <1>0, <1>4, LeaveFlightRange DEF Settles
  <2>2. pqAcked' = pqAcked \cup {m} /\ UNCHANGED <<heap, accepted, pqSeen>>
    BY <1>4 DEF Settles
  <2> HIDE DEF m
  <2> QED BY <2>1, <2>2 DEF QueuePlaces
<1>5. ASSUME UNCHANGED <<heap, inFlight, pqAcked, accepted, pqSeen>> PROVE QueuePlaces'
  BY <1>5 DEF QueuePlaces
<1> QED BY <1>1, <1>2, <1>3, <1>4, <1>5, QueueSteps

(* A new queue is empty.                                                   *)
LEMMA QueueInit == PQ!Init => QueuePlaces /\ HeapOrder /\ FirstInOrder
<1> SUFFICES ASSUME PQ!Init PROVE QueuePlaces /\ HeapOrder /\ FirstInOrder
  OBVIOUS
<1>1. /\ heap = <<>> /\ inFlight = <<>> /\ accepted = <<>> /\ pqAcked = {} /\ pqSeen = {}
      /\ Range(<<>>) = {} /\ IsInjective(<<>>) /\ <<>> \in Seq(Messages)
  BY DEF PQ!Init, Range, IsInjective
<1> QED BY <1>1 DEF QueuePlaces, HeapOrder, FirstInOrder

(* A push leaves the messages that were in the heap in their order.        *)
LEMMA PushKeepsOrder ==
    ASSUME NEW m \in Messages, heap \in Seq(Messages), PQ!Push(m),
           NEW p \in DOMAIN heap', NEW q \in DOMAIN heap', heap'[p] # m, heap'[q] # m
    PROVE  \E a, b \in DOMAIN heap :
              /\ heap[a] = heap'[p] /\ heap[b] = heap'[q]
              /\ a < b => p < q
<1>1. PICK k \in 0 .. Len(heap) :
          /\ DOMAIN heap' = 1 .. Len(heap) + 1
          /\ \A r \in 1 .. Len(heap) + 1 :
                heap'[r] = IF r <= k THEN heap[r] ELSE IF r = k + 1 THEN m ELSE heap[r - 1]
  BY PushPlace
<1>2. DOMAIN heap = 1 .. Len(heap) /\ Len(heap) \in Nat
  OBVIOUS
<1> DEFINE Old(r) == IF r <= k THEN r ELSE r - 1
<1>3. ASSUME NEW r \in DOMAIN heap', heap'[r] # m
      PROVE  Old(r) \in DOMAIN heap /\ heap[Old(r)] = heap'[r] /\ r # k + 1
  BY <1>1, <1>2, <1>3
<1>4. Old(p) < Old(q) => p < q
  BY <1>1, <1>2
<1> QED BY <1>3, <1>4

(* The heap keeps unseen messages of one priority in the order of enqueue. *)
LEMMA HeapOrderStep ==
    ASSUME QueuePlaces, HeapOrder, [PQ!Next]_(PQ!vars)
    PROVE  HeapOrder'
<1>0. /\ heap \in Seq(Messages) /\ inFlight \in Seq(Messages) /\ accepted \in Seq(Messages)
      /\ IsInjective(heap) /\ IsInjective(inFlight)
  BY DEF QueuePlaces
<1>1. ASSUME NEW m \in Messages, Accepts(m) PROVE HeapOrder'
  <2>0. /\ PQ!Push(m) /\ accepted' = Append(accepted, m) /\ UNCHANGED pqSeen
        /\ m \notin Range(accepted)
    BY <1>1 DEF Accepts
  <2>1. /\ DOMAIN accepted = 1 .. Len(accepted) /\ Len(accepted) \in Nat
        /\ DOMAIN accepted' = 1 .. Len(accepted) + 1
        /\ \A i \in 1 .. Len(accepted) : accepted'[i] = accepted[i] /\ accepted[i] # m
        /\ accepted'[Len(accepted) + 1] = m
    BY <1>0, <2>0 DEF Range
  <2> SUFFICES ASSUME NEW i \in DOMAIN accepted', NEW j \in DOMAIN accepted',
                      NEW p \in DOMAIN heap', NEW q \in DOMAIN heap', i < j,
                      Priority[accepted'[i]] = Priority[accepted'[j]],
                      heap'[p] = accepted'[i], accepted'[i] \notin pqSeen,
                      heap'[q] = accepted'[j], accepted'[j] \notin pqSeen
               PROVE  p < q
    BY <2>0 DEF HeapOrder, Older
  <2>2. i \in DOMAIN accepted /\ accepted'[i] = accepted[i] /\ heap'[p] # m
    BY <2>1
  <2>3. CASE j \in DOMAIN accepted
    <3>1. accepted'[j] = accepted[j] /\ heap'[q] # m
      BY <2>1, <2>3
    <3>2. PICK a, b \in DOMAIN heap :
              heap[a] = heap'[p] /\ heap[b] = heap'[q] /\ (a < b => p < q)
      BY <1>0, <2>0, <2>2, <3>1, PushKeepsOrder
    <3>3. a < b
      BY <2>2, <2>3, <3>1, <3>2 DEF HeapOrder, Older
    <3> QED BY <3>2, <3>3
  <2>4. CASE j \notin DOMAIN accepted
    <3>1. heap'[q] = m /\ Priority[heap'[p]] = Priority[m]
      BY <2>1, <2>4
    <3>2. PICK k \in 0 .. Len(heap) :
              /\ DOMAIN heap' = 1 .. Len(heap) + 1
              /\ \A r \in 1 .. Len(heap) + 1 :
                    heap'[r] = IF r <= k THEN heap[r] ELSE IF r = k + 1 THEN m ELSE heap[r - 1]
              /\ \A r \in 1 .. Len(heap) : r <= k <=> Priority[heap[r]] >= Priority[m]
      BY <1>0, <2>0, PushPlace
    <3>3. \A r \in 1 .. Len(heap) : heap[r] # m
      <4>1. m \notin Range(heap)
        BY <2>0 DEF QueuePlaces
      <4> QED BY <1>0, <4>1 DEF Range
    <3>4. q = k + 1
      <4>1. Len(heap) \in Nat /\ q \in 1 .. Len(heap) + 1
        BY <1>0, <3>2
      <4>2. CASE q <= k
        <5>1. q \in 1 .. Len(heap) /\ heap'[q] = heap[q]
          BY <3>2, <4>1, <4>2
        <5> QED BY <3>1, <3>3, <5>1
      <4>3. CASE q > k + 1
        <5>1. q - 1 \in 1 .. Len(heap) /\ heap'[q] = heap[q - 1]
          BY <3>2, <4>1, <4>3
        <5> QED BY <3>1, <3>3, <5>1
      <4> QED BY <4>1, <4>2, <4>3
    <3>5. Priority[m] \in Nat
      BY PartsAssumption DEF PQ!PriorityAssumption
    <3>6. p <= k
      <4>1. p \in 1 .. Len(heap) + 1 /\ p # k + 1 /\ Len(heap) \in Nat
        BY <1>0, <2>2, <3>2
      <4>2. CASE p > k + 1
        <5>1. p - 1 \in 1 .. Len(heap) /\ heap'[p] = heap[p - 1] /\ ~ (p - 1 <= k)
          BY <3>2, <4>1, <4>2
        <5>2. ~ (Priority[heap[p - 1]] >= Priority[m])
          BY <3>2, <5>1
        <5> QED BY <3>1, <3>5, <5>1, <5>2
      <4> QED BY <4>1, <4>2
    <3> QED BY <1>0, <3>2, <3>4, <3>6
  <2> QED BY <2>3, <2>4
<1>2. ASSUME NEW i0 \in DOMAIN inFlight, Returns(i0) PROVE HeapOrder'
  <2>1. inFlight[i0] \in Messages /\ inFlight[i0] \in Range(inFlight)
    BY <1>0 DEF Range
  <2>2. inFlight[i0] \in pqSeen
    BY <2>1 DEF QueuePlaces
  <2>3. PQ!Push(inFlight[i0]) /\ UNCHANGED <<accepted, pqSeen>>
    BY <1>2 DEF Returns
  <2> SUFFICES ASSUME NEW i \in DOMAIN accepted, NEW j \in DOMAIN accepted,
                      NEW p \in DOMAIN heap', NEW q \in DOMAIN heap', Older(i, j),
                      heap'[p] = accepted[i], accepted[i] \notin pqSeen,
                      heap'[q] = accepted[j], accepted[j] \notin pqSeen
               PROVE  p < q
    BY <2>3 DEF HeapOrder, Older
  <2>4. heap'[p] # inFlight[i0] /\ heap'[q] # inFlight[i0]
    BY <2>2
  <2>5. PICK a, b \in DOMAIN heap :
            heap[a] = heap'[p] /\ heap[b] = heap'[q] /\ (a < b => p < q)
    BY <1>0, <2>1, <2>3, <2>4, PushKeepsOrder
  <2>6. a < b
    BY <2>5 DEF HeapOrder
  <2> QED BY <2>5, <2>6
<1>3. ASSUME Delivers PROVE HeapOrder'
  <2>1. /\ heap' = Tail(heap) /\ heap # <<>> /\ pqSeen \subseteq pqSeen' /\ UNCHANGED accepted
    BY <1>3 DEF Delivers
  <2>2. /\ DOMAIN heap' = 1 .. Len(heap) - 1 /\ DOMAIN heap = 1 .. Len(heap)
        /\ \A q \in 1 .. Len(heap) - 1 : heap'[q] = heap[q + 1]
        /\ Len(heap) \in Nat
    BY <1>0, <2>1, PopRange
  <2> SUFFICES ASSUME NEW i \in DOMAIN accepted, NEW j \in DOMAIN accepted,
                      NEW p \in DOMAIN heap', NEW q \in DOMAIN heap', Older(i, j),
                      heap'[p] = accepted[i], accepted[i] \notin pqSeen',
                      heap'[q] = accepted[j], accepted[j] \notin pqSeen'
               PROVE  p < q
    BY <2>1 DEF HeapOrder, Older
  <2>3. p + 1 \in DOMAIN heap /\ q + 1 \in DOMAIN heap
    BY <2>2
  <2>4. heap[p + 1] = accepted[i] /\ heap[q + 1] = accepted[j]
    BY <2>2
  <2>5. p + 1 < q + 1
    BY <2>1, <2>3, <2>4 DEF HeapOrder
  <2> QED BY <2>2, <2>5
<1>4. ASSUME UNCHANGED <<heap, accepted, pqSeen>> PROVE HeapOrder'
  BY <1>4 DEF HeapOrder, Older
<1>5. ASSUME NEW i \in DOMAIN inFlight, Settles(i) PROVE HeapOrder'
  BY <1>4, <1>5 DEF Settles
<1> QED BY <1>1, <1>2, <1>3, <1>4, <1>5, QueueSteps

(* Hence what is delivered for the first time is the oldest of its kind.   *)
LEMMA FirstInOrderStep ==
    ASSUME QueuePlaces, HeapOrder, FirstInOrder, [PQ!Next]_(PQ!vars)
    PROVE  FirstInOrder'
<1>0. heap \in Seq(Messages) /\ accepted \in Seq(Messages) /\ IsInjective(heap)
  BY DEF QueuePlaces
<1>1. ASSUME NEW m \in Messages, Accepts(m) PROVE FirstInOrder'
  <2>1. accepted' = Append(accepted, m) /\ UNCHANGED pqSeen /\ m \notin Range(accepted)
    BY <1>1 DEF Accepts
  <2>2. /\ DOMAIN accepted = 1 .. Len(accepted) /\ Len(accepted) \in Nat
        /\ DOMAIN accepted' = 1 .. Len(accepted) + 1
        /\ \A i \in 1 .. Len(accepted) : accepted'[i] = accepted[i]
        /\ accepted'[Len(accepted) + 1] = m
    BY <1>0, <2>1
  <2>3. m \notin pqSeen
    BY <2>1 DEF QueuePlaces
  <2> QED BY <2>1, <2>2, <2>3 DEF FirstInOrder, Older
<1>2. ASSUME Delivers PROVE FirstInOrder'
  <2> DEFINE m == Head(heap)
  <2>1. heap # <<>> /\ pqSeen' = pqSeen \cup {m} /\ UNCHANGED accepted
    BY <1>2 DEF Delivers
  <2>2. m = heap[1] /\ 1 \in DOMAIN heap /\ DOMAIN heap = 1 .. Len(heap) /\ Len(heap) \in Nat
    BY <1>0, <2>1
  <2> HIDE DEF m
  <2> SUFFICES ASSUME NEW i \in DOMAIN accepted, NEW j \in DOMAIN accepted, Older(i, j),
                      accepted[j] \in pqSeen', accepted[i] \notin pqSeen'
               PROVE  FALSE
    BY <2>1 DEF FirstInOrder, Older
  <2>3. accepted[i] \notin pqSeen /\ accepted[i] # m
    BY <2>1
  <2>4. accepted[j] = m /\ accepted[j] \notin pqSeen
    BY <2>1, <2>3 DEF FirstInOrder
  <2>5. accepted[i] \in Range(heap)
    BY <2>3 DEF QueuePlaces, Range
  <2>6. PICK p \in DOMAIN heap : heap[p] = accepted[i]
    BY <2>5 DEF Range
  <2>7. p < 1
    BY <2>2, <2>3, <2>4, <2>6 DEF HeapOrder
  <2> QED BY <2>2, <2>6, <2>7
<1>3. ASSUME UNCHANGED <<accepted, pqSeen>> PROVE FirstInOrder'
  BY <1>3 DEF FirstInOrder, Older
<1>4. ASSUME NEW i \in DOMAIN inFlight, Settles(i) \/ Returns(i) PROVE FirstInOrder'
  BY <1>3, <1>4 DEF Settles, Returns
<1> QED BY <1>1, <1>2, <1>3, <1>4, QueueSteps

(* The order of the component's own property.                              *)
LEMMA FirstDeliveries == FirstInOrder => PQ!FirstDeliveryInOrder
  BY DEF FirstInOrder, Older, PQ!FirstDeliveryInOrder

(* Each step keeps the three parts of the priority queue's invariant.      *)
LEMMA QueueInvStep ==
    /\ QueuePlaces /\ HeapOrder /\ FirstInOrder /\ [PQ!Next]_(PQ!vars)
    => (QueuePlaces /\ HeapOrder /\ FirstInOrder)'
  BY QueuePlacesStep, HeapOrderStep, FirstInOrderStep

(* Steps of the other parts leave the priority queue alone.                *)
LEMMA OnlyPriority == [Next]_vars => [PQ!Next]_(PQ!vars)
  BY DEF Next, vars, NextPriority, NextBackpressure, NextDeduplication, NextRedelivery,
         NextLifecycle, NextPipeline, NextSchemas, NextRetry, pqVars, PQ!vars

(* Within one priority messages are delivered for the first time in the    *)
(* order of their enqueue calls, for any number of workers whose dequeues, *)
(* nacks and timeouts interleave (queue.py 172-262).                       *)
THEOREM FifoWithinPriority == Spec => []FirstDeliveryInOrder
<1>1. Init => QueuePlaces /\ HeapOrder /\ FirstInOrder
  BY QueueInit DEF Init
<1>2. FirstInOrder => FirstDeliveryInOrder
  BY FirstDeliveries DEF FirstDeliveryInOrder
<1> QED BY <1>1, <1>2, OnlyPriority, QueueInvStep, PTL DEF Spec

(* Every step of the heap-based queue is a step of the abstract queue or   *)
(* changes nothing that the abstract queue sees.                           *)
LEMMA QueueSimulates ==
    ASSUME QueuePlaces, [PQ!Next]_(PQ!vars)
    PROVE  PQ!Abstract!Next \/ UNCHANGED PQ!Abstract!vars
<1> USE DEF PQ!Abstract!Next
<1>0. /\ heap \in Seq(Messages) /\ inFlight \in Seq(Messages) /\ accepted \in Seq(Messages)
      /\ IsInjective(heap) /\ IsInjective(inFlight)
  BY DEF QueuePlaces
<1>1. /\ PQ!Ready = Range(heap) /\ PQ!InFlight = Range(inFlight)
      /\ PQ!Ready' = Range(heap') /\ PQ!InFlight' = Range(inFlight')
  BY DEF PQ!Ready, PQ!InFlight, PQ!Range, Range
<1>2. ASSUME NEW m \in Messages, Accepts(m) PROVE PQ!Abstract!Accept(m)
  <2>1. m \notin Range(heap) \cup Range(inFlight) \cup pqAcked
    BY <1>2 DEF Accepts, QueuePlaces
  <2>2. Range(heap') = Range(heap) \cup {m} /\ UNCHANGED <<inFlight, pqAcked>>
    BY <1>0, <1>2, PushRange DEF Accepts
  <2> QED BY <1>1, <2>1, <2>2 DEF PQ!Abstract!Accept, PQ!Abstract!Accepted
<1>3. ASSUME NEW i \in DOMAIN inFlight, Returns(i)
      PROVE  inFlight[i] \in Messages /\ PQ!Abstract!Return(inFlight[i])
  <2>1. /\ inFlight[i] \in Messages /\ inFlight[i] \in Range(inFlight)
        /\ Range(inFlight') = Range(inFlight) \ {inFlight[i]}
    BY <1>0, <1>3, LeaveFlightRange DEF Returns
  <2>2. Range(heap') = Range(heap) \cup {inFlight[i]} /\ UNCHANGED pqAcked
    BY <1>0, <1>3, <2>1, PushRange DEF Returns
  <2> QED BY <1>1, <2>1, <2>2 DEF PQ!Abstract!Return
<1>4. ASSUME Delivers PROVE Head(heap) \in Messages /\ PQ!Abstract!Deliver(Head(heap))
  <2>1. /\ Head(heap) \in Messages /\ Head(heap) \in Range(heap)
        /\ Range(heap') = Range(heap) \ {Head(heap)}
    BY <1>0, <1>4, PopRange DEF Delivers
  <2>2. Range(inFlight') = Range(inFlight) \cup {Head(heap)} /\ UNCHANGED pqAcked
    BY <1>0, <1>4, <2>1, AppendRange DEF Delivers
  <2> QED BY <1>1, <2>1, <2>2 DEF PQ!Abstract!Deliver
<1>5. ASSUME NEW i \in DOMAIN inFlight, Settles(i)
      PROVE  inFlight[i] \in Messages /\ PQ!Abstract!Settle(inFlight[i])
  <2>1. /\ inFlight[i] \in Messages /\ inFlight[i] \in Range(inFlight)
        /\ Range(inFlight') = Range(inFlight) \ {inFlight[i]}
    BY <1>0, <1>5, LeaveFlightRange DEF Settles
  <2>2. pqAcked' = pqAcked \cup {inFlight[i]} /\ UNCHANGED heap
    BY <1>5 DEF Settles
  <2> QED BY <1>1, <2>1, <2>2 DEF PQ!Abstract!Settle
<1>6. ASSUME UNCHANGED <<heap, inFlight, pqAcked>> PROVE UNCHANGED PQ!Abstract!vars
  BY <1>1, <1>6 DEF PQ!Abstract!vars
<1> QED BY <1>2, <1>3, <1>4, <1>5, <1>6, QueueSteps

(* The priority queue, whose pushes land in the middle of the heap and     *)
(* whose dequeue is two critical sections, implements the abstract         *)
(* point-to-point queue: no message is lost, delivered to two consumers at *)
(* once, or back after its acknowledgment (queue.py 172-262).              *)
THEOREM PriorityQueueRefines == Spec => ImplementsPointToPoint
<1>1. Init => QueuePlaces /\ HeapOrder /\ FirstInOrder
  BY QueueInit DEF Init
<1>2. Init => PQ!Abstract!Init
  BY DEF Init, PQ!Init, PQ!Abstract!Init, PQ!Ready, PQ!InFlight, PQ!Range
<1>3. QueuePlaces /\ [Next]_vars => [PQ!Abstract!Next]_(PQ!Abstract!vars)
  BY OnlyPriority, QueueSimulates
<1> QED BY <1>1, <1>2, <1>3, OnlyPriority, QueueInvStep, PTL
        DEF Spec, ImplementsPointToPoint, PQ!ImplementsPointToPoint, PQ!Abstract!Spec

-----------------------------------------------------------------------------
(* Deduplication.  Where each thread is and what it has in its hands.      *)
AnyId == Ids \cup {CHOOSE m \in Ids : TRUE}

DedupTypes ==
    /\ ddPc \in [Threads -> {"idle", "add", "append", "trim", "pop", "discard", "publish"}]
    /\ id \in [Threads -> AnyId] /\ old \in [Threads -> AnyId]
    /\ order \in Seq(Ids) /\ log \in Seq(Ids)
    /\ \A th \in Threads : ddPc[th] # "idle" => id[th] \in Ids

(* What keeps NoLeak: while _order is too long some thread is in the loop  *)
(* that shortens it, and an id of _seen that is not in _order is either    *)
(* about to be appended or about to be discarded.                          *)
Trimming(th) == ddPc[th] \in {"trim", "pop", "discard"}

NoneForgotten ==
    /\ Len(order) > WindowSize => \E th \in Threads : Trimming(th)
    /\ \A m \in ddSeen :
          \/ m \in ToSet(order)
          \/ \E th \in Threads : ddPc[th] = "append" /\ id[th] = m
          \/ \E th \in Threads : ddPc[th] = "discard" /\ old[th] = m

(* list.append and list.pop(0), as far as the contents go.                 *)
LEMMA AppendIdSet ==
    ASSUME NEW S, NEW s \in Seq(S), NEW x \in S
    PROVE  ToSet(Append(s, x)) = ToSet(s) \cup {x}
<1>1. ToSet(Append(s, x)) = Range(Append(s, x)) /\ ToSet(s) = Range(s)
  BY DEF ToSet, Range
<1> QED BY <1>1, AppendRange

(* pop(0) of a window without repetitions removes one id.                  *)
LEMMA PopIdSet ==
    ASSUME NEW S, NEW s \in Seq(S), s # <<>>
    PROVE  /\ Tail(s) \in Seq(S) /\ Head(s) \in S
           /\ ToSet(s) = ToSet(Tail(s)) \cup {Head(s)}
           /\ IsInjective(s) => IsInjective(Tail(s)) /\ Head(s) \notin ToSet(Tail(s))
<1> DEFINE t == Tail(s)
<1>1. /\ t \in Seq(S) /\ Head(s) \in S /\ Head(s) = s[1]
      /\ DOMAIN s = 1 .. Len(s) /\ Len(s) \in Nat /\ Len(s) >= 1
      /\ DOMAIN t = 1 .. Len(s) - 1 /\ \A q \in 1 .. Len(s) - 1 : t[q] = s[q + 1]
  OBVIOUS
<1> HIDE DEF t
<1>2. ASSUME NEW x \in ToSet(s) PROVE x \in ToSet(t) \cup {Head(s)}
  <2>1. PICK q \in 1 .. Len(s) : s[q] = x
    BY <1>1, <1>2 DEF ToSet
  <2>2. CASE q # 1
    <3>1. q - 1 \in 1 .. Len(s) - 1 /\ t[q - 1] = x
      BY <1>1, <2>1, <2>2
    <3> QED BY <1>1, <3>1 DEF ToSet
  <2> QED BY <1>1, <2>1, <2>2
<1>3. ASSUME NEW x \in ToSet(t) \cup {Head(s)} PROVE x \in ToSet(s)
  <2>1. CASE x = Head(s)
    BY <1>1, <2>1 DEF ToSet
  <2>2. CASE x \in ToSet(t)
    <3>1. PICK q \in 1 .. Len(s) - 1 : t[q] = x
      BY <1>1, <2>2 DEF ToSet
    <3>2. q + 1 \in 1 .. Len(s) /\ s[q + 1] = x
      BY <1>1, <3>1
    <3> QED BY <1>1, <3>2 DEF ToSet
  <2> QED BY <1>3, <2>1, <2>2
<1>4. ASSUME IsInjective(s) PROVE IsInjective(t) /\ Head(s) \notin ToSet(t)
  <2>1. \A p, q \in 1 .. Len(s) : s[p] = s[q] => p = q
    BY <1>1, <1>4 DEF IsInjective
  <2>2. IsInjective(t)
    BY <1>1, <2>1 DEF IsInjective
  <2>3. \A q \in 1 .. Len(s) - 1 : t[q] # s[1]
    BY <1>1, <2>1
  <2> QED BY <1>1, <2>2, <2>3 DEF ToSet
<1> QED BY <1>1, <1>2, <1>3, <1>4 DEF t

(* Every statement of every thread keeps the types.                        *)
LEMMA DedupTypesStep ==
    ASSUME DedupTypes, [DD!Next]_(DD!vars)
    PROVE  DedupTypes'
<1>0. /\ ddPc \in [Threads -> {"idle", "add", "append", "trim", "pop", "discard", "publish"}]
      /\ id \in [Threads -> AnyId] /\ old \in [Threads -> AnyId]
      /\ order \in Seq(Ids) /\ log \in Seq(Ids)
      /\ \A th \in Threads : ddPc[th] # "idle" => id[th] \in Ids
      /\ Ids \subseteq AnyId
  BY DEF DedupTypes, AnyId
<1>1. ASSUME NEW th \in Threads, NEW m \in Ids, DD!Test(th, m) PROVE DedupTypes'
  BY <1>0, <1>1 DEF DD!Test, DedupTypes
<1>2. ASSUME NEW th \in Threads, DD!Add(th) \/ DD!Trim(th) \/ DD!Discard(th)
      PROVE  DedupTypes'
  BY <1>0, <1>2 DEF DD!Add, DD!Trim, DD!Discard, DedupTypes
<1>3. ASSUME NEW th \in Threads, DD!AppendId(th) PROVE DedupTypes'
  <2>1. id[th] \in Ids /\ order' = Append(order, id[th])
    BY <1>0, <1>3 DEF DD!AppendId
  <2>2. order' \in Seq(Ids)
    BY <1>0, <2>1
  <2> QED BY <1>0, <1>3, <2>2 DEF DD!AppendId, DedupTypes
<1>4. ASSUME NEW th \in Threads, DD!PopOldest(th) PROVE DedupTypes'
  <2>1. CASE order = <<>>
    BY <1>0, <1>4, <2>1 DEF DD!PopOldest, DedupTypes
  <2>2. CASE order # <<>>
    <3>1. Tail(order) \in Seq(Ids) /\ Head(order) \in Ids
      BY <1>0, <2>2, PopIdSet
    <3> QED BY <1>0, <1>4, <2>2, <3>1 DEF DD!PopOldest, DedupTypes
  <2> QED BY <2>1, <2>2
<1>5. ASSUME NEW th \in Threads, DD!Publish(th) PROVE DedupTypes'
  <2>1. ddPc[th] = "publish" /\ (log' = Append(log, id[th]) \/ log' = log)
    BY <1>5 DEF DD!Publish
  <2>2. id[th] \in Ids
    BY <1>0, <2>1
  <2>3. Append(log, id[th]) \in Seq(Ids)
    BY <1>0, <2>2
  <2>4. log' \in Seq(Ids)
    BY <1>0, <2>1, <2>3
  <2> QED BY <1>0, <1>5, <2>2, <2>4 DEF DD!Publish, DedupTypes
<1>6. ASSUME UNCHANGED DD!vars PROVE DedupTypes'
  BY <1>0, <1>6 DEF DD!vars, DedupTypes
<1> QED BY <1>1, <1>2, <1>3, <1>4, <1>5, <1>6 DEF DD!Next

(* No interleaving leaves an id behind that nothing would discard.         *)
LEMMA NoneForgottenStep ==
    ASSUME DedupTypes, NoneForgotten, [DD!Next]_(DD!vars)
    PROVE  NoneForgotten'
<1>0. /\ ddPc \in [Threads -> {"idle", "add", "append", "trim", "pop", "discard", "publish"}]
      /\ id \in [Threads -> AnyId] /\ old \in [Threads -> AnyId]
      /\ order \in Seq(Ids) /\ Len(order) \in Nat /\ WindowSize \in Nat
      /\ \A th \in Threads : ddPc[th] # "idle" => id[th] \in Ids
  BY PartsAssumption DEF DedupTypes, DD!DeduplicationAssumption
<1> USE DEF Trimming
<1>1. ASSUME NEW th \in Threads, NEW m \in Ids, DD!Test(th, m) PROVE NoneForgotten'
  <2>1. /\ UNCHANGED <<old, ddSeen, order>> /\ ddPc[th] = "idle"
        /\ \A u \in Threads : u # th => ddPc'[u] = ddPc[u] /\ id'[u] = id[u]
    BY <1>0, <1>1 DEF DD!Test, DD!Busy
  <2> QED BY <2>1 DEF NoneForgotten
<1>2. ASSUME NEW th \in Threads, DD!Add(th) PROVE NoneForgotten'
  <2>1. /\ UNCHANGED <<id, old, order>> /\ ddPc[th] = "add" /\ ddPc'[th] = "append"
        /\ ddSeen' = ddSeen \cup {id[th]}
        /\ \A u \in Threads : u # th => ddPc'[u] = ddPc[u]
    BY <1>0, <1>2 DEF DD!Add
  <2> QED BY <2>1 DEF NoneForgotten
<1>3. ASSUME NEW th \in Threads, DD!AppendId(th) PROVE NoneForgotten'
  <2>1. /\ UNCHANGED <<id, old, ddSeen>> /\ ddPc[th] = "append" /\ ddPc'[th] = "trim"
        /\ order' = Append(order, id[th]) /\ id[th] \in Ids
        /\ \A u \in Threads : u # th => ddPc'[u] = ddPc[u]
    BY <1>0, <1>3 DEF DD!AppendId
  <2>2. ToSet(order') = ToSet(order) \cup {id[th]}
    BY <1>0, <2>1, AppendIdSet
  <2> QED BY <2>1, <2>2 DEF NoneForgotten
<1>4. ASSUME NEW th \in Threads, DD!Trim(th) PROVE NoneForgotten'
  <2>1. /\ UNCHANGED <<id, old, ddSeen, order>> /\ ddPc[th] = "trim"
        /\ ddPc'[th] = IF Len(order) > WindowSize THEN "pop" ELSE "publish"
        /\ \A u \in Threads : u # th => ddPc'[u] = ddPc[u]
    BY <1>0, <1>4 DEF DD!Trim
  <2> QED BY <2>1 DEF NoneForgotten
<1>5. ASSUME NEW th \in Threads, DD!PopOldest(th) PROVE NoneForgotten'
  <2>1. /\ UNCHANGED <<id, ddSeen>> /\ ddPc[th] = "pop"
        /\ \A u \in Threads : u # th => ddPc'[u] = ddPc[u] /\ old'[u] = old[u]
    BY <1>0, <1>5 DEF DD!PopOldest
  <2>2. CASE order = <<>>
    <3>1. Len(order') = 0 /\ UNCHANGED <<old, order>>
      BY <1>5, <2>2 DEF DD!PopOldest
    <3> QED BY <1>0, <2>1, <3>1 DEF NoneForgotten
  <2>3. CASE order # <<>>
    <3>1. ddPc'[th] = "discard" /\ old'[th] = Head(order) /\ order' = Tail(order)
      BY <1>0, <1>5, <2>3 DEF DD!PopOldest
    <3>2. ToSet(order) = ToSet(order') \cup {Head(order)}
      BY <1>0, <2>3, <3>1, PopIdSet
    <3> QED BY <2>1, <3>1, <3>2 DEF NoneForgotten
  <2> QED BY <2>2, <2>3
<1>6. ASSUME NEW th \in Threads, DD!Discard(th) PROVE NoneForgotten'
  <2>1. /\ UNCHANGED <<id, old, order>> /\ ddPc[th] = "discard" /\ ddPc'[th] = "trim"
        /\ ddSeen' = ddSeen \ {old[th]}
        /\ \A u \in Threads : u # th => ddPc'[u] = ddPc[u]
    BY <1>0, <1>6 DEF DD!Discard
  <2> QED BY <2>1 DEF NoneForgotten
<1>7. ASSUME NEW th \in Threads, DD!Publish(th) PROVE NoneForgotten'
  <2>1. /\ UNCHANGED <<id, old, ddSeen, order>> /\ ddPc[th] = "publish"
        /\ \A u \in Threads : u # th => ddPc'[u] = ddPc[u]
    BY <1>0, <1>7 DEF DD!Publish
  <2> QED BY <2>1 DEF NoneForgotten
<1>8. ASSUME UNCHANGED DD!vars PROVE NoneForgotten'
  BY <1>8 DEF DD!vars, NoneForgotten
<1> QED BY <1>1, <1>2, <1>3, <1>4, <1>5, <1>6, <1>7, <1>8 DEF DD!Next

(* Steps of the other parts leave the middleware alone.                    *)
LEMMA OnlyDeduplication == [Next]_vars => [DD!Next]_(DD!vars)
  BY DEF Next, vars, NextPriority, NextBackpressure, NextDeduplication, NextRedelivery,
         NextLifecycle, NextPipeline, NextSchemas, NextRetry, ddVars, DD!vars

(* At first the window is empty and nothing has been seen.                 *)
LEMMA DedupInit == DD!Init => DedupTypes /\ NoneForgotten
<1> SUFFICES ASSUME DD!Init PROVE DedupTypes /\ NoneForgotten
  OBVIOUS
<1>1. /\ order = <<>> /\ log = <<>> /\ ddSeen = {} /\ WindowSize \in Nat
      /\ <<>> \in Seq(Ids) /\ Len(<<>>) = 0
  BY PartsAssumption DEF DD!Init, DD!DeduplicationAssumption
<1>2. DedupTypes
  BY <1>1 DEF DD!Init, DedupTypes, AnyId
<1>3. NoneForgotten
  BY <1>1 DEF NoneForgotten
<1> QED BY <1>2, <1>3

(* However the statements of any number of threads interleave, the         *)
(* middleware without a lock remembers at most window_size ids when it is  *)
(* at rest, and none that it cannot forget (middleware.py 149-161).        *)
THEOREM MemoryLimited == Spec => []NoLeak
<1>1. DedupTypes /\ NoneForgotten => NoLeak
  <2> SUFFICES ASSUME DedupTypes, NoneForgotten, \A th \in Threads : ~ DD!Busy(th)
               PROVE  Len(order) <= WindowSize /\ ddSeen \subseteq DD!ToSet(order)
    BY DEF NoLeak, DD!NoLeak
  <2>1. Len(order) \in Nat /\ WindowSize \in Nat
    BY PartsAssumption DEF DedupTypes, DD!DeduplicationAssumption
  <2>2. \A th \in Threads : ddPc[th] = "idle"
    BY DEF DD!Busy
  <2>3. Len(order) <= WindowSize
    BY <2>1, <2>2 DEF NoneForgotten, Trimming
  <2>4. ddSeen \subseteq ToSet(order)
    BY <2>2 DEF NoneForgotten
  <2> QED BY <2>3, <2>4 DEF ToSet, DD!ToSet
<1>2. Init => DedupTypes /\ NoneForgotten
  BY DedupInit DEF Init
<1>3. DedupTypes /\ NoneForgotten /\ [Next]_vars => (DedupTypes /\ NoneForgotten)'
  BY OnlyDeduplication, DedupTypesStep, NoneForgottenStep
<1> QED BY <1>1, <1>2, <1>3, PTL DEF Spec

(* DropsDuplicates.  o is the end of l, of length window_size or all of l. *)
Window(o, l) ==
    /\ Len(o) <= Len(l) /\ (Len(o) >= WindowSize \/ Len(o) = Len(l))
    /\ \A k \in 1 .. Len(o) : o[k] = l[(Len(l) - Len(o)) + k]

(* Equal ids in l are more than window_size apart, and so would another m  *)
(* at its end be.                                                          *)
Spaced(l) == \A i, j \in 1 .. Len(l) : i < j /\ l[i] = l[j] => j - i > WindowSize
Fresh(m, l) == \A i \in 1 .. Len(l) : l[i] = m => (Len(l) + 1) - i > WindowSize

(* The thread has appended its id to _order and not yet published it.      *)
Recorded(th) == ddPc[th] \in {"trim", "pop", "discard", "publish"}

(* What holds as long as calls follow one another: _order is the end of    *)
(* what was published, the message under way included once it is recorded, *)
(* _seen has all of it, and the message under way is fresh.                *)
InTurn ==
    /\ \A u, v \in Threads : ddPc[u] # "idle" /\ ddPc[v] # "idle" => u = v
    /\ IsInjective(order) /\ ToSet(order) \subseteq ddSeen /\ Spaced(log)
    /\ (\A th \in Threads : ~Recorded(th)) => Window(order, log)
    /\ \A th \in Threads :
          /\ Recorded(th) => Window(order, Append(log, id[th])) /\ Fresh(id[th], log)
          /\ ddPc[th] \in {"add", "append"} => id[th] \notin ToSet(order)
          /\ ddPc[th] = "append" => id[th] \in ddSeen
          /\ ddPc[th] = "pop" => Len(order) > WindowSize
          /\ ddPc[th] = "discard" => old[th] \notin ToSet(order)
CleanInv == clean => InTurn

(* The window moves on by one message,                                     *)
LEMMA WindowGrows ==
    ASSUME WindowSize \in Nat, NEW o \in Seq(Ids), NEW l \in Seq(Ids), NEW x \in Ids, Window(o, l)
    PROVE  Window(Append(o, x), Append(l, x))
<1> DEFINE n == Len(o)
           m == Len(l)
           p == Append(o, x)
           q == Append(l, x)
<1>1. n \in Nat /\ m \in Nat /\ n <= m /\ (n >= WindowSize \/ n = m)
      /\ \A k \in 1 .. n : o[k] = l[(m - n) + k]
  BY DEF Window
<1>2. Len(p) = n + 1 /\ p[n + 1] = x /\ \A k \in 1 .. n : p[k] = o[k]
  OBVIOUS
<1>3. Len(q) = m + 1 /\ q[m + 1] = x /\ \A k \in 1 .. m : q[k] = l[k]
  OBVIOUS
<1> HIDE DEF n, m, p, q
<1>4. ASSUME NEW k \in 1 .. n + 1
      PROVE  p[k] = q[((m + 1) - (n + 1)) + k]
  <2>1. CASE k = n + 1
    <3>1. ((m + 1) - (n + 1)) + k = m + 1
      BY <1>1, <2>1
    <3> QED BY <1>2, <1>3, <2>1, <3>1
  <2>2. CASE k # n + 1
    <3>1. k \in 1 .. n /\ (m - n) + k \in 1 .. m /\ ((m + 1) - (n + 1)) + k = (m - n) + k
      BY <1>1, <2>2
    <3>2. p[k] = l[(m - n) + k] /\ q[(m - n) + k] = l[(m - n) + k]
      BY <1>1, <1>2, <1>3, <3>1
    <3> QED BY <3>1, <3>2
  <2> QED BY <2>1, <2>2
<1>5. n + 1 <= m + 1 /\ (n + 1 >= WindowSize \/ n + 1 = m + 1)
  BY <1>1
<1>6. Window(p, q)
  BY <1>2, <1>3, <1>4, <1>5 DEF Window
<1> QED BY <1>6 DEF p, q

(* and forgets its oldest, if it is too long;                              *)
LEMMA WindowShrinks ==
    ASSUME WindowSize \in Nat, NEW o \in Seq(Ids), NEW l \in Seq(Ids), Window(o, l),
           Len(o) > WindowSize
    PROVE  Window(Tail(o), l)
<1> DEFINE n == Len(o)
           m == Len(l)
           p == Tail(o)
<1>1. n \in Nat /\ m \in Nat /\ n <= m /\ n > WindowSize /\ n >= 1
      /\ \A k \in 1 .. n : o[k] = l[(m - n) + k]
  BY DEF Window
<1>2. Len(p) = n - 1 /\ \A k \in 1 .. n - 1 : p[k] = o[k + 1]
  <2>1. o # <<>>
    BY <1>1
  <2> QED BY <2>1
<1> HIDE DEF n, m, p
<1>3. ASSUME NEW k \in 1 .. n - 1
      PROVE  p[k] = l[(m - (n - 1)) + k]
  <2>1. k + 1 \in 1 .. n /\ (m - n) + (k + 1) = (m - (n - 1)) + k
    BY <1>1
  <2>2. o[k + 1] = l[(m - n) + (k + 1)]
    BY <1>1, <2>1
  <2> QED BY <1>2, <2>1, <2>2
<1>4. n - 1 <= m /\ n - 1 >= WindowSize
  BY <1>1
<1>5. Window(p, l)
  BY <1>2, <1>3, <1>4 DEF Window, m
<1> QED BY <1>5 DEF p

(* what is not in it is fresh,                                             *)
LEMMA FreshOutside ==
    ASSUME WindowSize \in Nat, NEW o \in Seq(Ids), NEW l \in Seq(Ids), Window(o, l),
           NEW m, m \notin ToSet(o)
    PROVE  Fresh(m, l)
<1> SUFFICES ASSUME NEW i \in 1 .. Len(l), l[i] = m, ~((Len(l) + 1) - i > WindowSize)
             PROVE  FALSE
  BY DEF Fresh
<1>1. /\ Len(o) \in Nat /\ Len(l) \in Nat /\ Len(o) <= Len(l)
      /\ (Len(o) >= WindowSize \/ Len(o) = Len(l)) /\ DOMAIN o = 1 .. Len(o)
      /\ \A k \in 1 .. Len(o) : o[k] = l[(Len(l) - Len(o)) + k]
  BY DEF Window
<1> DEFINE k == i - (Len(l) - Len(o))
<1>2. k \in 1 .. Len(o) /\ (Len(l) - Len(o)) + k = i
  BY <1>1
<1> HIDE DEF k
<1>3. o[k] = m
  BY <1>1, <1>2
<1> QED BY <1>1, <1>2, <1>3 DEF ToSet

(* and may be published.                                                   *)
LEMMA FreshSpaced ==
    ASSUME WindowSize \in Nat, NEW l \in Seq(Ids), NEW m \in Ids, Spaced(l), Fresh(m, l)
    PROVE  Spaced(Append(l, m))
<1> DEFINE n == Len(l)
           q == Append(l, m)
<1>1. n \in Nat /\ Len(q) = n + 1 /\ q[n + 1] = m /\ \A k \in 1 .. n : q[k] = l[k]
  OBVIOUS
<1>2. /\ \A i, j \in 1 .. n : i < j /\ l[i] = l[j] => j - i > WindowSize
      /\ \A i \in 1 .. n : l[i] = m => (n + 1) - i > WindowSize
  BY DEF Spaced, Fresh
<1> HIDE DEF n, q
<1>3. ASSUME NEW i \in 1 .. n + 1, NEW j \in 1 .. n + 1, i < j, q[i] = q[j]
      PROVE  j - i > WindowSize
  <2>1. i \in 1 .. n /\ (j = n + 1 \/ j \in 1 .. n)
    BY <1>1, <1>3
  <2>2. CASE j = n + 1
    BY <1>1, <1>2, <1>3, <2>1, <2>2
  <2>3. CASE j \in 1 .. n
    BY <1>1, <1>2, <1>3, <2>1, <2>3
  <2> QED BY <2>1, <2>2, <2>3
<1>4. Spaced(q)
  BY <1>1, <1>3 DEF Spaced
<1> QED BY <1>4 DEF q

(* Every statement keeps it, until two calls overlap or one raises.        *)
LEMMA CleanStep ==
    ASSUME DedupTypes, CleanInv, [DD!Next]_(DD!vars)
    PROVE  CleanInv'
<1> SUFFICES ASSUME clean' PROVE InTurn'
  BY DEF CleanInv
<1>0. /\ ddPc \in [Threads -> {"idle", "add", "append", "trim", "pop", "discard", "publish"}]
      /\ id \in [Threads -> AnyId] /\ old \in [Threads -> AnyId]
      /\ order \in Seq(Ids) /\ log \in Seq(Ids) /\ WindowSize \in Nat
      /\ \A th \in Threads : ddPc[th] # "idle" => id[th] \in Ids
  BY PartsAssumption DEF DedupTypes, DD!DeduplicationAssumption
<1>1. ASSUME NEW th \in Threads, clean,
             UNCHANGED <<id, order, log>>, ddPc[th] # "idle",
             \A u \in Threads : u # th => ddPc'[u] = ddPc[u],
             Recorded(th) => Recorded(th)', ~Recorded(th) => ~Recorded(th)',
             ToSet(order) \subseteq ddSeen',
             ddPc'[th] \in {"add", "append"} => ddPc[th] \in {"add", "append"},
             ddPc'[th] = "append" => id[th] \in ddSeen',
             ddPc'[th] = "pop" => Len(order) > WindowSize,
             ddPc'[th] = "discard" => old'[th] \notin ToSet(order)
      PROVE  InTurn'
  <2>1. InTurn
    BY <1>1 DEF CleanInv
  <2>2. \A u \in Threads : u # th => ddPc[u] = "idle" /\ ddPc'[u] = "idle"
    BY <1>1, <2>1 DEF InTurn
  <2>3. \A u \in Threads : Recorded(u)' <=> Recorded(u)
    BY <1>1, <2>2 DEF Recorded
  <2>4. \A u, v \in Threads : ddPc'[u] # "idle" /\ ddPc'[v] # "idle" => u = v
    BY <2>2
  <2>5. (\A u \in Threads : ~Recorded(u)') => Window(order, log)
    BY <2>1, <2>3 DEF InTurn
  <2>6. \A u \in Threads : Recorded(u)' => Window(order, Append(log, id[u])) /\ Fresh(id[u], log)
    BY <2>1, <2>3 DEF InTurn
  <2>7. ASSUME NEW u \in Threads
        PROVE  /\ ddPc'[u] \in {"add", "append"} => id[u] \notin ToSet(order)
               /\ ddPc'[u] = "append" => id[u] \in ddSeen'
               /\ ddPc'[u] = "pop" => Len(order) > WindowSize
               /\ ddPc'[u] = "discard" => old'[u] \notin ToSet(order)
    BY <1>1, <2>1, <2>2 DEF InTurn
  <2>8. IsInjective(order) /\ Spaced(log)
    BY <2>1 DEF InTurn
  <2> QED BY <1>1, <2>4, <2>5, <2>6, <2>7, <2>8 DEF InTurn, Window, Fresh, Spaced
<1>2. ASSUME NEW th \in Threads, NEW m \in Ids, DD!Test(th, m) PROVE InTurn'
  <2>1. /\ clean /\ \A u \in Threads : ddPc[u] = "idle"
        /\ UNCHANGED <<old, ddSeen, order, log>>
    BY <1>2 DEF DD!Test, DD!Busy
  <2>2. InTurn
    BY <2>1 DEF CleanInv
  <2>3. Window(order, log) /\ IsInjective(order) /\ ToSet(order) \subseteq ddSeen /\ Spaced(log)
    BY <2>1, <2>2 DEF InTurn, Recorded
  <2>4. \/ ddPc' = ddPc
        \/ /\ m \notin ddSeen /\ ddPc'[th] = "add" /\ id'[th] = m
           /\ \A u \in Threads : u # th => ddPc'[u] = "idle"
    BY <1>0, <1>2, <2>1 DEF DD!Test
  <2>5. /\ \A u, v \in Threads : ddPc'[u] # "idle" /\ ddPc'[v] # "idle" => u = v
        /\ \A u \in Threads : /\ ddPc'[u] \in {"idle", "add"}
                              /\ ddPc'[u] = "add" => id'[u] \notin ToSet(order)
    BY <2>1, <2>3, <2>4
  <2>6. Window(order', log') /\ Spaced(log') /\ IsInjective(order')
    BY <2>1, <2>3
  <2> QED BY <2>1, <2>3, <2>5, <2>6 DEF InTurn, Recorded
<1>3. ASSUME NEW th \in Threads, DD!Add(th) PROVE InTurn'
  <2>1. /\ UNCHANGED <<id, old, order, log, clean>> /\ ddPc[th] = "add" /\ ddPc'[th] = "append"
        /\ ddSeen' = ddSeen \cup {id[th]}
        /\ \A u \in Threads : u # th => ddPc'[u] = ddPc[u]
    BY <1>0, <1>3 DEF DD!Add
  <2>2. ToSet(order) \subseteq ddSeen'
    BY <2>1 DEF CleanInv, InTurn
  <2> QED BY <1>1, <2>1, <2>2 DEF Recorded
<1>4. ASSUME NEW th \in Threads, DD!AppendId(th) PROVE InTurn'
  <2>1. /\ UNCHANGED <<id, old, ddSeen, log, clean>> /\ ddPc[th] = "append" /\ ddPc'[th] = "trim"
        /\ order' = Append(order, id[th]) /\ id[th] \in Ids
        /\ \A u \in Threads : u # th => ddPc'[u] = ddPc[u]
    BY <1>0, <1>4 DEF DD!AppendId
  <2>2. InTurn
    BY <2>1 DEF CleanInv
  <2>3. \A u \in Threads : u # th => ddPc[u] = "idle" /\ ddPc'[u] = "idle"
    BY <2>1, <2>2 DEF InTurn
  <2>4. Window(order, log) /\ id[th] \notin ToSet(order) /\ id[th] \in ddSeen
    <3>1. \A u \in Threads : ~Recorded(u)
      BY <2>1, <2>3 DEF Recorded
    <3> QED BY <2>1, <2>2, <3>1 DEF InTurn
  <2>5. Window(order', Append(log, id[th])) /\ Fresh(id[th], log)
    BY <1>0, <2>1, <2>4, WindowGrows, FreshOutside
  <2>6. ToSet(order') = ToSet(order) \cup {id[th]}
    BY <1>0, <2>1, AppendIdSet
  <2>7. IsInjective(order')
    <3>1. IsInjective(order) /\ id[th] \notin Range(order)
      BY <2>2, <2>4 DEF InTurn, ToSet, Range
    <3> QED BY <1>0, <2>1, <3>1, AppendRange
  <2>8. ToSet(order') \subseteq ddSeen' /\ Spaced(log')
    BY <2>1, <2>2, <2>4, <2>6 DEF InTurn
  <2>9. Recorded(th)' /\ \A u \in Threads : u # th => ~Recorded(u)'
    BY <2>1, <2>3 DEF Recorded
  <2>10. \A u \in Threads : Recorded(u)' => Window(order', Append(log', id'[u])) /\ Fresh(id'[u], log')
    BY <2>1, <2>5, <2>9
  <2>11. \A u \in Threads : ddPc'[u] = "trim" \/ ddPc'[u] = "idle"
    BY <2>1, <2>3
  <2>12. \A u, v \in Threads : ddPc'[u] # "idle" /\ ddPc'[v] # "idle" => u = v
    BY <2>3
  <2> QED BY <2>7, <2>8, <2>9, <2>10, <2>11, <2>12 DEF InTurn
<1>5. ASSUME NEW th \in Threads, DD!Trim(th) PROVE InTurn'
  <2>1. /\ UNCHANGED <<id, old, ddSeen, order, log, clean>> /\ ddPc[th] = "trim"
        /\ ddPc'[th] = IF Len(order) > WindowSize THEN "pop" ELSE "publish"
        /\ \A u \in Threads : u # th => ddPc'[u] = ddPc[u]
    BY <1>0, <1>5 DEF DD!Trim
  <2>2. ToSet(order) \subseteq ddSeen'
    BY <2>1 DEF CleanInv, InTurn
  <2> QED BY <1>1, <2>1, <2>2 DEF Recorded
<1>6. ASSUME NEW th \in Threads, DD!PopOldest(th) PROVE InTurn'
  <2>1. /\ order # <<>> /\ UNCHANGED <<id, ddSeen, log, clean>> /\ ddPc[th] = "pop"
        /\ ddPc'[th] = "discard" /\ old'[th] = Head(order) /\ order' = Tail(order)
        /\ \A u \in Threads : u # th => ddPc'[u] = ddPc[u]
    BY <1>0, <1>6 DEF DD!PopOldest
  <2>2. InTurn
    BY <2>1 DEF CleanInv
  <2>3. \A u \in Threads : u # th => ddPc[u] = "idle" /\ ddPc'[u] = "idle"
    BY <2>1, <2>2 DEF InTurn
  <2>4. /\ Window(order, Append(log, id[th])) /\ Fresh(id[th], log) /\ Len(order) > WindowSize
        /\ IsInjective(order) /\ ToSet(order) \subseteq ddSeen /\ Spaced(log)
    BY <2>1, <2>2 DEF InTurn, Recorded
  <2>5. id[th] \in Ids /\ Append(log, id[th]) \in Seq(Ids)
    BY <1>0, <2>1
  <2>6. Window(order', Append(log, id[th]))
    BY <1>0, <2>1, <2>4, <2>5, WindowShrinks
  <2>7. /\ IsInjective(order') /\ ToSet(order') \subseteq ddSeen'
        /\ old'[th] \notin ToSet(order')
    BY <1>0, <2>1, <2>4, PopIdSet
  <2>8. Recorded(th)' /\ \A u \in Threads : u # th => ~Recorded(u)'
    BY <2>1, <2>3 DEF Recorded
  <2>9. \A u \in Threads : Recorded(u)' => Window(order', Append(log', id'[u])) /\ Fresh(id'[u], log')
    BY <2>1, <2>4, <2>6, <2>8
  <2>10. \A u \in Threads : (ddPc'[u] = "discard" /\ u = th) \/ ddPc'[u] = "idle"
    BY <2>1, <2>3
  <2>11. \A u, v \in Threads : ddPc'[u] # "idle" /\ ddPc'[v] # "idle" => u = v
    BY <2>3
  <2>12. Spaced(log')
    BY <2>1, <2>4
  <2> QED BY <2>7, <2>8, <2>9, <2>10, <2>11, <2>12 DEF InTurn
<1>7. ASSUME NEW th \in Threads, DD!Discard(th) PROVE InTurn'
  <2>1. /\ UNCHANGED <<id, old, order, log, clean>> /\ ddPc[th] = "discard" /\ ddPc'[th] = "trim"
        /\ ddSeen' = ddSeen \ {old[th]}
        /\ \A u \in Threads : u # th => ddPc'[u] = ddPc[u]
    BY <1>0, <1>7 DEF DD!Discard
  <2>2. ToSet(order) \subseteq ddSeen'
    BY <2>1 DEF CleanInv, InTurn
  <2> QED BY <1>1, <2>1, <2>2 DEF Recorded
<1>8. ASSUME NEW th \in Threads, DD!Publish(th) PROVE InTurn'
  <2>1. /\ UNCHANGED <<id, old, ddSeen, order, clean>> /\ ddPc[th] = "publish"
        /\ ddPc'[th] = "idle" /\ log' = Append(log, id[th]) /\ id[th] \in Ids
        /\ \A u \in Threads : u # th => ddPc'[u] = ddPc[u]
    BY <1>0, <1>8 DEF DD!Publish
  <2>2. InTurn
    BY <2>1 DEF CleanInv
  <2>3. \A u \in Threads : ddPc'[u] = "idle"
    BY <2>1, <2>2 DEF InTurn
  <2>4. /\ Window(order, Append(log, id[th])) /\ Fresh(id[th], log)
        /\ IsInjective(order) /\ ToSet(order) \subseteq ddSeen /\ Spaced(log)
    BY <2>1, <2>2 DEF InTurn, Recorded
  <2>5. Spaced(log')
    BY <1>0, <2>1, <2>4, FreshSpaced
  <2>6. Window(order', log') /\ IsInjective(order') /\ ToSet(order') \subseteq ddSeen'
    BY <2>1, <2>4
  <2> QED BY <2>3, <2>5, <2>6 DEF InTurn, Recorded
<1>9. ASSUME UNCHANGED DD!vars PROVE InTurn'
  <2>1. UNCHANGED <<ddPc, id, old, ddSeen, order, log, clean>>
    BY <1>9 DEF DD!vars
  <2>2. InTurn
    BY <2>1 DEF CleanInv
  <2> QED BY <2>1, <2>2 DEF InTurn, Recorded, Window, Fresh, Spaced
<1> QED BY <1>2, <1>3, <1>4, <1>5, <1>6, <1>7, <1>8, <1>9 DEF DD!Next

(* The window is empty before the first call.                              *)
LEMMA CleanInit == DD!Init => CleanInv
<1> SUFFICES ASSUME DD!Init PROVE InTurn
  BY DEF CleanInv
<1>1. /\ order = <<>> /\ log = <<>> /\ ddSeen = {} /\ Len(<<>>) = 0
      /\ \A th \in Threads : ddPc[th] = "idle"
  BY DEF DD!Init
<1>2. ToSet(order) = {} /\ IsInjective(order) /\ Window(order, log) /\ Spaced(log)
  BY <1>1 DEF ToSet, IsInjective, Window, Spaced
<1> QED BY <1>1, <1>2 DEF InTurn, Recorded

(* As long as calls follow one another and none raises, an id is published *)
(* again only after window_size other messages, for any window, although   *)
(* _seen and _order are trimmed one after the other (middleware.py         *)
(* 149-161).                                                               *)
THEOREM DuplicatesDropped == Spec => []DropsDuplicates
<1>1. DedupTypes /\ CleanInv => DropsDuplicates
  <2> SUFFICES ASSUME DedupTypes, CleanInv, clean,
                      NEW i \in DOMAIN log, NEW j \in DOMAIN log, i < j, log[i] = log[j]
               PROVE  j - i > WindowSize
    BY DEF DropsDuplicates, DD!DropsDuplicates
  <2>1. DOMAIN log = 1 .. Len(log) /\ Spaced(log)
    BY DEF DedupTypes, CleanInv, InTurn
  <2> QED BY <2>1 DEF Spaced
<1>2. Init => DedupTypes /\ CleanInv
  BY DedupInit, CleanInit DEF Init
<1>3. DedupTypes /\ CleanInv /\ [Next]_vars => (DedupTypes /\ CleanInv)'
  BY OnlyDeduplication, DedupTypesStep, CleanStep
<1> QED BY <1>1, <1>2, <1>3, PTL DEF Spec

=============================================================================
