------------------------- MODULE MessageQueueProofs -------------------------
(***************************************************************************)
(* Proofs about MessageQueue, for every set of messages and workers, every *)
(* capacity and every set of visibility timeouts.                          *)
(***************************************************************************)
EXTENDS MessageQueue, TLAPS

-----------------------------------------------------------------------------
(* What the operations on the deque and the dict do to their contents.     *)

(* Removing the i-th element leaves the others in their order.             *)
LEMMA WithoutElements ==
    ASSUME NEW S, NEW s \in Seq(S), NEW i \in 1 .. Len(s)
    PROVE  /\ Without(s, i) \in Seq(S)
           /\ DOMAIN Without(s, i) = 1 .. (Len(s) - 1)
           /\ \A j \in 1 .. (Len(s) - 1) :
                 Without(s, i)[j] = IF j < i THEN s[j] ELSE s[j + 1]
  <1> DEFINE a == SubSeq(s, 1, i - 1)
             b == SubSeq(s, i + 1, Len(s))
  <1>1. a \in Seq(S) /\ Len(a) = i - 1 /\ \A j \in 1 .. (i - 1) : a[j] = s[j]
    OBVIOUS
  <1>2. /\ b \in Seq(S)
        /\ Len(b) = Len(s) - i
        /\ \A j \in 1 .. (Len(s) - i) : b[j] = s[i + j]
    OBVIOUS
  <1>3. Without(s, i) = a \o b
    BY DEF Without
  <1> HIDE DEF a, b
  <1>4. /\ a \o b \in Seq(S)
        /\ Len(a \o b) = Len(a) + Len(b)
        /\ \A j \in 1 .. (Len(a) + Len(b)) :
              (a \o b)[j] = IF j <= Len(a) THEN a[j] ELSE b[j - Len(a)]
    <2>1. a \in Seq(S) /\ b \in Seq(S)
      BY <1>1, <1>2
    <2>2. QED
      BY <2>1
  <1>5. Len(s) \in Nat /\ i \in Int /\ DOMAIN (a \o b) = 1 .. (Len(s) - 1)
    BY <1>1, <1>2, <1>4
  <1>6. ASSUME NEW j \in 1 .. (Len(s) - 1)
        PROVE  (a \o b)[j] = IF j < i THEN s[j] ELSE s[j + 1]
    <2>1. CASE j < i
      BY <1>1, <1>2, <1>4, <1>5, <2>1
    <2>2. CASE ~(j < i)
      <3>1. j - (i - 1) \in 1 .. (Len(s) - i) /\ i + (j - (i - 1)) = j + 1
        BY <1>5, <2>2
      <3>2. QED
        BY <1>1, <1>2, <1>4, <1>5, <2>2, <3>1
    <2>3. QED
      BY <2>1, <2>2
  <1>7. QED
    BY <1>3, <1>4, <1>5, <1>6

(* Removing an element of a sequence without repetitions removes just that *)
(* value and brings no repetition in.                                      *)
LEMMA WithoutRange ==
    ASSUME NEW S, NEW s \in Seq(S), NEW i \in 1 .. Len(s), IsInjective(s)
    PROVE  /\ Without(s, i) \in Seq(S)
           /\ Range(Without(s, i)) = Range(s) \ {s[i]}
           /\ IsInjective(Without(s, i))
  <1> DEFINE t == Without(s, i)
  <1>1. /\ t \in Seq(S)
        /\ DOMAIN t = 1 .. (Len(s) - 1)
        /\ \A j \in 1 .. (Len(s) - 1) : t[j] = IF j < i THEN s[j] ELSE s[j + 1]
    BY WithoutElements
  <1>2. DOMAIN s = 1 .. Len(s) /\ Len(s) \in Nat
    OBVIOUS
  <1>3. \A j, k \in 1 .. Len(s) : s[j] = s[k] => j = k
    BY <1>2 DEF IsInjective
  <1> HIDE DEF t
  <1>4. \A x \in Range(t) : x \in Range(s) \ {s[i]}
    BY SMTT(40), <1>1, <1>2, <1>3 DEF Range
  <1>5. \A x \in Range(s) \ {s[i]} : x \in Range(t)
    <2> TAKE x \in Range(s) \ {s[i]}
    <2>1. PICK k \in 1 .. Len(s) : s[k] = x
      BY <1>2 DEF Range
    <2>2. CASE k < i
      BY SMTT(40), <1>1, <1>2, <2>1, <2>2 DEF Range
    <2>3. CASE k > i
      <3>1. k - 1 \in 1 .. (Len(s) - 1) /\ t[k - 1] = x
        BY <1>1, <1>2, <2>1, <2>3
      <3>2. QED
        BY <1>1, <3>1 DEF Range
    <2>4. QED
      BY <2>1, <2>2, <2>3
  <1>6. IsInjective(t)
    BY <1>1, <1>2, <1>3 DEF IsInjective
  <1>7. QED
    BY <1>1, <1>4, <1>5, <1>6 DEF t

(* appendleft, for a value that is not in the sequence yet.                *)
LEMMA PushRange ==
    ASSUME NEW S, NEW s \in Seq(S), NEW x \in S
    PROVE  /\ <<x>> \o s \in Seq(S)
           /\ DOMAIN (<<x>> \o s) = 1 .. (Len(s) + 1)
           /\ \A j \in 1 .. (Len(s) + 1) :
                 (<<x>> \o s)[j] = IF j = 1 THEN x ELSE s[j - 1]
           /\ Range(<<x>> \o s) = Range(s) \cup {x}
           /\ IsInjective(s) /\ x \notin Range(s) => IsInjective(<<x>> \o s)
  <1> DEFINE t == <<x>> \o s
  <1>1. /\ t \in Seq(S)
        /\ DOMAIN t = 1 .. (Len(s) + 1)
        /\ \A j \in 1 .. (Len(s) + 1) : t[j] = IF j = 1 THEN x ELSE s[j - 1]
    OBVIOUS
  <1>2. DOMAIN s = 1 .. Len(s) /\ Len(s) \in Nat
    OBVIOUS
  <1> HIDE DEF t
  <1>3. \A y \in Range(t) : y \in Range(s) \cup {x}
    BY <1>1, <1>2 DEF Range
  <1>4. \A y \in Range(s) : y \in Range(t)
    <2> TAKE y \in Range(s)
    <2>1. PICK k \in 1 .. Len(s) : s[k] = y
      BY <1>2 DEF Range
    <2>2. k + 1 \in 1 .. (Len(s) + 1) /\ t[k + 1] = y
      BY <1>1, <1>2, <2>1
    <2>3. QED
      BY <1>1, <2>2 DEF Range
  <1>5. x \in Range(t)
    BY <1>1, <1>2 DEF Range
  <1>6. ASSUME IsInjective(s), x \notin Range(s) PROVE IsInjective(t)
    <2>1. \A j \in 1 .. Len(s) : s[j] # x
      BY <1>2, <1>6 DEF Range
    <2>2. \A j, k \in 1 .. Len(s) : s[j] = s[k] => j = k
      BY <1>2, <1>6 DEF IsInjective
    <2>3. ASSUME NEW j \in DOMAIN t, NEW k \in DOMAIN t, t[j] = t[k]
          PROVE  j = k
      <3>1. j = 1 <=> k = 1
        BY <1>1, <1>2, <2>1, <2>3
      <3>2. CASE j # 1
        <4>1. j - 1 \in 1 .. Len(s) /\ k - 1 \in 1 .. Len(s)
          BY <1>1, <1>2, <3>1, <3>2
        <4>2. s[j - 1] = s[k - 1]
          BY <1>1, <2>3, <3>1, <3>2
        <4>3. QED
          BY <1>1, <1>2, <2>2, <4>1, <4>2
      <3>3. QED
        BY <3>1, <3>2
    <2>4. QED
      BY <2>3 DEF IsInjective
  <1>7. QED
    BY <1>1, <1>3, <1>4, <1>5, <1>6 DEF t

(* append, for a value that is not in the sequence yet.                    *)
LEMMA AppendRange ==
    ASSUME NEW S, NEW s \in Seq(S), NEW x \in S
    PROVE  /\ Append(s, x) \in Seq(S)
           /\ DOMAIN Append(s, x) = 1 .. (Len(s) + 1)
           /\ \A j \in 1 .. (Len(s) + 1) :
                 Append(s, x)[j] = IF j = Len(s) + 1 THEN x ELSE s[j]
           /\ Range(Append(s, x)) = Range(s) \cup {x}
           /\ IsInjective(s) /\ x \notin Range(s) => IsInjective(Append(s, x))
  <1> DEFINE t == Append(s, x)
  <1>1. /\ t \in Seq(S)
        /\ DOMAIN t = 1 .. (Len(s) + 1)
        /\ \A j \in 1 .. (Len(s) + 1) : t[j] = IF j = Len(s) + 1 THEN x ELSE s[j]
    OBVIOUS
  <1>2. DOMAIN s = 1 .. Len(s) /\ Len(s) \in Nat
    OBVIOUS
  <1> HIDE DEF t
  <1>3. Range(t) = Range(s) \cup {x}
    BY <1>1, <1>2 DEF Range
  <1>4. ASSUME IsInjective(s), x \notin Range(s) PROVE IsInjective(t)
    BY <1>1, <1>2, <1>4 DEF IsInjective, Range
  <1>5. QED
    BY <1>1, <1>3, <1>4 DEF t

(* popleft.                                                                *)
LEMMA TailRange ==
    ASSUME NEW S, NEW s \in Seq(S), s # <<>>
    PROVE  /\ Tail(s) \in Seq(S)
           /\ Head(s) \in S /\ Head(s) \in Range(s)
           /\ DOMAIN Tail(s) = 1 .. (Len(s) - 1)
           /\ \A j \in 1 .. (Len(s) - 1) : Tail(s)[j] = s[j + 1]
           /\ IsInjective(s) => /\ Range(Tail(s)) = Range(s) \ {Head(s)}
                                /\ IsInjective(Tail(s))
  <1> DEFINE t == Tail(s)
  <1>1. /\ t \in Seq(S)
        /\ DOMAIN t = 1 .. (Len(s) - 1)
        /\ \A j \in 1 .. (Len(s) - 1) : t[j] = s[j + 1]
        /\ Head(s) = s[1]
    OBVIOUS
  <1>2. DOMAIN s = 1 .. Len(s) /\ Len(s) \in Nat /\ Len(s) > 0
    OBVIOUS
  <1>3. Head(s) \in S /\ Head(s) \in Range(s)
    BY <1>1, <1>2 DEF Range
  <1> HIDE DEF t
  <1>4. ASSUME IsInjective(s)
        PROVE  Range(t) = Range(s) \ {Head(s)} /\ IsInjective(t)
    <2>1. \A j, k \in 1 .. Len(s) : s[j] = s[k] => j = k
      BY <1>2, <1>4 DEF IsInjective
    <2>2. \A x \in Range(t) : x \in Range(s) \ {Head(s)}
      BY <1>1, <1>2, <2>1 DEF Range
    <2>3. \A x \in Range(s) \ {Head(s)} : x \in Range(t)
      <3> TAKE x \in Range(s) \ {Head(s)}
      <3>1. PICK k \in 1 .. Len(s) : s[k] = x /\ k # 1
        BY <1>1, <1>2 DEF Range
      <3>2. k - 1 \in 1 .. (Len(s) - 1) /\ t[k - 1] = x
        BY <1>1, <1>2, <3>1
      <3>3. QED
        BY <1>1, <3>2 DEF Range
    <2>4. IsInjective(t)
      BY <1>1, <1>2, <2>1 DEF IsInjective
    <2>5. QED
      BY <2>2, <2>3, <2>4
  <1>5. QED
    BY <1>1, <1>3, <1>4 DEF t

-----------------------------------------------------------------------------
(* Type correctness.  The only step that is not immediate is the removal   *)
(* of an entry of _in_flight.                                              *)
LEMMA LeaveFlightType ==
    ASSUME TypeOK, NEW i \in DOMAIN inFlight, LeaveFlight(i)
    PROVE  /\ inFlight[i] \in Messages
           /\ inFlight' \in Seq(Messages)
           /\ left' \in [Messages -> Nat]
           /\ due' \in [Workers -> SUBSET Messages]
  <1>1. i \in 1 .. Len(inFlight) /\ inFlight \in Seq(Messages)
    BY DEF TypeOK
  <1>2. inFlight[i] \in Messages
    BY <1>1
  <1>3. inFlight' \in Seq(Messages)
    BY <1>1, WithoutElements DEF LeaveFlight
  <1>4. QED
    BY <1>2, <1>3 DEF LeaveFlight, TypeOK

(* Every variable keeps its type at each step of a method of the queue.    *)
THEOREM TypeCorrect == Spec => []TypeOK
  <1>1. Init => TypeOK
    BY QueueAssumption DEF Init, TypeOK
  <1>2. TypeOK /\ [Next]_vars => TypeOK'
    <2> SUFFICES ASSUME TypeOK, [Next]_vars PROVE TypeOK'
      OBVIOUS
    <2>1. ASSUME NEW m \in Messages, Enqueue(m) PROVE TypeOK'
      BY <2>1 DEF Enqueue, TypeOK
    <2>2. ASSUME NEW w \in Workers, CallDequeue(w) PROVE TypeOK'
      <3>1. {m \in InFlight : left[m] = 0} \subseteq Messages
        BY DEF TypeOK, InFlight, Range
      <3>2. due' \in [Workers -> SUBSET Messages]
        BY <2>2, <3>1 DEF CallDequeue, TypeOK
      <3>3. QED
        BY <2>2, <3>2 DEF CallDequeue, TypeOK
    <2>3. ASSUME NEW w \in Workers, Sweep(w) PROVE TypeOK'
      BY <2>3 DEF Sweep, TypeOK
    <2>4. ASSUME NEW w \in Workers, RequeueOne(w) PROVE TypeOK'
      <3>1. PICK i \in DOMAIN inFlight :
                LeaveFlight(i) /\ queue' = <<inFlight[i]>> \o queue
        BY <2>4 DEF RequeueOne
      <3>2. queue' \in Seq(Messages)
        BY <3>1, LeaveFlightType, PushRange DEF TypeOK
      <3>3. QED
        BY <2>4, <3>1, <3>2, LeaveFlightType DEF RequeueOne, TypeOK
    <2>5. ASSUME NEW w \in Workers, SweepDone(w) PROVE TypeOK'
      BY <2>5 DEF SweepDone, TypeOK
    <2>6. ASSUME NEW w \in Workers, NEW t \in Timeouts, Pop(w, t) PROVE TypeOK'
      <3>1. Head(queue) \in Messages /\ queue' \in Seq(Messages)
        BY <2>6, TailRange DEF Pop, TypeOK
      <3>2. t \in Nat
        BY QueueAssumption
      <3>3. QED
        BY SMTT(40), <2>6, <3>1, <3>2 DEF Pop, TypeOK
    <2>7. ASSUME NEW w \in Workers, PopNothing(w) PROVE TypeOK'
      BY <2>7 DEF PopNothing, TypeOK
    <2>8. ASSUME NEW w \in Workers, NEW m \in Messages, Acknowledge(w, m)
          PROVE  TypeOK'
      BY <2>8, LeaveFlightType DEF Acknowledge, TypeOK
    <2>9. ASSUME NEW w \in Workers, NEW m \in Messages, Nack(w, m)
          PROVE  TypeOK'
      <3>1. queue' = <<m>> \o queue \/ queue' = queue
        BY <2>9 DEF Nack
      <3>2. <<m>> \o queue \in Seq(Messages) /\ queue \in Seq(Messages)
        BY PushRange DEF TypeOK
      <3>3. queue' \in Seq(Messages)
        BY <3>1, <3>2
      <3>4. QED
        BY <2>9, <3>3, LeaveFlightType DEF Nack, TypeOK
    <2>10. ASSUME Purge PROVE TypeOK'
      BY <2>10 DEF Purge, TypeOK, Ready, Range
    <2>11. ASSUME Tick PROVE TypeOK'
      BY <2>11 DEF Tick, TypeOK
    <2>12. ASSUME UNCHANGED vars PROVE TypeOK'
      BY <2>12 DEF vars, TypeOK
    <2>13. QED
      BY <2>1, <2>2, <2>3, <2>4, <2>5, <2>6, <2>7, <2>8, <2>9, <2>10, <2>11,
         <2>12 DEF Next, Dequeue
  <1>3. QED
    BY <1>1, <1>2, PTL DEF Spec

-----------------------------------------------------------------------------
(* Conservation is inductive as it stands, given the types.                *)
LEMMA LeaveFlightEffect ==
    ASSUME TypeOK, Conservation, NEW i \in DOMAIN inFlight, LeaveFlight(i)
    PROVE  /\ inFlight[i] \in InFlight
           /\ InFlight' = InFlight \ {inFlight[i]}
           /\ IsInjective(inFlight')
  <1>1. i \in 1 .. Len(inFlight) /\ inFlight \in Seq(Messages)
    BY DEF TypeOK
  <1>2. IsInjective(inFlight)
    BY DEF Conservation
  <1>3. inFlight[i] \in InFlight
    BY DEF InFlight, Range
  <1>4. QED
    BY <1>1, <1>2, <1>3, WithoutRange DEF LeaveFlight, InFlight

(* The delivery in flight goes back to the front: nack and the sweep.      *)
LEMMA ReturnConserves ==
    ASSUME TypeOK, Conservation, NEW i \in DOMAIN inFlight, LeaveFlight(i),
           queue' = <<inFlight[i]>> \o queue, UNCHANGED <<acked, purged, number>>
    PROVE  /\ Conservation'
           /\ Ready' = Ready \cup {inFlight[i]}
  <1> DEFINE m == inFlight[i]
  <1>1. m \in Messages /\ m \in InFlight /\ m \notin Ready
    BY LeaveFlightType, LeaveFlightEffect DEF Conservation
  <1>2. queue \in Seq(Messages) /\ IsInjective(queue)
    BY DEF TypeOK, Conservation
  <1>3. Ready' = Ready \cup {m} /\ IsInjective(queue')
    BY <1>1, <1>2, PushRange DEF Ready
  <1>4. InFlight' = InFlight \ {m} /\ IsInjective(inFlight')
    BY LeaveFlightEffect
  <1> HIDE DEF m
  <1>5. QED
    BY <1>1, <1>3, <1>4 DEF Conservation, m

(* Every step keeps each message in exactly one place.                     *)
LEMMA ConservationStep == TypeOK /\ Conservation /\ [Next]_vars => Conservation'
  <1> SUFFICES ASSUME TypeOK, Conservation, [Next]_vars PROVE Conservation'
    OBVIOUS
  <1>1. ASSUME NEW m \in Messages, Enqueue(m) PROVE Conservation'
    <2>1. m \notin Ready \cup InFlight \cup acked \cup purged
      BY <1>1 DEF Enqueue, Conservation
    <2>2. Ready' = Ready \cup {m} /\ IsInjective(queue')
      <3>1. /\ queue' = Append(queue, m) /\ queue \in Seq(Messages)
            /\ IsInjective(queue) /\ m \notin Range(queue)
        BY <1>1, <2>1 DEF Enqueue, Ready, TypeOK, Conservation
      <3> QED BY <3>1, AppendRange DEF Ready
    <2>3. InFlight' = InFlight /\ IsInjective(inFlight')
      BY <1>1 DEF Enqueue, InFlight, Conservation
    <2>4. {x \in Messages : number'[x] # 0}
              = {x \in Messages : number[x] # 0} \cup {m}
      BY <1>1 DEF Enqueue, TypeOK
    <2>5. QED
      BY <1>1, <2>1, <2>2, <2>3, <2>4 DEF Enqueue, Conservation
  <1>2. ASSUME NEW w \in Workers, RequeueOne(w) PROVE Conservation'
    <2>1. PICK i \in DOMAIN inFlight :
              LeaveFlight(i) /\ queue' = <<inFlight[i]>> \o queue
      BY <1>2 DEF RequeueOne
    <2>2. QED
      BY <1>2, <2>1, ReturnConserves DEF RequeueOne
  <1>3. ASSUME NEW w \in Workers, NEW t \in Timeouts, Pop(w, t)
        PROVE  Conservation'
    <2> DEFINE m == Head(queue)
    <2>1. queue \in Seq(Messages) /\ queue # <<>> /\ IsInjective(queue)
      BY <1>3 DEF Pop, TypeOK, Conservation
    <2>2. m \in Messages /\ m \in Ready /\ Ready' = Ready \ {m} /\ IsInjective(queue')
      BY <1>3, <2>1, TailRange DEF Pop, Ready
    <2>3. m \notin InFlight
      BY <2>2 DEF Conservation
    <2>4. InFlight' = InFlight \cup {m} /\ IsInjective(inFlight')
      BY <1>3, <2>2, <2>3, AppendRange DEF Pop, InFlight, TypeOK, Conservation
    <2> HIDE DEF m
    <2>5. UNCHANGED <<acked, purged, number>>
      BY <1>3 DEF Pop
    <2>6. QED
      BY <2>2, <2>3, <2>4, <2>5 DEF Conservation
  <1>4. ASSUME NEW w \in Workers, NEW m \in Messages, Acknowledge(w, m)
        PROVE  Conservation'
    <2>1. Ready' = Ready /\ IsInjective(queue') /\ UNCHANGED <<purged, number>>
      BY <1>4 DEF Acknowledge, Ready, Conservation
    <2>2. CASE m \in InFlight
      <3>1. PICK i \in DOMAIN inFlight : inFlight[i] = m /\ LeaveFlight(i)
        BY <1>4, <2>2 DEF Acknowledge
      <3>2. InFlight' = InFlight \ {m} /\ IsInjective(inFlight')
        BY <3>1, LeaveFlightEffect
      <3>3. acked' = acked \cup {m}
        BY <1>4, <2>2 DEF Acknowledge
      <3>4. QED
        BY <2>1, <2>2, <3>2, <3>3 DEF Conservation
    <2>3. CASE m \notin InFlight
      <3>1. UNCHANGED <<inFlight, acked>>
        BY <1>4, <2>3 DEF Acknowledge, InFlight, Range
      <3>2. QED
        BY <2>1, <3>1 DEF Conservation, InFlight
    <2>4. QED
      BY <2>2, <2>3
  <1>5. ASSUME NEW w \in Workers, NEW m \in Messages, Nack(w, m)
        PROVE  Conservation'
    <2>1. CASE m \in InFlight
      <3>1. PICK i \in DOMAIN inFlight : inFlight[i] = m /\ LeaveFlight(i)
        BY <1>5, <2>1 DEF Nack
      <3>2. QED
        BY <1>5, <2>1, <3>1, ReturnConserves DEF Nack
    <2>2. CASE m \notin InFlight
      <3>1. UNCHANGED <<queue, inFlight, acked, purged, number>>
        BY <1>5, <2>2 DEF Nack, InFlight, Range
      <3>2. QED
        BY <3>1 DEF Conservation, InFlight, Ready
    <2>3. QED
      BY <2>1, <2>2
  <1>6. ASSUME Purge PROVE Conservation'
    <2>1. Ready' = {} /\ IsInjective(queue')
      BY <1>6 DEF Purge, Ready, Range, IsInjective
    <2>2. InFlight' = InFlight
      BY <1>6 DEF Purge, InFlight
    <2>3. QED
      BY <1>6, <2>1, <2>2 DEF Purge, Conservation
  <1>7. ASSUME UNCHANGED <<queue, inFlight, acked, purged, number>>
        PROVE  Conservation'
    BY <1>7 DEF Conservation, Ready, InFlight
  <1>8. QED
    BY <1>1, <1>2, <1>3, <1>4, <1>5, <1>6, <1>7
       DEF Next, Dequeue, CallDequeue, Sweep, SweepDone, PopNothing, Tick, vars

(* No message is lost or duplicated, whatever the threads do.              *)
THEOREM NothingLost == Spec => []Conservation
  <1>1. Init => Conservation
    BY DEF Init, Conservation, Ready, InFlight, Range, IsInjective
  <1>2. QED
    BY <1>1, TypeCorrect, ConservationStep, PTL DEF Spec

-----------------------------------------------------------------------------
(* The order of fresh messages rests on the numbering: numbers grow, and   *)
(* whatever is in flight, hence whatever comes back, has been delivered.   *)
Numbered ==
    /\ \A m \in Messages : number[m] <= totalEnqueued
    /\ \A m \in Messages : number[m] = 0 => m \notin delivered
    /\ \A m \in InFlight : m \in delivered

OrderInv == Numbered /\ FreshInOrder

(* A message that has been delivered goes to the front.                    *)
LEMMA ReturnKeepsOrder ==
    ASSUME TypeOK, Conservation, OrderInv, NEW i \in DOMAIN inFlight, LeaveFlight(i),
           queue' = <<inFlight[i]>> \o queue,
           UNCHANGED <<delivered, number, totalEnqueued>>
    PROVE  OrderInv'
  <1> DEFINE m == inFlight[i]
  <1>1. m \in Messages /\ m \in InFlight /\ InFlight' = InFlight \ {m}
    BY LeaveFlightType, LeaveFlightEffect
  <1>2. Numbered'
    BY <1>1 DEF OrderInv, Numbered
  <1>3. m \in delivered
    BY <1>1 DEF OrderInv, Numbered
  <1>4. queue \in Seq(Messages) /\ DOMAIN queue = 1 .. Len(queue) /\ Len(queue) \in Nat
    BY DEF TypeOK
  <1>5. /\ DOMAIN queue' = 1 .. (Len(queue) + 1)
        /\ \A j \in 1 .. (Len(queue) + 1) :
              queue'[j] = IF j = 1 THEN m ELSE queue[j - 1]
    BY <1>1, <1>4, PushRange
  <1> HIDE DEF m
  <1>6. ASSUME NEW j \in DOMAIN queue', NEW k \in DOMAIN queue',
               j < k, queue'[j] \notin delivered
        PROVE  queue'[k] \notin delivered /\ number[queue'[j]] < number[queue'[k]]
    <2>1. j # 1
      BY <1>3, <1>5, <1>6
    <2>2. j - 1 \in DOMAIN queue /\ k - 1 \in DOMAIN queue /\ j - 1 < k - 1
      BY <1>4, <1>5, <1>6, <2>1
    <2>3. queue'[j] = queue[j - 1] /\ queue'[k] = queue[k - 1]
      BY <1>4, <1>5, <1>6, <2>1
    <2>4. QED
      BY <1>6, <2>2, <2>3 DEF OrderInv, FreshInOrder
  <1>7. QED
    BY <1>2, <1>6 DEF OrderInv, FreshInOrder

(* Every step keeps fresh messages behind the returned ones and in order.  *)
LEMMA OrderStep ==
    TypeOK /\ Conservation /\ OrderInv /\ [Next]_vars => OrderInv'
  <1> SUFFICES ASSUME TypeOK, Conservation, OrderInv, [Next]_vars PROVE OrderInv'
    OBVIOUS
  <1>0. queue \in Seq(Messages) /\ DOMAIN queue = 1 .. Len(queue) /\ Len(queue) \in Nat
    BY DEF TypeOK
  <1>1. ASSUME NEW m \in Messages, Enqueue(m) PROVE OrderInv'
    <2>1. InFlight' = InFlight /\ InFlight \subseteq Messages
      BY <1>1 DEF Enqueue, InFlight, TypeOK, Range
    <2>2. Numbered'
      BY <1>1, <2>1 DEF Enqueue, OrderInv, Numbered, TypeOK
    <2>3. m \notin Ready
      BY <1>1 DEF Enqueue, Conservation
    <2>4. /\ DOMAIN queue' = 1 .. (Len(queue) + 1)
          /\ \A j \in 1 .. (Len(queue) + 1) :
                queue'[j] = IF j = Len(queue) + 1 THEN m ELSE queue[j]
      BY <1>0, <1>1, AppendRange DEF Enqueue
    <2>5. ASSUME NEW j \in DOMAIN queue', NEW k \in DOMAIN queue',
                 j < k, queue'[j] \notin delivered
          PROVE  queue'[k] \notin delivered /\ number'[queue'[j]] < number'[queue'[k]]
      <3>1. /\ j \in DOMAIN queue /\ queue'[j] = queue[j]
            /\ queue[j] \in Messages /\ queue[j] # m
        BY <1>0, <2>3, <2>4, <2>5 DEF Ready, Range
      <3>2. number'[queue[j]] = number[queue[j]] /\ number[queue[j]] <= totalEnqueued
        BY <1>1, <3>1 DEF Enqueue, TypeOK, OrderInv, Numbered
      <3>3. CASE k = Len(queue) + 1
        <4>1. queue'[k] = m /\ number'[m] = totalEnqueued + 1 /\ m \notin delivered
          BY <1>0, <1>1, <2>4, <3>3 DEF Enqueue, TypeOK, OrderInv, Numbered
        <4>2. number[queue[j]] \in Nat /\ totalEnqueued \in Nat
          BY <3>1 DEF TypeOK
        <4>3. QED
          BY <3>1, <3>2, <4>1, <4>2
      <3>4. CASE k # Len(queue) + 1
        <4>1. /\ k \in DOMAIN queue /\ queue'[k] = queue[k]
              /\ queue[k] \in Messages /\ queue[k] # m
          BY <1>0, <2>3, <2>4, <3>4 DEF Ready, Range
        <4>2. number'[queue[k]] = number[queue[k]]
          BY <1>1, <4>1 DEF Enqueue, TypeOK
        <4>3. QED
          BY <2>5, <3>1, <3>2, <4>1, <4>2 DEF OrderInv, FreshInOrder
      <3>5. QED
        BY <3>3, <3>4
    <2>6. UNCHANGED delivered
      BY <1>1 DEF Enqueue
    <2>7. QED
      BY <2>2, <2>5, <2>6 DEF OrderInv, FreshInOrder
  <1>2. ASSUME NEW w \in Workers, RequeueOne(w) PROVE OrderInv'
    <2>1. PICK i \in DOMAIN inFlight :
              LeaveFlight(i) /\ queue' = <<inFlight[i]>> \o queue
      BY <1>2 DEF RequeueOne
    <2>2. QED
      BY <1>2, <2>1, ReturnKeepsOrder DEF RequeueOne
  <1>3. ASSUME NEW w \in Workers, NEW t \in Timeouts, Pop(w, t) PROVE OrderInv'
    <2> DEFINE m == Head(queue)
    <2>1. queue # <<>> /\ IsInjective(queue)
      BY <1>3 DEF Pop, Conservation
    <2>2. /\ m \in Messages /\ m \in Ready
          /\ DOMAIN queue' = 1 .. (Len(queue) - 1)
          /\ \A j \in 1 .. (Len(queue) - 1) : queue'[j] = queue[j + 1]
          /\ Range(queue') = Range(queue) \ {m}
      BY <1>0, <1>3, <2>1, TailRange DEF Pop, Ready
    <2>3. InFlight' = InFlight \cup {m}
      BY <1>3, <2>2, AppendRange DEF Pop, InFlight, TypeOK
    <2>4. delivered' = delivered \cup {m} /\ UNCHANGED <<number, totalEnqueued>>
      BY <1>3 DEF Pop
    <2>5. number[m] # 0
      BY <2>2 DEF Conservation
    <2> HIDE DEF m
    <2>7. Numbered'
      <3>1. InFlight \subseteq Messages
        BY DEF TypeOK, InFlight, Range
      <3>2. QED
        BY <2>2, <2>3, <2>4, <2>5, <3>1 DEF OrderInv, Numbered
    <2>8. ASSUME NEW j \in DOMAIN queue', NEW k \in DOMAIN queue',
                 j < k, queue'[j] \notin delivered'
          PROVE  queue'[k] \notin delivered' /\ number[queue'[j]] < number[queue'[k]]
      <3>1. /\ j + 1 \in DOMAIN queue /\ k + 1 \in DOMAIN queue /\ j + 1 < k + 1
            /\ queue'[j] = queue[j + 1] /\ queue'[k] = queue[k + 1]
        BY <1>0, <2>2, <2>8
      <3>2. queue'[j] # m /\ queue'[k] # m
        BY <2>2 DEF Range
      <3>3. queue'[j] \notin delivered /\ (queue'[k] \in delivered' <=> queue'[k] \in delivered)
        BY <2>4, <2>8, <3>2
      <3>4. QED
        BY <2>8, <3>1, <3>3 DEF OrderInv, FreshInOrder
    <2>9. QED
      BY <2>4, <2>7, <2>8 DEF OrderInv, FreshInOrder
  <1>4. ASSUME NEW w \in Workers, NEW m \in Messages, Acknowledge(w, m)
        PROVE  OrderInv'
    <2>1. InFlight' \subseteq InFlight
      BY <1>4, LeaveFlightEffect DEF Acknowledge, InFlight
    <2>2. QED
      BY <1>4, <2>1 DEF Acknowledge, OrderInv, Numbered, FreshInOrder
  <1>5. ASSUME NEW w \in Workers, NEW m \in Messages, Nack(w, m) PROVE OrderInv'
    <2>1. CASE m \in InFlight
      <3>1. PICK i \in DOMAIN inFlight : inFlight[i] = m /\ LeaveFlight(i)
        BY <1>5, <2>1 DEF Nack
      <3>2. QED
        BY <1>5, <2>1, <3>1, ReturnKeepsOrder DEF Nack
    <2>2. CASE m \notin InFlight
      <3>1. UNCHANGED <<queue, inFlight, delivered, number, totalEnqueued>>
        BY <1>5, <2>2 DEF Nack, InFlight, Range
      <3>2. QED
        BY <3>1 DEF OrderInv, Numbered, FreshInOrder, InFlight
    <2>3. QED
      BY <2>1, <2>2
  <1>6. ASSUME Purge PROVE OrderInv'
    BY <1>6 DEF Purge, OrderInv, Numbered, FreshInOrder, InFlight
  <1>7. ASSUME UNCHANGED <<queue, inFlight, delivered, number, totalEnqueued>>
        PROVE  OrderInv'
    BY <1>7 DEF OrderInv, Numbered, FreshInOrder, InFlight
  <1>8. QED
    BY <1>1, <1>2, <1>3, <1>4, <1>5, <1>6, <1>7
       DEF Next, Dequeue, CallDequeue, Sweep, SweepDone, PopNothing, Tick, vars

(* Messages not delivered yet keep the order of their enqueue calls and    *)
(* stay behind the redelivered ones.                                       *)
THEOREM FreshOrder == Spec => []FreshInOrder
  <1>1. Init => OrderInv
    BY DEF Init, OrderInv, Numbered, FreshInOrder, InFlight, Range
  <1>2. OrderInv => FreshInOrder
    BY DEF OrderInv
  <1>3. QED
    BY <1>1, <1>2, TypeCorrect, NothingLost, OrderStep, PTL DEF Spec

(* A returned message was delivered, and the others keep their distance    *)
(* to the end of the queue.                                                *)
LEMMA ReturnKeepsBound ==
    ASSUME TypeOK, OrderInv, FreshBounded, NEW m \in InFlight,
           queue' = <<m>> \o queue, UNCHANGED delivered
    PROVE  FreshBounded'
  <1>1. m \in Messages
    BY DEF TypeOK, InFlight, Range
  <1>2. m \in delivered
    BY DEF OrderInv, Numbered
  <1>3. queue \in Seq(Messages) /\ DOMAIN queue = 1 .. Len(queue) /\ Len(queue) \in Nat
    BY DEF TypeOK
  <1>4. /\ DOMAIN queue' = 1 .. (Len(queue) + 1) /\ Len(queue') = Len(queue) + 1
        /\ \A j \in 1 .. (Len(queue) + 1) :
              queue'[j] = IF j = 1 THEN m ELSE queue[j - 1]
    BY <1>1, <1>3, PushRange
  <1>5. ASSUME MaxSize > 0, NEW j \in DOMAIN queue', queue'[j] \notin delivered
        PROVE  Len(queue') - j < MaxSize
    <2>1. j - 1 \in DOMAIN queue /\ queue'[j] = queue[j - 1]
      BY <1>2, <1>3, <1>4, <1>5
    <2>2. Len(queue) - (j - 1) < MaxSize
      BY <1>5, <2>1 DEF FreshBounded
    <2>3. QED
      BY <1>3, <1>4, <1>5, <2>2, QueueAssumption
  <1>6. QED
    BY <1>5 DEF FreshBounded

(* Every step keeps fresh messages within max_size of the queue's end.     *)
LEMMA BoundStep ==
    TypeOK /\ OrderInv /\ FreshBounded /\ [Next]_vars => FreshBounded'
  <1> SUFFICES ASSUME TypeOK, OrderInv, FreshBounded, [Next]_vars PROVE FreshBounded'
    OBVIOUS
  <1>0. queue \in Seq(Messages) /\ DOMAIN queue = 1 .. Len(queue) /\ Len(queue) \in Nat
    BY DEF TypeOK
  <1>1. ASSUME NEW m \in Messages, Enqueue(m) PROVE FreshBounded'
    <2>1. /\ DOMAIN queue' = 1 .. (Len(queue) + 1) /\ Len(queue') = Len(queue) + 1
      BY <1>0, <1>1, AppendRange DEF Enqueue
    <2>2. MaxSize > 0 => Len(queue) < MaxSize
      BY <1>1, QueueAssumption DEF Enqueue, NotFull
    <2>3. QED
      BY <1>0, <2>1, <2>2, QueueAssumption DEF FreshBounded
  <1>2. ASSUME NEW w \in Workers, RequeueOne(w) PROVE FreshBounded'
    <2>1. PICK i \in DOMAIN inFlight : queue' = <<inFlight[i]>> \o queue
      BY <1>2 DEF RequeueOne
    <2>2. inFlight[i] \in InFlight
      BY DEF InFlight, Range
    <2>3. QED
      BY <1>2, <2>1, <2>2, ReturnKeepsBound DEF RequeueOne
  <1>3. ASSUME NEW w \in Workers, NEW t \in Timeouts, Pop(w, t) PROVE FreshBounded'
    <2> DEFINE m == Head(queue)
    <2>1. /\ m \in Messages
          /\ DOMAIN queue' = 1 .. (Len(queue) - 1) /\ Len(queue') = Len(queue) - 1
          /\ \A j \in 1 .. (Len(queue) - 1) : queue'[j] = queue[j + 1]
      BY <1>0, <1>3, TailRange DEF Pop
    <2>2. delivered' = delivered \cup {m}
      BY <1>3 DEF Pop
    <2> HIDE DEF m
    <2>3. ASSUME MaxSize > 0, NEW j \in DOMAIN queue', queue'[j] \notin delivered'
          PROVE  Len(queue') - j < MaxSize
      <3>1. /\ j + 1 \in DOMAIN queue /\ queue'[j] = queue[j + 1]
            /\ queue[j + 1] \in Messages
        BY <1>0, <2>1, <2>3
      <3>2. queue[j + 1] \notin delivered
        BY <2>1, <2>2, <2>3, <3>1 DEF TypeOK
      <3>3. Len(queue) - (j + 1) < MaxSize
        BY <2>3, <3>1, <3>2 DEF FreshBounded
      <3>4. QED
        BY <1>0, <2>1, <2>3, <3>3, QueueAssumption
    <2>4. QED
      BY <2>3 DEF FreshBounded
  <1>4. ASSUME NEW w \in Workers, NEW m \in Messages, Nack(w, m) PROVE FreshBounded'
    <2>1. CASE m \in InFlight
      BY <1>4, <2>1, ReturnKeepsBound DEF Nack
    <2>2. CASE m \notin InFlight
      BY <1>4, <2>2 DEF Nack, InFlight, Range, FreshBounded
    <2>3. QED
      BY <2>1, <2>2
  <1>5. ASSUME Purge PROVE FreshBounded'
    BY <1>5 DEF Purge, FreshBounded
  <1>6. ASSUME UNCHANGED <<queue, delivered>> PROVE FreshBounded'
    BY <1>6 DEF FreshBounded
  <1>7. QED
    BY <1>1, <1>2, <1>3, <1>4, <1>5, <1>6
       DEF Next, Dequeue, CallDequeue, Sweep, SweepDone, PopNothing, Acknowledge, Tick, vars

(* However often messages come back, at most max_size messages that were   *)
(* never delivered wait: enqueue's test of the length bounds the fresh     *)
(* tail of the queue, whose distance to the end no other method increases. *)
THEOREM FreshWithinLimit == Spec => []FreshBounded
  <1>1. Init => OrderInv /\ FreshBounded
    BY DEF Init, OrderInv, Numbered, FreshInOrder, FreshBounded, InFlight, Range
  <1>2. QED
    BY <1>1, TypeCorrect, NothingLost, OrderStep, BoundStep, PTL DEF Spec

-----------------------------------------------------------------------------
(* A sweep between its clock reading and its critical section only has in  *)
(* mind entries that are still in flight and still expired: an entry that  *)
(* was popped and delivered again since then is not among them.            *)
DueExpired ==
    \A w \in Workers : \A m \in due[w] : m \in InFlight /\ left[m] = 0

(* What leaves the in-flight table is not due for any sweep any more.      *)
LEMMA LeaveFlightKeepsDue ==
    ASSUME TypeOK, Conservation, DueExpired, NEW i \in DOMAIN inFlight, LeaveFlight(i)
    PROVE  DueExpired'
  <1>1. inFlight[i] \in Messages /\ InFlight' = InFlight \ {inFlight[i]}
    BY LeaveFlightType, LeaveFlightEffect
  <1>2. ASSUME NEW w \in Workers, NEW m \in due'[w]
        PROVE  m \in InFlight' /\ left'[m] = 0
    <2>1. m \in due[w] /\ m # inFlight[i] /\ m \in Messages
      BY <1>2 DEF LeaveFlight, TypeOK
    <2>2. QED
      BY <1>1, <2>1 DEF LeaveFlight, DueExpired, TypeOK
  <1>3. QED
    BY <1>2 DEF DueExpired

(* Every step keeps what sweeps have found expired in flight and expired.  *)
LEMMA DueStep ==
    TypeOK /\ Conservation /\ DueExpired /\ [Next]_vars => DueExpired'
  <1> SUFFICES ASSUME TypeOK, Conservation, DueExpired, [Next]_vars PROVE DueExpired'
    OBVIOUS
  <1>1. ASSUME NEW w \in Workers, CallDequeue(w) PROVE DueExpired'
    <2>1. InFlight' = InFlight /\ left' = left
      BY <1>1 DEF CallDequeue, InFlight
    <2>2. \A v \in Workers :
              due'[v] = IF v = w THEN {m \in InFlight : left[m] = 0} ELSE due[v]
      BY <1>1 DEF CallDequeue, TypeOK
    <2>3. QED
      BY <2>1, <2>2 DEF DueExpired
  <1>2. ASSUME NEW w \in Workers, RequeueOne(w) PROVE DueExpired'
    BY <1>2, LeaveFlightKeepsDue DEF RequeueOne
  <1>3. ASSUME NEW w \in Workers, NEW t \in Timeouts, Pop(w, t) PROVE DueExpired'
    <2> DEFINE m == Head(queue)
    <2>1. m \in Messages /\ m \in Ready
      BY <1>3, TailRange DEF Pop, TypeOK, Ready
    <2>2. InFlight' = InFlight \cup {m} /\ m \notin InFlight
      BY <1>3, <2>1, AppendRange DEF Pop, InFlight, TypeOK, Conservation
    <2>3. left' = [left EXCEPT ![m] = t] /\ UNCHANGED due
      BY <1>3 DEF Pop
    <2> HIDE DEF m
    <2>4. QED
      BY <2>1, <2>2, <2>3 DEF DueExpired, TypeOK
  <1>4. ASSUME NEW w \in Workers, NEW m \in Messages,
               Acknowledge(w, m) \/ Nack(w, m)
        PROVE  DueExpired'
    <2>1. CASE \E i \in DOMAIN inFlight : LeaveFlight(i)
      BY <2>1, LeaveFlightKeepsDue
    <2>2. CASE UNCHANGED <<inFlight, left, due>>
      BY <2>2 DEF DueExpired, InFlight
    <2>3. QED
      BY <1>4, <2>1, <2>2 DEF Acknowledge, Nack
  <1>5. ASSUME Tick PROVE DueExpired'
    BY <1>5 DEF Tick, DueExpired, InFlight, TypeOK
  <1>6. ASSUME UNCHANGED <<inFlight, left, due>> PROVE DueExpired'
    BY <1>6 DEF DueExpired, InFlight
  <1>7. QED
    BY <1>1, <1>2, <1>3, <1>4, <1>5, <1>6
       DEF Next, Dequeue, Enqueue, Sweep, SweepDone, PopNothing, Purge, vars

(* A delivered message becomes visible to other workers again only after   *)
(* its own visibility timeout or a nack.                                   *)
THEOREM HiddenWhileProcessed == Spec => HiddenUntilDue
  <1> DEFINE A == \A m \in InFlight : m \in Range(queue') =>
                     left[m] = 0 \/ \E w \in Workers : Nack(w, m)
  <1>1. Init => DueExpired
    BY DEF Init, DueExpired
  <1>2. TypeOK /\ Conservation /\ DueExpired /\ [Next]_vars => [A]_vars
    <2> SUFFICES ASSUME TypeOK, Conservation, DueExpired, [Next]_vars,
                        NEW m \in InFlight, m \in Range(queue')
                 PROVE  left[m] = 0 \/ \E w \in Workers : Nack(w, m)
      OBVIOUS
    <2>0. m \in Messages /\ m \notin Ready
      BY DEF Conservation, TypeOK, InFlight, Range
    <2>1. ASSUME NEW x \in Messages, Enqueue(x) PROVE FALSE
      <3>1. x \notin InFlight
        BY <2>1 DEF Enqueue, Conservation
      <3>2. Range(queue') = Ready \cup {x}
        BY <2>1, AppendRange DEF Enqueue, TypeOK, Ready
      <3>3. QED
        BY <2>0, <3>1, <3>2
    <2>2. ASSUME NEW w \in Workers, RequeueOne(w) PROVE left[m] = 0
      <3>1. PICK i \in DOMAIN inFlight :
                /\ inFlight[i] \in due[w] /\ LeaveFlight(i)
                /\ queue' = <<inFlight[i]>> \o queue
        BY <2>2 DEF RequeueOne
      <3>2. Range(queue') = Ready \cup {inFlight[i]}
        BY SMTT(40), <3>1, LeaveFlightType, PushRange DEF TypeOK, Ready
      <3>3. QED
        BY <2>0, <3>1, <3>2 DEF DueExpired
    <2>3. ASSUME NEW w \in Workers, NEW t \in Timeouts, Pop(w, t) PROVE FALSE
      <3>1. Range(queue') = Ready \ {Head(queue)}
        BY <2>3, TailRange DEF Pop, TypeOK, Conservation, Ready
      <3>2. QED
        BY <2>0, <3>1
    <2>4. ASSUME NEW w \in Workers, NEW x \in Messages, Nack(w, x)
          PROVE  \E v \in Workers : Nack(v, m)
      <3>1. queue' = queue \/ queue' = <<x>> \o queue
        BY <2>4 DEF Nack
      <3>2. Range(<<x>> \o queue) = Ready \cup {x}
        BY PushRange DEF TypeOK, Ready
      <3>3. m = x
        BY <2>0, <3>1, <3>2 DEF Ready
      <3>4. QED
        BY <2>4, <3>3
    <2>5. ASSUME Purge PROVE FALSE
      BY <2>5 DEF Purge, Range
    <2>6. ASSUME queue' = queue PROVE FALSE
      BY <2>0, <2>6 DEF Ready
    <2>7. QED
      BY <2>1, <2>2, <2>3, <2>4, <2>5, <2>6
         DEF Next, Dequeue, CallDequeue, Sweep, SweepDone, PopNothing, Acknowledge,
             Tick, vars
  <1>3. Spec => [][A]_vars
    BY <1>1, <1>2, TypeCorrect, NothingLost, DueStep, PTL DEF Spec
  <1>4. QED
    BY <1>3 DEF HiddenUntilDue

-----------------------------------------------------------------------------
(* The queue, with its threads, its two-step dequeue and its clock,        *)
(* implements the abstract point-to-point queue.                           *)
THEOREM Refinement == Spec => ImplementsPointToPoint
  <1>1. Init => Abstract!Init
    BY DEF Init, Abstract!Init, Ready, InFlight, Range
  <1>2. TypeOK /\ Conservation /\ [Next]_vars => [Abstract!Next]_(Abstract!vars)
    <2> SUFFICES ASSUME TypeOK, Conservation, [Next]_vars
                 PROVE  Abstract!Next \/ UNCHANGED Abstract!vars
      OBVIOUS
    <2> USE DEF Abstract!Next
    <2>1. ASSUME NEW m \in Messages, Enqueue(m) PROVE Abstract!Accept(m)
      <3>1. Ready' = Ready \cup {m}
        BY <2>1, AppendRange DEF Enqueue, TypeOK, Ready
      <3>2. m \notin Ready \cup InFlight \cup acked \cup purged
        BY <2>1 DEF Enqueue, Conservation
      <3>3. QED
        BY <2>1, <3>1, <3>2 DEF Enqueue, InFlight, Abstract!Accept, Abstract!Accepted
    <2>2. ASSUME NEW i \in DOMAIN inFlight, LeaveFlight(i),
                 queue' = <<inFlight[i]>> \o queue, UNCHANGED <<acked, purged>>
          PROVE  inFlight[i] \in Messages /\ Abstract!Return(inFlight[i])
      <3>1. inFlight[i] \in Messages
        BY <2>2, LeaveFlightType
      <3>2. Ready' = Ready \cup {inFlight[i]}
        BY <2>2, <3>1, PushRange DEF TypeOK, Ready
      <3>3. QED
        BY <2>2, <3>1, <3>2, LeaveFlightEffect DEF Abstract!Return
    <2>3. ASSUME NEW w \in Workers, NEW t \in Timeouts, Pop(w, t)
          PROVE  Head(queue) \in Messages /\ Abstract!Deliver(Head(queue))
      <3>1. /\ Head(queue) \in Messages
            /\ Head(queue) \in Ready
            /\ Ready' = Ready \ {Head(queue)}
        BY <2>3, TailRange DEF Pop, TypeOK, Ready, Conservation
      <3>2. InFlight' = InFlight \cup {Head(queue)}
        BY <2>3, <3>1, AppendRange DEF Pop, TypeOK, InFlight
      <3>3. QED
        BY <2>3, <3>1, <3>2 DEF Pop, Abstract!Deliver
    <2>4. ASSUME NEW w \in Workers, NEW m \in Messages, Acknowledge(w, m)
          PROVE  Abstract!Settle(m) \/ UNCHANGED Abstract!vars
      <3>1. Ready' = Ready /\ purged' = purged
        BY <2>4 DEF Acknowledge, Ready
      <3>2. CASE m \in InFlight
        <4>1. PICK i \in DOMAIN inFlight : inFlight[i] = m /\ LeaveFlight(i)
          BY <2>4, <3>2 DEF Acknowledge
        <4>2. InFlight' = InFlight \ {m}
          BY <4>1, LeaveFlightEffect
        <4>3. acked' = acked \cup {m}
          BY <2>4, <3>2 DEF Acknowledge
        <4>4. QED
          BY <3>1, <3>2, <4>2, <4>3 DEF Abstract!Settle
      <3>3. CASE m \notin InFlight
        <4>1. UNCHANGED <<inFlight, acked>>
          BY <2>4, <3>3 DEF Acknowledge, InFlight, Range
        <4>2. QED
          BY <3>1, <4>1 DEF Abstract!vars, InFlight
      <3>4. QED
        BY <3>2, <3>3
    <2>5. ASSUME NEW w \in Workers, NEW m \in Messages, Nack(w, m)
          PROVE  Abstract!Return(m) \/ UNCHANGED Abstract!vars
      <3>1. CASE m \in InFlight
        <4>1. PICK i \in DOMAIN inFlight : inFlight[i] = m /\ LeaveFlight(i)
          BY <2>5, <3>1 DEF Nack
        <4>2. queue' = <<m>> \o queue /\ UNCHANGED <<acked, purged>>
          BY <2>5, <3>1 DEF Nack
        <4>3. QED
          BY <2>2, <4>1, <4>2
      <3>2. CASE m \notin InFlight
        <4>1. UNCHANGED <<queue, inFlight, acked, purged>>
          BY <2>5, <3>2 DEF Nack, InFlight, Range
        <4>2. QED
          BY <4>1 DEF Abstract!vars, InFlight, Ready
      <3>3. QED
        BY <3>1, <3>2
    <2>6. ASSUME Purge PROVE Abstract!Purge
      BY <2>6 DEF Purge, Abstract!Purge, Ready, InFlight, Range
    <2>7. ASSUME UNCHANGED <<queue, inFlight, acked, purged>>
          PROVE  UNCHANGED Abstract!vars
      BY <2>7 DEF Abstract!vars, Ready, InFlight
    <2>8. ASSUME NEW w \in Workers, RequeueOne(w) PROVE Abstract!Next
      BY <2>2, <2>8 DEF RequeueOne
    <2>9. QED
      BY <2>1, <2>3, <2>4, <2>5, <2>6, <2>7, <2>8
         DEF Next, Dequeue, CallDequeue, Sweep, SweepDone, PopNothing, Tick, vars
  <1>3. QED
    BY <1>1, <1>2, TypeCorrect, NothingLost, PTL
       DEF Spec, ImplementsPointToPoint, Abstract!Spec
=============================================================================
