---------------------------- MODULE MessageQueue ----------------------------
(***************************************************************************)
(* The point-to-point queue of brokerlite/queue.py (class MessageQueue),   *)
(* shared by the worker threads that enqueue, dequeue, acknowledge, nack   *)
(* and purge.                                                              *)
(*                                                                         *)
(* Every method body is one critical section of the queue's lock, hence    *)
(* one step, except dequeue: it reads the clock before the lock, requeues  *)
(* what has expired in one critical section, releases the lock, and pops   *)
(* in a second one.  These are the steps of the variable pc; the requeue   *)
(* loop is one step per iteration, with the lock held.                     *)
(*                                                                         *)
(* Time is kept as what is left of each visibility timeout, so that it     *)
(* needs no bound.  A message is enqueued once (ids are generated).        *)
(***************************************************************************)
EXTENDS Integers, Sequences, Functions

CONSTANTS Messages, Workers,
          MaxSize,      \* max_size, 0 for an unbounded queue
          Timeouts,     \* visibility timeouts that dequeue may be given
          NoWorker

ASSUME QueueAssumption ==
    /\ MaxSize \in Nat
    /\ Timeouts \subseteq Nat \ {0}
    /\ NoWorker \notin Workers

VARIABLES
    queue,      \* _queue, its left end first
    inFlight,   \* the keys of _in_flight, in insertion order
    left,       \* expiry - time.time() of an in-flight message, never below 0,
                \* and 0 for the others
    lock,       \* the worker inside the requeue loop, or NoWorker
    pc,         \* where each worker is in dequeue
    due,        \* entries of _in_flight expired at the "now" a worker has read
    held,       \* messages a worker was given and has not answered for
    acked,      \* removed by acknowledge
    purged,     \* removed by purge
    delivered,  \* messages that a worker was given, at least once
    number,     \* the value of _total_enqueued a message brought about, or 0
    totalEnqueued

vars == <<queue, inFlight, left, lock, pc, due, held, acked, purged,
          delivered, number, totalEnqueued>>

Ready    == Range(queue)
InFlight == Range(inFlight)

Without(s, i) == SubSeq(s, 1, i - 1) \o SubSeq(s, i + 1, Len(s))

\* Types of the queue, its in-flight table and the workers inside dequeue.
TypeOK ==
    /\ queue \in Seq(Messages)
    /\ inFlight \in Seq(Messages)
    /\ left \in [Messages -> Nat]
    /\ lock \in Workers \cup {NoWorker}
    /\ pc \in [Workers -> {"idle", "sweep", "requeue", "pop"}]
    /\ due \in [Workers -> SUBSET Messages]
    /\ held \in [Workers -> SUBSET Messages]
    /\ acked \in SUBSET Messages
    /\ purged \in SUBSET Messages
    /\ delivered \in SUBSET Messages
    /\ number \in [Messages -> Nat]
    /\ totalEnqueued \in Nat

Init ==
    /\ queue = <<>>
    /\ inFlight = <<>>
    /\ left = [m \in Messages |-> 0]
    /\ lock = NoWorker
    /\ pc = [w \in Workers |-> "idle"]
    /\ due = [w \in Workers |-> {}]
    /\ held = [w \in Workers |-> {}]
    /\ acked = {}
    /\ purged = {}
    /\ delivered = {}
    /\ number = [m \in Messages |-> 0]
    /\ totalEnqueued = 0

-----------------------------------------------------------------------------
(* _in_flight.pop: the i-th entry goes away.  A sweep that has read its    *)
(* clock but not yet built its list of expired ids does not find it.       *)
LeaveFlight_StaleIds(i) ==
    /\ inFlight' = Without(inFlight, i)
    /\ left' = [left EXCEPT ![inFlight[i]] = 0]
    /\ UNCHANGED due
LeaveFlight(i) ==
    /\ inFlight' = Without(inFlight, i)
    /\ left' = [left EXCEPT ![inFlight[i]] = 0]
    /\ due' = [w \in Workers |-> due[w] \ {inFlight[i]}]

NotFull_OffByOne == MaxSize = 0 \/ Len(queue) <= MaxSize

NotFull == MaxSize = 0 \/ Len(queue) < MaxSize

Enqueue_AtFront(m) ==
    /\ lock = NoWorker
    /\ number[m] = 0 /\ m = CHOOSE o \in Messages : number[o] = 0
    /\ NotFull
    /\ queue' = <<m>> \o queue
    /\ totalEnqueued' = totalEnqueued + 1
    /\ number' = [number EXCEPT ![m] = totalEnqueued + 1]
    /\ UNCHANGED <<inFlight, left, lock, pc, due, held, acked, purged, delivered>>

\* enqueue of the next of Messages, whose names mean nothing; a full queue raises
\* ValueError and changes nothing.
Enqueue(m) ==
    /\ lock = NoWorker
    /\ number[m] = 0 /\ m = CHOOSE o \in Messages : number[o] = 0
    /\ NotFull
    /\ queue' = Append(queue, m)
    /\ totalEnqueued' = totalEnqueued + 1
    /\ number' = [number EXCEPT ![m] = totalEnqueued + 1]
    /\ UNCHANGED <<inFlight, left, lock, pc, due, held, acked, purged, delivered>>

\* dequeue enters _requeue_timed_out, which reads the clock without the lock.
CallDequeue(w) ==
    /\ pc[w] = "idle"
    /\ pc' = [pc EXCEPT ![w] = "sweep"]
    /\ due' = [due EXCEPT ![w] = {m \in InFlight : left[m] = 0}]
    /\ UNCHANGED <<queue, inFlight, left, lock, held, acked, purged, delivered,
                   number, totalEnqueued>>

Sweep(w) ==
    /\ pc[w] = "sweep"
    /\ lock = NoWorker
    /\ lock' = w
    /\ pc' = [pc EXCEPT ![w] = "requeue"]
    /\ UNCHANGED <<queue, inFlight, left, due, held, acked, purged, delivered,
                   number, totalEnqueued>>

\* One iteration of the loop: the first expired id goes to the front.
RequeueOne_Lost(w) ==
    /\ pc[w] = "requeue"
    /\ \E i \in DOMAIN inFlight : inFlight[i] \in due[w] /\ LeaveFlight(i)
    /\ UNCHANGED <<queue, lock, pc, held, acked, purged, delivered, number,
                   totalEnqueued>>
RequeueOne(w) ==
    /\ pc[w] = "requeue"
    /\ \E i \in DOMAIN inFlight :
          /\ inFlight[i] \in due[w]
          /\ \A j \in 1 .. i - 1 : inFlight[j] \notin due[w]
          /\ LeaveFlight(i)
          /\ queue' = <<inFlight[i]>> \o queue
    /\ UNCHANGED <<lock, pc, held, acked, purged, delivered, number, totalEnqueued>>

SweepDone(w) ==
    /\ pc[w] = "requeue"
    /\ due[w] = {}
    /\ lock' = NoWorker
    /\ pc' = [pc EXCEPT ![w] = "pop"]
    /\ UNCHANGED <<queue, inFlight, left, due, held, acked, purged, delivered,
                   number, totalEnqueued>>

\* The second critical section of dequeue, with visibility timeout t.
Pop(w, t) ==
    /\ pc[w] = "pop"
    /\ lock = NoWorker
    /\ queue # <<>>
    /\ LET m == Head(queue) IN
          /\ queue' = Tail(queue)
          /\ inFlight' = Append(inFlight, m)
          /\ left' = [left EXCEPT ![m] = t]
          /\ held' = [held EXCEPT ![w] = @ \cup {m}]
          /\ delivered' = delivered \cup {m}
    /\ pc' = [pc EXCEPT ![w] = "idle"]
    /\ UNCHANGED <<lock, due, acked, purged, number, totalEnqueued>>

\* dequeue returns None.
PopNothing(w) ==
    /\ pc[w] = "pop"
    /\ lock = NoWorker
    /\ queue = <<>>
    /\ pc' = [pc EXCEPT ![w] = "idle"]
    /\ UNCHANGED <<queue, inFlight, left, lock, due, held, acked, purged,
                   delivered, number, totalEnqueued>>

\* The worker answers for m, in time or too late: the queue only knows the
\* id, so a late answer settles whichever delivery of m is in flight now.
Acknowledge(w, m) ==
    /\ pc[w] = "idle"
    /\ m \in held[w]
    /\ lock = NoWorker
    /\ held' = [held EXCEPT ![w] = @ \ {m}]
    /\ \/ /\ \E i \in DOMAIN inFlight : inFlight[i] = m /\ LeaveFlight(i)
          /\ acked' = acked \cup {m}
       \/ /\ m \notin InFlight
          /\ UNCHANGED <<inFlight, left, due, acked>>
    /\ UNCHANGED <<queue, lock, pc, purged, delivered, number, totalEnqueued>>

Nack(w, m) ==
    /\ pc[w] = "idle"
    /\ m \in held[w]
    /\ lock = NoWorker
    /\ held' = [held EXCEPT ![w] = @ \ {m}]
    /\ \/ /\ \E i \in DOMAIN inFlight : inFlight[i] = m /\ LeaveFlight(i)
          /\ queue' = <<m>> \o queue
       \/ /\ m \notin InFlight
          /\ UNCHANGED <<inFlight, left, due, queue>>
    /\ UNCHANGED <<lock, pc, acked, purged, delivered, number, totalEnqueued>>

Purge ==
    /\ lock = NoWorker
    /\ purged' = purged \cup Ready
    /\ queue' = <<>>
    /\ UNCHANGED <<inFlight, left, lock, pc, due, held, acked, delivered, number,
                   totalEnqueued>>

\* External: the clock.  It advances whoever holds the lock.
Tick ==
    /\ \E m \in InFlight : left[m] > 0
    /\ left' = [m \in Messages |-> IF left[m] > 0 THEN left[m] - 1 ELSE 0]
    /\ UNCHANGED <<queue, inFlight, lock, pc, due, held, acked, purged, delivered,
                   number, totalEnqueued>>

Dequeue(w) ==
    \/ CallDequeue(w)
    \/ Sweep(w)
    \/ RequeueOne(w)
    \/ SweepDone(w)
    \/ \E t \in Timeouts : Pop(w, t)
    \/ PopNothing(w)

Next ==
    \/ \E m \in Messages : Enqueue(m)
    \/ \E w \in Workers : Dequeue(w)
    \/ \E w \in Workers, m \in Messages : Acknowledge(w, m) \/ Nack(w, m)
    \/ Purge
    \/ Tick

Spec == Init /\ [][Next]_vars

\* Some worker keeps polling, the lock is granted to someone, time passes.
Fairness == WF_vars(\E w \in Workers : Dequeue(w)) /\ WF_vars(Tick)

FairSpec == Spec /\ Fairness

-----------------------------------------------------------------------------
(* No message is lost or duplicated inside the queue: every accepted       *)
(* message is waiting, in flight, acknowledged or purged, in exactly one   *)
(* of these places and once, whatever the interleaving of the two critical *)
(* sections of dequeue with the other methods (queue.py 57-145).           *)
Conservation ==
    /\ IsInjective(queue)
    /\ IsInjective(inFlight)
    /\ InFlight \cap Ready = {}
    /\ acked \cap (Ready \cup InFlight) = {}
    /\ purged \cap (Ready \cup InFlight \cup acked) = {}
    /\ Ready \cup InFlight \cup acked \cup purged = {m \in Messages : number[m] # 0}

(* What redelivery may do to the order: messages that come back overtake,  *)
(* but those not delivered yet keep the order of their enqueue calls and   *)
(* none of them is ahead of a redelivered one (appendleft, 115 and 129).   *)
FreshInOrder ==
    \A i, j \in DOMAIN queue :
        i < j /\ queue[i] \notin delivered
           => queue[j] \notin delivered /\ number[queue[i]] < number[queue[j]]

(* What remains of max_size when messages come back into a queue that has  *)
(* been filled meanwhile (63, 115, 129): of the messages never delivered,  *)
(* which are the last ones of the queue, at most max_size wait; only       *)
(* redelivered messages exceed the limit.                                  *)
FreshBounded ==
    MaxSize > 0 =>
        \A i \in DOMAIN queue :
            queue[i] \notin delivered => Len(queue) - i < MaxSize

(* A delivered message stays hidden from other workers until its own       *)
(* visibility timeout has expired or somebody nacks it, although the sweep *)
(* compares expiries with a clock read before it got the lock (120-126).   *)
HiddenUntilDue ==
    [][\A m \in InFlight : m \in Range(queue') =>
           left[m] = 0 \/ \E w \in Workers : Nack(w, m)]_vars

(* A message in flight whose worker never answers becomes available again. *)
Redelivery ==
    \A m \in Messages : m \in InFlight ~> (m \in Ready \/ m \in acked)

\* The abstract queue this one implements.
Abstract == INSTANCE PointToPoint WITH
    ready <- Ready, held <- InFlight, settled <- acked, dropped <- purged
(* The queue of queue.py 19-169 implements the abstract one: no sequence of *)
(* its operations, and no interleaving inside dequeue, makes a message      *)
(* available twice, or again after it was acknowledged or purged.           *)
ImplementsPointToPoint == Abstract!Spec
=============================================================================
