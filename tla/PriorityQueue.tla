--------------------------- MODULE PriorityQueue ---------------------------
(***************************************************************************)
(* The priority queue of brokerlite/queue.py (class PriorityQueue), with   *)
(* the same two-step dequeue as MessageQueue.                              *)
(*                                                                         *)
(* The heap of (-priority, sequence, message) tuples is kept as the        *)
(* sequence of its messages in the order heappop would return them.  The   *)
(* sequence counter only grows, so a push goes behind every entry of the   *)
(* same or a higher priority, and the counter itself need not be kept.     *)
(***************************************************************************)
EXTENDS Integers, Sequences, Functions

CONSTANTS Messages, Workers, MaxSize,
          Priority,      \* the priority of each message
          NoWorker

PriorityAssumption ==
    /\ MaxSize \in Nat
    /\ Priority \in [Messages -> Nat]
    /\ NoWorker \notin Workers

VARIABLES
    heap,       \* _heap, in the order of its tuples
    inFlight,   \* the keys of _in_flight, in insertion order
    expired,    \* the in-flight messages whose visibility timeout is over
    lock, pc, due, held,     \* as in MessageQueue
    acked,
    accepted,   \* messages in the order they were enqueued
    seen        \* messages delivered at least once

vars == <<heap, inFlight, expired, lock, pc, due, held, acked, accepted, seen>>

Ready    == Range(heap)
InFlight == Range(inFlight)

\* Types of the heap, the in-flight table and the workers inside dequeue.
TypeOK ==
    /\ heap \in Seq(Messages)
    /\ inFlight \in Seq(Messages)
    /\ expired \subseteq InFlight
    /\ lock \in Workers \cup {NoWorker}
    /\ pc \in [Workers -> {"idle", "sweep", "requeue", "pop"}]
    /\ due \in [Workers -> SUBSET Messages]
    /\ held \in [Workers -> SUBSET Messages]
    /\ acked \subseteq Messages
    /\ accepted \in Seq(Messages)
    /\ seen \subseteq Messages

Init ==
    /\ heap = <<>>
    /\ inFlight = <<>>
    /\ expired = {}
    /\ lock = NoWorker
    /\ pc = [w \in Workers |-> "idle"]
    /\ due = [w \in Workers |-> {}]
    /\ held = [w \in Workers |-> {}]
    /\ acked = {}
    /\ accepted = <<>>
    /\ seen = {}

-----------------------------------------------------------------------------
\* heappush with the next sequence number.
Push_OldSequence(m) ==
    \E i \in 0 .. Len(heap) :
        /\ \A j \in 1 .. Len(heap) : j <= i <=> Priority[heap[j]] > Priority[m]
        /\ heap' = SubSeq(heap, 1, i) \o <<m>> \o SubSeq(heap, i + 1, Len(heap))
Push(m) ==
    \E i \in 0 .. Len(heap) :
        /\ \A j \in 1 .. Len(heap) : j <= i <=> Priority[heap[j]] >= Priority[m]
        /\ heap' = SubSeq(heap, 1, i) \o <<m>> \o SubSeq(heap, i + 1, Len(heap))

LeaveFlight(i) ==
    /\ inFlight' = SubSeq(inFlight, 1, i - 1) \o SubSeq(inFlight, i + 1, Len(inFlight))
    /\ expired' = expired \ {inFlight[i]}
    /\ due' = [w \in Workers |-> due[w] \ {inFlight[i]}]

Enqueue(m) ==
    /\ lock = NoWorker
    /\ m \notin Range(accepted)
    /\ MaxSize = 0 \/ Len(heap) < MaxSize
    /\ Push(m)
    /\ accepted' = Append(accepted, m)
    /\ UNCHANGED <<inFlight, expired, lock, pc, due, held, acked, seen>>

CallDequeue(w) ==
    /\ pc[w] = "idle"
    /\ pc' = [pc EXCEPT ![w] = "sweep"]
    /\ due' = [due EXCEPT ![w] = expired]
    /\ UNCHANGED <<heap, inFlight, expired, lock, held, acked, accepted, seen>>

Sweep(w) ==
    /\ pc[w] = "sweep"
    /\ lock = NoWorker
    /\ lock' = w
    /\ pc' = [pc EXCEPT ![w] = "requeue"]
    /\ UNCHANGED <<heap, inFlight, expired, due, held, acked, accepted, seen>>

RequeueOne(w) ==
    /\ pc[w] = "requeue"
    /\ \E i \in DOMAIN inFlight :
          /\ inFlight[i] \in due[w]
          /\ \A j \in 1 .. i - 1 : inFlight[j] \notin due[w]
          /\ LeaveFlight(i)
          /\ Push(inFlight[i])
    /\ UNCHANGED <<lock, pc, held, acked, accepted, seen>>

SweepDone(w) ==
    /\ pc[w] = "requeue"
    /\ due[w] = {}
    /\ lock' = NoWorker
    /\ pc' = [pc EXCEPT ![w] = "pop"]
    /\ UNCHANGED <<heap, inFlight, expired, due, held, acked, accepted, seen>>

\* heappop, or None from an empty heap.
Pop(w) ==
    /\ pc[w] = "pop"
    /\ lock = NoWorker
    /\ \/ /\ heap # <<>>
          /\ heap' = Tail(heap)
          /\ inFlight' = Append(inFlight, Head(heap))
          /\ held' = [held EXCEPT ![w] = @ \cup {Head(heap)}]
          /\ seen' = seen \cup {Head(heap)}
       \/ heap = <<>> /\ UNCHANGED <<heap, inFlight, held, seen>>
    /\ pc' = [pc EXCEPT ![w] = "idle"]
    /\ UNCHANGED <<expired, lock, due, acked, accepted>>

Acknowledge(w, m) ==
    /\ pc[w] = "idle"
    /\ m \in held[w]
    /\ lock = NoWorker
    /\ held' = [held EXCEPT ![w] = @ \ {m}]
    /\ \/ /\ \E i \in DOMAIN inFlight : inFlight[i] = m /\ LeaveFlight(i)
          /\ acked' = acked \cup {m}
       \/ m \notin InFlight /\ UNCHANGED <<inFlight, expired, due, acked>>
    /\ UNCHANGED <<heap, lock, pc, accepted, seen>>

Nack_Unchecked(w, m) ==
    /\ pc[w] = "idle"
    /\ m \in held[w]
    /\ lock = NoWorker
    /\ held' = [held EXCEPT ![w] = @ \ {m}]
    /\ \/ \E i \in DOMAIN inFlight : inFlight[i] = m /\ LeaveFlight(i) /\ Push(m)
       \/ m \notin InFlight /\ Push(m) /\ UNCHANGED <<inFlight, expired, due>>
    /\ UNCHANGED <<lock, pc, acked, accepted, seen>>
Nack(w, m) ==
    /\ pc[w] = "idle"
    /\ m \in held[w]
    /\ lock = NoWorker
    /\ held' = [held EXCEPT ![w] = @ \ {m}]
    /\ \/ \E i \in DOMAIN inFlight : inFlight[i] = m /\ LeaveFlight(i) /\ Push(m)
       \/ m \notin InFlight /\ UNCHANGED <<inFlight, expired, due, heap>>
    /\ UNCHANGED <<lock, pc, acked, accepted, seen>>

\* External: a visibility timeout runs out.
Expire(m) ==
    /\ m \in InFlight \ expired
    /\ expired' = expired \cup {m}
    /\ UNCHANGED <<heap, inFlight, lock, pc, due, held, acked, accepted, seen>>

Dequeue(w) ==
    CallDequeue(w) \/ Sweep(w) \/ RequeueOne(w) \/ SweepDone(w) \/ Pop(w)

Next ==
    \/ \E m \in Messages : Enqueue(m) \/ Expire(m)
    \/ \E w \in Workers : Dequeue(w)
    \/ \E w \in Workers, m \in Messages : Acknowledge(w, m) \/ Nack(w, m)

Spec == Init /\ [][Next]_vars

-----------------------------------------------------------------------------
(* Within one priority the messages are first delivered in the order of    *)
(* their enqueue calls, whatever is nacked, timed out and pushed again     *)
(* meanwhile (queue.py 176: FIFO within the same priority).                *)
FirstDeliveryInOrder ==
    \A i, j \in DOMAIN accepted :
        /\ i < j
        /\ Priority[accepted[i]] = Priority[accepted[j]]
        /\ accepted[j] \in seen
        => accepted[i] \in seen

Abstract == INSTANCE PointToPoint WITH
    ready <- Ready, held <- InFlight, settled <- acked, dropped <- {}
(* The heap-based queue of queue.py 172-262 implements the same abstract    *)
(* queue: whatever the priorities, a message is in one place at a time and  *)
(* does not come back after its acknowledgment.                             *)
ImplementsPointToPoint == Abstract!Spec
=============================================================================
