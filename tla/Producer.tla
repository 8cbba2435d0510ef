------------------------------ MODULE Producer ------------------------------
(***************************************************************************)
(* A producer (brokerlite/producer.py, class Producer), used by several    *)
(* threads and connected to the broker by publish_fn = Broker.publish      *)
(* (broker.py, create_producer).                                           *)
(*                                                                         *)
(* Two locks matter.  send, flush and close take the producer's lock and,  *)
(* still holding it, publish, which takes the broker's lock.  Broker.      *)
(* snapshot takes the broker's lock and, still holding it, the producer's, *)
(* to read the producer's snapshot.  close sets _closed without a lock,    *)
(* and send tests it without one.                                          *)
(*                                                                         *)
(* After each message the application's callback runs, in the same thread  *)
(* and, with batching, inside the loop of _flush_batch and under the       *)
(* producer's lock, which is re-entrant.  A callback may send, flush and   *)
(* close in its turn.  An on_success that raises is caught, and on_error   *)
(* runs; an on_error that raises is not, and leaves the loop.              *)
(***************************************************************************)
EXTENDS Integers, Sequences, SequencesExt

CONSTANTS
    Threads, Messages,
    NoThread, NoMessage,
    Rejected,     \* messages that publish raises for: filtered or refused
    BatchSizes,   \* values of batch_size
    Idempotence   \* enable_idempotence

ASSUME ProducerAssumption ==
    /\ NoThread \notin Threads
    /\ NoMessage \notin Messages
    /\ Rejected \subseteq Messages
    /\ BatchSizes \subseteq Nat \ {0}
    /\ Idempotence \in BOOLEAN

VARIABLES
    batchSize,    \* batch_size of the producer's configuration
    batch,        \* _batch
    flushing,     \* what the loops of _flush_batch have not published yet, the
                  \* innermost loop's messages first
    closed,       \* _closed
    lock,         \* the thread that holds the producer's lock
    pc,           \* where each thread is, "application" outside the producer
    stack,        \* each thread's calls that have a callback or a loop under way,
                  \* the innermost first
    msg,          \* the message a thread is sending
    sequence,     \* _sequence_number
    number,       \* sequence_number of each message, -1 at first
    snapshot,     \* the snapshot thread: "idle", or "holds" the broker's lock
    done,         \* history: messages that publish was called for, in order,
    lost,         \* those an exception cut off from the loop they were in,
    taken, order, \* how many send took, and the place of each message, 0 before,
    overtaking    \* pairs: a callback flushed the first while the second waited
                  \* in the loop that the callback interrupted

sendVars == <<msg, sequence, number>>
lineVars == <<batch, flushing, done, lost, taken, order, overtaking>>
vars == <<batchSize, closed, lock, pc, stack, snapshot, sendVars, lineVars>>

\* A call: outer is the number of messages in flushing that are not its own.
Frames == [call : {"now", "send", "flush", "close"}, outer : Nat,
           callback : {"none", "onSuccess", "onError"}]

PCs == {"application", "number", "send", "loop", "close"}

\* Types of the producer, the threads' calls and the broker's snapshot.
TypeOK ==
    /\ batchSize \in BatchSizes
    /\ batch \in Seq(Messages) /\ flushing \in Seq(Messages)
    /\ closed \in BOOLEAN
    /\ lock \in Threads \cup {NoThread}
    /\ pc \in [Threads -> PCs]
    /\ stack \in [Threads -> Seq(Frames)]
    /\ msg \in [Threads -> Messages \cup {NoMessage}]
    /\ sequence \in Nat /\ number \in [Messages -> Nat \cup {-1}]
    /\ snapshot \in {"idle", "holds"}
    /\ done \in Seq(Messages) /\ lost \subseteq Messages
    /\ taken \in Nat /\ order \in [Messages -> Nat]
    /\ overtaking \subseteq Messages \X Messages

Init ==
    /\ batchSize \in BatchSizes
    /\ batch = <<>> /\ flushing = <<>>
    /\ closed = FALSE
    /\ lock = NoThread
    /\ pc = [t \in Threads |-> "application"]
    /\ stack = [t \in Threads |-> <<>>]
    /\ msg = [t \in Threads |-> NoMessage]
    /\ sequence = 0 /\ number = [m \in Messages |-> -1]
    /\ snapshot = "idle"
    /\ done = <<>> /\ lost = {}
    /\ taken = 0 /\ order = [m \in Messages |-> 0]
    /\ overtaking = {}

-----------------------------------------------------------------------------
Taken == {m \in Messages : order[m] > 0}
Sent  == Taken \cup {msg[t] : t \in Threads}

BrokerFree == snapshot = "idle"

\* The producer's lock is re-entrant.
LockFree(t) == lock \in {NoThread, t}

InCallback(t) == pc[t] = "application" /\ stack[t] # <<>>
MoreToDo(t)   == Len(flushing) > Head(stack[t]).outer

Take(m) ==
    /\ taken' = taken + 1
    /\ order' = [order EXCEPT ![m] = taken + 1]

\* The callback that _do_send calls after publish.
CallbackOf(m) == IF m \in Rejected THEN "onError" ELSE "onSuccess"

Frame(call, callback) ==
    [call |-> call, outer |-> Len(flushing), callback |-> callback]

SetCallback(t, callback) ==
    stack' = [stack EXCEPT ![t] = <<[Head(@) EXCEPT !.callback = callback]>> \o Tail(@)]

\* A call ends, and with a thread's outermost one the lock is released.
Pop_KeepsLock(t) == stack' = [stack EXCEPT ![t] = Tail(@)] /\ UNCHANGED lock
Pop(t) ==
    /\ stack' = [stack EXCEPT ![t] = Tail(@)]
    /\ lock' = IF Tail(stack[t]) = <<>> THEN NoThread ELSE lock

-----------------------------------------------------------------------------
(* The calls.  The application makes them outside of the producer and in   *)
(* callbacks.                                                              *)

\* send finds the producer open and builds the message, the next of Messages,
\* whose names mean nothing; a closed producer raises.
CallSend(t, m) ==
    /\ pc[t] = "application"
    /\ ~closed
    /\ m \notin Sent /\ m = CHOOSE o \in Messages \ Sent : TRUE
    /\ pc' = [pc EXCEPT ![t] = IF Idempotence THEN "number" ELSE "send"]
    /\ msg' = [msg EXCEPT ![t] = m]
    /\ UNCHANGED <<batchSize, closed, lock, stack, sequence, number, snapshot, lineVars>>

NextNumber_NoIncrement(m) ==
    number' = [number EXCEPT ![m] = sequence] /\ UNCHANGED sequence
NextNumber(m) ==
    number' = [number EXCEPT ![m] = sequence] /\ sequence' = sequence + 1

\* With idempotence send takes the next sequence number, under the lock, and
\* releases the lock again before it takes the message to the batch.
Number(t) ==
    /\ pc[t] = "number"
    /\ LockFree(t)
    /\ NextNumber(msg[t])
    /\ pc' = [pc EXCEPT ![t] = "send"]
    /\ UNCHANGED <<batchSize, closed, lock, stack, msg, snapshot, lineVars>>

\* send without batching: _do_send publishes, with no lock but the broker's.
SendNow(t) ==
    /\ pc[t] = "send"
    /\ batchSize = 1
    /\ BrokerFree
    /\ Take(msg[t])
    /\ done' = Append(done, msg[t])
    /\ stack' = [stack EXCEPT ![t] = <<Frame("now", CallbackOf(msg[t]))>> \o @]
    /\ pc' = [pc EXCEPT ![t] = "application"]
    /\ UNCHANGED <<batchSize, closed, lock, sendVars, snapshot, batch, flushing, lost,
                   overtaking>>

\* The batch is copied and cleared.
MoveBatch(buffered) == flushing' = buffered \o flushing /\ batch' = <<>>

\* A loop outside of the lock would not meet the snapshot's.
TakeBatch_Unlocked(t, buffered, nested) ==
    /\ MoveBatch(buffered)
    /\ overtaking' = IF nested THEN overtaking \cup (ToSet(buffered) \X ToSet(flushing))
                     ELSE overtaking
    /\ UNCHANGED lock
    /\ pc' = [pc EXCEPT ![t] = "loop"]

\* _flush_batch, up to its loop.
TakeBatch(t, buffered, nested) ==
    /\ MoveBatch(buffered)
    /\ overtaking' = IF nested THEN overtaking \cup (ToSet(buffered) \X ToSet(flushing))
                     ELSE overtaking
    /\ lock' = t
    /\ pc' = [pc EXCEPT ![t] = "loop"]

\* send, flush and close enter _flush_batch.
StartFlush(t, call, buffered) ==
    /\ TakeBatch(t, buffered, stack[t] # <<>>)
    /\ stack' = [stack EXCEPT ![t] = <<Frame(call, "none")>> \o @]

\* send buffers the message, and flushes if the batch is full or linger_ms has
\* passed.
Buffer(t) ==
    LET buffered == Append(batch, msg[t]) IN
    /\ pc[t] = "send"
    /\ batchSize > 1
    /\ LockFree(t)
    /\ Take(msg[t])
    /\ \/ /\ Len(buffered) < batchSize
          /\ batch' = buffered
          /\ pc' = [pc EXCEPT ![t] = "application"]
          /\ UNCHANGED <<lock, stack, flushing, overtaking>>
       \/ StartFlush(t, "send", buffered)
    /\ UNCHANGED <<batchSize, closed, sendVars, snapshot, done, lost>>

CallFlush(t) ==
    /\ pc[t] = "application"
    /\ LockFree(t)
    /\ batch # <<>>
    /\ StartFlush(t, "flush", batch)
    /\ UNCHANGED <<batchSize, closed, sendVars, snapshot, done, lost, taken, order>>

\* close flushes; with an empty batch only the assignment is left.
CallClose(t) ==
    /\ pc[t] = "application"
    /\ LockFree(t)
    /\ \/ batch # <<>> /\ StartFlush(t, "close", batch)
       \/ /\ batch = <<>>
          /\ pc' = [pc EXCEPT ![t] = "close"]
          /\ UNCHANGED <<lock, stack, batch, flushing, overtaking>>
    /\ UNCHANGED <<batchSize, closed, sendVars, snapshot, done, lost, taken, order>>

SetClosed(t) ==
    /\ pc[t] = "close"
    /\ closed' = TRUE
    /\ pc' = [pc EXCEPT ![t] = "application"]
    /\ UNCHANGED <<batchSize, lock, stack, sendVars, snapshot, lineVars>>

-----------------------------------------------------------------------------
(* The loop of _flush_batch and the callbacks *)

\* One turn: Broker.publish takes the message or raises, and a callback runs.
PublishOne(t) ==
    /\ pc[t] = "loop" /\ MoreToDo(t)
    /\ BrokerFree
    /\ flushing' = Tail(flushing)
    /\ done' = Append(done, Head(flushing))
    /\ SetCallback(t, CallbackOf(Head(flushing)))
    /\ pc' = [pc EXCEPT ![t] = "application"]
    /\ UNCHANGED <<batchSize, closed, lock, sendVars, snapshot, batch, lost, taken, order,
                   overtaking>>

CallbackReturns(t) ==
    /\ InCallback(t)
    /\ SetCallback(t, "none")
    /\ pc' = [pc EXCEPT ![t] = "loop"]
    /\ UNCHANGED <<batchSize, closed, lock, sendVars, snapshot, lineVars>>

\* What on_success raises is handled like a failed publish.
SuccessRaises(t) ==
    /\ InCallback(t)
    /\ Head(stack[t]).callback = "onSuccess"
    /\ SetCallback(t, "onError")
    /\ UNCHANGED <<batchSize, closed, lock, pc, sendVars, snapshot, lineVars>>

\* What on_error raises ends the call, and the rest of its batch is gone.
ErrorRaises(t) ==
    LET rest == Len(flushing) - Head(stack[t]).outer IN
    /\ InCallback(t)
    /\ Head(stack[t]).callback = "onError"
    /\ lost' = lost \cup {flushing[i] : i \in 1 .. rest}
    /\ flushing' = SubSeq(flushing, rest + 1, Len(flushing))
    /\ Pop(t)
    /\ UNCHANGED <<batchSize, closed, pc, sendVars, snapshot, batch, done, taken, order,
                   overtaking>>

\* flush, and close with it, goes on while the batch is not empty: a callback has
\* sent in the meantime.
FlushAgain(t) ==
    /\ pc[t] = "loop" /\ ~MoreToDo(t)
    /\ Head(stack[t]).call \in {"flush", "close"} /\ batch # <<>>
    /\ TakeBatch(t, batch, Len(stack[t]) > 1)
    /\ UNCHANGED <<batchSize, closed, stack, sendVars, snapshot, done, lost, taken, order>>

\* The call is over; close goes on to its assignment.
FlushDone(t) ==
    /\ pc[t] = "loop" /\ ~MoreToDo(t)
    /\ Head(stack[t]).call \in {"flush", "close"} => batch = <<>>
    /\ Pop(t)
    /\ pc' = [pc EXCEPT ![t] = IF Head(stack[t]).call = "close" THEN "close"
                               ELSE "application"]
    /\ UNCHANGED <<batchSize, closed, sendVars, snapshot, lineVars>>

-----------------------------------------------------------------------------
\* Broker.snapshot takes the broker's lock ...
TakeSnapshot ==
    /\ snapshot = "idle"
    /\ snapshot' = "holds"
    /\ UNCHANGED <<batchSize, closed, lock, pc, stack, sendVars, lineVars>>

\* ... and the producer's, reads it, and releases both.
ReadProducer ==
    /\ snapshot = "holds"
    /\ lock = NoThread
    /\ snapshot' = "idle"
    /\ UNCHANGED <<batchSize, closed, lock, pc, stack, sendVars, lineVars>>

\* The producer's own steps of a call that has begun.
Step(t) ==
    \/ Number(t) \/ SendNow(t) \/ Buffer(t) \/ SetClosed(t)
    \/ PublishOne(t) \/ FlushAgain(t) \/ FlushDone(t)

CallbackEnds(t) == CallbackReturns(t) \/ SuccessRaises(t) \/ ErrorRaises(t)

Next ==
    \/ \E t \in Threads :
          \/ \E m \in Messages : CallSend(t, m)
          \/ CallFlush(t) \/ CallClose(t)
          \/ Step(t) \/ CallbackEnds(t)
    \/ TakeSnapshot \/ ReadProducer

Spec == Init /\ [][Next]_vars

\* Threads run and get a lock that is free again and again, and the application's
\* callbacks come to an end.
Fairness ==
    /\ WF_vars(ReadProducer)
    /\ \A t \in Threads : SF_vars(Step(t)) /\ SF_vars(CallbackEnds(t))

FairSpec == Spec /\ Fairness

-----------------------------------------------------------------------------
(* The messages in the order of their publication, as far as it is known:  *)
(* the published ones, those being flushed and the buffered ones.          *)
Line == done \o flushing \o batch

(* Every message that send took is published once, or will be once, or was *)
(* in the rest of a batch whose loop a raising on_error has left, whatever *)
(* threads and callbacks do at the same time (producer.py 131-189).        *)
PublishedOnce ==
    /\ \A i, j \in 1 .. Len(Line) : Line[i] = Line[j] => i = j
    /\ ToSet(Line) \cap lost = {}
    /\ ToSet(Line) \cup lost = Taken

(* No message is lost or doubled, and a message overtakes an older one     *)
(* only inside a callback: when the callback has flushed it while the      *)
(* older one waited in the loop that the callback interrupted (producer.py *)
(* 131-165, 183, 188).  Threads that send, flush and close at the same     *)
(* time keep the order in which send took the messages.                    *)
InOrder ==
    /\ PublishedOnce
    /\ \A i, j \in 1 .. Len(Line) :
           i < j => \/ order[Line[i]] < order[Line[j]]
                    \/ <<Line[i], Line[j]>> \in overtaking

(* No two messages of the producer get the same sequence number, and none  *)
(* is skipped, whatever the threads do between taking a number and taking  *)
(* the message to the batch (producer.py 124-127): a deduplication by      *)
(* producer_id and sequence drops no message that was sent once.           *)
NumbersUnique ==
    LET numbered == {m \in Messages : number[m] # -1} IN
    /\ {number[m] : m \in numbered} = 0 .. sequence - 1
    /\ \A m, o \in numbered : number[m] = number[o] => m = o

(* A flush, which holds the producer's lock and wants the broker's, and a  *)
(* snapshot, which holds the broker's and wants the producer's.            *)
Deadlocked ==
    /\ snapshot = "holds"
    /\ \E t \in Threads : lock = t /\ pc[t] = "loop" /\ MoreToDo(t)

\* No call of the thread is under way.
Idle(t) == pc[t] = "application" /\ stack[t] = <<>>

(* Nothing else blocks a call: as long as the two do not meet, every send, *)
(* flush and close returns or raises, with snapshots taken for ever, with  *)
(* and without batching and with callbacks that call the producer in their *)
(* turn (producer.py 93-189, broker.py 329-352).                           *)
OnlySnapshotsBlock ==
    \A t \in Threads : ~Idle(t) ~> (Idle(t) \/ Deadlocked)

(* A call that has begun returns: no thread keeps waiting for the locks    *)
(* (producer.py 106, "the message is sent immediately").                   *)
CallsReturn == \A t \in Threads : ~Idle(t) ~> Idle(t)
=============================================================================
