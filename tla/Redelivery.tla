----------------------------- MODULE Redelivery -----------------------------
(***************************************************************************)
(* Acknowledgment tracking with a dead letter queue: AckManager (ack.py)   *)
(* whose dead-letter callback is DeadLetterQueue.add (dlq.py), as in       *)
(* examples/dead_letters.py.                                               *)
(*                                                                         *)
(* The methods of AckManager are critical sections of its lock; the        *)
(* callback runs inside them.  add inserts the entry under the lock of the *)
(* DLQ and writes the message's headers after releasing it, so other       *)
(* threads can work on the DLQ in between.  The timeout loop is one step   *)
(* per message, with the lock of AckManager held.                          *)
(***************************************************************************)
EXTENDS Integers, Sequences, Functions, FiniteSets

CONSTANTS Messages, NoMessage,
          MaxAttempts,     \* max_attempts
          DlqSize,         \* max_size of the dead letter queue, 0 for no limit
          MaxDeliveries    \* bound of the model: deliveries of a message before
                           \* it is dead-lettered

RedeliveryAssumption ==
    /\ NoMessage \notin Messages
    /\ MaxAttempts \in Nat \ {0}
    /\ DlqSize \in Nat
    /\ MaxDeliveries \in Nat

VARIABLES
    ready,        \* in the hands of the application, to be delivered
    attempts,     \* PendingAck.attempts, 0 for a message that is not pending
    expired,      \* pending messages past their deadline
    lock,         \* who holds the lock of AckManager: "free", "nack", "sweep"
    sweep,        \* expired ids the timeout loop has still to handle
    timedOut,     \* timed_out: messages the timeout loop will return
    adding,       \* message inserted in the DLQ whose headers are not written
    entries,      \* _entries of the DLQ, oldest first
    tagged,       \* messages that carry the x-dlq headers
    acked,
    removed,      \* popped, purged or evicted from the DLQ
    deliveries    \* how often a message was delivered, since it was new or replayed

dlqVars == <<entries, tagged, removed, adding>>
vars == <<ready, attempts, expired, lock, sweep, timedOut, dlqVars, acked, deliveries>>

Pending == {m \in Messages : attempts[m] > 0}

\* Types; only a pending message can have passed its deadline.
TypeOK ==
    /\ ready \subseteq Messages
    /\ attempts \in [Messages -> 0 .. MaxDeliveries]
    /\ expired \subseteq Pending
    /\ lock \in {"free", "nack", "sweep"}
    /\ sweep \subseteq expired
    /\ timedOut \subseteq Messages
    /\ adding \in Messages \cup {NoMessage}
    /\ entries \in Seq(Messages)
    /\ tagged \subseteq Messages
    /\ acked \subseteq Messages
    /\ removed \subseteq Messages
    /\ deliveries \in [Messages -> 0 .. MaxDeliveries]

Init ==
    /\ ready = Messages
    /\ attempts = [m \in Messages |-> 0]
    /\ expired = {}
    /\ lock = "free"
    /\ sweep = {}
    /\ timedOut = {}
    /\ adding = NoMessage
    /\ entries = <<>>
    /\ tagged = {}
    /\ acked = {}
    /\ removed = {}
    /\ deliveries = [m \in Messages |-> 0]

-----------------------------------------------------------------------------
\* The application delivers m, for the first time or again, and tracks it.
Track(m) ==
    /\ lock = "free"
    /\ m \in ready \cup Pending
    /\ deliveries[m] < MaxDeliveries
    /\ attempts' = [attempts EXCEPT ![m] = @ + 1]
    /\ expired' = expired \ {m}
    /\ ready' = ready \ {m}
    /\ deliveries' = [deliveries EXCEPT ![m] = @ + 1]
    /\ UNCHANGED <<lock, sweep, timedOut, dlqVars, acked>>

Untrack(m) ==
    /\ attempts' = [attempts EXCEPT ![m] = 0]
    /\ expired' = expired \ {m}

Acknowledge(m) ==
    /\ lock = "free"
    /\ m \in Pending
    /\ Untrack(m)
    /\ acked' = acked \cup {m}
    /\ UNCHANGED <<ready, lock, sweep, timedOut, dlqVars, deliveries>>

\* add, up to the release of the DLQ's lock; a full deque drops its oldest.
Add(m) ==
    /\ IF DlqSize > 0 /\ Len(entries) = DlqSize
       THEN /\ entries' = Append(Tail(entries), m)
            /\ removed' = removed \cup {Head(entries)}
       ELSE /\ entries' = Append(entries, m)
            /\ UNCHANGED removed
    /\ adding' = m
    /\ UNCHANGED tagged

NegativeAcknowledge(m) ==
    /\ lock = "free"
    /\ m \in Pending
    /\ Untrack(m)
    /\ \/ /\ attempts[m] >= MaxAttempts
          /\ Add(m)
          /\ lock' = "nack"
          /\ UNCHANGED ready
       \/ /\ attempts[m] < MaxAttempts
          /\ ready' = ready \cup {m}
          /\ UNCHANGED <<lock, dlqVars>>
    /\ UNCHANGED <<sweep, timedOut, acked, deliveries>>

\* check_timeouts takes the lock and lists the expired ids.
CheckTimeouts ==
    /\ lock = "free"
    /\ expired # {}
    /\ lock' = "sweep"
    /\ sweep' = expired
    /\ UNCHANGED <<ready, attempts, expired, timedOut, dlqVars, acked, deliveries>>

SweepOne_Both(m) ==
    /\ m \in sweep
    /\ adding = NoMessage
    /\ sweep' = sweep \ {m}
    /\ Untrack(m)
    /\ IF attempts[m] >= MaxAttempts THEN Add(m) ELSE UNCHANGED dlqVars
    /\ timedOut' = timedOut \cup {m}
    /\ UNCHANGED <<ready, lock, acked, deliveries>>
SweepOne(m) ==
    /\ m \in sweep
    /\ adding = NoMessage
    /\ sweep' = sweep \ {m}
    /\ Untrack(m)
    /\ \/ /\ attempts[m] >= MaxAttempts
          /\ Add(m)
          /\ UNCHANGED timedOut
       \/ /\ attempts[m] < MaxAttempts
          /\ timedOut' = timedOut \cup {m}
          /\ UNCHANGED dlqVars
    /\ UNCHANGED <<ready, lock, acked, deliveries>>

\* The list of messages to redeliver reaches the application.
SweepDone ==
    /\ lock = "sweep"
    /\ sweep = {}
    /\ adding = NoMessage
    /\ lock' = "free"
    /\ ready' = ready \cup timedOut
    /\ timedOut' = {}
    /\ UNCHANGED <<attempts, expired, sweep, dlqVars, acked, deliveries>>

\* add writes the headers; a nack that caused it returns.
Tag ==
    /\ adding # NoMessage
    /\ tagged' = tagged \cup {adding}
    /\ adding' = NoMessage
    /\ lock' = IF lock = "nack" THEN "free" ELSE lock
    /\ UNCHANGED <<ready, attempts, expired, sweep, timedOut, entries, acked, removed,
                   deliveries>>

\* replay of the n oldest entries: their headers are reset.
Replay(n) ==
    LET ms == {entries[i] : i \in 1 .. n} IN
    /\ n \in 1 .. Len(entries)
    /\ entries' = SubSeq(entries, n + 1, Len(entries))
    /\ tagged' = tagged \ ms
    /\ ready' = ready \cup ms
    /\ deliveries' = [m \in Messages |-> IF m \in ms THEN 0 ELSE deliveries[m]]
    /\ UNCHANGED <<attempts, expired, lock, sweep, timedOut, adding, acked, removed>>

\* pop takes one entry, purge all of them.
Discard(n) ==
    /\ entries # <<>>
    /\ n \in {1, Len(entries)}
    /\ entries' = SubSeq(entries, n + 1, Len(entries))
    /\ removed' = removed \cup {entries[i] : i \in 1 .. n}
    /\ UNCHANGED <<ready, attempts, expired, lock, sweep, timedOut, adding, tagged,
                   acked, deliveries>>

\* External: a deadline passes.
Expire(m) ==
    /\ m \in Pending \ expired
    /\ expired' = expired \cup {m}
    /\ UNCHANGED <<ready, attempts, lock, sweep, timedOut, dlqVars, acked, deliveries>>

Next ==
    \/ \E m \in Messages : Track(m) \/ Acknowledge(m) \/ NegativeAcknowledge(m)
                           \/ Expire(m) \/ SweepOne(m)
    \/ CheckTimeouts \/ SweepDone
    \/ Tag
    \/ \E n \in 1 .. Len(entries) : Replay(n) \/ Discard(n)

Spec == Init /\ [][Next]_vars

-----------------------------------------------------------------------------
(* A message is in exactly one place: with the application, pending, about *)
(* to be returned by the timeout loop, acknowledged, in the dead letter    *)
(* queue (once), or removed from it, although nacks, timeouts, evictions   *)
(* and replays run concurrently (ack.py 96-163, dlq.py 69-135).            *)
OnePlace ==
    LET places == <<ready, Pending, timedOut, acked, Range(entries), removed>> IN
    /\ UNION Range(places) = Messages
    /\ \A i, j \in DOMAIN places : i # j => places[i] \cap places[j] = {}
    /\ IsInjective(entries)

(* "After max attempts, messages land in a dead letter queue"              *)
(* (docs/index.html 138): no message is handed back for another delivery   *)
(* that was delivered max_attempts times.  The code counts the deliveries  *)
(* in the pending entry, which a nack or a timeout removes.                *)
AttemptsLimited == \A m \in ready \cup timedOut : deliveries[m] < MaxAttempts
=============================================================================
