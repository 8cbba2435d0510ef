--------------------------- MODULE Deduplication ---------------------------
(***************************************************************************)
(* DeduplicationMiddleware in the broker's pipeline                        *)
(* (brokerlite/middleware.py) and the publish that follows it              *)
(* (brokerlite/broker.py).                                                 *)
(*                                                                         *)
(* Broker.publish runs the pipeline before it takes its lock and the       *)
(* middleware has none, so that the threads of two connections interleave  *)
(* between its statements.                                                 *)
(***************************************************************************)
EXTENDS Integers, FiniteSets, SequencesExt

CONSTANTS
    Threads,
    Ids,              \* message ids
    WindowSize,       \* window_size
    MaxCalls          \* bound of the model: calls of publish

DeduplicationAssumption ==
    /\ WindowSize \in Nat
    /\ MaxCalls \in Nat

VARIABLES
    pc, id,           \* where each thread is in publish, and its message
    old,              \* old_id of the thread
    seen,             \* _seen
    order,            \* _order
    log,              \* ids published, in order
    clean,            \* no two calls have overlapped and none has raised
    calls             \* calls so far

vars == <<pc, id, old, seen, order, log, clean, calls>>

Busy(th) == pc[th] # "idle"

\* Types of the middleware's memory and of the threads in it.
TypeOK ==
    /\ pc \in [Threads -> {"idle", "add", "append", "trim", "pop", "discard", "publish"}]
    /\ id \in [Threads -> Ids] /\ old \in [Threads -> Ids]
    /\ seen \subseteq Ids
    /\ order \in Seq(Ids)
    /\ Len(order) <= WindowSize + Cardinality(Threads)
    /\ log \in Seq(Ids)
    /\ clean \in BOOLEAN
    /\ calls \in 0 .. MaxCalls

Init ==
    /\ pc = [th \in Threads |-> "idle"]
    /\ id = [th \in Threads |-> CHOOSE m \in Ids : TRUE]
    /\ old = [th \in Threads |-> CHOOSE m \in Ids : TRUE]
    /\ seen = {}
    /\ order = <<>>
    /\ log = <<>>
    /\ clean = TRUE
    /\ calls = 0

\* process finds the id and returns None, or goes on to record it.
Test(th, m) ==
    /\ ~Busy(th)
    /\ calls < MaxCalls
    /\ calls' = calls + 1
    /\ clean' = (clean /\ ~\E o \in Threads : Busy(o))
    /\ \/ m \in seen /\ UNCHANGED <<pc, id>>
       \/ /\ m \notin seen
          /\ pc' = [pc EXCEPT ![th] = "add"]
          /\ id' = [id EXCEPT ![th] = m]
    /\ UNCHANGED <<old, seen, order, log>>

Add(th) ==
    /\ pc[th] = "add"
    /\ seen' = seen \cup {id[th]}
    /\ pc' = [pc EXCEPT ![th] = "append"]
    /\ UNCHANGED <<id, old, order, log, clean, calls>>


AppendId(th) ==
    /\ pc[th] = "append"
    /\ order' = Append(order, id[th])
    /\ pc' = [pc EXCEPT ![th] = "trim"]
    /\ UNCHANGED <<id, old, seen, log, clean, calls>>

\* The while loop: its test, then the oldest id leaves _order, and _seen in
\* the next statement.  pop(0) raises when other threads have emptied the list.
Trim_OffByOne(th) ==
    /\ pc[th] = "trim"
    /\ pc' = [pc EXCEPT ![th] = IF Len(order) >= WindowSize THEN "pop" ELSE "publish"]
    /\ UNCHANGED <<id, old, seen, order, log, clean, calls>>
Trim(th) ==
    /\ pc[th] = "trim"
    /\ pc' = [pc EXCEPT ![th] = IF Len(order) > WindowSize THEN "pop" ELSE "publish"]
    /\ UNCHANGED <<id, old, seen, order, log, clean, calls>>

PopOldest(th) ==
    /\ pc[th] = "pop"
    /\ IF order = <<>>
         THEN /\ pc' = [pc EXCEPT ![th] = "idle"]
              /\ clean' = FALSE
              /\ UNCHANGED <<old, order>>
         ELSE /\ pc' = [pc EXCEPT ![th] = "discard"]
              /\ old' = [old EXCEPT ![th] = Head(order)]
              /\ order' = Tail(order)
              /\ UNCHANGED clean
    /\ UNCHANGED <<id, seen, log, calls>>

Discard_Newest(th) ==
    /\ pc[th] = "discard"
    /\ seen' = seen \ {id[th]}
    /\ pc' = [pc EXCEPT ![th] = "trim"]
    /\ UNCHANGED <<id, old, order, log, clean, calls>>

Discard(th) ==
    /\ pc[th] = "discard"
    /\ seen' = seen \ {old[th]}
    /\ pc' = [pc EXCEPT ![th] = "trim"]
    /\ UNCHANGED <<id, old, order, log, clean, calls>>

\* The rest of Broker.publish, under the broker's lock; it may raise.
Publish(th) ==
    /\ pc[th] = "publish"
    /\ \/ log' = Append(log, id[th]) /\ UNCHANGED clean
       \/ clean' = FALSE /\ UNCHANGED log
    /\ pc' = [pc EXCEPT ![th] = "idle"]
    /\ UNCHANGED <<id, old, seen, order, calls>>

Next ==
    \E th \in Threads :
        \/ \E m \in Ids : Test(th, m)
        \/ Add(th) \/ AppendId(th) \/ Trim(th) \/ PopOldest(th) \/ Discard(th) \/ Publish(th)

Spec == Init /\ [][Next]_vars

-----------------------------------------------------------------------------
(* Properties *)

\* The memory stays limited although the threads interleave: once no call is
\* under way, at most window_size ids are remembered and none is in _seen that
\* is not in _order, where nothing would ever discard it.
NoLeak ==
    (\A th \in Threads : ~Busy(th)) =>
        Len(order) <= WindowSize /\ seen \subseteq ToSet(order)

\* What middleware.py:137 says, for calls that follow one another and do not
\* raise: an id is published again only after window_size other messages.
DropsDuplicates ==
    clean => \A i, j \in DOMAIN log : (i < j /\ log[i] = log[j]) => j - i > WindowSize
=============================================================================
