------------------------------- MODULE Parts -------------------------------
(***************************************************************************)
(* Parts of the broker that do not interact with one another, each in its  *)
(* own small instance.  A behaviour is a behaviour of one of them, which   *)
(* the variable part names; the others stay in their initial states.       *)
(***************************************************************************)
EXTENDS Integers, SequencesExt

CONSTANTS Messages, Workers, MaxSize, Priority, NoWorker \* PriorityQueue
CONSTANTS Producers, Scale, Rate, MaxQueueDepth, MaxTime, MaxRemovals
                                                         \* Backpressure
CONSTANTS Threads, Ids, WindowSize, MaxCalls             \* Deduplication
CONSTANTS Tracked, NoMessage, MaxAttempts, DlqSize, MaxDeliveries
                                                         \* Redelivery
CONSTANTS Clients, None, MaxConnections                  \* ServerLifecycle
CONSTANTS Texts, Unwanted, Kinds, MaxChanges, MaxPublishes
                                                         \* Pipeline
CONSTANTS FieldNames, TypeNames, ValueTypes, MaxVersion, MaxRegistrations
                                                         \* SchemaRegistry
CONSTANTS Policies, Unit                                 \* RetryPolicy

VARIABLES
    part,
    heap, inFlight, pqExpired, pqLock, pqPc, due, pqHeld, pqAcked, accepted, pqSeen,
    now, bpPc, producer, saw, bpHeld, depth, limiterOf, made, tokens, refilled, epoch,
        asked, granted, before, last,
    ddPc, id, old, ddSeen, order, log, clean, calls,
    ready, attempts, expired, lock, sweep, timedOut, adding, entries, tagged, acked,
        removed, deliveries,
    running, listening, stopping, loop, conn, handlers, open, closed, thread, active,
    middleware, plPc, text, topic, index, installed, shifted, changes, publishes,
    schemas, registrations,
    policy, attempt, waited, outcome

pqVars == <<heap, inFlight, pqExpired, pqLock, pqPc, due, pqHeld, pqAcked, accepted,
            pqSeen>>
bpVars == <<now, bpPc, producer, saw, bpHeld, depth, limiterOf, made, tokens, refilled,
            epoch, asked, granted, before, last>>
ddVars == <<ddPc, id, old, ddSeen, order, log, clean, calls>>
rdVars == <<ready, attempts, expired, lock, sweep, timedOut, adding, entries, tagged,
            acked, removed, deliveries>>
slVars == <<running, listening, stopping, loop, conn, handlers, open, closed, thread, active>>
plVars == <<middleware, plPc, text, topic, index, installed, shifted, changes, publishes>>
srVars == <<schemas, registrations>>
rpVars == <<policy, attempt, waited, outcome>>
vars   == <<part, pqVars, bpVars, ddVars, rdVars, slVars, plVars, srVars, rpVars>>

PQ == INSTANCE PriorityQueue WITH
          expired <- pqExpired, lock <- pqLock, pc <- pqPc, held <- pqHeld,
          acked <- pqAcked, seen <- pqSeen
BP == INSTANCE Backpressure WITH pc <- bpPc, held <- bpHeld
DD == INSTANCE Deduplication WITH pc <- ddPc, seen <- ddSeen
RD == INSTANCE Redelivery WITH Messages <- Tracked
SL == INSTANCE ServerLifecycle
PL == INSTANCE Pipeline WITH Threads <- Producers, pc <- plPc
SR == INSTANCE SchemaRegistry
RP == INSTANCE RetryPolicy

ASSUME PartsAssumption ==
    /\ PQ!PriorityAssumption
    /\ BP!BackpressureAssumption
    /\ DD!DeduplicationAssumption
    /\ RD!RedeliveryAssumption
    /\ SL!LifecycleAssumption
    /\ PL!PipelineAssumption
    /\ SR!SchemaRegistryAssumption
    /\ RP!RetryAssumption

Init ==
    /\ part \in {"priority", "backpressure", "deduplication", "redelivery", "lifecycle",
                 "pipeline", "schemas", "retry"}
    /\ PQ!Init /\ BP!Init /\ DD!Init /\ RD!Init /\ SL!Init /\ PL!Init
    /\ SR!Init /\ RP!Init
    /\ part # "retry" => policy = CHOOSE p \in Policies : TRUE

NextPriority ==
    /\ part = "priority" /\ PQ!Next
    /\ UNCHANGED <<part, bpVars, ddVars, rdVars, slVars, plVars, srVars, rpVars>>
NextBackpressure ==
    /\ part = "backpressure" /\ BP!Next
    /\ UNCHANGED <<part, pqVars, ddVars, rdVars, slVars, plVars, srVars, rpVars>>
NextDeduplication ==
    /\ part = "deduplication" /\ DD!Next
    /\ UNCHANGED <<part, pqVars, bpVars, rdVars, slVars, plVars, srVars, rpVars>>
NextRedelivery ==
    /\ part = "redelivery" /\ RD!Next
    /\ UNCHANGED <<part, pqVars, bpVars, ddVars, slVars, plVars, srVars, rpVars>>
NextLifecycle ==
    /\ part = "lifecycle" /\ SL!Next
    /\ UNCHANGED <<part, pqVars, bpVars, ddVars, rdVars, plVars, srVars, rpVars>>
NextPipeline ==
    /\ part = "pipeline" /\ PL!Next
    /\ UNCHANGED <<part, pqVars, bpVars, ddVars, rdVars, slVars, srVars, rpVars>>
NextSchemas ==
    /\ part = "schemas" /\ SR!Next
    /\ UNCHANGED <<part, pqVars, bpVars, ddVars, rdVars, slVars, plVars, rpVars>>
NextRetry ==
    /\ part = "retry" /\ RP!Next
    /\ UNCHANGED <<part, pqVars, bpVars, ddVars, rdVars, slVars, plVars, srVars>>
Next ==
    \/ NextPriority \/ NextBackpressure \/ NextDeduplication
    \/ NextRedelivery \/ NextLifecycle \/ NextPipeline
    \/ NextSchemas \/ NextRetry

Spec == Init /\ [][Next]_vars

-----------------------------------------------------------------------------
(* What is checked of each part; the comments are with the definitions.    *)
(* The parts that do not move are in initial states, which their own       *)
(* behaviours contain.                                                     *)

\* PriorityQueue: FIFO of first deliveries within a priority.
FirstDeliveryInOrder == part = "priority" => PQ!FirstDeliveryInOrder

\* PriorityQueue: the heap-based queue implements PointToPoint.
ImplementsPointToPoint == PQ!ImplementsPointToPoint

\* Backpressure: the token bucket's promise.
RateHeld == part = "backpressure" => BP!RateHeld

\* Backpressure: a producer that has waited long enough is not refused.
Sustained == part = "backpressure" => BP!Sustained

\* Backpressure: how far the depth limit can be overshot.
OvershootBounded == part = "backpressure" => BP!OvershootBounded

\* Deduplication: the middleware forgets what has left its window.
NoLeak == part = "deduplication" => DD!NoLeak

\* Deduplication: no duplicate within the window is published.
DropsDuplicates == part = "deduplication" => DD!DropsDuplicates

\* Redelivery: every message is in exactly one place.
OnePlace == part = "redelivery" => RD!OnePlace

\* ServerLifecycle: max_connections.
ConnectionsBounded == part = "lifecycle" => SL!ConnectionsBounded

\* ServerLifecycle: stop reaches every connection and every handler.
StopReachesAll == part = "lifecycle" => SL!StopReachesAll

\* Pipeline: no message gets round a middleware.
NoneBypassed == part = "pipeline" => PL!NoneBypassed

\* SchemaRegistry: compatible versions read older documents.
StillReadable == part = "schemas" => SR!StillReadable

\* RetryPolicy: attempts and delays stay within their limits.
WithinWorstCase == part = "retry" => RP!WithinWorstCase
=============================================================================
