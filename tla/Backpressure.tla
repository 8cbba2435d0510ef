---------------------------- MODULE Backpressure ----------------------------
(***************************************************************************)
(* Flow control (brokerlite/backpressure.py): a token bucket for each      *)
(* producer and a limit on the depth of a topic, asked by several threads. *)
(*                                                                         *)
(* Time is counted in ticks and tokens in fractions, Scale of them to a    *)
(* token, so that a rate below one token per tick can be represented.      *)
(* Threads call check_publish_allowed with a depth they have read before,  *)
(* and publish afterwards; nothing in the broker calls it, so these        *)
(* callers are external.                                                   *)
(***************************************************************************)
EXTENDS Integers, FiniteSets

CONSTANTS
    Threads, Producers,
    Scale,            \* fractions of a token
    Rate,             \* producer_rate_limit, in fractions per tick
    MaxQueueDepth,    \* max_queue_depth
    MaxTime,          \* bound of the model: ticks
    MaxRemovals       \* bound of the model: calls of remove_producer

BackpressureAssumption ==
    /\ IsFiniteSet(Threads) /\ IsFiniteSet(Producers)
    /\ Scale \in Nat \ {0} /\ Rate \in Nat
    /\ MaxQueueDepth \in Nat
    /\ MaxTime \in Nat /\ MaxRemovals \in Nat

VARIABLES
    now,              \* time.monotonic
    pc,               \* what each calling thread does
    producer,         \* the producer it asks for
    saw,              \* the depth it has read
    held,             \* the limiter it has been given
    depth,            \* messages in the topic
    limiterOf,        \* _producer_limiters: the limiter of each producer, 0 if none
    made,             \* limiters made so far
    tokens, refilled, \* _tokens and _last_refill of each
    epoch,            \* how often a producer has been removed
    asked,            \* the epoch in which a thread was given its limiter
    granted,          \* fractions granted to a producer in each epoch
    before,           \* of these, the ones granted before each tick
    last              \* the time of the last grant, or of the first limiter

callVars == <<pc, producer, saw, held, asked>>
limiterVars == <<limiterOf, made, tokens, refilled>>
ghostVars == <<granted, before, last>>
vars == <<now, depth, epoch, callVars, limiterVars, ghostVars>>

Epochs == 0 .. MaxRemovals
Accounts == Producers \X Epochs
Times == 0 .. MaxTime

\* At most one limiter for a producer and epoch.
Limiters == 1 .. Cardinality(Accounts)

\* The manager asks for a burst of int(2 * rate); RateLimiter replaces 0 by int(rate).
Burst == LET whole(x) == (x \div Scale) * Scale
         IN  IF whole(2 * Rate) > 0 THEN whole(2 * Rate) ELSE whole(Rate)

\* Types: tokens are within the burst, threads and producers are known.
TypeOK ==
    /\ now \in Times
    /\ pc \in [Threads -> {"idle", "read", "asking", "allowed"}]
    /\ producer \in [Threads -> Producers]
    /\ saw \in [Threads -> Nat]
    /\ held \in [Threads -> 0 .. made]
    /\ depth \in Nat
    /\ limiterOf \in [Producers -> 0 .. made]
    /\ made \in 0 .. Cardinality(Accounts)
    /\ tokens \in [Limiters -> 0 .. Burst]
    /\ refilled \in [Limiters -> Times]
    /\ epoch \in [Producers -> Epochs]
    /\ asked \in [Threads -> Epochs]
    /\ granted \in [Accounts -> Nat]
    /\ before \in [Accounts -> [Times -> Nat]]
    /\ last \in [Accounts -> Times]

Init ==
    /\ now = 0
    /\ pc = [th \in Threads |-> "idle"]
    /\ producer = [th \in Threads |-> CHOOSE p \in Producers : TRUE]
    /\ saw = [th \in Threads |-> 0]
    /\ held = [th \in Threads |-> 0]
    /\ depth = 0
    /\ limiterOf = [p \in Producers |-> 0]
    /\ made = 0
    /\ tokens = [l \in Limiters |-> Burst]
    /\ refilled = [l \in Limiters |-> 0]
    /\ epoch = [p \in Producers |-> 0]
    /\ asked = [th \in Threads |-> 0]
    /\ granted = [a \in Accounts |-> 0]
    /\ before = [a \in Accounts |-> [t \in Times |-> 0]]
    /\ last = [a \in Accounts |-> 0]

-----------------------------------------------------------------------------
(* The callers *)

ReadDepth(th, p) ==
    /\ pc[th] = "idle"
    /\ pc' = [pc EXCEPT ![th] = "read"]
    /\ producer' = [producer EXCEPT ![th] = p]
    /\ saw' = [saw EXCEPT ![th] = depth]
    /\ UNCHANGED <<now, depth, epoch, held, asked, limiterVars, ghostVars>>

PublishOne(th) ==
    /\ pc[th] = "allowed"
    /\ pc' = [pc EXCEPT ![th] = "idle"]
    /\ saw' = [saw EXCEPT ![th] = 0]
    /\ depth' = depth + 1
    /\ UNCHANGED <<now, epoch, producer, held, asked, limiterVars, ghostVars>>

\* Retention, a compaction or a purge makes the topic shorter.
Drain ==
    /\ depth > 0
    /\ depth' = depth - 1
    /\ UNCHANGED <<now, epoch, callVars, limiterVars, ghostVars>>

Tick ==
    /\ now < MaxTime
    /\ now' = now + 1
    /\ before' = [a \in Accounts |-> [before[a] EXCEPT ![now + 1] = granted[a]]]
    /\ UNCHANGED <<depth, epoch, callVars, limiterVars, granted, last>>

-----------------------------------------------------------------------------
(* BackpressureManager and RateLimiter *)

TooDeep_OffByOne(th) == saw[th] > MaxQueueDepth

TooDeep(th) == saw[th] >= MaxQueueDepth

GetLimiter_Always(p) ==
    /\ made' = IF made < Cardinality(Accounts) THEN made + 1 ELSE made
    /\ limiterOf' = [limiterOf EXCEPT ![p] = made']
    /\ refilled' = [refilled EXCEPT ![made'] = now]
    /\ last' = IF limiterOf[p] = 0 THEN [last EXCEPT ![<<p, epoch[p]>>] = now] ELSE last
    /\ UNCHANGED tokens

\* get_producer_limiter: a new limiter has a full bucket.
GetLimiter(p) ==
    IF limiterOf[p] # 0
      THEN UNCHANGED <<limiterVars, last>>
      ELSE /\ made' = made + 1
           /\ limiterOf' = [limiterOf EXCEPT ![p] = made + 1]
           /\ refilled' = [refilled EXCEPT ![made + 1] = now]
           /\ last' = [last EXCEPT ![<<p, epoch[p]>>] = now]
           /\ UNCHANGED tokens

\* check_publish_allowed (with enable_throttling; without it every call is
\* allowed) up to the limiter, which is looked up under the manager's lock.
Check(th) ==
    /\ pc[th] = "read"
    /\ \/ /\ TooDeep(th)
          /\ pc' = [pc EXCEPT ![th] = "idle"]
          /\ saw' = [saw EXCEPT ![th] = 0]
          /\ UNCHANGED <<held, asked, limiterVars, last>>
       \/ /\ ~TooDeep(th)
          /\ pc' = [pc EXCEPT ![th] = "asking"]
          /\ GetLimiter(producer[th])
          /\ held' = [held EXCEPT ![th] = limiterOf'[producer[th]]]
          /\ asked' = [asked EXCEPT ![th] = epoch[producer[th]]]
          /\ UNCHANGED saw
    /\ UNCHANGED <<now, depth, epoch, producer, granted, before>>


\* _refill
Refill(l) ==
    LET sum == tokens[l] + Rate * (now - refilled[l])
    IN  IF sum < Burst THEN sum ELSE Burst


Spent_LosesRefill(l) == IF Refill(l) >= Scale THEN Refill(l) - Scale ELSE tokens[l]

\* What is left in the bucket after a request for one token.
Spent(l) == IF Refill(l) >= Scale THEN Refill(l) - Scale ELSE Refill(l)

\* acquire, under the limiter's own lock.
Acquire(th) ==
    /\ pc[th] = "asking"
    /\ LET l == held[th]
           a == <<producer[th], asked[th]>>
           allowed == Refill(l) >= Scale
       IN  /\ tokens' = [tokens EXCEPT ![l] = Spent(l)]
           /\ refilled' = [refilled EXCEPT ![l] = now]
           /\ granted' = IF allowed THEN [granted EXCEPT ![a] = @ + Scale] ELSE granted
           /\ last' = IF allowed THEN [last EXCEPT ![a] = now] ELSE last
           /\ pc' = [pc EXCEPT ![th] = IF allowed THEN "allowed" ELSE "idle"]
           /\ saw' = IF allowed THEN saw ELSE [saw EXCEPT ![th] = 0]
    /\ held' = [held EXCEPT ![th] = 0]
    /\ asked' = [asked EXCEPT ![th] = 0]
    /\ UNCHANGED <<now, depth, epoch, producer, limiterOf, made, before>>

\* available_tokens and snapshot refill the bucket as well.
AvailableTokens(p) ==
    /\ limiterOf[p] # 0
    /\ tokens' = [tokens EXCEPT ![limiterOf[p]] = Refill(limiterOf[p])]
    /\ refilled' = [refilled EXCEPT ![limiterOf[p]] = now]
    /\ UNCHANGED <<now, depth, epoch, callVars, limiterOf, made, ghostVars>>

\* remove_producer; a thread that has the limiter already goes on to use it.
RemoveProducer(p) ==
    /\ limiterOf[p] # 0
    /\ epoch[p] < MaxRemovals
    /\ epoch' = [epoch EXCEPT ![p] = @ + 1]
    /\ limiterOf' = [limiterOf EXCEPT ![p] = 0]
    /\ UNCHANGED <<now, depth, callVars, made, tokens, refilled, ghostVars>>

Next ==
    \/ \E th \in Threads : \/ \E p \in Producers : ReadDepth(th, p)
                           \/ Check(th) \/ Acquire(th) \/ PublishOne(th)
    \/ \E p \in Producers : AvailableTokens(p) \/ RemoveProducer(p)
    \/ Drain \/ Tick

Spec == Init /\ [][Next]_vars

-----------------------------------------------------------------------------
(* Properties *)

\* The token bucket's promise: between any earlier tick and now a producer is
\* granted no more than the burst and what the rate yields in that time,
\* however many threads ask for it.
RateHeld ==
    \A a \in Accounts, s \in 0 .. now :
        granted[a] - before[a][s] <= Burst + Rate * (now - s)

\* What backpressure.py:26 says of rate, the other way round: a producer that
\* has had nothing for the time of one token at its rate is not refused.
Sustained ==
    \A p \in Producers :
        (limiterOf[p] # 0 /\ Rate * (now - last[<<p, epoch[p]>>]) >= Scale)
            => Refill(limiterOf[p]) >= Scale

\* The depth is checked before the publish: it can exceed the limit by what the
\* other threads publish meanwhile, and by no more.
OvershootBounded ==
    MaxQueueDepth > 0 => depth <= MaxQueueDepth + Cardinality(Threads) - 1
=============================================================================
