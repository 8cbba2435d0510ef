# A TLA+ verification of brokerlite

brokerlite is a message broker in one Python process: topics with partitions
and consumer groups, point-to-point queues, a producer that batches, a TCP
server with a binary protocol, and a number of parts that an application
combines itself (acknowledgment tracking with a dead letter queue, a
write-ahead log, flow control, middleware). It uses threads and locks, so most
of what can go wrong lies between two critical sections, between two calls, or
in arithmetic on offsets. This directory holds TLA+ models of those parts, the
TLC runs that check them, and proofs that TLAPS checks.

Paths are relative to `src/brokerlite/`.

## 1. Inventory

| Part | State it keeps | Operations | Used by | What makes it correct |
|---|---|---|---|---|
| `queue.py` MessageQueue | deque, in-flight table with expiries, counters | enqueue, dequeue (requeue of expired, then pop), acknowledge, nack, purge | broker, server handlers | a message is in one place; hidden while processed; order; comes back after a timeout |
| `queue.py` PriorityQueue | heap, sequence counter, in-flight table | the same without purge | the same | order within a priority; a message is in one place |
| `partition.py` | log, next offset, committed offsets | append, read, read_at, commit, retention, compact, clear | topic, consumers | offsets never reused; reads by index find the right messages |
| `consumer.py` Consumer | assigned partitions, positions, last poll | assign, revoke, poll, commit, seek, close | group, handlers | no message skipped; never behind a commit |
| `consumer.py` ConsumerGroup | members, subscriptions, generation | join, leave, subscribe, unsubscribe, remove_dead_members, rebalance | broker, handlers | one owner per partition, all partitions owned |
| `topic.py`, `broker.py` | registries of topics, queues, groups, producers; round-robin counter | create, delete, publish (creates topics), subscribe, snapshot | handlers, producers, admin | registries, groups and consumers agree; limits hold; a key keeps its partition |
| `producer.py` | batch, sequence number, `_closed`, two callbacks | send, flush, close; on_success and on_error run inside them | applications | published once and in order; calls return; nothing is left behind |
| `ack.py`, `dlq.py` | pending deliveries with attempts; deque of dead letters | track, acknowledge, negative_acknowledge, check_timeouts; add, replay, pop, purge | applications | a message is in one place; attempts are limited |
| `storage.py` | segments in memory, offsets in SQLite | append with rotation, read, truncate, retention, compact, save/load offset | applications | reads exact; nothing disappears; consumers can resume |
| `protocol.py`, `client.py`, handler loop of `server.py` | socket streams, buffer, correlation ids | request, two-part read, timeout, close, connect, decode | applications | a call gets its own response, and returns |
| accept loop and `stop` of `server.py` | handlers, `_running`, sockets | accept, admit, remove, stop | operators | limit on connections; stop reaches all |
| `backpressure.py` | token buckets by producer, counters | check_publish_allowed, acquire, remove_producer | applications | the rate holds and is granted |
| `middleware.py` | list of middlewares, window of seen ids | add, remove, clear, process | Broker.publish | no message gets round a filter or a router; duplicates dropped, and only those |
| `retry.py` | a policy | should_retry, total_max_delay | applications | attempts and delays limited |
| `serializer.py`, `message.py` | versions of schemas; payloads | pack, unpack, to_dict, from_dict; register, validate, is_backward_compatible | applications, clients | what was written is read back; newer schemas read older data |
| `metrics.py`, `utils.py`, `cli.py`, `admin.py` | samples, a log of operations | reports and calls of the broker | applications | see "Not modelled" |

Interaction. Handlers (one thread per connection) call the broker, which calls
topics, groups and queues under its lock; groups call consumers under theirs;
consumers read and commit partitions. The order of locks is broker, group,
consumer, partition, with one exception: a producer publishes to the broker
with its own lock held, and `Broker.snapshot` takes the producer's lock with
the broker's held. Dead letters go to the DLQ by a callback that runs inside
the lock of the AckManager, and a producer's callbacks inside the loop over a
batch, under the producer's re-entrant lock. The middleware pipeline runs
before the broker's lock is taken.

What is hard here: `dequeue` and the server's handlers use two critical
sections where one would be expected; timeouts race late answers; a rebalance
runs while consumers poll; objects that were deleted from a registry are still
referred to; callbacks call back, or raise; offsets become list indexes;
clients time out in the middle of a stream. The full list, each at its line, is
"hazards" in `PROJECT.json`.

## 2. The modules

Each component is one module with a state, one action per critical section (or
per statement where the code holds no lock), a specification and properties;
`MC<module>` defines the constant functions of an instance where TLC needs any.
Names follow the source. Definitions
called `<Name>_<Change>` are altered versions of `<Name>` with a plausible
mistake; nothing uses them, and each shows that some property can fail.

* **PointToPoint**: the abstract queue. A message is waiting, held,
  settled or dropped; it never returns from the last two. No order, no time.
* **MessageQueue** implements it. `dequeue` is four kinds of steps: the clock
  is read without the lock (`CallDequeue`), the sweep takes the lock (`Sweep`)
  and requeues one expired message per step (`RequeueOne`), releases it, and the pop
  takes it again (`Pop`). Time is what is left of each visibility timeout, so it
  needs no bound. `delivered` and `number` are history: what workers
  were given, and when a message was enqueued.
* **PriorityQueue** implements it too; the heap is kept in the order in which
  `heappop` would empty it.
* **QueueServer** extends MessageQueue: its workers become handler threads that
  look the queue up, test its truth value (its length), and call it in a later
  step. A client may disconnect in between.
* **Lists**: slices and the elements of a list that a loop keeps, for the two
  logs. `Ascending` is a recursive function, so that it can be proved about.
* **Partition**: offsets belong to the message objects, since `append` writes
  them there; `history` is every append, `floor` what retention or clear removed.
* **ConsumerGroup**: a rebalance is a list of revocations and assignments
  (`todo`), worked off one by one with the group's lock held, while consumers
  poll, commit, seek and close. Both strategies are translated as functions,
  and the group's strategy is a variable that no action changes. `Keep` (a
  dictionary without some of its keys, in its order) and `ReadBefore` (what one
  poll has read before it comes to a partition) are recursive functions, so that
  they can be proved about.
* **Broker**: topic and group objects are numbered, registries map a name to
  an object or to 0, so a name that was deleted and created again is another
  object. Which member gets a partition is left open here; ConsumerGroup shows
  that each gets one owner. A poll takes all that retention has left. The
  configuration and the bounds are a record, `scenario`, chosen in the initial
  state.
* **Producer**: the producer's lock, the broker's lock (held by a snapshot or
  for the one step of a publish), and the places where `_closed` is read and
  written without one. Each thread has a stack of calls (`stack`): after each publish
  it is in a callback (`InCallback`), where it may send, flush and close like an
  application that is outside (a nested call is a new frame on the stack), return
  or raise. `flushing` joins the local `batch` lists of nested loops, the
  innermost one's messages first, and `outer` of a frame is how many of them
  belong to the loops further out. What an on_success raises is handled as
  an error; what an on_error raises ends the call it interrupts, and the messages
  that were still to come in that loop are `lost`. The exception is taken to be
  caught by whoever made the call, the application or an outer callback. What
  send and flush return is left out. `batchSize` is chosen in the initial state.
* **Redelivery**: AckManager with the DLQ as its callback, as in
  `examples/dead_letters.py`. The DLQ's `add` is two steps, since it writes the
  headers after releasing its lock.
* **WriteAheadLog**: segments, reads across them, rotation, retention,
  compaction, truncation, and a restart that keeps the saved offsets only.
* **Connection**: the client's threads, both byte streams with frames of two
  pieces (length, rest), and the handler that decodes any delivered prefix.
* **ServerLifecycle**: the accept loop, one thread per handler, and `stop`.
  `recv` is called (`CallRecv`) and returns (`Receive`, `Disconnected`) in
  different steps. `closed` says which socket objects were closed, and `open` which
  connections the kernel still keeps: on Linux `close()` without `shutdown()` does
  not wake a thread that waits in `recv`, and the connection stays open until that
  `recv` returns.
* **Backpressure**: buckets in fractions of a token and ticks of time; the
  caller's read of the depth, the check, the acquire and the publish are steps.
* **Deduplication**: the middleware statement by statement, and the publish;
  `clean` is history: no two calls have overlapped.
* **Pipeline**: the list of middlewares, changed by the application while a
  publish iterates over it. As in Python, the iterator is an index into the list
  as it is at that moment. `installed` is history: the kinds of middleware that
  were there during the whole call.
* **SchemaRegistry**: versions of one schema name, registered in any order and
  again; documents are partial functions from fields to the types of their values.
* **RetryPolicy**: the delays as sets (one element per possible jitter, in whole
  parts of the delay), and an application that obeys the policy. Powers and
  the sum in `total_max_delay` are recursive functions.
* **Serializer**: `_pack` and `_unpack` as recursive operators on sequences in
  which a tag, a number, a length or a byte is one element, with limits for
  numbers and lengths, and an alphabet with a character of two bytes; and the
  payload of a message on its way through `to_dict` and `from_dict`, which
  replace what is not text.
* **Parts**: PriorityQueue, Backpressure, Deduplication, Redelivery,
  ServerLifecycle, Pipeline, SchemaRegistry and RetryPolicy, which do not
  interact, side by side for one run. The variable `part`, chosen in the initial
  state, says which of them moves; the others stay in their initial states. Its
  state space is the sum of theirs, and its theorems are theorems about each.
  **MCParts** is the instance for TLC. **Logs** does the same for Partition and
  WriteAheadLog, with **MCLogs** as its instance, and **MCConnection** for
  Connection and Serializer (whose recursive operators keep it out of Parts, about
  which there are proofs).

Composition: QueueServer = MessageQueue + handlers; Redelivery = AckManager +
DLQ; Broker = registries + topics + groups + handlers; Producer = producer +
broker lock; Deduplication and Pipeline = middleware + publish. ConsumerGroup uses of a
partition that a read returns an interval of offsets, which is proved of Partition
for logs that are not compacted (`ReadsAreIntervals`), and Broker uses of a
rebalance what ConsumerGroup shows.

## 3. The runs

`PROJECT.json` lists every run with its properties. Runs that pass:

| Run | Shows | Instance |
|---|---|---|
| MessageQueue | Conservation: a message is in one place. FreshInOrder: fresh messages keep the order of their enqueue calls, behind all redelivered ones. FreshBounded: what comes back may overfill the queue, but at most max_size messages wait that were never delivered. HiddenUntilDue: a delivery comes back only by a nack or after its timeout. ImplementsPointToPoint. Redelivery: it does come back | 3 messages, 2 workers, a timeout of one tick, max_size 2, so that two fresh messages wait together, an enqueue is refused and a nack overfills the queue |
| Logs | Partition: OffsetsSequential; ReadExact for `read` and `read_at` in a log without gaps; KeepsLatest under compaction and retention. WriteAheadLog: LogReadExact across segments, Durable, Resumable, each as long as the operation that is known to break it has not been called | 5 messages, three with one key, one with another, max_size 3; 3 appends of two sizes, one key, segments of 2 bytes, 2 ticks |
| ConsumerGroup | ExclusiveOwner at every instant of a rebalance; FullCoverage after it; NoSilentSkip; Consumed: only a partition that a closed consumer holds is left unread | 2 consumers, 2 partitions, 1 message in each, both strategies, polls of 2, 4 counted calls (membership, seeks, closes, session timeouts, retention) |
| Broker | SubscriptionsCurrent, MembersShareLive: deleted topics leave no trace in groups; EvenSpread; UnreadIsAhead | four scenarios: 3 topic and 2 group objects without messages; 3 messages with and without keys or addresses to topics of 0, 2 and 3 partitions; one topic of 2 partitions read by 2 groups; the same with retention and one group |
| Producer | InOrder: nothing is lost but the rest of a batch whose on_error raised (PublishedOnce), and only a message that a callback flushed overtakes, and only those of the loop it interrupted; NumbersUnique; OnlySnapshotsBlock: a call returns or raises unless a flush and a snapshot have met | 2 threads, 3 messages, one of them refused, batches of 1 and 2 |
| Connection | HandledInOrder; PatientMatches: a call gets its own response while none has timed out on the connection; CallsReturn. Serializer: RoundTrip of values and payloads | 2 threads, 4 calls, 1 reconnect, any number of timeouts; 5,000 values of all types, nested twice, and all payloads of up to 4 bytes |
| Parts | PriorityQueue: FirstDeliveryInOrder, ImplementsPointToPoint. Backpressure: RateHeld, Sustained, OvershootBounded. Deduplication: NoLeak with overlapping calls, DropsDuplicates without. Redelivery: OnePlace. ServerLifecycle: ConnectionsBounded; StopReachesAll: after stop no handler begins to wait for a client. Pipeline: NoneBypassed, unless a middleware the call had passed was removed. SchemaRegistry: StillReadable, if types are kept or widened. RetryPolicy: WithinWorstCase, with the share of the jitter added | 3 messages on two levels; 2 threads, rate 2/3 per tick, 4 ticks; 3 ids, window 1; 2 messages, DLQ of 1; 3 clients, limit 2; 4 changes of the pipeline during 2 publishes; 2 fields, 3 versions; up to 3 attempts, 288 policies |

The bounds are chosen so that the cases that matter occur: two of everything
that can interleave, one more message than a limit allows, retention that
removes part of a log, a topic object that replaces another, a timeout that
leaves a response half read. Deadlock is checked where the system can always go
on (MessageQueue, Logs). Elsewhere the inputs are finite (messages, calls),
and a run that has used them up may stop: these have CHECK_DEADLOCK FALSE.
Symmetry is used in runs without liveness only, over sets that occur in no
constant function. MessageQueue and Producer, whose runs check liveness, take
messages in one order instead (the CHOOSE in `Enqueue` and `CallSend`), since
their names mean nothing: which one comes first is left open to the proofs.

Five runs are expected to fail. Each states what a comment or a page of the
repository says, and TLC finds an execution of the code against it:

* QueueServerRedelivery: a message in flight, the last of its queue, is never
  redelivered through the server, because an empty queue is false and DEQUEUE
  takes it for missing.
* ConsumerGroupTruncation: `poll` with fewer messages asked for than partitions
  assigned passes over messages. (In the run ConsumerGroup polls ask for at
  least as many messages as there are partitions.)
* ProducerSnapshot: a flush and a snapshot wait for each other.
* ConnectionTimeout: the response of a call that has timed out is returned to
  the next one.
* RedeliveryAttempts: a message that was delivered `max_attempts` times
  is handed back for another delivery, because the attempts are counted in the
  pending entry and a nack or a timeout removes it (`ack.py:115, 149`); it never
  reaches the dead letter queue.

### Other divergences

The following were met while modelling. Where a module contains the behaviour
that a property depends on, the property says so (as a condition, or as a
fairness assumption); there is no separate run for each.

* `queue.py:114, 129`: nack and requeue do not look at max_size; line 4 says
  "bounded capacity".
* `queue.py:129`: two messages that expire in one sweep come back reversed; line
  20 says "FIFO point-to-point message queue".
* `queue.py:111`: a worker whose delivery has timed out can nack the delivery of
  another; line 23 says a message being processed "is hidden from other
  consumers until acknowledged or timed out".
* `server.py:293`: the ack of the last message is answered QUEUE_NOT_FOUND and
  not carried out, by the same truth test.
* `partition.py:108`: `read` after compaction starts at the wrong message
  (condition NoGaps); line 99 says "Read messages starting from the given offset".
* `partition.py:88`: publishing one Message object twice changes the entry
  already in a log (constant Republish); line 3 says "ordered, immutable".
* `consumer.py:240`: a second consumer with the id of a member replaces it
  without revoking it (constant Id); line 208 says "exactly one consumer".
* `server.py:326`: a disconnect closes the consumer, which stays a member and
  keeps its partitions until an administrator calls remove_dead_consumers, which
  nothing in the server does (condition HeldByClosed).
* `consumer.py:82`: a consumer that gets a partition back resumes at its own old
  position, behind the committed offset, and commits it; and after a topic was
  deleted and created again, at its position in the old one (`lives`).
* `broker.py:202`: delete_consumer_group revokes nothing; members of the old
  group object go on reading.
* `dlq.py:91`: headers are written after the lock is released; a replay in
  between hands out a message that then carries them.
* `storage.py:168`: the segments are in memory only; lines 4-5 say "durability
  and recovery after restart" (condition on "restart").
* `storage.py:119`: truncate leaves base_offset (condition on "truncate").
* `storage.py:302`: compact renumbers the entries (condition on "compact").
* `storage.py:275`: a segment is dropped for the age of its first entry.
* `producer.py:138`: no timer looks at linger_ms.
* `producer.py:200`: a send that has tested `_closed` may leave a message in a
  closed producer.
* `producer.py:188`: an on_error that raises ends the loop over a batch that was
  cleared before it (line 157): the rest of the batch is neither published nor
  refused (`lost`); line 154 says "Send all buffered messages".
* `producer.py:183, 188`: a callback that sends and flushes publishes its message
  ahead of the rest of the batch (`overtaking`).
* `producer.py:183`: a message that was published is reported to on_error as
  well, and counted as sent and as failed, if on_success raises.
* `producer.py:160`: a send whose message was refused in a batch may return the
  metadata of an earlier one (not modelled).
* `backpressure.py:30`: for a rate below 1/2 the burst is rounded to 0.
* `middleware.py:66`: a middleware removed during a publish that has passed it
  moves the rest down by one, and the iterator skips the next (`shifted`); line
  40 says "Messages pass through each middleware in order".
* `server.py:140`: a message that a filter drops is answered with the error of an
  unknown topic, since both are ValueErrors.
* `server.py:426`: `stop` closes the sockets without a shutdown, so that a handler
  that waits in `recv` (line 58, no timeout) is not woken, and its connection stays
  open for as long as the client is silent (exception in StopReachesAll); line 412
  says "Stop the server and close all connections".
* `server.py:209`: a second JOIN_GROUP on a connection replaces the handler's
  consumer, and the first stays a member that nobody polls or closes.
* `admin.py:105, 113, 119`: `if q` is false for an empty queue: it is not
  described and not listed.
* `serializer.py:285`: the compatibility check looks at required fields only
  (condition Widens), and finds nothing to object to if the version before is
  missing; line 272 says "new schema can read data written by old schema".
* `serializer.py:179`: `required=[]` makes every field required.
* `serializer.py:131, 136`: a text or bytes cut short is read without an error.
* `serializer.py:153`: a dictionary with a tuple as a key is written and cannot be
  read (condition TupleKeyed).
* `message.py:134`: a payload that is not UTF-8 is changed by to_dict, and so on
  the wire and by clone; line 73 says "The message payload as bytes".
* `retry.py:103`: the jitter is applied after the cap, so that the delays exceed
  what total_max_delay reports; line 117 says "(worst case)" (Stretch).
* `middleware.py:150, 154`: two threads may both publish one id (`clean`), and an
  id whose publish failed (not modelled) is dropped when it is tried again.

### Fairness

* MessageQueue: some worker goes on calling `dequeue`, and time passes. Without
  a caller nothing is requeued, and the code does not claim it.
* QueueServer: some client goes on asking, and time passes.
* ConsumerGroup: a method of the group ends; a consumer that was not closed is
  polled. Nothing is assumed of the removal of dead members, which only an
  administrator's call starts: a partition that a closed consumer holds may stay
  unread, and Consumed says that no other does.
* Producer, Connection: a thread that waits for a lock gets it, if the lock is
  free again and again (strong fairness). Python's locks are not fair, but a
  thread is not passed over for ever. Snapshots and calls are not required to
  happen; a snapshot that has begun ends if it can.
  The application's callbacks return or raise (`CallbackEnds`); each of them may
  call the producer first, for as long as there are messages to send. The
  finite set of messages stands for callbacks that do not send for ever: with
  one that does, `while self._batch` (line 147) would not end.
* Connection: every receive ends after the socket's timeout at the latest, and
  one on a closed connection fails. Nothing is assumed of the server.

## 4. The proofs

TLAPS proves, for every value of the constants that satisfies the named
assumption of the module:

* `MessageQueueProofs` (from QueueAssumption).
  `TypeCorrect`; `NothingLost`: Conservation is inductive relative to TypeOK;
  `FreshOrder`: FreshInOrder needs to know that what is in flight has been
  delivered and that numbers do not exceed the counter (`OrderInv`), since a returned
  message goes to the front; `FreshWithinLimit`: FreshBounded is inductive
  relative to OrderInv, because only enqueue moves a fresh message away from the
  end of the queue, and it tests the length; `HiddenWhileProcessed`: an action
  property, which needs that what a sweep has seen expired still is (`DueExpired`), although the
  clock was read before the lock was taken; `Refinement`: each step of
  MessageQueue is a step of PointToPoint or leaves its variables alone, by
  Conservation.
* `LogProofs` (from PartitionAssumption and LogsAssumption). Of Partition:
  - `ReadsAreExact`: in any log without gaps the arithmetic of `read` and `read_at`
    is right. It needs the types only.
  - `OffsetsAreSequential`, if no message object is published twice (constant
    Republish): with the types, and with no message twice in the history, it is
    inductive (`SeqInv`), whatever compaction, retention and clear remove.
  - `NoGapsUncompacted` and `ReadsAreIntervals`, if moreover the topic is not
    compacted: then the log is the end of the history (`ReadInv`). Both
    hypotheses are needed, see "Other divergences".
  - `LatestKept`, for any sequence of compactions, retentions and clears, if no
    message object is published twice. The invariant `LatestInv` adds that each
    message of the log is above the retention floor and at the place in the history
    that its offset says (`Placed`). A message that compaction removes has a later
    one with its key in the log, and that one is later in the history too.

  Of WriteAheadLog `LogReadsAreExact`, `NothingDisappears` and `ConsumersMissNothing`,
  with one inductive invariant, `WalInv`: until a truncate each segment begins where the
  one before it ends (`Followed`); each entry has the key of its value
  (`KeyedBy`), and values rise along the log (`RisingIn`), so that what compaction
  keeps of a key is the latest; until a restart each value appended is in the
  log, was dropped, or was followed by another one with its key (`KeptIn`); and until
  anything has renumbered the entries the consumer's position is at most the latest
  offset and nothing from it on has been read (`UnreadFrom`). `ReadWorks` shows what the
  loop of `read` over the segments returns, by an invariant of its turns.
* `ProducerProofs` (from ProducerAssumption). `ProducerTyped`,
  `PublishedInOrder` and `NumberedOnce`, for any depth of
  callbacks that call the producer. InOrder is not inductive.
  `Nesting` says that only the holder of the lock has frames of loops on its stack
  and messages in its hands, and that the `outer` of the frames grow towards the
  innermost one (`Chain`), so that a raising callback cuts off messages of its
  own loop only; `OwnMessage`, that a message being sent is one thread's and not
  yet taken; and `LineInv`, that published, flushed and buffered messages together
  are the taken ones that are not lost, each once, in the order of their taking but
  for the pairs of `overtaking` (`Lined`). For
  NumbersUnique the invariant says that the numbers given are those below the
  counter, each given once, and that the message of a thread which waits for a
  number is no other thread's and has none yet (`NumberInv`).
* `DeliveryProofs` (from PartsAssumption, which is the conjunction of the parts'
  own assumptions).
  - `RedeliverySafe` and `EveryMessageInOnePlace`: the sweep of `check_timeouts`
    works on a list made before its first step, and what it has still to handle is
    pending only because nobody else gets the lock meanwhile (`RedeliveryInv`); the
    DLQ repeats nothing, and what it evicts is in another place in the same step.
  - `FifoWithinPriority`: FirstDeliveryInOrder speaks of what was delivered; the
    invariant adds the heap, in which an older fresh message of a priority comes
    before a younger one (`HeapOrder`), since a nack pushes only messages that are
    no longer fresh.
  - `PriorityQueueRefines`: a step of PriorityQueue is a step of PointToPoint or
    leaves its variables alone.
  - `MemoryLimited`: while calls overlap, `_seen` may hold ids that `_order` does
    not; `NoneForgotten` says which thread is responsible for each of them, and
    for each id too many.
  - `DuplicatesDropped`: as long as no calls have overlapped, `_order` is the end
    of what was published, at least window_size long or all of it (`Window`), and
    `_seen` includes it; so an id that passes the test was last published more
    than window_size messages ago.
* `ServiceProofs` (from PartsAssumption).
  - `ConnectionLimit` and `StopMissesNone`: `NoneMissed` says where a connection
    is while `stop` goes through the list; the one being accepted is closed by its
    own handler, which tests `_running` before it waits. The theorem does not say
    that every connection ends: one whose handler waits in `recv` does not.
  - `PipelineComplete`: as long as nothing a call had passed was removed, the
    middlewares before the iterator's index have been applied to its message, and
    what was there all along is in the list.
  - `CompatibleChain`: the check compares neighbours; that it holds along a chain
    is shown by following the versions upwards from a least counterexample.
  - `OvershootLimited`: the depth plus the number of threads that have seen a
    depth below the limit is bounded. A proof about sets of threads, by the
    theorems on cardinality.
  - `RateLimited` and `RateSustained`: `RateInv` is the account of a bucket (what
    was granted since any earlier tick, and what is left, do not exceed the burst
    and the rate's yield up to the last refill), and that a bucket is used for one
    producer only, between two removals of it, also by a thread that looked it up
    before the removal. For Sustained: a bucket is full, or holds what the rate has
    yielded since the last grant (`SustainInv`). RateSustained assumes
    2 * Rate >= Scale, a rate of at least 1/2: below it the burst is 0
    (`backpressure.py:30`) and every request is refused.
  - `RetriesBounded`: what was waited before an attempt is at most the sum of the
    greatest delays before it, stretched by the jitter (`RetryInv`), and that sum
    only grows up to the last attempt, for which `total_max_delay` reports it.
* `BrokerProofs` (from BrokerAssumption: configurations are finite in number and
  have finite sets of sizes; a key is not one of the two marks for a message
  without a key or with an address).
  - `NoStaleSubscription` and `LiveShares`: a deletion unsubscribes group after
    group, and a join follows a subscription, so the properties hold between two
    operations only. `GroupInv` says that an outdated subscription has its
    unsubscribe pending (`CurrentOrPending`), that a consumer is a member of one
    group object at most (`OneHome`), and that each group object, registered or
    not, has its partitions shared out (`AllShared`).
  - `SpreadEvenly`: the partitions before the one whose turn it is have one message
    without a key more than the others (`InTurn`), whatever was sent with a key or
    an address.
  - `NothingSkipped`: `ReadInv` says of every committed offset and every position,
    of a held partition or not, that its group has read up to it. It tells the name
    of each topic object (an existential over naming functions), because positions
    are kept under the names of topics.
* `ConnectionProofs`.
  - `DispatchedInOrder`: the requests dispatched, those in the handler's buffer
    and those under way are those sent on this connection, in their order; buffer
    and stream together hold whole frames (`OrderInv`).
  - `PatientCallsMatch`, an action property: as long as no call has timed out,
    either nothing is under way in any direction, or one thread holds the lock and
    all that is under way is its request or its response, at most one
    (`PatientInv`).
* `GroupProofs` (from GroupAssumption: a partition belongs to one topic and is
  listed once there).
  - The shares: under both strategies the slots of the members partition the list
    of partitions (`SharesWork`), with quotients and remainders for any numbers of
    members and partitions.
  - `OneOwner`: ExclusiveOwner is not inductive. `GroupInv` says that whoever still
    holds a partition of a later assignment is revoked before it (`Free`), that a
    consumer that is no member holds nothing or will be revoked (`Outsiders`), and
    that each member has its share or will get it as its last step (`Targets`).
  - `AllCovered` follows from Targets when nothing is left to do.
  - Both assume that no two consumers have one id (`OwnIds`). Without it they are
    false: `consumer.py:240` replaces a member without revoking it.
  - `AtLeastOnce`: NoSilentSkip with the lists of partitions it depends on
    (`SkipInv`): no list of partitions, assigned or to be assigned, is longer than
    there are partitions (`HeldLists`, `GroupLists`), also when two consumers
    have one id. It assumes that there are finitely many partitions and that
    every poll asks for at least as many messages (`EnoughRoom`). Then the
    messages a poll reads, an equal number at most from each of its partitions,
    are no more than it was asked for, and it returns them all (`PollReturns`). With
    smaller limits the property is false, as the run ConsumerGroupTruncation shows.

Facts about recursive functions (`Keep`, `Ascending`, the turns of a loop, sums of
delays) and about chains of versions are shown without an induction
theorem: if one of them failed, it would fail for a least number
(`LeastNumber` and `AllNumbers`, from the well-foundedness of the natural numbers).

Only model-checked:

* liveness, which is outside the reach of the prover: Redelivery, Consumed,
  CallsReturn, OnlySnapshotsBlock;
* RoundTrip: what the recursive operators of Serializer compute for nested values.

## 5. Not modelled

* Metrics, utilities, command line, the client's wrapper methods: reports and
  conversions of arguments, without shared state that a decision depends on.
* JsonSerializer, which passes its argument to the json library.
* Transformation, an arbitrary function of one message, and what the logging
  and timestamp middlewares add to counters and headers. Fields of a message
  other than its payload are modelled where they matter; is_expired is called by
  nothing in the broker.
* `compact_topics` of the broker as a whole: Partition shows what compaction
  does to one log, and that reading by index is not exact after it.
* SQLite's table of topic configurations; `RateLimiter.wait` (acquire and sleep
  in a loop); topic depths and slow consumers, which are reported only; a topic's
  set of subscribers; throttling switched off; a second `start` of a server.
* A `sendall` that times out in the middle of a frame, and frames that are
  malformed by intent: the client writes whole frames.
* `METADATA`, `HEARTBEAT` and the describing calls of the administrator: they
  read.

## 6. Plan

Order of work: queues and their abstract specification, partitions and groups,
producer, redelivery, log (most important behaviour first); then broker,
connection, flow control, server; then middleware, schemas, serializer, retry
policy. These modules are written and checked, and every safety property that a
run checks is proved but one, RoundTrip. A change of the code is followed first in its module
and in TLC's runs, then in the step of the inductive invariant that belongs to
the changed operation.
