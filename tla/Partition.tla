------------------------------ MODULE Partition ------------------------------
(***************************************************************************)
(* One partition of a topic (brokerlite/partition.py, class Partition): a  *)
(* log whose messages carry their own offsets, read by arithmetic on the   *)
(* offset of its first message.                                            *)
(*                                                                         *)
(* A Message is a mutable object: append writes the offset into it, so the *)
(* offsets are a function of the message objects and not of their places   *)
(* in the log.  Every method is one critical section of the lock.  The     *)
(* clock only decides how much of the log is older than the retention; it  *)
(* is taken not to run backwards, so that is a prefix of the log.          *)
(***************************************************************************)
EXTENDS Integers, Sequences, Functions, Lists

CONSTANTS
    Messages, Groups,
    Keys, NoKey,         \* NoKey stands for a key of None
    Key,                 \* the key of each message
    MaxSize,             \* max_size, 0 for an unbounded log
    Retention,           \* retention_ms > 0
    Compaction,          \* the topic's compaction_enabled
    Republish,           \* a message object may be published again
    MaxOffset            \* bound of the model: offsets that are handed out

ASSUME PartitionAssumption ==
    /\ NoKey \notin Keys
    /\ Key \in [Messages -> Keys \cup {NoKey}]
    /\ MaxSize \in Nat
    /\ MaxOffset \in Nat
    /\ Retention \in BOOLEAN /\ Compaction \in BOOLEAN /\ Republish \in BOOLEAN

VARIABLES
    log,          \* _log
    offset,       \* the offset field of each message object, -1 at first
    nextOffset,   \* _next_offset
    committed,    \* _committed_offsets, 0 where there is none
    history,      \* every message ever appended, in order
    floor         \* the offsets below it were removed by retention or clear

vars == <<log, offset, nextOffset, committed, history, floor>>

\* Types: log and history are sequences of messages, offsets fit the bound.
TypeOK ==
    /\ log \in Seq(Messages)
    /\ offset \in [Messages -> Int]
    /\ nextOffset \in Nat
    /\ committed \in [Groups -> Nat]
    /\ history \in Seq(Messages)
    /\ floor \in Nat

Init ==
    /\ log = <<>>
    /\ offset = [m \in Messages |-> -1]
    /\ nextOffset = 0
    /\ committed = [g \in Groups |-> 0]
    /\ history = <<>>
    /\ floor = 0

-----------------------------------------------------------------------------
EarliestOffset == IF log = <<>> THEN nextOffset ELSE offset[log[1]]

Read_NoClamp(o, n) ==
    LET start == o - offset[log[1]] IN
    IF log = <<>> \/ start < 0 \/ start >= Len(log) THEN <<>>
    ELSE Slice(log, start, Smaller(start + n, Len(log)))
Read(o, n) ==
    IF log = <<>> THEN <<>>
    ELSE LET start == IF o < offset[log[1]] THEN 0 ELSE o - offset[log[1]] IN
         IF start >= Len(log) THEN <<>>
         ELSE Slice(log, start, Smaller(start + n, Len(log)))

\* read_at, as the sequence of at most one message that it finds.
ReadAt(o) ==
    IF log # <<>> /\ o - offset[log[1]] \in 0 .. Len(log) - 1
    THEN <<log[o - offset[log[1]] + 1]>>
    ELSE <<>>

\* compact keeps the i-th message if no later one has its key.
Kept(i) ==
    \/ Key[log[i]] = NoKey
    \/ \A j \in i + 1 .. Len(log) : Key[log[j]] # Key[log[i]]
Compacted_KeepsFirst ==
    Picked(log, {i \in DOMAIN log : \/ Key[log[i]] = NoKey
                                    \/ \A j \in 1 .. i - 1 : Key[log[j]] # Key[log[i]]})
Compacted == Picked(log, {i \in DOMAIN log : Kept(i)})

\* append; a full partition raises ValueError and changes nothing.
AppendMessage_ReusesOffset(m) ==
    /\ nextOffset < MaxOffset
    /\ Republish \/ m \notin Range(history)
    /\ MaxSize = 0 \/ Len(log) < MaxSize
    /\ offset' = [offset EXCEPT ![m] = Len(log)]
    /\ log' = Append(log, m)
    /\ nextOffset' = nextOffset + 1
    /\ history' = Append(history, m)
    /\ UNCHANGED <<committed, floor>>
AppendMessage(m) ==
    /\ nextOffset < MaxOffset
    /\ Republish \/ m \notin Range(history)
    /\ MaxSize = 0 \/ Len(log) < MaxSize
    /\ offset' = [offset EXCEPT ![m] = nextOffset]
    /\ log' = Append(log, m)
    /\ nextOffset' = nextOffset + 1
    /\ history' = Append(history, m)
    /\ UNCHANGED <<committed, floor>>

\* apply_retention, when the first k messages are older than the cutoff.
ApplyRetention(k) ==
    /\ Retention
    /\ k \in 1 .. Len(log)
    /\ log' = SubSeq(log, k + 1, Len(log))
    /\ floor' = offset[log[k]] + 1
    /\ UNCHANGED <<offset, nextOffset, committed, history>>

Compact ==
    /\ Compaction
    /\ log' = Compacted
    /\ UNCHANGED <<offset, nextOffset, committed, history, floor>>

Clear ==
    /\ log' = <<>>
    /\ floor' = nextOffset
    /\ UNCHANGED <<offset, nextOffset, committed, history>>

\* commit_offset takes any offset its caller has.
CommitOffset(g, o) ==
    /\ committed' = [committed EXCEPT ![g] = o]
    /\ UNCHANGED <<log, offset, nextOffset, history, floor>>

Next ==
    \/ \E m \in Messages : AppendMessage(m)
    \/ \E k \in 1 .. Len(log) : ApplyRetention(k)
    \/ Compact
    \/ Clear
    \/ \E g \in Groups, o \in 0 .. MaxOffset : CommitOffset(g, o)

Spec == Init /\ [][Next]_vars

-----------------------------------------------------------------------------
(* The offset a message object carries is its place in the sequence of all *)
(* messages ever appended: offsets are sequential and never given twice,   *)
(* whatever was removed in between (partition.py 3-5).                     *)
OffsetsSequential ==
    /\ nextOffset = Len(history)
    /\ \A i \in DOMAIN history : offset[history[i]] = i - 1

(* Compaction leaves gaps between the offsets of the log.                  *)
NoGaps == \A i, j \in DOMAIN log : offset[log[j]] - offset[log[i]] = j - i

(* Although they compute an index from the offset of the first message, in *)
(* a log without gaps read(o, n) returns the first n messages whose offset *)
(* is o or more (partition.py 99), and read_at(o) the message with exactly *)
(* that offset, and finds it whenever it is there (118).                   *)
ReadExact ==
    NoGaps =>
        /\ \A o \in -1 .. nextOffset + 1, n \in 1 .. Len(log) + 1 :
              \E f \in 0 .. Len(log) :
                  /\ \A i \in 1 .. f : offset[log[i]] < o
                  /\ \A i \in f + 1 .. Len(log) : offset[log[i]] >= o
                  /\ Read(o, n) = Slice(log, f, Smaller(f + n, Len(log)))
        /\ \A o \in -1 .. nextOffset + 1 :
              IF \E i \in DOMAIN log : offset[log[i]] = o
              THEN \E i \in DOMAIN log : offset[log[i]] = o /\ ReadAt(o) = <<log[i]>>
              ELSE ReadAt(o) = <<>>

(* Compaction and retention together lose nothing they should keep: of the *)
(* messages above the retention floor, those without a key and the last of *)
(* each key are still in the log, in the order of their appends.           *)
KeepsLatest ==
    /\ \A i, j \in DOMAIN log : i < j => offset[log[i]] < offset[log[j]]
    /\ \A i \in DOMAIN history :
          /\ i > floor
          /\ \/ Key[history[i]] = NoKey
             \/ \A j \in i + 1 .. Len(history) : Key[history[j]] # Key[history[i]]
          => history[i] \in Range(log)
=============================================================================
