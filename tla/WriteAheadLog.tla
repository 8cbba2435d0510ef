---------------------------- MODULE WriteAheadLog ----------------------------
(***************************************************************************)
(* The segmented write-ahead log (brokerlite/storage.py, classes           *)
(* LogSegment and WriteAheadLog) with the committed offset of one consumer *)
(* group in its SQLite database.                                           *)
(*                                                                         *)
(* A value is the number of the append that wrote it, so two entries have  *)
(* the same value only if one is a copy of the other.  Every method is one *)
(* critical section of the log's lock.  The segments live in memory only;  *)
(* the offsets table survives a restart.                                   *)
(***************************************************************************)
EXTENDS Integers, Sequences, SequencesExt, Lists

CONSTANTS
    Keys, NoKey,       \* NoKey stands for a key of None
    Sizes,             \* bytes an entry can take, overhead included
    SegmentMaxBytes,   \* segment_max_bytes
    Retention,         \* retention_ms, 0 for no retention
    MaxAppends,        \* bound of the model: values that are appended
    MaxTime            \* bound of the model: the clock

WriteAheadLogAssumption ==
    /\ NoKey \notin Keys
    /\ Sizes \subseteq Nat \ {0}
    /\ SegmentMaxBytes \in Nat \ {0}
    /\ Retention \in Nat
    /\ MaxAppends \in Nat /\ MaxTime \in Nat

VARIABLES
    segments,   \* _segments: base_offset, _entries and _size_bytes of each
    now,        \* time.time()
    saved,      \* committed_offset in the database, 0 where there is no row
    position,   \* where the consumer reads next
    consumed,   \* values the consumer has read
    keys,       \* the key of every value ever appended
    dropped,    \* values that retention or truncate removed
    history     \* which of compact, truncate and a restart have happened

consumerVars == <<saved, position, consumed>>
vars == <<segments, now, consumerVars, keys, dropped, history>>

Entry == [offset : Nat, stamp : 0 .. MaxTime, key : Keys \cup {NoKey},
          value : 1 .. MaxAppends, size : Sizes]
Segment == [base : Nat, entries : Seq(Entry), bytes : Int]

NewSegment(base) == [base |-> base, entries |-> <<>>, bytes |-> 0]

Init ==
    /\ segments = <<NewSegment(0)>>
    /\ now = 0
    /\ saved = 0
    /\ position = 0
    /\ consumed = {}
    /\ keys = <<>>
    /\ dropped = {}
    /\ history = {}

-----------------------------------------------------------------------------
NextOffset(s) == IF s.entries = <<>> THEN s.base ELSE Last(s.entries).offset + 1

IsFull(s) == s.bytes >= SegmentMaxBytes

\* LogSegment.append: the entry is stamped with the time of this append.
SegmentAppend(s, key, value, size) ==
    [s EXCEPT !.entries = Append(@, [offset |-> NextOffset(s), stamp |-> now,
                                     key |-> key, value |-> value, size |-> size]),
              !.bytes = @ + size]

\* LogSegment.read: by index, counted from base_offset.
SegmentRead(s, o, n) ==
    LET start == IF o < s.base THEN 0 ELSE o - s.base
        count == Len(s.entries)
    IN  Slice(s.entries, start, Smaller(start + n, count))

\* read: state of the loop after the first i segments.
Read_KeepsOffset(o, n) ==
    LET after[i \in 0 .. Len(segments)] ==
            IF i = 0 THEN [results |-> <<>>, remaining |-> n]
            ELSE LET r == after[i - 1] IN
                 IF r.remaining <= 0 THEN r
                 ELSE LET es == SegmentRead(segments[i], o, r.remaining) IN
                      [results |-> r.results \o es, remaining |-> r.remaining]
    IN  after[Len(segments)].results
Read(o, n) ==
    LET after[i \in 0 .. Len(segments)] ==
            IF i = 0 THEN [results |-> <<>>, remaining |-> n, offset |-> o]
            ELSE LET r == after[i - 1] IN
                 IF r.remaining <= 0 \/ NextOffset(segments[i]) <= r.offset THEN r
                 ELSE LET es == SegmentRead(segments[i], r.offset, r.remaining) IN
                      [results   |-> r.results \o es,
                       remaining |-> r.remaining - Len(es),
                       offset    |-> IF es = <<>> THEN r.offset
                                     ELSE Last(es).offset + 1]
    IN  after[Len(segments)].results

LatestOffset == NextOffset(Last(segments))
EarliestOffset == segments[1].base

Entries == FlattenSeq([i \in DOMAIN segments |-> segments[i].entries])
Values == {e.value : e \in ToSet(Entries)}

-----------------------------------------------------------------------------
\* append: a full segment is closed and a new one takes over its next offset.
AppendEntry_NewBase(key, size) ==
    /\ Len(keys) < MaxAppends
    /\ LET value   == Len(keys) + 1
           active  == Last(segments)
           rotated == IF IsFull(active)
                      THEN Append(segments, NewSegment(Last(active.entries).offset))
                      ELSE segments
       IN  segments' = [rotated EXCEPT ![Len(rotated)] =
                            SegmentAppend(@, key, value, size)]
    /\ keys' = Append(keys, key)
    /\ UNCHANGED <<now, consumerVars, dropped, history>>
AppendEntry(key, size) ==
    /\ Len(keys) < MaxAppends
    /\ LET value   == Len(keys) + 1
           active  == Last(segments)
           rotated == IF IsFull(active)
                      THEN Append(segments, NewSegment(NextOffset(active)))
                      ELSE segments
       IN  segments' = [rotated EXCEPT ![Len(rotated)] =
                            SegmentAppend(@, key, value, size)]
    /\ keys' = Append(keys, key)
    /\ UNCHANGED <<now, consumerVars, dropped, history>>

\* apply_retention drops leading segments, never the active one, as long as
\* the first entry of the segment is older than the cutoff.
TooOld(s) == s.entries # <<>> /\ s.entries[1].stamp < now - Retention
ApplyRetention ==
    /\ Retention > 0
    /\ \E k \in 1 .. Len(segments) - 1 :
          /\ \A i \in 1 .. k : TooOld(segments[i])
          /\ k < Len(segments) - 1 => ~TooOld(segments[k + 1])
          /\ segments' = SubSeq(segments, k + 1, Len(segments))
          /\ dropped' = dropped \cup UNION {{e.value : e \in ToSet(segments[i].entries)}
                                              : i \in 1 .. k}
    /\ UNCHANGED <<now, consumerVars, keys, history>>

\* compact keeps the entries without a key and the last one of each key ...
Superseded_KeyOfNone(es, i) ==
    \E j \in i + 1 .. Len(es) : es[j].key = es[i].key
Superseded(es, i) ==
    es[i].key # NoKey /\ \E j \in i + 1 .. Len(es) : es[j].key = es[i].key
Compacted ==
    Picked(Entries, {i \in DOMAIN Entries : ~Superseded(Entries, i)})

\* ... and appends them to a new segment: new offsets and new stamps.
Refilled(base, es) ==
    LET segment[i \in 0 .. Len(es)] ==
            IF i = 0 THEN NewSegment(base)
            ELSE SegmentAppend(segment[i - 1], es[i].key, es[i].value, es[i].size)
    IN  segment[Len(es)]
Compact ==
    /\ LET base == IF Compacted = <<>> THEN 0 ELSE Compacted[1].offset
       IN  segments' = <<Refilled(base, Compacted)>>
    /\ history' = history \cup {"compact"}
    /\ UNCHANGED <<now, consumerVars, keys, dropped>>

\* The bytes of a segment without its first n entries.
BytesLeft(s, n) ==
    LET left[i \in 0 .. n] == IF i = 0 THEN s.bytes ELSE left[i - 1] - s.entries[i].size
    IN  left[n]

\* LogSegment.truncate of the active segment: base_offset stays.
Truncate(o) ==
    LET s == Last(segments)
        n == Smaller(o - s.base, Len(s.entries))
    IN
    /\ n > 0
    /\ segments' = [segments EXCEPT ![Len(segments)] =
           [base |-> s.base,
            entries |-> Slice(s.entries, n, Len(s.entries)),
            bytes |-> BytesLeft(s, n)]]
    /\ dropped' = dropped \cup {s.entries[i].value : i \in 1 .. n}
    /\ history' = history \cup {"truncate"}
    /\ UNCHANGED <<now, consumerVars, keys>>

\* External: the consumer reads n entries from its position on.
Consume(n) ==
    LET es == Read(position, n) IN
    /\ es # <<>>
    /\ position' = Last(es).offset + 1
    /\ consumed' = consumed \cup {e.value : e \in ToSet(es)}
    /\ UNCHANGED <<segments, now, saved, keys, dropped, history>>

\* save_offset, for the position of the consumer.
SaveOffset ==
    /\ saved # position
    /\ saved' = position
    /\ UNCHANGED <<segments, now, position, consumed, keys, dropped, history>>

\* The process ends and a new one opens the same data_dir; the consumer
\* resumes from load_offset.
Restart ==
    /\ segments' = <<NewSegment(0)>>
    /\ position' = saved
    /\ history' = history \cup {"restart"}
    /\ UNCHANGED <<now, saved, consumed, keys, dropped>>

\* External: time passes.
Tick ==
    /\ now < MaxTime
    /\ now' = now + 1
    /\ UNCHANGED <<segments, consumerVars, keys, dropped, history>>

Next ==
    \/ \E key \in Keys \cup {NoKey}, size \in Sizes : AppendEntry(key, size)
    \/ ApplyRetention
    \/ Compact
    \/ \E o \in 1 .. MaxAppends : Truncate(o)
    \/ Restart
    \/ \E n \in 1 .. 2 : Consume(n)
    \/ SaveOffset
    \/ Tick

Spec == Init /\ [][Next]_vars

-----------------------------------------------------------------------------
\* Types; there is always an active segment.
TypeOK ==
    /\ segments \in Seq(Segment) /\ segments # <<>>
    /\ now \in 0 .. MaxTime
    /\ saved \in Nat /\ position \in Nat
    /\ consumed \subseteq 1 .. MaxAppends
    /\ keys \in Seq(Keys \cup {NoKey})
    /\ dropped \subseteq 1 .. MaxAppends
    /\ history \subseteq {"compact", "truncate", "restart"}

(* read(o, n) returns the first n entries with offset o or more, however   *)
(* the log is cut into segments, compacted, shortened by the retention and *)
(* restarted (storage.py 215-234, "across segments"), as long as truncate  *)
(* has not been called.                                                    *)
ReadExact ==
    "truncate" \notin history =>
        \A o \in 0 .. LatestOffset + 1, n \in 1 .. MaxAppends :
            \E f \in 0 .. Len(Entries) :
                /\ \A i \in 1 .. f : Entries[i].offset < o
                /\ \A i \in f + 1 .. Len(Entries) : Entries[i].offset >= o
                /\ Read(o, n) = Slice(Entries, f, Smaller(f + n, Len(Entries)))

(* Within one run of the process every value that was appended can still   *)
(* be read, unless retention or truncate dropped it or a later value with  *)
(* the same key replaced it (storage.py 3-5, 284).                         *)
Durable ==
    "restart" \notin history =>
        \A v \in 1 .. Len(keys) :
            \/ v \in Values \cup dropped
            \/ keys[v] # NoKey /\ \E w \in v + 1 .. Len(keys) : keys[w] = keys[v]

(* What the consumer has not read lies at or after its position, whatever  *)
(* the retention drops, so that a consumer that resumes there misses       *)
(* nothing (storage.py 141, "Offset-based reads for consumer resumption"), *)
(* as long as nothing has renumbered the log.                              *)
Resumable ==
    history = {} =>
        \A e \in ToSet(Entries) : e.value \notin consumed => e.offset >= position
=============================================================================
