-------------------------------- MODULE Logs --------------------------------
(***************************************************************************)
(* The two logs: a partition and the write-ahead log.  They do not         *)
(* interact; the variable which names the one whose behaviour this is, and *)
(* the other stays in its initial state.                                   *)
(***************************************************************************)
EXTENDS Partition

CONSTANTS WalKeys, Sizes, SegmentMaxBytes, RetentionTicks, MaxAppends, MaxTime
                                                         \* WriteAheadLog

VARIABLES which, segments, now, saved, position, consumed, keys, dropped, calls

walVars == <<segments, now, saved, position, consumed, keys, dropped, calls>>

WAL == INSTANCE WriteAheadLog WITH
           Keys <- WalKeys, Retention <- RetentionTicks, history <- calls

ASSUME LogsAssumption == WAL!WriteAheadLogAssumption

LogsInit == which \in {"partition", "write-ahead log"} /\ Init /\ WAL!Init

NextPartition == which = "partition" /\ Next /\ UNCHANGED <<which, walVars>>
NextLog == which = "write-ahead log" /\ WAL!Next /\ UNCHANGED <<which, vars>>

LogsNext == NextPartition \/ NextLog

LogsSpec == LogsInit /\ [][LogsNext]_<<which, vars, walVars>>

-----------------------------------------------------------------------------
(* Of the partition, the properties of Partition are checked by their      *)
(* names; these are the ones of WriteAheadLog, with their comments there.  *)

\* WriteAheadLog: reads across segments find what is there.
LogReadExact == WAL!ReadExact

\* WriteAheadLog: nothing appended disappears.
Durable == WAL!Durable

\* WriteAheadLog: a consumer misses nothing.
Resumable == WAL!Resumable
=============================================================================
