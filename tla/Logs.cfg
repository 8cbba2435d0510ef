SPECIFICATION LogsSpec
CONSTANTS
    m1 = m1
    m2 = m2
    m3 = m3
    m4 = m4
    m5 = m5
    k1 = k1
    k2 = k2
    Messages = {m1, m2, m3, m4, m5}
    Groups = {g1}
    Keys = {k1, k2}
    NoKey = nokey
    Key <- SharedKey
    MaxSize = 3
    Retention = TRUE
    Compaction = TRUE
    Republish = FALSE
    MaxOffset = 5
    WalKeys = {k1}
    Sizes = {1, 2}
    SegmentMaxBytes = 2
    RetentionTicks = 1
    MaxAppends = 3
    MaxTime = 2
INVARIANTS
    OffsetsSequential
    ReadExact
    KeepsLatest
    LogReadExact
    Durable
    Resumable
