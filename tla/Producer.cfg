SPECIFICATION FairSpec
CONSTANTS
    Threads = {t1, t2}
    Messages = {m1, m2, m3}
    NoThread = NoThread
    NoMessage = NoMessage
    Rejected = {m2}
    BatchSizes = {1, 2}
    Idempotence = TRUE
INVARIANTS
    InOrder
    NumbersUnique
PROPERTY
    OnlySnapshotsBlock
CHECK_DEADLOCK FALSE
