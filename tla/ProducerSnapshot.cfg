SPECIFICATION FairSpec
CONSTANTS
    Threads = {t1, t2}
    Messages = {m1, m2}
    NoThread = NoThread
    NoMessage = NoMessage
    Rejected = {m2}
    BatchSizes = {2}
    Idempotence = TRUE
PROPERTIES
    CallsReturn
CHECK_DEADLOCK FALSE
