SPECIFICATION Spec
CONSTANTS
    Threads = {t1, t2}
    NoThread = nothread
    MaxCalls = 2
    MaxConnections = 0
INVARIANT
    ResponseMatches
CHECK_DEADLOCK FALSE
