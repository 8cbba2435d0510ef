SPECIFICATION WireSpec
CONSTANTS
    Threads = {t1, t2}
    NoThread = nothread
    MaxCalls = 4
    MaxConnections = 1
    MaxInt = 1
    MaxLen = 3
INVARIANTS
    HandledInOrder
    RoundTrip
PROPERTIES
    PatientMatches
    CallsReturn
CHECK_DEADLOCK FALSE
