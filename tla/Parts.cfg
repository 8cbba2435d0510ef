SPECIFICATION Spec
CONSTANTS
    m1 = m1
    m2 = m2
    m3 = m3
    Messages = {m1, m2, m3}
    Workers = {w1, w2}
    MaxSize = 2
    Priority <- MCPriority
    NoWorker = NoWorker
    Producers = {p1}
    Scale = 3
    Rate = 2
    MaxQueueDepth = 1
    MaxTime = 4
    MaxRemovals = 1
    Threads = {th1, th2}
    Ids = {d1, d2, d3}
    WindowSize = 1
    MaxCalls = 4
    Tracked = {m1, m2}
    NoMessage = NoMessage
    MaxAttempts = 2
    DlqSize = 1
    MaxDeliveries = 4
    Clients = {c1, c2, c3}
    None = None
    MaxConnections = 2
    Texts = {t1, t2}
    Unwanted = {t2}
    Kinds = {"logging", "filter", "routing"}
    MaxChanges = 4
    MaxPublishes = 2
    FieldNames = {f1, f2}
    TypeNames = {"int", "float"}
    ValueTypes = {"bool", "float"}
    MaxVersion = 3
    MaxRegistrations = 3
    Policies <- MCPolicies
    Unit = 2
CHECK_DEADLOCK FALSE
SYMMETRY Symmetry
INVARIANTS
    FirstDeliveryInOrder
    RateHeld
    Sustained
    OvershootBounded
    NoLeak
    DropsDuplicates
    OnePlace
    ConnectionsBounded
    StopReachesAll
    NoneBypassed
    StillReadable
    WithinWorstCase
PROPERTIES
    ImplementsPointToPoint
