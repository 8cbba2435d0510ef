SPECIFICATION Spec
CONSTANTS
    c1 = c1
    c2 = c2
    t1 = t1
    p1 = p1
    p2 = p2
    Consumers = {c1, c2}
    Id <- OwnId
    Topics = {t1}
    Partitions = {p1, p2}
    PartitionsOf <- OneTopic
    Strategies = {"range"}
    Limits = {1}
    MaxOffset = 1
    MaxCalls = 4
INVARIANT
    NoSilentSkip
CHECK_DEADLOCK FALSE
