SPECIFICATION Spec
CONSTANTS
    t1 = t1
    t2 = t2
    k1 = k1
    k2 = k2
    Topics = {t1, t2}
    Queues = {q1, q2}
    Groups = {g1, g2}
    Consumers = {c1, c2}
    Keys = {k1, k2}
    NoKey = NoKey
    Hash <- MCHash
    Scenarios <- MCScenarios
SYMMETRY Symmetry
INVARIANTS
    SubscriptionsCurrent
    MembersShareLive
    
    UnreadIsAhead
CHECK_DEADLOCK FALSE
