SPECIFICATION FairSpec
CONSTANTS
    Messages = {m1, m2, m3}
    Workers = {w1, w2}
    MaxSize = 2
    Timeouts = {1}
    NoWorker = none
INVARIANTS
    Conservation
    FreshInOrder
    FreshBounded
PROPERTIES
    HiddenUntilDue
    ImplementsPointToPoint
    Redelivery
