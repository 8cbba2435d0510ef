SPECIFICATION FairServerSpec
CONSTANTS
    Messages = {m1, m2}
    Workers = {w1, w2}
    MaxSize = 0
    Timeouts = {1}
    NoWorker = none
PROPERTIES
    Redelivery
