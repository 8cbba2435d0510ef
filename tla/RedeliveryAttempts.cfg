SPECIFICATION Spec
CONSTANTS
    Messages = {m1}
    NoMessage = NoMessage
    MaxAttempts = 2
    DlqSize = 1
    MaxDeliveries = 3
INVARIANT AttemptsLimited
CHECK_DEADLOCK FALSE
