CONSTANTS
    Emails = {a, u}
    Resendable = {u}
    Workers = {w1, w2}
    only = w1
    MaxAttempts = 2
    MaxRefs = 2
    Nil = Nil
SPECIFICATION MCSpec
INVARIANTS
    TypeOK
    FreshAttempt
    SentWasHandedOver
    CancelledIsNotRetried
PROPERTIES
    LeaseIsRespected
    KeepsThePromise
    ComesToAVerdict
CHECK_DEADLOCK FALSE
