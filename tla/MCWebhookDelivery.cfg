SPECIFICATION FairSpec
CONSTANTS
    d1 = d1
    w1 = w1
    w2 = w2
    Deliveries = {d1}
    Workers = {w1, w2}
    MaxAttempts = 3
    MaxQueued = 2
    MaxCrashes = 2
    Idle = Idle
INVARIANTS
    GivenUpWasTried
    RetryCanHappen
    PendingIsInHand
    AttemptsExactAlone
PROPERTIES
    SuccessIsFinalAlone
    FailedIsSettled
CHECK_DEADLOCK FALSE
