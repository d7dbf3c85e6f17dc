SPECIFICATION LiveSpec
CONSTANTS
    Wakes = {k1}
    Workers = {w1, w2}
    Handlers = {h1}
    Sweeper = sweeper
    NoWake = NoWake
    NoToken = NoToken
    MaxAttempts = 2
    MaxDeliveries = 2
    MaxOutages = 1
    MaxLapses = 2
    MaxRestarts = 1
INVARIANTS
    TypeOK
    LeasedWhileRunning
    ExclusiveUnlessLapsed
PROPERTIES
    StrandedOnlyBy
    LeaseRefined
    QueuedSettlesUnlessOrphaned
CHECK_DEADLOCK FALSE
