SPECIFICATION Spec
CONSTANTS
    Wakes = {k1}
    Workers = {w1}
    Handlers = {h1}
    Sweeper = sweeper
    NoWake = NoWake
    NoToken = NoToken
    MaxAttempts = 2
    MaxDeliveries = 1
    MaxOutages = 1
    MaxLapses = 0
    MaxRestarts = 0
INVARIANTS
    AttemptCap
CHECK_DEADLOCK FALSE
