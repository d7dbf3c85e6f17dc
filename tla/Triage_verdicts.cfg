SPECIFICATION Spec
CONSTANTS
    Workers = {w1, w2}
    Wakes <- Verdicts
    NoWake = NoWake
    NoToken = NoToken
    MaxAttempts = 2
    Bounces = 2
    PriorRounds = {0, 2}
    Plans = {TRUE, FALSE}
    Credits = 1
    MaxDebit = 2
    MaxDeliveries = 2
    MaxMishaps = 1
INVARIANTS TypeOK MarkerVouches PaidOncePerVerdict OverdraftBounded
PROPERTIES MergedHeadWasGreen OneRoundPerVerdict LeaseRefined
CHECK_DEADLOCK FALSE
VIEW View
SYMMETRY ThreadSymmetry
