SPECIFICATION LiveSpec
CONSTANTS
    p1 = p1
    PRs = {p1}
    Slots = {s1, s2}
    NoJob = NoJob
    NoToken = NoToken
    MaxAttempts = 2
    MaxRounds = 1
    Routes = 1
    TopRound = 2
    MaxBounces = 2
    MaxPushes = 1
    MaxLapses = 1
    MaxCrashes = 1
INVARIANTS TypeOK WorktreeExclusive AttemptsBounded
PROPERTIES LeaseRefined RoundsSettle
CHECK_DEADLOCK FALSE
