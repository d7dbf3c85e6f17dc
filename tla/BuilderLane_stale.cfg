SPECIFICATION Spec
CONSTANTS
    p1 = p1
    PRs = {p1}
    Slots = {s1, s2}
    NoJob = NoJob
    NoToken = NoToken
    MaxAttempts = 2
    MaxRounds = 1
    Routes = 0
    TopRound = 2
    MaxBounces = 2
    MaxPushes = 1
    MaxLapses = 1
    MaxCrashes = 0
PROPERTIES NewestAgentWins
CHECK_DEADLOCK FALSE
