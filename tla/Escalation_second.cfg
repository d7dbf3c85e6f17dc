SPECIFICATION Spec
CONSTANTS
    h1 = h1
    h2 = h2
    Heads = {h1, h2}
    NoHead = NoHead
    MaxAdvices = 2
    MaxOutages = 0
    MaxCrashes = 0
    MaxRulings = 0
INVARIANTS OneEscalatedRound
SYMMETRY HeadSymmetry
CHECK_DEADLOCK FALSE
