SPECIFICATION Spec
CONSTANTS
    h1 = h1
    Heads = {h1}
    NoHead = NoHead
    MaxAdvices = 1
    MaxOutages = 0
    MaxCrashes = 2
    MaxRulings = 0
INVARIANTS DecisionRepairable
CHECK_DEADLOCK FALSE
