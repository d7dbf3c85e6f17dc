SPECIFICATION LiveSpec
CONSTANTS
    h1 = h1
    Heads = {h1}
    NoHead = NoHead
    MaxAdvices = 2
    MaxOutages = 1
    MaxCrashes = 1
    MaxRulings = 1
PROPERTIES EscalatedRoundRunsOnce LedgerRefined MarkersSettle
INVARIANTS TypeOK OneDecisionPerAdvice OneOutcomePerAdvice NoMarkerGap
CHECK_DEADLOCK FALSE
