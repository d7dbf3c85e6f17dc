SPECIFICATION LiveSpec
CONSTANTS
    PRs = {1, 2}
    Conflicted = {1}
    Passes = {1, 2}
    PageSize = 1
    Health = {FALSE}
    MaxMoves = 1
    MaxFaults = 2
INVARIANTS TypeOK FileFollowsTable SecondIssueMissed NotifiedWasTold RepeatsHaveCauses
PROPERTIES RulingsAreTold LoopsAreJudged TrackedAlertsClose
