\* One task in campaigns of two cycles, two reworks each; any number of starts,
\* deaths and shutdown requests.
SPECIFICATION FairSpec
CONSTANTS
    Task = {"t1"}
    MaxCycles = 2
    MaxReviewRetries = 3
    MaxEdits = 1
INVARIANTS
    TypeOK
    GovernedDelivery
    DeliveredWasReviewed
    SavedPhaseWasLogged
    CutShortStartsOver
PROPERTY
    RunEnds
