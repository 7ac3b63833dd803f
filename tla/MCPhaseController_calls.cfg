\* Seven calls, one of them forced: enough to climb from PLAN to OPERATE with a
\* rework on the way, or to override from and to every phase; two moves are
\* lost to the log.
SPECIFICATION Spec
CONSTANTS
    Gate <- MCGate
    Blocking <- MCBlocking
    AppliesTo <- MCAppliesTo
    HasStateManager = TRUE
    MaxCalls = 7
    MaxForced = 1
    MaxUntold = 2
    MaxGates = 1
INVARIANTS
    TypeOK
    HistoryIsChain
    LogTellsHistory
    UnforcedMovesAreEarned
    OperateIsGoverned
PROPERTY
    ImplementsLadder
CHECK_DEADLOCK FALSE
