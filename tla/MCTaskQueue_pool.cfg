\* Three tasks, one of them urgent, on two workers and a queue with room for
\* one: submitters and retries compete for the room.  One retry per task, one
\* cancel, one stop and a restart.
SPECIFICATION FairSpec
CONSTANTS
    t1 = t1
    t2 = t2
    t3 = t3
    w1 = w1
    w2 = w2
    Task <- Task3
    Worker <- Worker2
    Priority <- Priority3
    MaxSize = 1
    MaxRetries <- Retries3
    WithCallback <- Task1
    RateLimited = TRUE
    MaxStarts = 2
    MaxStops = 1
    MaxCancels = 1
INVARIANTS
    TypeOK
    TaskInOnePlace
    NoTaskLost
    MetricsMatchStatuses
    StoppedIsQuiet
    CallbackTellsAttempt
PROPERTIES
    ImplementsLifecycle
    TasksSettle
    StopEnds
CHECK_DEADLOCK FALSE
