\* Two tasks, one with a callback, on one worker; its first attempt fails.
SPECIFICATION Spec
CONSTANTS
    t1 = t1
    t2 = t2
    t3 = t3
    w1 = w1
    w2 = w2
    Task <- Task2
    Worker <- Worker1
    Priority <- Priority2
    MaxSize = 1
    MaxRetries <- Retries2
    WithCallback <- Task1
    RateLimited = FALSE
    MaxStarts = 1
    MaxStops = 0
    MaxCancels = 0
INVARIANT
    CallbackEndsTask
CHECK_DEADLOCK FALSE
