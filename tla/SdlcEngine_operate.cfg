\* One task and one cycle.
SPECIFICATION Spec
CONSTANTS
    Task = {"t1"}
    MaxCycles = 1
    MaxReviewRetries = 1
    MaxEdits = 0
INVARIANT
    OperateMeansPullRequest
