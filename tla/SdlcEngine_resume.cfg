\* One task, picked in two cycles.
SPECIFICATION Spec
CONSTANTS
    Task = {"t1"}
    MaxCycles = 2
    MaxReviewRetries = 1
    MaxEdits = 0
INVARIANT
    CyclesStartAtPlan
