CONSTANTS
    Signal = {s1, s2}
    MaxPerHour = 1
    DedupMax = 1
    Hour = 1
    MaxTime = 3
    MaxPrompts = 2
    MaxStarts = 2
SPECIFICATION Spec
INVARIANT TypeOK PromptsInOrder BudgetSurvivesRestarts
PROPERTY ShutdownHeeded
