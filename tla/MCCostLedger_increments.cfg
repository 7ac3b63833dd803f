CONSTANTS
    p1 = p1
    p2 = p2
    Process = {p1, p2}
    Governor = {p2}
    Cost = {1}
    Budget <- BudgetOf
    MaxRecords = 3
SPECIFICATION Spec
INVARIANT IncrementsKept
CHECK_DEADLOCK FALSE
