SPECIFICATION BudgetSpec
CONSTANTS
    Unit = {u1}
    Check = {c1}
    NoItem = NoItem
    MaxCalls = 4
    MaxInput = 8
    AgentCalls = 2
    RequestCap = 4
    Overview = 2
    Verification = 3
    Margin = 1
    Estimates = {2}
    Usages = {0, 1, 5}
    MaxEpoch = 2
INVARIANTS InterruptedItemsMayStart
CHECK_DEADLOCK FALSE
