\* One token a period: are the requests themselves a period apart?
SPECIFICATION Spec
CONSTANTS
    None = None
    Period = 2
    Second = 2
    Burst = 1
    KeyTTL = 120
    MaxNow = 4
    MaxCalls = 3
INVARIANT RequestsInBudget
CHECK_DEADLOCK FALSE
