SPECIFICATION CalendarFairSpec
CONSTANTS
    Accounts = {1, 2}
    SignIns = {1, 2}
    MaxTokens = 3
    Quotas <- Usual
INVARIANTS CalendarInv
PROPERTIES CatchesUp
CHECK_DEADLOCK FALSE
