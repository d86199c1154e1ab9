SPECIFICATION SignInFairSpec
CONSTANTS
    PRESSES = 2
    POLLS = 2
    Histories <- Days
INVARIANT SignInInv
PROPERTY WaitsForALogin
CHECK_DEADLOCK FALSE
