SPECIFICATION CalendarFairSpec
CONSTANTS
    Accounts = {1, 2}
    SignIns = {1, 2}
    MaxTokens = 3
    Quotas <- ClientRejected

PROPERTIES EveryShownSyncs
CHECK_DEADLOCK FALSE
