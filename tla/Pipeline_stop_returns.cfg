SPECIFICATION Spec
CONSTANTS
    Meetings = {m1}
    m1 = m1
    m2 = m2
    MAX_ATTEMPTS = 2
    HasProvider = TRUE
    PurgeFails = FALSE
    ServerLast = FALSE
    Budget <- StopAndRetry
PROPERTIES StopReturnsMeeting
CHECK_DEADLOCK FALSE
