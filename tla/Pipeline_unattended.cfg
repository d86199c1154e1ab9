SPECIFICATION FairSpec
CONSTANTS
    Meetings = {m1, m2}
    m1 = m1
    m2 = m2
    MAX_ATTEMPTS = 1
    HasProvider = TRUE
    PurgeFails = FALSE
    ServerLast = FALSE
    Budget <- Interrupted
PROPERTIES ProcessingEnds WaitingIsServed
CHECK_DEADLOCK FALSE
