SPECIFICATION Spec
CONSTANTS
    Meetings = {m1}
    m1 = m1
    m2 = m2
    MAX_ATTEMPTS = 2
    HasProvider = TRUE
    PurgeFails = FALSE
    ServerLast = FALSE
    Budget <- Presses
INVARIANTS RunningIsHeld NotStranded NoRerunAfterStop
PROPERTIES StopReturnsSettled
CHECK_DEADLOCK FALSE
