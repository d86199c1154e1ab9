SPECIFICATION Spec
CONSTANTS
    Meetings = {m1}
    m1 = m1
    m2 = m2
    MAX_ATTEMPTS = 1
    HasProvider = TRUE
    PurgeFails = TRUE
    ServerLast = FALSE
    Budget <- Removals
INVARIANTS TranscribedHasTranscript
CHECK_DEADLOCK FALSE
