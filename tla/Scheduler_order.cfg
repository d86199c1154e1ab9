SPECIFICATION Spec
CONSTANTS
    Meetings = {m1, m2}
    m1 = m1
    m2 = m2
    Files = {1, 2}
    MAX_ATTEMPTS = 2
    HasProvider = FALSE
    MaxNow = 2
    Budget = 1
INVARIANTS TypeOK FirstRunsNext TopOfTheListRunsNext
PROPERTIES NobodyPushesIn
CHECK_DEADLOCK FALSE
