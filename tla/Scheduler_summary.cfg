SPECIFICATION Spec
CONSTANTS
    Meetings = {m1, m2}
    m1 = m1
    m2 = m2
    Files = {1}
    MAX_ATTEMPTS = 2
    HasProvider = TRUE
    MaxNow = 2
    Budget = 0
PROPERTIES SummaryBeforeLaterFile
CHECK_DEADLOCK FALSE
