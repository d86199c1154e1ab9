SPECIFICATION FairSpec
CONSTANTS
    Files = {f1, f2}
    f1 = f1
    f2 = f2
    MAX_ATTEMPTS = 2
    Budget <- Disturbed
INVARIANTS TypeOK RunningIsHeld DoneHasResult GoneLeavesNothing
PROPERTIES LifeSpec WaitingEnds
CHECK_DEADLOCK FALSE
