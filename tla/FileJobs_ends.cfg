SPECIFICATION FairSpec
CONSTANTS
    Files = {f1, f2}
    f1 = f1
    f2 = f2
    MAX_ATTEMPTS = 2
    Budget <- Unattended
INVARIANTS GoneLeavesNothing
PROPERTIES WaitingEnds
CHECK_DEADLOCK FALSE
