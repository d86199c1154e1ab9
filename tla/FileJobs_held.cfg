SPECIFICATION Spec
CONSTANTS
    Files = {f1, f2}
    f1 = f1
    f2 = f2
    MAX_ATTEMPTS = 1
    Budget <- Removals
INVARIANTS DoneHasResult GoneLeavesNothing
CHECK_DEADLOCK FALSE
