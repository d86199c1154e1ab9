SPECIFICATION FairSpec
CONSTANTS
    Files = {f1, f2}
    f1 = f1
    f2 = f2
    MAX_ATTEMPTS = 2
    Budget <- OneHeld
PROPERTIES LeftoverGoes
CHECK_DEADLOCK FALSE
