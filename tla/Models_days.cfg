SPECIFICATION ModelsFairSpec
CONSTANTS
    Roles <- TwoRoles
    Files <- Listing
    Hashed <- Weights
    MODEL_FILES <- Parts
    Size <- Sizes
    SPARE = 1
    Histories <- Days
INVARIANT ModelsInv
PROPERTY ModelsArrive
CHECK_DEADLOCK FALSE
