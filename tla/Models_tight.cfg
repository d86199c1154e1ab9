SPECIFICATION ModelsSpec
CONSTANTS
    Roles <- TwoRoles
    Files <- Listing
    Hashed <- Weights
    MODEL_FILES <- Parts
    Size <- Sizes
    SPARE = 1
    Histories <- Tight
PROPERTY FitsIsNotRefused
CHECK_DEADLOCK FALSE
