SPECIFICATION UpdatesSpec
CONSTANTS
    None = None
    Versions = {1, 2, 3}
    Editions = {1, 2}
    MAX_ATTEMPTS = 2
    Quiet = 2
    Histories <- Pausing
PROPERTIES InstallsBetweenRecordings
CHECK_DEADLOCK FALSE
