SPECIFICATION LibrarySpec
CONSTANTS
    None = None
    h1 = h1
    Parts = {1, 2, 3}
    Pressers = {h1}
    Quotas <- MergeTwice
INVARIANTS AllIsTranscribed
CHECK_DEADLOCK FALSE
