SPECIFICATION LibrarySpec
CONSTANTS
    None = None
    h1 = h1
    Parts = {1, 2, 3}
    Pressers = {h1}
    Quotas <- Days
INVARIANTS LibraryInv StripsHeard TranscriptIsWhole MergeLeavesWork
CHECK_DEADLOCK FALSE
