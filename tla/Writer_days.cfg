SPECIFICATION WriterSpec
CONSTANTS
    Tracks = {"me", "them"}
    RingUnits = 1
    MaxTime = 4
    Mishaps <- Days
INVARIANTS WriterInv PromiseKept TimelineKeptThroughGaps
CHECK_DEADLOCK FALSE
