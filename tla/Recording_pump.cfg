SPECIFICATION RecordingSpec
CONSTANTS
    None = None
    m1 = m1
    m2 = m2
    zoom = zoom
    teams = teams
    h1 = h1
    h2 = h2
    Meetings = {m1, m2}
    Apps = {zoom, teams}
    Handlers = {h1}
    Modes = {"shadow", "on"}
    Budgets <- OneCall
INVARIANTS AudioGoesToDisk
SYMMETRY Symmetry
CHECK_DEADLOCK FALSE
