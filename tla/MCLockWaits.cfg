SPECIFICATION WaitsSpec
CONSTANTS
    None = None
    Unset = Unset
    MaxReads = 2
    Ttl = 2
    Tolerance = 1
    ClockSteps = {2}
    Drifts = {1, 2}
    Horizon = 4
    MaxBoots = 2
    Corrupt = Corrupt
    Inode = {i1, i2, i3}
    c1 = c1
    c2 = c2
    c3 = c3
    p1 = p1
    p2 = p2
INVARIANTS
    StalenessRight
PROPERTIES
    OrphansReaped
    Answered
CHECK_DEADLOCK FALSE
