SPECIFICATION LocksSpec
CONSTANTS
    None = None
    Corrupt = Corrupt
    Inode = {i1, i2, i3}
    Call = {c1, c2, c3, c4, c5}
    Process = {p1, p2, p3}
    Owner <- OwnerQueue
    TryLock = {c3}
    MaxRestarts = 1
    c1 = c1
    c2 = c2
    c3 = c3
    c4 = c4
    c5 = c5
    p1 = p1
    p2 = p2
    p3 = p3
INVARIANTS
    ReapsRight
    SlotsHandedOn
PROPERTIES
    OneHolderPerProcess
SYMMETRY Symmetry
CHECK_DEADLOCK FALSE
