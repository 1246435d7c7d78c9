SPECIFICATION Spec
CONSTANTS
    None = None
    Unbounded = Unbounded
    MaxItems = 5
    MaxLimit = 3
    MaxAttempts = 3
    Timeouts = {0, 1, 2, 4}
    Delays = {0, 1}
    Horizon = 6
    Callers = {1, 2, 3}
    Budget = 2
    Work = {0, 1, 2}
    MaxUnits = 3
    HasCallback = {TRUE, FALSE}
    HighWaters <- Marks
    MaxWrites = 4
    Length = 3
    MaxEvents = 2
    MaxDepth = 2
    MaxListeners = 3
    MaxReads = 2
    MaxValues = 3
    MaxCalls = 3
INVARIANTS
    ConcurrentRight
    AsyncRight
    ChannelRight
    ChainsRight
    EventsRight
PROPERTIES
    NothingStartsInVain
    Settles
CHECK_DEADLOCK FALSE
