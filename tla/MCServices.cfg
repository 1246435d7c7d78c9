SPECIFICATION ServicesSpec
CONSTANTS
    Node = {1, 2}
    Base = 3
    Width = 1
    Ceiling = 3
    MaxWall = 1
    Calls = {1, 2}
    Idempotent = {1}
    Attempts = 2
    MaxRedirects = 1
    Timeout = 1
    Delays = {1}
    Rate = 1
    Per = 2
    Horizon = 4
    Plugins = 2
    Responses = {1, 2}
    Atoms = {"1"}
    Keys = {"1", "9007199254740992"}
    Inherited = {}
    Inexact = {"9007199254740993"}
    Nearest = "9007199254740992"
    MaxLen = 2
    Schemas = {1, 2, 3, 4}
    MaxEntries = 2
    MaxCompiles = 3
    MaxFactories = 3
INVARIANTS
    StampsOrdered
    ServicesRight
    PatchesRight
PROPERTIES
    NeverReused
    NothingLate
    Ends
CHECK_DEADLOCK FALSE
