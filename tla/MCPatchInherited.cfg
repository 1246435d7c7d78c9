SPECIFICATION Spec
CONSTANTS
    Atoms = {"1"}
    Keys = {"a", "toString"}
    Inherited = {"toString"}
    Inexact = {"9007199254740993"}
    Nearest = "9007199254740992"
    MaxLen = 2
INVARIANTS
    RoundTrip
CHECK_DEADLOCK FALSE
