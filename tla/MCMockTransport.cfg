SPECIFICATION Spec
CONSTANTS
    Calls = {r, w}
    Writes = {w}
    Policies <- MCPolicies
    MaxRetries = 5
    Windows <- MCWindows
    Results <- MCResults
    Limit = 1
    MaxQueued = 5
    MaxDuration = 120
    ShiftWidth = 3
INVARIANTS
    PairedUnlessOverlapped
    DoublesThenStays
PROPERTIES
    CallsEnd
CHECK_DEADLOCK FALSE
