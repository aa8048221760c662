SPECIFICATION FloodSpec
CONSTANTS
    Limit = 4
    Lengths = {0, 3, 4, 5}
    ChunkSizes = {1, 2, 5}
    MaxWire = 9
    Statuses = {200, 302, 502}
    Unknown = Unknown
INVARIANTS
    BufferWithinLimit
    JudgedAsAWhole
    NothingMissing
PROPERTIES
    EndlessBodiesStop
CHECK_DEADLOCK FALSE
