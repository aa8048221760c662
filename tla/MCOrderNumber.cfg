SPECIFICATION NumberSpec
CONSTANTS
    Threads = {t1, t2}
    Width = 14
    Modulus = 5
    MaxClock = 2
    Prefixes <- MCPrefixes
    NoNumber = NoNumber
INVARIANTS
    RecentDiffer
