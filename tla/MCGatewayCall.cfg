SPECIFICATION FairSpec
CONSTANTS
    Calls = {c1}
    Exercised = {"CreatePayment", "QueryOrder", "Refund"}
    Timeouts = {0, 1, 2}
    Policies <- MCPolicies
    HttpTimeout = 2
    HttpRetry <- TwoRetries
    Unset = Unset
    Statuses = {200, 302, 501, 502, 504}
    Codes <- MCCodes
    MaxDuration = 8
    ShiftWidth = 32
INVARIANTS
    WritesExecutedAtMostOnce
    DefiniteErrorMeansNoEffect
    RetriesUsedUp
    WorstCaseLatency
PROPERTIES
    EndedCallsRest
    KeepsPromise
    EveryCallEnds
CHECK_DEADLOCK FALSE
