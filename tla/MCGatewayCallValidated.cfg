SPECIFICATION Spec
CONSTANTS
    Calls = {c1}
    Exercised = {"CreatePayment", "QueryOrder", "Refund"}
    Timeouts = {0, 1, 2}
    Policies <- MCPolicies
    HttpTimeout = 2
    HttpRetry <- TwoRetries
    Unset = Unset
    Statuses = {200, 504}
    Codes <- MCCodes
    MaxDuration = 8
    ShiftWidth = 32
PROPERTIES
    SuccessIsValidated
CHECK_DEADLOCK FALSE
