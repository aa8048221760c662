SPECIFICATION Spec
CONSTANTS
    Pid = 7
    Books <- MCBooks
    TradeNos = {"T1", "T2", "T3", "T4"}
    OrderNos = {"A", "B", "C"}
    Decimals <- MCDecimals
    Balances = {"0.00", "9.90", "-1.00", "no amount"}
    Links = {"", " ", "link"}
    IntForms = {"number", "string", "float", "fraction", "null", "missing", "empty"}
    TextForms = {"text", "null", "number"}
    MaxI32 = 2147483646
    MaxFen = 1000
    Garbled = Garbled
INVARIANTS
    ReturnedIsMeant
    NothingOfOthers
    PaidWasPaid
    HonestIsReturned
CHECK_DEADLOCK FALSE
