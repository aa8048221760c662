SPECIFICATION FairSpec
CONSTANTS
    Orders = {o1, o2}
    Amounts = {1, 2}
    PriceLists <- MCPriceLists
    Channels = {"api", "form", "elsewhere"}
    Absent = Absent
    NoTrade = NoTrade
    MaxTrades = 2
    MaxRestarts = 1
INVARIANTS
    RecordedIsPaid
    SettledIsRecorded
PROPERTIES
    KeepsLedger
    PaymentsAreRecorded
CHECK_DEADLOCK FALSE
