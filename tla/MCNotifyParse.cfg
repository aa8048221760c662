SPECIFICATION ParseSpec
CONSTANTS
    Keys = {"k", "l"}
    Values = {"v", "w"}
    MaxBytes = 4
    MaxFields = 3
    QueryPairs = 2
    FormPairs = 3
INVARIANTS
    ParseTypeOK
    BudgetsAreShared
    AcceptedIsMeant
    SoundIsAccepted
CHECK_DEADLOCK FALSE
