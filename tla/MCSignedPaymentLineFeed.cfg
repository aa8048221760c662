SPECIFICATION Spec
CONSTANTS
    None = None
    NoData = NoData
    Alphabet <- MCAlphabet
    Pid <- MCPid
    Key = "key"
    OwnKey = "key"
    OtherPid <- MCOtherPid
    OtherKey = "other"
    OwnPid = 1001
    MaxFen = 1000
    Decimals <- MCDecimals
    Amounts <- MCDecimals
    Numbers <- MCNumbers
    EpayText <- MCEpayText
    Inputs <- MCInputs
    MaxHeavy = 4
    Variations <- MCVariations
    Rewritings <- MCRewritings
    Names <- MCNames
    DefaultNotifyUrl <- MCDefaultNotifyUrl
    MaxAltered = 2
INVARIANTS
    SignatureStaysValid
CHECK_DEADLOCK FALSE
