SPECIFICATION Spec
CONSTANTS
    CallbackTexts = {"https", "http", "blank", "long"}
    Quantities = {"zero", "given"}
INVARIANTS
    TypeOK
    AskedIsInForce
    RefusedForAReason
    CallbacksFollowPolicy
    FitPaymentsAreSent
CHECK_DEADLOCK FALSE
