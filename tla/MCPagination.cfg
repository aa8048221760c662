SPECIFICATION FairSpec
CONSTANTS
    MaxLimit = 3
    MaxPage = 5
    Limits = {0, 2, 4}
    PageBounds = {0, 1, 2, 4}
    MaxOrders = 6
    MaxRequests = 7
INVARIANTS
    NothingIsSkipped
    StaticListingIsCopied
    StopsAfterMaxPages
PROPERTIES
    CollectingEnds
CHECK_DEADLOCK FALSE
