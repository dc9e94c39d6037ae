CONSTANTS
    None = None
    Orders = {o1, o2}
    Names = {book}
    Prices = {low}
    Filters = {"ALL", "PENDING"}
    MaxRetries = 1
    MaxFetches = 2
    Sessions <- MCSessions
SPECIFICATION FairSpec
INVARIANTS
    TypeOK
    ShownHappened
    FailIsEarned
    OneFailAtATime
    SpinnersAreBacked
    NotLeftAlone
    OnlyEmptiedPricesBlank
PROPERTIES
    RowsStay
    PollingCatchesUp
    ExpiredOrdersFail
