CONSTANTS
    None = None
    book = book
    lamp = lamp
    low = low
    high = high
    Orders = {o1, o2}
    Names = {book, lamp}
    Prices = {low, high}
    Threads = {r1}
    Slots = {t1}
    Items <- MCItems
    Edits <- MCEdits
    Calls = {"pay"}
    MaxRequests = 2
    MaxBulk = 50
    FaultKinds = {"exception"}
    MaxFaults = 8
    RetryReraisesExc = TRUE
SPECIFICATION FairSpec
PROPERTIES
    ExhaustionFailsOrders
