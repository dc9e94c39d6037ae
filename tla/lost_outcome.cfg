CONSTANTS
    None = None
    book = book
    lamp = lamp
    low = low
    high = high
    Orders = {o1}
    Names = {book, lamp}
    Prices = {low, high}
    Threads = {r1}
    Slots = {t1}
    Items <- MCItems
    Edits <- MCEdits
    Calls = {"pay"}
    MaxRequests = 1
    MaxBulk = 50
    FaultKinds = {"disconnect"}
    MaxFaults = 1
    RetryReraisesExc = TRUE
SPECIFICATION FairSpec
PROPERTIES
    CompletionIsPublished
