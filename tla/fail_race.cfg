CONSTANTS
    None = None
    book = book
    lamp = lamp
    low = low
    high = high
    Orders = {o1}
    Names = {book, lamp}
    Prices = {low, high}
    Threads = {r1, r2}
    Slots = {t1}
    Items <- MCItems
    Edits <- MCEdits
    Calls = {"pay", "fail"}
    MaxRequests = 2
    MaxBulk = 50
    FaultKinds = {}
    MaxFaults = 0
    RetryReraisesExc = TRUE
SPECIFICATION Spec
INVARIANTS
    PaidOrdersFailInShipping
