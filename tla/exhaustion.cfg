CONSTANTS
    None = None
    book = book
    lamp = lamp
    low = low
    high = high
    Orders = {o1, o2}
    Names = {book, lamp}
    Prices = {low, high}
    Threads = {r1}
    Slots = {t1, t2}
    Items <- MCItems
    Edits <- MCEdits
    Calls = {"bulk", "pay"}
    MaxRequests = 1
    MaxBulk = 50
    FaultKinds = {"exception", "redeliver"}
    MaxFaults = 5
    RetryReraisesExc = FALSE
SPECIFICATION Spec
SYMMETRY MCSymmetry
INVARIANTS
    FailuresAreEarned
    RetryLogAgrees
PROPERTIES
    FailedIsFinal
    ImplementsLifecycle
