CONSTANTS
    None = None
    book = book
    lamp = lamp
    low = low
    high = high
    Orders = {o1}
    Names = {book, lamp}
    Prices = {low, high}
    Threads = {r1, r2}
    Slots = {t1, t2}
    Items <- MCItems
    Edits <- MCEdits
    Calls = {"pay", "cancel", "update", "retry", "fail"}
    MaxRequests = 3
    MaxBulk = 50
    FaultKinds = {"lose", "skip", "exception", "disconnect"}
    MaxFaults = 1
    RetryReraisesExc = TRUE
SPECIFICATION Spec
SYMMETRY MCSymmetry
INVARIANTS
    TypeOK
    LockedReadsStayTrue
    EditsApplyOnce
    AnnouncedIsCommitted
PROPERTIES
    FailedIsFinal
    ImplementsLifecycle
