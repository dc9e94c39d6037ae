CONSTANTS
    None = None
    book = book
    lamp = lamp
    low = low
    high = high
    Orders = {o1}
    Names = {book, lamp}
    Prices = {low, high}
    Threads = {r1, r2}
    Slots = {t1, t2, t3}
    Items <- MCItems
    Edits <- MCEdits
    Calls = {"pay", "cancel"}
    MaxRequests = 3
    MaxBulk = 50
    FaultKinds = {"restart", "commit", "redeliver", "crash"}
    MaxFaults = 2
    RetryReraisesExc = TRUE
SPECIFICATION Spec
SYMMETRY MCSymmetry
INVARIANTS
    LockedReadsStayTrue
    KeyedTasksAreOver
    EffectsHappenOnce
    RefundsMatchCharges
    TimelineReplays
