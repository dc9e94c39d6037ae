CONSTANTS
    None = None
    i1 = i1
    i2 = i2
    p1 = p1
    e1 = e1
    e2 = e2
    Instances = {i1, i2}
    Partitions = {p1}
    Events = {e1, e2}
    partition <- OnePartition
    WithTask = {e1}
    FaultKinds = {"skip", "timeout", "crash"}
    MaxFaults = 2
    MaxStarts = 2
SPECIFICATION FairSpec
CHECK_DEADLOCK FALSE
INVARIANTS
    TypeOK
    CommittedIsSettled
    NothingLeftBehind
    SomebodyIsNotified
PROPERTIES
    ImplementsTopic
    EventsAreSettled
