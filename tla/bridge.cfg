CONSTANTS
    o1 = o1
    o2 = o2
    s1 = s1
    s2 = s2
    s3 = s3
    Orders = {o1, o2}
    Sockets = {s1, s2, s3}
    path <- MCPath
    MaxEvents = 2
SPECIFICATION FairSpec
INVARIANTS
    TypeOK
    RegistryIsClean
    NobodyIsSkipped
PROPERTIES
    ImplementsDelivery
    ClosedSocketsLeave
