SPECIFICATION Spec
CONSTANTS
    k1 = k1
    k2 = k2
    r1 = r1
    r2 = r2
    p1 = p1
    p2 = p2
    t1 = t1
    t2 = t2
    t3 = t3
    t4 = t4
    t5 = t5
    Keys <- KeysTwo
    Results <- ResultsTwo
    Processors <- ProcessorsTwo
    Batches <- BatchesPair
    Tokens <- TokensFive
    Timeout = 2
    MaxHop = 1
    CanCrash = TRUE
    CanCancel = TRUE
    None = None
SYMMETRY Symmetry
INVARIANTS TypeOK OneOwner CompletedAgrees
PROPERTIES PublishedByOwner NoEarlyTakeover FailureReleases ImplementsCache
