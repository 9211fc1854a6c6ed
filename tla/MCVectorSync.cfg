SPECIFICATION FairSpec
CONSTANTS
    run1 = run1
    run2 = run2
    c1 = c1
    x = x
    y = y
    w1 = w1
    w2 = w2
    Runs <- RunsTwo
    Records <- RecordsOne
    Values <- ValuesTwo
    Events <- EventsVersions
    Workers <- WorkersTwo
    Limit = 1
    Overlap = FALSE
    CanCrash = TRUE
    None = None
INVARIANTS SettledAgrees DrainedIsDone
PROPERTIES SucceededIsFinal NoReplay WorkIsDone
