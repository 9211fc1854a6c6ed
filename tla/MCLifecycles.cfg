SPECIFICATION SuiteSpec
CONSTANTS
    d1 = d1
    v1 = v1
    v2 = v2
    p1 = p1
    p2 = p2
    k1 = k1
    r1 = r1
    t1 = t1
    t2 = t2
    t3 = t3
    Docs <- DocsOne
    Versions <- VersionsTwo
    Processes <- ProcessesTwo
    Shared = FALSE
    CanCrash = TRUE
    None = None
INVARIANTS ShownIsCurrent ReportedIsReady
PROPERTIES ImplementsPublication RunsEnd ClaimsEnd
CHECK_DEADLOCK FALSE
