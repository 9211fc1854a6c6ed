SPECIFICATION Spec
CONSTANTS
    r1 = r1
    p1 = p1
    p2 = p2
    Versions <- VersionsTwo
    Size = 2
    Results <- ResultsOne
    Processes <- ProcessesTwo
    Limit = 1
    Returns = FALSE
    CanCrash = TRUE
    None = None
SYMMETRY Symmetry
INVARIANTS AlwaysReadable NoDanglingVectors PublishedAlone
PROPERTY ReportedIsComplete
