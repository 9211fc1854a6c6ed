SPECIFICATION FairSpec
CONSTANTS
    r1 = r1
    p1 = p1
    p2 = p2
    Versions <- VersionsTwo
    Size = 1
    Results <- ResultsOne
    Processes <- ProcessesOne
    Limit = 1
    Returns = TRUE
    CanCrash = TRUE
    None = None
PROPERTY NewestIsPublished
