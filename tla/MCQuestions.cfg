SPECIFICATION SuiteSpec
CONSTANTS
    d1 = d1
    d2 = d2
    w1 = w1
    DocIds <- MCDocIds
    WebIds <- MCWebIds
    Sizes <- MCSizes
    MaxDocs = 2
    MaxWeb = 1
    MaxContext = 3
    ContextLimit = 2
    MaxTurns = 2
    MaxBatch = 2
    MaxRounds = 3
    Chunks = {1, 2, 3, 4}
    Library <- MCLibrary
    Words <- MCWords
    HitLimit = 3
    RrfK = 60
    MaxWords = 4
    Calls = {1, 2, 3}
    MaxDeltas = 1
INVARIANTS CallsAccounted ContextFits SourcesInOrder GraphSound EvidenceExact TracesSound
PROPERTY ReactEnds
CHECK_DEADLOCK FALSE
