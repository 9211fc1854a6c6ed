SPECIFICATION Spec
CONSTANTS
    d1 = d1
    v1 = v1
    v2 = v2
    p1 = p1
    p2 = p2
    Docs <- DocsOne
    Versions <- VersionsTwo
    Processes <- ProcessesTwo
    Shared = TRUE
    CanCrash = FALSE
    None = None
PROPERTY ReadyIsFinal
