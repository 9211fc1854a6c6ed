SPECIFICATION FairSpec
CONSTANTS
    s1 = s1
    s2 = s2
    Streams <- StreamsTwo
    MaxTasks = 2
    MaxProgress = 1
    MaxHangups = 1
INVARIANTS Delivered ClosedOnce OnlyDisconnectsHurt
PROPERTIES ImplementsLog StreamsEnd
CHECK_DEADLOCK FALSE
