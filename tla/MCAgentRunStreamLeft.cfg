SPECIFICATION Spec
CONSTANTS
    s1 = s1
    s2 = s2
    Streams <- StreamsTwo
    MaxTasks = 2
    MaxProgress = 0
    MaxHangups = 1
INVARIANT DisconnectCancels
CHECK_DEADLOCK FALSE
