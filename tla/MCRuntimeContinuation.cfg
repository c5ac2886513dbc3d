CONSTANTS
    MaxTasks = 3
SPECIFICATION RtSpec
INVARIANT
    ContinuationInSameRound
CHECK_DEADLOCK FALSE
