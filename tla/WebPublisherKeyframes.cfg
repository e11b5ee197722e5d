\* Keyframes on a connection that does not break.
SPECIFICATION Spec
CONSTANTS
    MaxFrames = 4
    MaxStarts = 2
    Interval = 3
    Queue = 3
    SessionMayBreak = FALSE
INVARIANT KeyframesStartGroups
CHECK_DEADLOCK FALSE
