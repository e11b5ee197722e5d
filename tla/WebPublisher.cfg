\* Two runs of one page, with keyframes where the encoder wants them.
SPECIFICATION Spec
CONSTANTS
    MaxFrames = 5
    MaxStarts = 2
    Interval = 3
    Queue = 3
    SessionMayBreak = TRUE
INVARIANTS
    TypeOK
    StreamsInOrder
    KeyframesLead
    LaterGroups
CHECK_DEADLOCK FALSE
