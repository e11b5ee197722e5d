SPECIFICATION FairSpec
CONSTANTS
    None = None
    Control = Control
    MaxFrames = 3
    Room = 1
    DemoGroups = 2
    DemoObjects = 1
    Scenarios <- MCScenarios
    Stream = {0, 1, 2}
INVARIANTS
    TypeOK
    FramesInOrder
    GroupsAtKeyframes
    CountedStreams
    PlayedInTurn
    PlayedToTheEnd
PROPERTIES
    ProgramsEnd
    UpstreamsSettle
CHECK_DEADLOCK FALSE
