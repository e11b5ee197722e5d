\* Three groups in any order, one run of the page, every kind of fault.
SPECIFICATION FairSpec
CONSTANTS
    s1 = s1
    s2 = s2
    s3 = s3
    Stream = {s1, s2, s3}
    Group <- Groups
    None = None
    MaxObjects = 2
    MaxUnread = 1
    MaxStarts = 1
    DecoderMayFail = TRUE
    Breakable = {s1}
    ConnectionMayBreak = TRUE
INVARIANTS
    TypeOK
    DecodedInOrder
PROPERTIES
    RefusesOnlyWhenStopping
    NotHeldBack
CHECK_DEADLOCK FALSE
