\* One group, three subscribers, every kind of fault.  The tasks of two groups
\* share only the subscription, which each reads once.
SPECIFICATION FairSpec
CONSTANTS
    Group = {1}
    Subscriber = {s1, s2, s3}
    Opener = s1
    MaxObjects = 3
    Leaver = {s1, s3}
    Canceller = {s2, s3}
    PublisherMayDie = TRUE
INVARIANTS
    TypeOK
    CompleteCopies
    HoldsOneObject
PROPERTIES
    ImplementsCopy
    MembersGetTheGroup
CHECK_DEADLOCK FALSE
