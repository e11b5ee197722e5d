\* A publisher's stream that breaks.
SPECIFICATION Spec
CONSTANTS
    Group = {1}
    Subscriber = {s1}
    Opener = s1
    MaxObjects = 2
    Leaver = {}
    Canceller = {}
    PublisherMayDie = TRUE
INVARIANT FinMeansFin
CHECK_DEADLOCK FALSE
