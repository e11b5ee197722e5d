\* One publisher and one track: three SUBSCRIBEs of two sessions.
SPECIFICATION Spec
CONSTANTS
    r1 = r1
    r2 = r2
    r3 = r3
    Session = {p1, s1, s2}
    Publisher = {p1}
    Subscriber = {s1, s2}
    Req = {r1, r2, r3}
    Track <- OneTrack
    Namespace <- OneNamespace
    Alias = {1, 2}
    Form <- Plain
    Leaver = {p1, s1}
    Garbler = {p1}
    Quitter = {}
    None = None
SYMMETRY ReqSymmetry
INVARIANTS
    TypeOK
    CheckedAbsenceHolds
    ToldWhatIsRouted
    MembersAreTold
    NoEmptySubscription
PROPERTIES
    LeavesWithItsSession
    ImplementsAggregation
CHECK_DEADLOCK FALSE
