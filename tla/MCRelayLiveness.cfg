\* Every kind of fault on one track, under the fairness of the runtime.
SPECIFICATION FairSpec
CONSTANTS
    Session = {p1, s1, s2}
    Publisher = {p1}
    Subscriber = {s1, s2}
    Req = {r1, r2}
    Track <- OneTrack
    Namespace <- OneNamespace
    Alias = {1}
    Form <- Plain
    Leaver = {p1, s1}
    Garbler = {}
    Quitter = {r2}
    None = None
PROPERTIES
    RequestsSettle
    MembersHearTheEnd
CHECK_DEADLOCK FALSE
