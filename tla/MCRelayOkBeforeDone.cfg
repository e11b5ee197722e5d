\* A subscriber that joins while the publisher finishes.
SPECIFICATION Spec
CONSTANTS
    Session = {p1, s1, s2}
    Publisher = {p1}
    Subscriber = {s1, s2}
    Req = {r1, r2}
    Track <- OneTrack
    Namespace <- OneNamespace
    Alias = {1}
    Form <- Plain
    Leaver = {}
    Garbler = {}
    Quitter = {}
    None = None
INVARIANT OkBeforeDone
CHECK_DEADLOCK FALSE
