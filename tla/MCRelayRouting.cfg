\* Two publishers, two tracks, overlapping namespaces, every form of SUBSCRIBE.
SPECIFICATION Spec
CONSTANTS
    r1 = r1
    r2 = r2
    Session = {p1, p2, s1}
    Publisher = {p1, p2}
    Subscriber = {s1}
    Req = {r1, r2}
    Track <- TwoTracks
    Namespace <- TwoNamespaces
    Alias = {1, 2}
    Form <- AnyForm
    Leaver = {}
    Garbler = {p1}
    Quitter = {}
    None = None
SYMMETRY ReqSymmetry
INVARIANTS
    RoutedToRequesters
    RoutedToAnnouncer
    OneAnswer
PROPERTIES
    KeepsItsAnnouncer
CHECK_DEADLOCK FALSE
