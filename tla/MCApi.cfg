SPECIFICATION Spec
CONSTANTS
    NULL = NULL
    Absent = Absent
    Requests = {r1, r2}
    Prefixes = {p1, p2}
    Scopes = {scope}
SYMMETRY PeerSymmetry
INVARIANTS
    KeyAnswersAreTrue
    ReadsAreExact
    RepeatsAreRecognised
    
    SameKeyOneJob
