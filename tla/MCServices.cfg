SPECIFICATION Spec
CONSTANTS
    MaxDuration = 600000000
    NULL = NULL
    Publishers = {p1, p2}
    Events = {e1, e2}
    Migrators = {m1, m2, m3}
SYMMETRY PeerSymmetry
INVARIANTS
    ExclusiveUnlessOverrun
    
    SchemaIsAsRecorded
    BackoffWithinBounds
    
