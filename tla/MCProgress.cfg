SPECIFICATION Spec
CONSTANTS
    NULL = NULL
    e1 = e1
    m1 = m1
INVARIANTS
    ProcessIsOrderly
PROPERTIES
    EventuallyPublished
    CancellationReachesWork
    
    StopsWhenTold
    NobodyWaitsForEver
