CONSTANTS
    j1 = j1
    j2 = j2
    s1 = s1
    s2 = s2
    w1 = w1
    w2 = w2
    q1 = q1
    g1 = g1
    sc1 = sc1
    sc2 = sc2
    a1 = a1
    NULL = NULL
    Queues = {q1}
    Groups = {g1}
    QueueGroup <- SharedGroup
    Skills = {a1}
    JobIds = {j1}
    SessionIds = {s1}
    Keys = {k1}
    Scopes = {sc1}
    Workers = {w1}
    QueueLimit <- LimitOne
    Definitions <- ShortTries
    Registrations <- OneBoot
    Schedules = {0, 2}
    SubmitLags = {0, 2}
    RetryDelays = {0, 1}
    LeaseDuration = 2
    StaleAfter = 5
    RenotifyAfter = 1
    Horizon = 5
SPECIFICATION Spec
CHECK_DEADLOCK FALSE
INVARIANTS
    QueuedJobsAdvertised
PROPERTIES
    ImplementsLifecycle
