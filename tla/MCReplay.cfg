CONSTANTS
    j1 = j1
    j2 = j2
    s1 = s1
    s2 = s2
    w1 = w1
    w2 = w2
    q1 = q1
    g1 = g1
    sc1 = sc1
    sc2 = sc2
    a1 = a1
    NULL = NULL
    Queues = {q1}
    Groups = {g1}
    QueueGroup <- SharedGroup
    Skills = {a1}
    JobIds = {j1, j2}
    SessionIds = {s1}
    Keys = {k1}
    Scopes = {sc1}
    Workers = {w1}
    QueueLimit <- LimitOne
    Definitions <- OneTry
    Registrations <- OneBoot
    Schedules = {0}
    SubmitLags = {0}
    RetryDelays = {1}
    LeaseDuration = 1
    StaleAfter = 3
    RenotifyAfter = 3
    Horizon = 3
SPECIFICATION Spec
CHECK_DEADLOCK FALSE
INVARIANTS
    DeadLetterRecord
    ReplayLineage
PROPERTIES
    HistoryIsImmutable
