SPECIFICATION Spec
CONSTANTS
    NULL = NULL
    e1 = e1
    e2 = e2
    m1 = m1
    m2 = m2
    m3 = m3
    Slots = {slot1, slot2}
    Events = {e1, e2}
    Messages = {m1, m2, m3, junk}
    EventOf <- Carries
    DeliveryAttempts = 1
    LeaseAttempts = 2
    AttemptAttempts = 2
    CallAttempts = 1
    LeaseDuration = 10
    Timeout = 12
    RenewInterval = 3
    MaxMargin = 2
    MaxIds = 3
    Interruptions = {"lapse", "fence", "authority", "deadline", "shutdown"}
    StaleTicks = 2
    Operations = {"claim", "start", "renew", "succeed", "fail", "cancel"}
    MaxDuration = 1000000
    HeartbeatTimings <- Heartbeats
    RenewalTimings <- Renewals
SYMMETRY SlotSymmetry
CHECK_DEADLOCK FALSE
INVARIANTS
    DeliveriesAreSafe
    LeaseIsAgreed
    CancellationNotDropped
    OutcomesAreTrue
    RevokedKeyCommitsNothing
    
    
