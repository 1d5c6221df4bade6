CONSTANTS
    event = event
    NULL = NULL
    Slots = {s1, s2}
    Events = {event}
    Messages = {m1, m2}
    EventOf <- Carries
    RetryAttempts = 2
SPECIFICATION Spec
CHECK_DEADLOCK FALSE
INVARIANTS
    SessionLossIsAnError
