SPECIFICATION Spec
CONSTANTS
    Keys = {k1}
    Requests = {r1, r2, r3}
    MaxAttempts = 2
    WindowSeconds = 2
    MaxClock = 2
    MaxCalls = 4
    NoKey = NoKey
    Nobody = Nobody
INVARIANTS TypeOK AdmittedWithinLimit
PROPERTIES RefusedOnlyWhenSpent CountsOneAtATime EveryRequestAnswered
CHECK_DEADLOCK FALSE
