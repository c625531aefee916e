SPECIFICATION Spec
CONSTANTS
    Users = {u1}
    Requests = {r1, r2}
    Passwords = {p1, p2}
    MAX_FAILED_ATTEMPTS = 2
    MaxPairs = 2
    MaxRecoveries = 1
    MaxResets = 2
    NoUser = NoUser
    NoPassword = NoPassword
SYMMETRY Interchangeable
INVARIANTS FailedAttemptsWithinThreshold
