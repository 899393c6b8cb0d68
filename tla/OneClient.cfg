SPECIFICATION Spec
CONSTANTS
    Nil = Nil
    Cancelled = Cancelled
    Workers = {w1, w2}
    Configs = {a, b}
    Kept = {b}
    Hidden = {a}
    Credential <- OwnCredential
    CallSites = 2
    backoffSteps = 2
CHECK_DEADLOCK FALSE
INVARIANTS CallsUseOwnCredential
