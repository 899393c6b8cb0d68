SPECIFICATION FairSpec
CONSTANTS
    Nil = Nil
    Cancelled = Cancelled
    Workers = {w1, w2}
    Configs = {a, b, c}
    Kept = {c}
    Hidden = {}
    Credential <- SameCredential
    CallSites = 1
    backoffSteps = 2
CHECK_DEADLOCK FALSE
INVARIANTS ReleasedMeansDeleted
PROPERTIES EventuallyServed
