CONSTANTS
    Workers = {w1}
    Keys = {k1, k2}
    MaxFaults = 1
    DeleteAfterPass = TRUE
    Tokens = {t1}
    Requests = {r1, r2}
    None = None
SPECIFICATION PartSpec
CHECK_DEADLOCK FALSE
INVARIANTS CapabilityOpensOnce
PROPERTIES EvaluationEnds RetentionEnds OpensWhileAuthorized LeaseIsReleased
