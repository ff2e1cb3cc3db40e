CONSTANTS
    Workers = {w1, w2}
    Keys = {k1, k2}
    MaxFaults = 1
    DeleteAfterPass = TRUE
    None = None
SPECIFICATION Spec
CHECK_DEADLOCK FALSE
SYMMETRY Symmetry
INVARIANTS RetentionInv
PROPERTIES PolicyNeedsEvidence EvaluationIsFinal
