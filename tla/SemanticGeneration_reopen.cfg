SPECIFICATION FairSpec
CONSTANTS
    Workers = {w1}
    Contents = {c1}
    MaxChanges = 1
    MaxFaults = 0
    None = None
CHECK_DEADLOCK FALSE
PROPERTIES
    ReopenedHeadGetsAttempt
