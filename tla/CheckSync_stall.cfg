SPECIFICATION Spec
CONSTANTS
    Workers = {w1, w2}
    Faults = {"slow", "stall"}
    MaxFaults = 2
    MaxMoves = 1
    MaxIntents = 2
    RetryLimit = 1
    NoWorker = NoWorker
CHECK_DEADLOCK FALSE
INVARIANTS SyncInv
PROPERTIES OutcomeBelongsToIntent
