SPECIFICATION LiveSpec
CONSTANTS
    Workers = {w1}
    Faults = {"request", "reject", "ambiguous", "neutral", "slow", "crash"}
    MaxFaults = 2
    MaxMoves = 2
    MaxIntents = 2
    RetryLimit = 2
    NoWorker = NoWorker
CHECK_DEADLOCK FALSE
INVARIANTS SynchronizedRunShowsIntent
PROPERTIES IntentSettles
