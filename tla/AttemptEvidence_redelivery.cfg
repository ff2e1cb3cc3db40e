SPECIFICATION Spec
CONSTANTS
    Requests = {u1}
    MaxMediaRuns = 2
    None = None
INVARIANTS
    RejectionForcesRetry
