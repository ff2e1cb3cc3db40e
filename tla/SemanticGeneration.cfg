SPECIFICATION PartSpec
CONSTANTS
    Workers = {w1, w2}
    Contents = {c1, c2}
    MaxChanges = 1
    MaxFaults = 1
    Sources <- PullRequests
    MaxFiles = 2
    MaxHunks = 3
    MaxTotal = 15
    MaxFile = 6
    MaxTitle = 2
    MaxBody = 3
    MaxExclusions = 3
    LineLimit = 4
    Escape = 2
    Frame = 3
    FileCost = 1
    AnchorCost = 1
    ExclusionCost = 1
    HitCost = 1
    None = None
CHECK_DEADLOCK FALSE
INVARIANTS GenerationInv ContextInv
PROPERTIES  EventuallyShredded ProofArrives ContributorIsAnswered
