SPECIFICATION FairSpec
CONSTANTS
    a = a
    b = b
    p = p
    Installations = {a, b}
    Home = a
    Allowlisted = {a, b}
    Events <- MCEvents
    Sent <- MCSent
    PullEvents = {p}
    From <- MCFrom
    MaxFaults = 1
    MaxMoves = 1
    MaxCandidates = 8
    NoOne = NoOne
CHECK_DEADLOCK FALSE
INVARIANTS ControlInv
PROPERTIES FencesHold GithubWorkEnds
