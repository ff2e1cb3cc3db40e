SPECIFICATION FairSpec
CONSTANTS
    Revisions = {r1, r2, r3}
    Oversized = {r3}
    MaxAttempts = 3
    None = None
INVARIANTS IInv SuccessIsEarned HeadHasAWayForward
PROPERTIES StatusFollowsGraph GateSpec RevisionMakesProgress
