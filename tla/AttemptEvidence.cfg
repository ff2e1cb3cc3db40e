SPECIFICATION PartSpec
CONSTANTS
    Requests = {u1, u2}
    MaxMediaRuns = 2
    Blocks = 2
    Limit = 1
    Recorded = 40
    Decoded = {35, 36, 38, 39, 40, 44, 45}
    Intervals <- TwoQuestions
    None = None
CHECK_DEADLOCK FALSE
INVARIANTS EvidenceInv DecoderInv FailureIsContained
PROPERTIES UploadsEnd DecodingEnds
