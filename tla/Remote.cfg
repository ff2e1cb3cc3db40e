CONSTANTS
  Deadline = 8
  MaxAttempts = 2
  IdleLimit = 2
  Backoff = 1
  RetryAfters = {0, 3}
  Reserve = 3
  MinPrimary = 2
  MaxLate = 1
  Calls = {c1, c2}
  Heads = {h1, h2}
  Bases = {b1, b2}
  MaxMoves = 2
  MaxMints = 2
  Pages = 2
  MaxBlobs = 3
  Sizes = {1, 2}
  Target = 2
  Limit = 3
  Questions = 1
  MaxRead = 2
  None = None
SPECIFICATION Spec
CHECK_DEADLOCK FALSE
SYMMETRY Symmetry
INVARIANTS ProviderInv GithubInv PhoneInv ReleasedIsRecorded
PROPERTIES CallSpec
