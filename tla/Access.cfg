CONSTANTS
  Flows = {f1, f2}
  Calls = {c1, c2}
  Handoffs = {h1}
  Phones = {p1, p2}
  Author = author
  Users = {author, other}
  ActiveLimit = 2
  MaxWithdrawals = 1
  Starts = {q1, q2, q3}
  Subjects = {s1, s2}
  Window = 2
  Retention = 4
  SubjectMax = 1
  GlobalMax = 2
  MaxLag = 1
  MaxTime = 5
  None = None
SPECIFICATION Spec
CHECK_DEADLOCK FALSE
SYMMETRY Symmetry
INVARIANTS LoginInv WindowInv
PROPERTIES RotationIsAuthorized
