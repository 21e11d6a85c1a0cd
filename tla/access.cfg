CONSTANTS
  Tokens = {k1, k2}
  Templates = {a, b}
  None = none
  Devices = {d1, d2}
  MaxAttempts = 2
  Ttl = 1
  Horizon = 3
  MaxIssues = 3
SPECIFICATION Spec
INVARIANTS TypeOK TargetsExist
PROPERTIES EnrolledByALiveCode CutOffOnlyByHand
