CONSTANTS
  Tokens = {k}
  Templates = {a, b}
  None = none
  Scheduled = {a}
  Requests = {q}
  Pods = {1, 2}
  Wait = 2
  CheckEvery = 2
SPECIFICATION FairSpec
INVARIANTS TypeOK OwnPodOnly
PROPERTIES  RequestsAnswered
