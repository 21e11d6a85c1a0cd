CONSTANTS
  chat = chat
  embed = embed
  a1 = a1
  a2 = a2
  NoTemplate = NoTemplate
  NoArgs = NoArgs
  NoConfig = NoConfig
  Args <- MCArgs
  Templates <- MCTemplates
  Configs <- MCPausing
  MaxPods = 2
  Limit = 1
  MaxActs = 1
  Askers = {"user"}
  Enabled = {"act", "poll", "lose", "fail", "crash"}
SPECIFICATION Spec
SYMMETRY MCSymmetry
INVARIANTS TypeOK LimitRespected StartKeepsItsRoom GoneInv RoomInv
PROPERTY ImplementsAllotment
