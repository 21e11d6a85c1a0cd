CONSTANTS
  chat = chat
  embed = embed
  a1 = a1
  a2 = a2
  NoTemplate = NoTemplate
  NoArgs = NoArgs
  NoConfig = NoConfig
  Args <- MCArgs
  Templates <- MCOneTemplate
  Configs <- MCPausing
  MaxPods = 2
  Limit = 1
  MaxActs = 1
  Askers = {"user"}
  Enabled = {"resume", "stop", "fail", "late"}
SPECIFICATION Spec
INVARIANT TerminatedIsGone
