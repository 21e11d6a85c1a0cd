CONSTANTS
  chat = chat
  embed = embed
  a1 = a1
  a2 = a2
  NoTemplate = NoTemplate
  NoArgs = NoArgs
  NoConfig = NoConfig
  Args <- MCArgs
  Templates <- MCTemplates
  Configs <- MCModes
  MaxPods = 3
  Limit = 2
  MaxActs = 1
  Askers = {"user"}
  Enabled = {"stop", "edit", "reap"}
SPECIFICATION Spec
SYMMETRY MCSymmetry
INVARIANTS OnePerTemplate GpusWithinLimit BilledIsRecorded
