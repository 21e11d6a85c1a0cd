CONSTANTS
  Gpus <- Cards
  Hubs <- ChangingHubs
  Stored <- Superseded
  Queries <- Typed
  Lengths = {64}
  Counts = {8}
  Slots = {"chat", "embedding"}
  MaxEdits = 3
  MaxForms = 1
SPECIFICATION Spec
INVARIANTS TypeOK SizedAsChosen RendersWhole SharesFit
PROPERTIES AdmittedRuns ShownIsSaved ReopenKeeps
