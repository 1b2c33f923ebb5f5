SPECIFICATION Spec
CONSTANTS
  Trees = {"a", "b", "c"}
  Root = "a"
  Draft = "b"
  MaxCommits = 2
  MaxEdits = 1
  MaxCommands = 2
INVARIANTS
  NothingLeft
  ServedIsRecorded
  AnalysedIsBuilt
  PatchKept
PROPERTIES
  Ends
CHECK_DEADLOCK FALSE
