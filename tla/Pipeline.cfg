CONSTANTS
  ShiftRatio = 2
  ShiftMin = 3
  DefaultLatencyN = 2
  DefaultConcurrencyN = 2
  MinLatencyN = 2
  Clients = {"experiment", "import"}
  Prefix <- MCPrefix
  MaxPosts = 2
  Files = {"pay.go"}
  Funcs <- MCFuncs
  Calls = {}
  Inert = {"README.md"}
  maxRepeats = 2
  maxBurst = 2
  Scenarios <- MCScenarios
  Answers <- MCAnswers
  Normal <- MCNormal
  MaxDeviations = 2
  Imports <- MCImports

SPECIFICATION Spec

INVARIANTS
  ValidatedEarned
  CoverageAgrees
  SidesSymmetric
  AnsweredIsStored

CHECK_DEADLOCK FALSE
