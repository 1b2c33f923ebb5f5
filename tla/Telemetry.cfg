CONSTANTS
  MaxSpansBatch = 2
  MaxWindowSpans = 4
  DefaultTraceWindow = 1
  MaxTraceWindow = 2
  MaxBindings = 2
  MaxFindings = 3
  Files <- MCFiles
  Funcs <- MCFuncs
  Calls <- MCCalls
  Exports <- MCExports
  Diffs <- MCDiffs
  Inert = {"new.go"}
  Windows = {0, 2, 3}
  Services = {"", "pay"}

SPECIFICATION Spec

INVARIANTS
  ExportKept
  WindowNewest
  EntryNeverWrong
  RoutesExact
