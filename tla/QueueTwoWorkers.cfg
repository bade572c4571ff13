SPECIFICATION Spec
CONSTANTS
  Notebooks = {n1}
  Jobs = {j1, j2, j3}
  Workers = {w1, w2}
  Requests = {}
  NoNotebook = NoNotebook
  NoJob = NoJob
  MaxAttempts = 2
  MaxCrashes = 1
  LeaseMayLapse = FALSE
SYMMETRY Symmetry
INVARIANTS ExecutionIsExclusive RetryBudget
PROPERTIES TerminalIsFinal ImplementsJobQueue
