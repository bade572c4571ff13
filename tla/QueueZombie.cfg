SPECIFICATION Spec
CONSTANTS
  Notebooks = {n1}
  Jobs = {j1}
  Workers = {w1, w2}
  Requests = {}
  NoNotebook = NoNotebook
  NoJob = NoJob
  MaxAttempts = 2
  MaxCrashes = 1
  LeaseMayLapse = TRUE
SYMMETRY Symmetry
PROPERTIES TerminalIsFinal
