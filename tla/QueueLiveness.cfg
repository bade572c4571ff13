SPECIFICATION FairSpec
CONSTANTS
  Notebooks = {n1}
  Jobs = {j1, j2}
  Workers = {w1}
  Requests = {r1}
  NoNotebook = NoNotebook
  NoJob = NoJob
  MaxAttempts = 2
  MaxCrashes = 1
  LeaseMayLapse = FALSE
PROPERTIES StrandedOnlyByLoss JobsSettle SyncingSettles
