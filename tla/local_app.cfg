SPECIFICATION AppSpec
CONSTANTS
  a1 = a1
  a2 = a2
  f1 = f1
  None = None
  Apps = {a1, a2}
  Folders = {f1}
  Folder <- OneFolder
  MaxCuts = 1
INVARIANTS LeftoversCannotConnect WatchedWorkerCanConnect LastStartedIsFound
PROPERTIES WorkerComesBack
CHECK_DEADLOCK FALSE
