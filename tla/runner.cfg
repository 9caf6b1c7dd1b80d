CONSTANTS
    Runs = {r1}
    Workers = {w1, w2}
    NoWorker = NoWorker
    LocalApp = FALSE
    MaxIds = 2
    MaxCalls = 1
    MaxConcurrent = 2
    NoRun = NoRun
    MaxFaults = 1
    MaxCrashes = 1
SPECIFICATION RunnerSpec
CHECK_DEADLOCK FALSE
SYMMETRY Symmetry
INVARIANTS
    OneThreadPerAttempt
    StartedRunIsWorkedOn
