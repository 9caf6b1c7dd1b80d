CONSTANTS
    Runs = {r1}
    Workers = {w1, w2}
    NoWorker = NoWorker
    LocalApp = FALSE
    MaxIds = 2
    MaxCalls = 1
    MaxConcurrent = 1
    NoRun = NoRun
    MaxFaults = 0
    MaxCrashes = 0
SPECIFICATION RunnerFairSpec
CHECK_DEADLOCK FALSE
PROPERTIES
    WaitingRunIsTaken
    WorkerEndsItsRuns
