CONSTANTS
    Runs = {r1, r2}
    Workers = {w1}
    NoWorker = NoWorker
    LocalApp = TRUE
    MaxIds = 2
    MaxCalls = 1
SPECIFICATION FairSpec
PROPERTIES
    ImplementsFairLifecycle
