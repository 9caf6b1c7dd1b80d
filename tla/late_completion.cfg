CONSTANTS
    Runs = {r1}
    Workers = {w1, w2}
    NoWorker = NoWorker
    LocalApp = FALSE
    MaxIds = 2
    MaxCalls = 2
SPECIFICATION Spec
INVARIANT ResultIsTheHolders
