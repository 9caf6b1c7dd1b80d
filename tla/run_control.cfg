CONSTANTS
    Runs = {r1}
    Workers = {w1, w2}
    NoWorker = NoWorker
    LocalApp = FALSE
    MaxIds = 3
    MaxCalls = 2
SPECIFICATION Spec
SYMMETRY Symmetry
INVARIANTS
    OnlyTheHolderIsAuthorized
    WaitingRunTakesNoToken
    RecordedResultIsUploaded
PROPERTIES
    DoneIsFinal
    LostTokenStaysLost
    ImplementsLifecycle
