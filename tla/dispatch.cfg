CONSTANTS
    Kids = {k1}
    Conns = {c1, c2}
    Runs <- OneSolve
    Kind <- SolveKind
    Cells <- SolveCells
    Serves <- ServesAll
    Declares <- MCDeclares
    PushLimit = 2
    NoConn = NoConn
SPECIFICATION DispatchSpec
INVARIANTS
    HubIsConsistent
    ReplacedSocketIsClosed
    NoRunFallsInTheGap
PROPERTIES
    DeadPeerIsNoticed
