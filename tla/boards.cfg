CONSTANTS
    Users = {u1, u2}
    ProjectIds = {p1, p2}
    BoardIds = {b1, b2}
    RunIds = {r1}
    FreshKeys = {k1}
    Contents = {c1, c2}
    Claims = {c1}
    None = None
SPECIFICATION BoardsSpec
SYMMETRY Symmetric
INVARIANTS
    UploadStays
    RowsHaveTheirParents
    ReuseIsVerified
    NothingLeftBehind
CHECK_DEADLOCK FALSE
