SPECIFICATION Spec
CONSTANTS
    Workspaces = {w1}
    Approvals = {a1}
    Pubs = {p1, p2}
    Callers = {c1, c2}
    None = None
    MaxRevision = 1
    MaxHead = 1
    MaxDispatch = 0
    Events = {"crash", "external", "edits", "errors"}
SYMMETRY Symmetric
INVARIANTS
    TypeOK
    LandedCommitAccounted
PROPERTIES
    LandsUnderLease
    HistoryIsKept
CHECK_DEADLOCK FALSE
