SPECIFICATION Spec
CONSTANTS
    Workspaces = {w1}
    Approvals = {a1}
    Pubs = {p1}
    Callers = {c1, c2}
    None = None
    MaxRevision = 0
    MaxHead = 1
    MaxDispatch = 0
    Events = {"late"}
SYMMETRY Symmetric
INVARIANTS
    LandedCommitAccounted
CHECK_DEADLOCK FALSE
