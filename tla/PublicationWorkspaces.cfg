SPECIFICATION Spec
CONSTANTS
    Workspaces = {w1, w2}
    Approvals = {a1, a2}
    Pubs = {p1, p2}
    Callers = {c1}
    None = None
    MaxRevision = 0
    MaxHead = 2
    MaxDispatch = 0
    Events = {"late", "builds", "crash"}
SYMMETRY Symmetric
INVARIANTS
    OneActivePublication
    OneExactCommit
CHECK_DEADLOCK FALSE
