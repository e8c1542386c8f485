SPECIFICATION FairSpec
CONSTANTS
    Workspaces = {w1}
    Approvals = {a1}
    Pubs = {p1, p2}
    Callers = {c1}
    None = None
    MaxRevision = 0
    MaxHead = 1
    MaxDispatch = 1
    Events = {"crash", "channel", "errors"}
PROPERTIES
    SlotIsReleased
CHECK_DEADLOCK FALSE
