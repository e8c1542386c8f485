SPECIFICATION BulkSpec
CONSTANTS
    Recipients = {r1}
    Schedules = {s1}
    Executors = {e1, e2}
    MaxRevision = 1
    MaxPosts = 2
    MaxDisturbances = 3
    Kinds = {"accepted"}
    Events = {"overtake"}
    None = None
    Gone = Gone
PROPERTIES
    ResendProvesAbsence
CHECK_DEADLOCK FALSE
