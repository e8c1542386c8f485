SPECIFICATION BulkSpec
CONSTANTS
    Recipients = {r1, r2}
    Schedules = {s1}
    Executors = {e1, e2}
    MaxRevision = 2
    MaxPosts = 2
    MaxDisturbances = 2
    Kinds = {"accepted", "unsubscribed"}
    Events = {"crash", "edit", "unread", "reject", "publish", "leave", "revoke"}
    None = None
    Gone = Gone
INVARIANTS
    BulkTypeOK
    CommittedAudienceIsSnapshot
    SchedulesFollowSend
    SentWasReached
PROPERTIES
    SendsOnce
    FirstAttemptAuthorized
    SuppressionWins
SYMMETRY Symmetric
CHECK_DEADLOCK FALSE
