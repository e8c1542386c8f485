\* An execution whose lease ran out, with its publication no longer under way.
CONSTANTS
    Schedules = {s1}
    Workers = {w1}
    MaxAttempts = 2
    MaxPublications = 2
    MaxApprovals = 2
    MaxVersion = 2
SPECIFICATION FairScheduleSpec
PROPERTIES
    ExpiredLeaseIsReclaimed
CHECK_DEADLOCK FALSE
