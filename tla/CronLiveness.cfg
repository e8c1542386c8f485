SPECIFICATION CronSpec
CONSTANTS
    Emails = {a1, a2}
    Subjects = {s1, s2}
    Members = {m1, m2}
    Invitations = {i1}
    Requests = {c1}
    Cron = Cron
    FirstMember = m1
    FirstEmail = a1
    FirstSubject = s1
    Unbound = Unbound
    maximumEligibilitySyncAttempts = 2
    Changes = {}
    MaxAccess = 3
PROPERTIES
    GateFollows
    DueIsTakenUp
    JobSettles
    TakenIsReported
CHECK_DEADLOCK FALSE
