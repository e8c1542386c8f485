SPECIFICATION PlatformSpec
CONSTANTS
    Submissions = {m1}
    Crons = {k1, k2}
    MaximumAttempts = 2
    MaxReleases = 3
    Runs = {r1, r2}
    Operators = {o1, o2}
    BackupDays = 1
    MaxDay = 2
    Tabs = {t1, t2, t3}
    Paths = {p1, p2}
    MaxEdits = 2
    MaxAttempts = 2
    MaxScopesAndKeys = 4
    Addresses = {a1}
    Signups = {q1}
    Visitors = {v1, v2}
    Mailers = {k1}
    Reports = {e1}
    OwnerEvents = {e2, e3}
    MaxOpen = 2
    MaxSignup = 3
    Emails = {a1, a2}
    Subjects = {s1, s2}
    Members = {h1, h2}
    Invitations = {i1, i2}
    Requests = {c1}
    Cron = Cron
    FirstMember = h1
    FirstEmail = a1
    FirstSubject = s1
    Unbound = Unbound
    maximumEligibilitySyncAttempts = 2
    Changes = {n1, n2}
    MaxAccess = 3
SYMMETRY Symmetric
INVARIANTS
    PlatformTypeOK
    JobFollowsSubmission
    NoUnaskedResend
    
    
    SettledEditSurvives
    ConfirmedHasConsent
    
    OwnerCanSignIn
PROPERTIES
    ReplacesOnlySeen
    
    GrantIsConfirmed
CHECK_DEADLOCK FALSE
