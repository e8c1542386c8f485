\* Two schedules of the post, an ordinary publication and an archive; two
\* attempts at commands on the media library.
CONSTANTS
    Schedules = {s1, s2}
    Workers = {w1, w2}
    MaxAttempts = 2
    MaxPublications = 2
    MaxApprovals = 1
    MaxVersion = 2
    Attempts = {w1, w2}
    Keys = {s1, s2}
    Assets = {a1}
    Sources = {x1, x2}
    MaxRevisions = 2
SPECIFICATION AuthoringSpec
SYMMETRY Symmetric
INVARIANTS
    OnePublication
    ReservationHasClaimant
    ScheduleAgreesWithExecution
    ArchivedStaysDown
    LibraryIsWhole
    AnsweredIsDone
PROPERTIES
    StartsUnderAuthority
CHECK_DEADLOCK FALSE
