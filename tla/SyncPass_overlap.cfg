SPECIFICATION MCSpec
CONSTANTS
    Docs = {d1, d2}
    Attachments = {d2}
    Passes = {p1, p2}
    d1 = d1
    d2 = d2
    p1 = p1
    p2 = p2
    ServesGone = FALSE
    MaxClock = 5
    MaxRows = 3
    MaxPages = 2
SYMMETRY Symmetry
INVARIANTS
    StaleIndexDetectable
    SweptStaysUnsearchable
    CompletedPassIsFresh
PROPERTIES
    LastSyncedAtAdvances
    SweepSparesLiveDocuments
CHECK_DEADLOCK FALSE
