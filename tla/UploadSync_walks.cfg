SPECIFICATION UploadFairSpec
CONSTANTS
    Docs = {1, 2}
    Attachments = {}
    Passes = {p1, p2}
    Deleters = {x1}
    p1 = p1
    p2 = p2
    x1 = x1
    ServesGone = FALSE
    MaxClock = 5
    MaxRows = 3
    MaxPages = 0
    PageSize = 1
    MaxSources = 2
INVARIANTS
    ListingMissesNoFile
PROPERTY PassEnds
CHECK_DEADLOCK FALSE
