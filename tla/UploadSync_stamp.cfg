SPECIFICATION UploadSpec
CONSTANTS
    Docs = {1}
    Attachments = {}
    Passes = {p1, p2}
    Deleters = {}
    p1 = p1
    p2 = p2
    ServesGone = FALSE
    MaxClock = 8
    MaxRows = 1
    MaxPages = 0
    PageSize = 1
    MaxSources = 1
SYMMETRY Symmetry
INVARIANT StaleIndexDetectable
CHECK_DEADLOCK FALSE
