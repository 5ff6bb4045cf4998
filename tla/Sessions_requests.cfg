SPECIFICATION Spec
CONSTANTS
    None = None
    People = {p1, p2}
    Workspaces = {w1}
    Browsers = {b1, b2}
    Requests = {q1, q2}
    MaxSignIns = 2  MaxTokens = 1  MaxMemberships = 3  MaxMishaps = 1
INVARIANTS
    SessionsTypeOK ServesOnlyMembers SignInStaysInItsBrowser
PROPERTIES
    RowsFollowTheirBrowser
CHECK_DEADLOCK FALSE
SYMMETRY MCSymmetry
CONSTRAINTS MCMeets MCFewEnd
