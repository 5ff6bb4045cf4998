SPECIFICATION Spec
CONSTANTS
    Processes = {p1, p2}
    Calls = {c1, c2, c3}
    Home <- MCHome
    Sources = {s1}
    Grants = {g1}
    Nobody = Nobody
    p1 = p1
    p2 = p2
    c1 = c1
    c2 = c2
    c3 = c3
    s1 = s1
    g1 = g1
    SlowTransactions = TRUE
    MaxTokens = 3
INVARIANTS
    OneOpenRefresh
    NoNeedlessReauth
    StoredGrantIsLive
    ActiveSourceHasActiveGrant
    WaitersAreServed
CHECK_DEADLOCK FALSE
