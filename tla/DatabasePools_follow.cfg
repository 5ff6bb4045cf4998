SPECIFICATION FairSpec
CONSTANTS
    Queries <- MCQueries
    Editors <- MCEditors
    Creds = {c1, c2}
    None = None
    q1 = q1
    e1 = e1
    e2 = e2
    c1 = c1
    c2 = c2
    MaxRows = 1
INVARIANTS
    StoredCredsConnected
    PoolFollowsRow
PROPERTY
    ErrorClears
CHECK_DEADLOCK FALSE
