SPECIFICATION Spec
CONSTANTS
    NoChat = NoChat
    t1 = t1  t2 = t2  t3 = t3
    Chats = {c1, c2}
    Runs = {r1, r2}
    Chunks = {k1, k2}
    TableNames <- MCTableNames
    Databases <- MCDatabases
    TableCalls <- MCTableCalls
    MaxNamed = 2  MaxListed = 2  MaxTables = 2  Budget = 2
    MaxRows = 2  RowBudgets = {2, 3}  RowCounts = {0, 1, 2, 3}
    MaxModelCalls = 2  MaxResults = 1  MaxPieces = 1  MaxWire = 1
    MaxReads = 3  MaxMishaps = 1
INVARIANTS
    ThreadIsTheOpenChat
CHECK_DEADLOCK FALSE
CONSTRAINT MCFewSteps
SYMMETRY MCSymmetry
