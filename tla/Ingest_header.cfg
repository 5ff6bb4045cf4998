SPECIFICATION Spec
CONSTANTS
    Pages <- MCPages
    PageSize = 1
    BlocksPerRequest = 2
    NotionPages <- MCFew
    ConfluencePages <- MCFew
    Files <- MCHeaderTables
    Joins <- MCJoins
    RetryAfters = {0, 90}
    MaxClock = 0
    MaxTokens = 4
    MinTokens = 2
    MaxInputTokens = 7
    MaxInputs = 2
    MaxRequestTokens = 8
INVARIANT ChunksKeepTheText
CHECK_DEADLOCK FALSE
