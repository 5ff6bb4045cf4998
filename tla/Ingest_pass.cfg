SPECIFICATION Spec
CONSTANTS
    Pages <- MCPages
    PageSize = 1
    BlocksPerRequest = 2
    NotionPages <- MCNotionPages
    ConfluencePages <- MCConfluencePages
    Files <- MCFiles
    Joins <- MCJoins
    RetryAfters = {0, 90}
    MaxClock = 3
    MaxTokens = 4
    MinTokens = 2
    MaxInputTokens = 7
    MaxInputs = 2
    MaxRequestTokens = 8
INVARIANTS
    IngestTypeOK
    WalkMissesNoPage
    SweepIsExact
    RenderingKeepsText
    OnlyLoneHeadersAreLost
    MergesAreSound
    EmbeddingIsSound
CHECK_DEADLOCK FALSE
