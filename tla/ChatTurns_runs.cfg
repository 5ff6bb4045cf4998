SPECIFICATION FairSpec
CONSTANTS
    Runs <- MCRuns
    r1 = r1
    r2 = r2
    MaxTurns = 4
INVARIANTS
    TurnsHaveOneWriter
    NotesMatchCount
PROPERTIES
    SettledTurnIsFinal
    ChatUnlocks
CHECK_DEADLOCK FALSE
