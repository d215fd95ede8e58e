SPECIFICATION Spec
CONSTANTS
    Songs <- AB
    Rows <- ABA
    Settings <- Sessions
    MaxUser = 4
INVARIANTS
    EnginesBounded
    AdvanceIsEarned
    RequestIsPending
PROPERTIES
    WaveOpensRequested
    PendingChangeEnds
