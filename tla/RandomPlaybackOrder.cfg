CONSTANTS
    Counts <- UpToFour
    ThreeRoundLimit = 3
    AutoSwitch = TRUE
    MaxQueue = 2
SPECIFICATION FairSpec
INVARIANTS
    RoundsFitOrder
    NoRepeatAcrossRounds
    RetainedRoundsDiffer
    
PROPERTIES
    RequestsAreAnswered
