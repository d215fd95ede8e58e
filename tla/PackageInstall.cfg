SPECIFICATION Spec
CONSTANTS
    N = 3
    Folders <- TwoFolders
    Above <- Nested
    In <- Places
    MaxOthers = 2

INVARIANTS
    RecoverableByHand
    RestoredMeansBefore
    AddedIsKept
\* An update that is over is a legal end.
CHECK_DEADLOCK FALSE
