SPECIFICATION Spec
CONSTANTS
    f1 = f1
    Files <- File
    MaxChanges = 2
    MaxUser = 2
    Environments <- OneHazard
INVARIANTS
    LibraryIsCurrent
    RatingHolds
    RemovalHolds
    IndexingEnds
PROPERTY NoTrackLost
\* A closed library is a legal end.
CHECK_DEADLOCK FALSE
