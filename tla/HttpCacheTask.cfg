SPECIFICATION Spec
CONSTANTS
    Consumers <- Two
    Size = 3
    Capacity = 2
    Environments <- Servers

INVARIANTS
    CacheIsTheResource
    CanceledByOwner
    FailsForCause
    WindowHoldsUnread
PROPERTY CallsReturn
\* A worker that is done and consumers that are closed are a legal end.
CHECK_DEADLOCK FALSE
