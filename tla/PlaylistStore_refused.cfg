SPECIFICATION Spec
CONSTANTS
    MaxLists = 3
    MaxVersion = 1
    Edited <- FirstList
    Faults <- RecoverFaults
INVARIANT NoSavedListLost
