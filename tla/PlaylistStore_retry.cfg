SPECIFICATION Spec
CONSTANTS
    MaxLists = 2
    MaxVersion = 1
    Edited <- FirstList
    Faults <- RecoverFaults
INVARIANT RecoveryCanFinish
