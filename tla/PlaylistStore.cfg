SPECIFICATION RestartSpec
CONSTANTS
    MaxLists = 3
    MaxVersion = 1
    Edited <- FirstList
    Faults <- CrashFaults
INVARIANTS NoListTwice DeletedStaysDeleted ForcedFlushIsExact
PROPERTIES CompactionFinishes ImplementsCatalogue
