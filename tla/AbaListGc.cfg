\* The claim of the list's interface that what was added is applied.
SPECIFICATION AbaSpec
CONSTANTS
    BlockSize = 4
    MaxEntries = 12
    InitGcSize = 4
    MaxIds = 8
INVARIANTS
    AddedIsApplied
CHECK_DEADLOCK FALSE
