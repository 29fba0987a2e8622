\* The claim of the check in the input stream's BackUp().
SPECIFICATION IOBufSpec
CONSTANTS
    BlockCap = 2
    InitialCap = 4
    MaxTlsBlocks = 2
    MaxBytes = 5
    MaxIoOps = 5
INVARIANTS
    BackUpAfterNext
CHECK_DEADLOCK FALSE
