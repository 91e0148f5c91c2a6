SPECIFICATION Spec
CONSTANTS
    long = long
    mid = mid
    Messages <- TwoMessages
    Chunks <- TwoChunks
    Bytes <- TwoBytes
    FirstSeq = 65532
    MaxBytes = 100
    MaxDispatch = 2
INVARIANT OnlyWholeMessages
CHECK_DEADLOCK FALSE
