SPECIFICATION Spec
CONSTANTS
    long = long
    mid = mid
    Messages <- TwoMessages
    Chunks <- TwoChunks
    Bytes <- TwoBytes
    FirstSeq = 65532
    MaxBytes = 3
    MaxDispatch = 2
INVARIANTS FragmentAccounting OneMessagePerGroup DispatchedTails
CHECK_DEADLOCK FALSE
