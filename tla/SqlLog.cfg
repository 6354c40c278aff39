CONSTANTS
    FileSize = 2
    Lines = 1
    Gaps = {1, 2}
    MaxSql = 4
    MaxName = 4
    MaxFaults = 1
    MaxRestarts = 1
    Batches = {1, 2}
    Rejected = {3}
    Garbage = {0, 9}
SPECIFICATION LiveSpec
INVARIANTS  InOrder RepeatBounded
PROPERTIES Delivered NotRedone
CHECK_DEADLOCK FALSE
