CONSTANTS
    FileSize = 2
    Lines = 1
    Gaps = {1, 2}
    MaxSql = 4
    MaxName = 4
    MaxFaults = 0
    MaxRestarts = 1
    Batches = {1}
    Rejected = {}
    Garbage = {0, 9}
SPECIFICATION Spec
INVARIANTS NoLoss
CHECK_DEADLOCK FALSE
