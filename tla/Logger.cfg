CONSTANTS
    l1 = l1
    l2 = l2
    w1 = w1
    w2 = w2
    w3 = w3
    Loggers = {l1, l2}
    Writers = {w1, w2}
    Owner = Owner
    Nobody = Nobody
    NoFile = NoFile
    QueueSize = 2
    PipeSize = 2
    MaxBytes = 0
    Backups = 2
    Careful = TRUE
    MaxLogs = 4
    MaxFaults = 1
    MaxUnlinks = 1
SPECIFICATION LiveSpec
INVARIANTS TypeOK DrainedAtExit NoStrandedWaiter NotUsedDeleted RotationKeeps 
PROPERTY CallsReturn
CHECK_DEADLOCK FALSE
