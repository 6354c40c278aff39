CONSTANTS
    Steps = 5
    SeqMod = 16
    IdMod = 4
    MaxNum = 2
    MaxUnsynced = 0
    MaxIssued = 3
    MaxRestarts = 3
    Hour = 3
    TmAge = 1
    ClientTimes = {4}
    MaxIds = 3
    MaxTime = 5
SPECIFICATION GenSpec
INVARIANTS TypeOK NoReuse RangeInWord IdUnique
PROPERTY RestartJump
CHECK_DEADLOCK FALSE
