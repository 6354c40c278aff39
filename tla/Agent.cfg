\* The center is set at some time.
CONSTANTS
    Reporters = {r1}
    QueueMax = 2
    Parts = 2
    RoomMax = 3
    MaxMessages = 2
    MaxHeartbeats = 1
    MaxWaits = 1
    MaxFaults = 2
    MaxInput = 1
SPECIFICATION FairSpec
INVARIANTS TypeOK InOrder WorkWatched
PROPERTIES Reported 
CHECK_DEADLOCK FALSE
