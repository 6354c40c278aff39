CONSTANTS
    Users = {u1, u2}
    opener = u1
    Files = {1}
    QueueMax = 1
    ResendMax = 1
    ReconnectMax = 1
    Parts = 2
    RoomMax = 3
    MaxMessages = 2
    MaxFaults = 1
    MaxReplies = 1
    MaxTimeouts = 1
SPECIFICATION FairSpec
INVARIANTS InOrder DroppedLate WorkWatched NoStrandedPusher  TornByTimeoutOnly
 
CHECK_DEADLOCK FALSE
