CONSTANTS
    a1 = a1
    a2 = a2
    m1 = m1
    m2 = m2
    Agents = {a1, a2}
    Masters = {m1}
    NoIp = NoIp
    LabelMax = 1
    Expire = 2
    Hour = 3
    MaxDelay = 1
    MaxTime = 6
    CanCrash = FALSE
    DbFails = FALSE
    Interval = 1
    Mortal = {a1, a2}
    MaxLoop = 1
SPECIFICATION Spec
SYMMETRY AgentSymmetry
INVARIANTS TypeOK LabelUnique RowKept
PROPERTY RenewedNotRecycled
CHECK_DEADLOCK FALSE
