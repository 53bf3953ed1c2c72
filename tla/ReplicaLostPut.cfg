SPECIFICATION ReplicaSpec
CONSTANTS
    s1 = s1
    s2 = s2
    s3 = s3
    k = k
    v1 = v1
    v2 = v2
    put1 = put1
    put2 = put2
    get = get
    Server = {s1, s2, s3}
    Op = {put1, get}
    Nil = Nil
    InitTerm <- FreshTerm
    InitLog <- FreshLog
    Key = {k}
    Value = {v1, v2}
    NoValue = NoValue
    Args <- Calls
    MayStand = {s1, s2}
    ForgottenVotes = FALSE
    Preemption = FALSE
    StaleReplies = FALSE
    Lossy = {"AppendEntries"}
    MaxTerm = 2
    MaxStragglers = 0
    MaxCrash = 0
INVARIANTS
    AckedPutIsCommitted
SYMMETRY Symmetry
CHECK_DEADLOCK FALSE
