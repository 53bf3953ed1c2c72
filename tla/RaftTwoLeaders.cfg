SPECIFICATION Spec
CONSTANTS
    s1 = s1
    s2 = s2
    s3 = s3
    a = a
    b = b
    c = c
    d = d
    Server = {s1, s2, s3}
    Op = {a}
    Nil = Nil
    InitTerm <- FreshTerm
    InitLog <- FreshLog
    MayStand = {s1, s2, s3}
    ForgottenVotes = TRUE
    Preemption = FALSE
    StaleReplies = FALSE
    Lossy = {"RequestVote", "AppendEntries"}
    MaxTerm = 1
    MaxStragglers = 1
    MaxCrash = 0
INVARIANTS
    ElectionSafety
SYMMETRY Symmetry
CHECK_DEADLOCK FALSE
