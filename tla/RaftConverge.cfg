SPECIFICATION FairSpec
CONSTANTS
    s1 = s1
    s2 = s2
    s3 = s3
    a = a
    b = b
    c = c
    d = d
    Server = {s1, s2, s3}
    Op = {a, b, c, d}
    Nil = Nil
    InitTerm <- DivergedTerm
    InitLog <- DivergedLog
    MayStand = {s1}
    ForgottenVotes = FALSE
    Preemption = FALSE
    StaleReplies = FALSE
    Lossy = {"AppendEntries"}
    MaxTerm = 3
    MaxStragglers = 1
    MaxCrash = 0
VIEW WithoutElections
PROPERTIES
    Converges
CHECK_DEADLOCK FALSE
