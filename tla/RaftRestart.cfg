SPECIFICATION Spec
CONSTANTS
    s1 = s1
    s2 = s2
    s3 = s3
    a = a
    b = b
    c = c
    d = d
    Server = {s1, s2, s3}
    Op = {a, b, c}
    Nil = Nil
    InitTerm <- RestartedTerm
    InitLog <- RestartedLog
    MayStand = {s1, s3}
    ForgottenVotes = FALSE
    Preemption = FALSE
    StaleReplies = FALSE
    Lossy = {}
    MaxTerm = 4
    MaxStragglers = 1
    MaxCrash = 1
VIEW LiveState
INVARIANTS
    LogMatching
    TypeOK
    AppliedIsLogPrefix
    MatchIndexSound
    ReadInBounds
    ElectionSafety
    LeaderCompleteness
    DurableCommit
    StateMachineSafety
PROPERTIES
    LeaderAppendOnly
    CommitMonotonic
CHECK_DEADLOCK FALSE
