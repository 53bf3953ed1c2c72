SPECIFICATION FairSpec
CONSTANTS
    Server = {0, 1, 2}
    Members = {0, 1}
    First = 0
    Op <- OnePut
    Change <- JoinAndLeave
    Nil = Nil
    Garbage = Garbage
    MayStand = {2}
    Overlap = FALSE
    ParallelCalls = FALSE
    Prompt = TRUE
    Lossy = {"RequestVote"}
    MaxTerm = 2
    MaxStragglers = 0
    MaxCalls = 2
INVARIANTS
    TypeOK
    ConfigFollowsLog
PROPERTIES
    OkIsCommitted
    PeersCatchUp
CHECK_DEADLOCK FALSE
