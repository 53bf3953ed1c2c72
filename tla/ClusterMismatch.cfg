SPECIFICATION Spec
CONSTANTS
    Server = {0, 1, 2}
    Members = {0, 1}
    First = 0
    Op <- OnePut
    Change <- Join
    Nil = Nil
    Garbage = Garbage
    MayStand = {}
    Overlap = TRUE
    ParallelCalls = FALSE
    Prompt = TRUE
    Lossy = {}
    MaxTerm = 1
    MaxStragglers = 0
    MaxCalls = 1
INVARIANTS
    IndexMatches
CHECK_DEADLOCK FALSE
