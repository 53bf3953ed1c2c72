SPECIFICATION Spec
CONSTANTS
    Config = {{0, 1, 2}, {1, 3}, {0, 3}, {2}}
    MaxTries = 10
    Nowhere = Nowhere
INVARIANTS
    TypeOK
    EveryServerTried
    FindsLeaderSoon
    LeaderIsFound
