SPECIFICATION Spec
CONSTANTS
    Item = {a, b}
    Garbled = Garbled
    Vote = {none, s1, s2}
    NoVote = none
    Width = 2
    MaxLen = 3
    MaxTerm = 2
    MaxCrash = 2
INVARIANTS
    TypeOK
    PersistedIsOnDisk
PROPERTIES
    ImplementsDurableState
