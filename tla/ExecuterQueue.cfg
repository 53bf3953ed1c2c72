SPECIFICATION FairSpec
CONSTANT
    MaxJobs = 4
INVARIANTS
    TypeOK
    NoLostWakeup
    InOrder
PROPERTIES
    ImplementsWorkQueue
    JobsGetDone
    StopReturns
