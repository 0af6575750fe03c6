CONSTANTS
    Thread = {t1, t2, t3, t4}
    NoThread = NoThread
SPECIFICATION FairSpec
INVARIANTS
    MutualExclusion
    RunningThreadIsValid
    WaitingCount
    NoLostWakeup
    YieldProtocol
PROPERTIES
    ImplementsLock
    FreeIsTaken
