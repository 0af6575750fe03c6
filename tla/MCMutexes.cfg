CONSTANTS
    Thread = {main, t1, t2}
    Main = main
    NoThread = NoThread
    Mutex = {m}
    NoMutex = NoMutex
    MaxBlocks = 1
    MaxPending = 1
    MaxSignal = 0
    Calls = {"lock", "join", "kill", "abort"}
SPECIFICATION MutexSpec
SYMMETRY Symmetry
INVARIANTS
    WaiterIsWaiting
    DeadlockIsPatrolled
PROPERTIES
    FatalFindsAllAsleep
