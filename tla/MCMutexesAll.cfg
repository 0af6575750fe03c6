CONSTANTS
    Thread = {main, t1}
    Main = main
    NoThread = NoThread
    Mutex = {m}
    NoMutex = NoMutex
    MaxBlocks = 1
    MaxPending = 0
    MaxSignal = 1
    Calls = {"lock", "mutex_timed_sleep", "synchronize", "mutex_sleep", "wakeup", "stop", "timed_join", "timed_sleep", "sleep", "join", "fork", "abort"}
SPECIFICATION MutexSpec
INVARIANTS
    KeepingIsOwned
    MutexSleeperCount
    SignalledIsAwake
\* rb_bug aborts the process.
CHECK_DEADLOCK FALSE
PROPERTY
    CondvarReturnsLocked
