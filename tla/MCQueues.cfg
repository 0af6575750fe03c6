CONSTANTS
    Thread = {main, t1, t2, t3}
    Main = main
    NoThread = NoThread
    MaxLength = 2
    MaxPending = 0
    MaxSignal = 0
    Calls = {"pop", "push", "clear", "max", "close"}
SPECIFICATION QueueSpec
SYMMETRY Symmetry
INVARIANTS
    WaitersAreCounted
    QueueWakesWaiters
PROPERTIES
    QueueDeadlockIsReal
