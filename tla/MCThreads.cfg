CONSTANTS
    Thread = {m, t1, t2}
    Main = m
    NoThread = NoThread
    MaxPending = 0
    MaxSignal = 1
    Calls = {"stop", "join", "timed_join", "wakeup", "kill", "abort"}
SYMMETRY Symmetry
SPECIFICATION Spec
INVARIANTS
    WakeupReachesSleeper
    JoinersAreWoken
    DeadlockIsReported
