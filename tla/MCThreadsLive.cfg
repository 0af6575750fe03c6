CONSTANTS
    Thread = {m, t1}
    Main = m
    NoThread = NoThread
    MaxPending = 1
    MaxSignal = 0
    Calls = {"stop", "sleep", "timed_sleep", "join", "timed_join", "wakeup", "kill", "abort", "fork"}
SPECIFICATION FairSpec
PROPERTIES
    JoinCompletes
    KillCompletes
    TerminationCompletes
