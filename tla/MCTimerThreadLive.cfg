CONSTANTS
    Thread = {t1, t2}
    NoThread = NoThread
    Handler = Handler
    Quanta = 2
    MaxSignals = 0
    Restarts = FALSE
SPECIFICATION TimerFairSpec
PROPERTIES
    TimeSlice
    UnblockCompletes
