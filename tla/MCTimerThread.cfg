CONSTANTS
    Thread = {t1, t2}
    NoThread = NoThread
    Handler = Handler
    Quanta = 1
    MaxSignals = 1
    Restarts = TRUE
SPECIFICATION TimerSpec
\* A write to a pipe without a reader aborts the process.
CHECK_DEADLOCK FALSE
INVARIANTS
    WakeupIsSeen
    NoWriteWhileClosing
    UbfListIsExact
