CONSTANTS
    Thread = {m, t1}
    Main = m
    NoThread = NoThread
    e1 = e1
    Error = {e1}
    Kill = Kill
    Closed = Closed
    NoError = NoError
    Fd = {f}
    Classes <- SomeClasses
    MaxPending = 1
    MaxFrames = 1
SPECIFICATION FairSpec
INVARIANTS
    CheckedMeansNothing
    SleeperSeesPending
    WaitersAreInside
    BlockedOnClosedIsTold
PROPERTY
    CloseCompletes
