SPECIFICATION FairSpecEarly
CONSTANTS
    t1 = t1
    t2 = t2
    Threads <- TwoThreads
    Fibers = {f1, f2}
    NoFiber = NoFiber
    AnyThread = AnyThread
    Pins <- AnyOrT1
    MayYield = TRUE
    MaxCalls = 2
INVARIANTS TypeOK OneRunner NoLostWakeup ActiveCount SchedInv
PROPERTIES StopDrains StopReturns WokenRuns
CHECK_DEADLOCK FALSE
