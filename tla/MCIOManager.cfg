SPECIFICATION FairSpec
CONSTANTS
    s1 = s1
    s2 = s2
    u1 = u1
    u2 = u2
    u3 = u3
    w1 = w1
    w2 = w2
    NoWaiter = NoWaiter
    Fds <- TwoFds
    Waiters <- TwoWaiters
    Workers <- TwoWorkers
    Dirs <- OneWay
    Kinds <- FiberOrCb
    Shared = FALSE
INVARIANTS TypeOK NoNullScheduler PendingCount InterestMatches RunOnce NoLostEvent
PROPERTIES ImplementsWaker EventRuns
