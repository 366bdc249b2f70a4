SPECIFICATION Spec
CONSTANTS
    s1 = s1
    s2 = s2
    u1 = u1
    u2 = u2
    u3 = u3
    w1 = w1
    w2 = w2
    NoWaiter = NoWaiter
    Fds <- OneFd
    Waiters <- TwoWaiters
    Workers <- TwoWorkers
    Dirs <- BothWays
    Kinds <- FiberOnly
    Shared = FALSE
INVARIANTS NoNullScheduler
