SPECIFICATION HookSpec
CONSTANTS
    s1 = s1
    u1 = u1
    w1 = w1
    w2 = w2
    NoWaiter = NoWaiter
    Fds <- OneSocket
    Waiters <- OneFiber
    Workers <- TwoWorkers
    Dirs <- Written
    Kinds <- WithoutCb
    Shared = FALSE
    MaxCalls = 2
    MaxOpens = 2
SYMMETRY Symmetry
CHECK_DEADLOCK FALSE
INVARIANTS HookTypeOK OneWakeUp TimeoutIsOwn TimeoutStays HookedNonblock
PROPERTY ConnectTells
