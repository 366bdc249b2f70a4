SPECIFICATION IoSpec
CONSTANTS
    w1 = w1
    w2 = w2
    main = main
    Forever = Forever
    Timers <- TwoTimers
    Workers <- OneWorker
    Outside <- Main
    Intervals = {1, 2}
    Recurring = {FALSE}
    Jumps = {}
    U64 = 32
    INT = 8
    Hour = 2
    MAX_TIMEOUT = 2
    MinClock = 2
    MaxClock = 5
    MaxTasks = 1
CHECK_DEADLOCK FALSE
INVARIANTS DueTimerWakes
