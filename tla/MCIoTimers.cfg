SPECIFICATION IoSpec
CONSTANTS
    w1 = w1
    w2 = w2
    main = main
    Forever = Forever
    Timers <- TwoTimers
    Workers <- TwoWorkers
    Outside <- Main
    Intervals = {1, 3}
    Recurring = {FALSE}
    Jumps = {}
    U64 = 32
    INT = 8
    Hour = 2
    MAX_TIMEOUT = 2
    MinClock = 2
    MaxClock = 3
    MaxTasks = 1
SYMMETRY Symmetry
CHECK_DEADLOCK FALSE
INVARIANTS IoTypeOK FirstTimerWakes TaskWakes LastOut
