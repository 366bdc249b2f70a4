SPECIFICATION Spec
CONSTANTS
    w1 = w1
    w2 = w2
    Timers <- TwoTimers
    Workers <- TwoWorkers
    Intervals = {2}
    Recurring = {TRUE, FALSE}
    Jumps = {2}
    U64 = 8
    Hour = 1
    MinClock = 1
    MaxClock = 4
SYMMETRY Symmetry
INVARIANTS TypeOK CbInSet CancelIsFinal
PROPERTIES NeverEarly
