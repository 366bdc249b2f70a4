SPECIFICATION TcpFairSpec
CONSTANTS
    Socks = {s1, s2}
    Clients = {c1}
    Threads = {t1, t2}
    MaxStarts = 2
    MaxStops = 2
CHECK_DEADLOCK FALSE
INVARIANT NoOrphan
PROPERTY StopEnds
