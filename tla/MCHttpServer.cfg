SPECIFICATION FairSpec
CONSTANTS
    c1 = c1
    c2 = c2
    Clients = {c1, c2}
    Socks = {s1}
    Threads = {t1}
    MaxStarts = 1
    MaxStops = 0
    Script <- SomeScript
    buff_size = 20
    m_isKeepalive = TRUE
    IoThreads = 1
    StrayLeft = 1
CHECK_DEADLOCK FALSE
INVARIANTS HttpTypeOK InStep Genuine
PROPERTY SessionEnds
