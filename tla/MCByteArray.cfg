SPECIFICATION Spec
CONSTANTS
    m_baseSize = 2
    H = 4
    FUINT = 2
    UINT = 32
    Groups = 3
    MaxSize = 5
    Bufs <- SomeBufs
    Items <- SomeItems
CHECK_DEADLOCK FALSE
INVARIANTS TypeOK Cursor
PROPERTIES ReadsBack ImplementsStream
