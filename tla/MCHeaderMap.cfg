SPECIFICATION Spec
CONSTANTS
    Names = {"host", "content-length", "connection"}
    Vals = {"1", "2"}
CHECK_DEADLOCK FALSE
INVARIANTS HeaderFound
