SPECIFICATION Spec
CONSTANTS
    SIZE = 5
    Bytes = {0, 1, 2}
    Fills <- MCFills
CHECK_DEADLOCK FALSE
INVARIANTS
    MemcpyStaysInside
