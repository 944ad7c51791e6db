SPECIFICATION Spec
CONSTANTS
    WORD = 32
    PAGE_SIZE = 4
    Ends = {1, 4, 7, 15, 28}
    MaxCount = 3
    MaxPages = 10
INVARIANTS
    TypeOK
    PagesAreUsable
    NeverTwice
CHECK_DEADLOCK FALSE
