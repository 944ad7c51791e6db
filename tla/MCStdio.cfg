SPECIFICATION Spec
CONSTANTS
    NULL = NULL
    INT_MAX = 7
    BUFFER_SIZE = 4
    Strings <- MCStrings
    Formats <- MCFormats
    Sizes = {0, 1, 3, 6, 7, 8}
CHECK_DEADLOCK FALSE
INVARIANTS
    TextIsMeaning
    CountsAreTrue
    BufferContents
    StreamIsPrefix
