SPECIFICATION FairSpec
CONSTANTS
    c1 = c1
    c2 = c2
    c3 = c3
    Consoles = {c1, c2, c3}
    NULL = NULL
    MAX_CONSOLES = 2
    WORD = 128
    PAGE_SIZE = 16
    DeviceLists <- MCDeviceLists
    Xlens = {4, 8}
    DataEnds = {1, 7, 8, 12, 16, 17}
    BssSizes = {0, 1, 8, 13, 32}
INVARIANTS
    TypeOK
    ClearsExactlyTheBss
    MemoryBeforeDevices
    DevicesComeAndGo
PROPERTIES
    EndsInHalt
