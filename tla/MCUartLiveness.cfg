SPECIFICATION CpuFairSpec
CONSTANTS
    DEPTH = 1
    MaxSize = 2
    MaxArrivals = 2
    MaxIssued = 4
PROPERTIES
    CallsReturn
    AcceptedIsTransmitted
