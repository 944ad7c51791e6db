SPECIFICATION Spec
CONSTANTS
    DEPTH = 2
    MaxSize = 2
    MaxArrivals = 2
    MaxIssued = 4
INVARIANTS
    OutputLeavesInput
