SPECIFICATION Spec
CONSTANTS
    DEPTH = 2
    MaxSize = 2
    MaxArrivals = 3
    MaxIssued = 5
INVARIANTS
    TypeOK
    InputAccountedFor
    ChecksStayTrue
    AcceptedIsPrefix
    AnswersAreTrue
PROPERTIES
    AcceptedReachesWire
    InputIsLink
    OutputIsLink
