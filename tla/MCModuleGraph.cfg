SPECIFICATION FairSpec
CONSTANTS
    Projects <- MCProjects
CHECK_DEADLOCK FALSE
INVARIANTS
    TypeOK
    LinesRunUnderTheirName
    EveryModuleOnce
    ConfiguredBeforeKernel
PROPERTIES
    GenerationEnds
