SPECIFICATION Spec
CONSTANTS
    Items <- MCItems
    Sources = {s1, s2}
    Configs <- MCConfigs
    MaxMakes = 3
CHECK_DEADLOCK FALSE
INVARIANTS
    BuildIsCurrent
PROPERTIES
    NoNeedlessBuild
