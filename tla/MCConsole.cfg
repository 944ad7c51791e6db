SPECIFICATION Spec
CONSTANTS
    Consoles = {c1, c2, c3}
    NULL = NULL
    MAX_CONSOLES = 5
SYMMETRY Symmetry
INVARIANTS
    TypeOK
    RegistryWellFormed
    ActiveIsRegistered
    DriversFollowActive
PROPERTIES
    OrderStable
    RefinesRegistry
