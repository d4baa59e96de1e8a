SPECIFICATION Spec
CONSTANTS
    Connections = {k1, k2}
    MaxTroubles = 1
PROPERTIES
    ShutdownBounded
CHECK_DEADLOCK FALSE
