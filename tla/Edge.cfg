SPECIFICATION EdgeSpec
CONSTANTS
    Clients = {c1, c2}
    Routes <- TwoRoutes
    Policies <- SomePolicies
    MaxChecks = 4
    MaxFailures = 1
    MaxAttempts = 1
    MaxCodes = 2
    MaxGuesses = 3
    Connections = {k1, k2}
    MaxTroubles = 2
INVARIANTS
    EdgeTypeOK
    SpentOnce
    GuessesBounded
    WindowBounded
    FailureContained
    DrainedFirst
PROPERTIES
    LockoutEnds
    RefusalEnds
    ShutdownEnds
CHECK_DEADLOCK FALSE
