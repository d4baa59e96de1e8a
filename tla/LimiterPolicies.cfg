SPECIFICATION Spec
CONSTANTS
    Clients = {c1, c2}
    Routes <- TwoRoutes
    Policies <- SomePolicies
    MaxChecks = 4
    MaxFailures = 1
INVARIANTS
    FailClosedHolds
CHECK_DEADLOCK FALSE
