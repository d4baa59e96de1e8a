SPECIFICATION CustomerSpec
CONSTANTS
    Clients = {c1, c2}
    MaxSessions = 2
    MaxGrants = 3
    MaxCalls = 3
    MaxMishaps = 1
    Skus = {s1, s2, s3}
    NoSku = NoSku
    MaxQuantity = 2
    MaxLines = 1
    Quantities = {1, 2}
    MaxFailures = 1
    Products = {p1, p2}
    Variants = {1}
    MaxItems = 2
    PageSize = 1
SYMMETRY Symmetry
INVARIANTS
    CustomerTypeOK
    CondemnedStayDead
    RotatedOnce
    SessionsHaveTokens
    OnlyOverlapExceeds
    LostOnlyByOverlap
    NothingTwice
    ExcessIsExcused
    KeyAppliesOnce
    WalkComplete
CHECK_DEADLOCK FALSE
