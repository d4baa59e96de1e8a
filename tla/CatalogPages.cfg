SPECIFICATION FairSpec
CONSTANTS
    p1 = p1
    v1 = v1
    v2 = v2
    g1 = g1
    g2 = g2
    b1 = b1
    Products <- OneProduct
    Variants <- TwoVariants
    Categories <- TwoCategories
    Brands <- OneBrand
    Prices <- TwoPrices
    Admins = {a1, a2}
    Shoppers = {s1}
    Seeds <- ThreeSeeds
    MaxCalls = 2
    MaxFailures = 1
INVARIANTS
    TypeOK
    StaleIsExcused
    MinPriceIsExplained
    ReferencesLive
PROPERTIES
    CacheHeals
CHECK_DEADLOCK FALSE
