SPECIFICATION FairSpec
CONSTANTS
    Skus = {s1}
    Keys = {k1, k2}
    Requests = {c1, c2}
    Sweeps = {w1}
    NoKey = NoKey
    AdjustKeys <- Nothing
    Quantities <- OnlyOne
    MaxQuantity = 1
    Openings <- OnlyOne
    Deltas <- MinusOnly
    SweepLimit = 1
    MaxOnHand = 2
    MaxFailures = 1
INVARIANT LedgerAccountsForStock
PROPERTY DueIsClosed
