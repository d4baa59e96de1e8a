SPECIFICATION Spec
CONSTANTS
    Skus = {s1}
    Keys = {k1, k2}
    Requests = {c1, c2}
    Sweeps = {w1}
    NoKey = NoKey
    AdjustKeys = {a1}
    Quantities <- OneOrTwo
    MaxQuantity = 2
    Openings <- OnlyTwo
    Deltas <- MinusOnly
    SweepLimit = 2
    MaxOnHand = 3
    MaxFailures = 1
SYMMETRY SlotSymmetry
INVARIANTS
    TypeOK
    StockInvariant
    ReservedIsHeld
    ClosedFindsItsUnits
    SoldIsConfirmed
    LedgerTellsStatus
PROPERTIES
    TerminalIsFinal
    KeepsPromise
