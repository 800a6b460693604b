SPECIFICATION Spec
CONSTANTS
    Strategies = {s1}
    Manual = Manual
    Reconciled = Reconciled
    MaxShares = 2
    Lots = {1}
INVARIANTS
    OneHold
    RolloverKeepsHolds
PROPERTIES
    RepairsBooks
    LedgerHeals
CHECK_DEADLOCK FALSE
