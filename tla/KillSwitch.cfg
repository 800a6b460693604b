SPECIFICATION SwitchSpec
CONSTANTS
    MaxLosses = 1
    MaxErrors = 1
    LossLimit = 2
    MaxCount = 2
    Strategies = {s1, s2}
    NoStrategy = none
    StrategyLosses = 2
    StrategyLimit = 2
    MaxFailed = 1
INVARIANT SwitchTypeOK
INVARIANT OverLimitIsTripped
PROPERTY OnlyOperatorReleases
