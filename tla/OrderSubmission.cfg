SPECIFICATION FairSpec
CONSTANTS
    Symbols = {s1}
    Tasks = {t1, t2}
    NoTask = NoTask
    NoKey = NoKey
    NoEntry = NoEntry
    MaxRetries = 2
    TTL = 0
    Paper = TRUE
    Numbering = {TRUE, FALSE}
    LostAnswers = {0}
    Alarms = {TRUE, FALSE}
    MaxWork = 3
INVARIANT TypeOK
INVARIANT OneLiveOrder
INVARIANT CallIsGuarded
INVARIANT NoLostWakeup
PROPERTY ImplementsBook
PROPERTY DeferredIsServed
PROPERTY SubmissionReturns
