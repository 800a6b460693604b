SPECIFICATION Spec
CONSTANTS
    Symbols = {s1}
    Tasks = {t1, t2}
    NoTask = NoTask
    NoKey = NoKey
    NoEntry = NoEntry
    MaxRetries = 2
    TTL = 1
    Paper = FALSE
    Numbering = {TRUE}
    LostAnswers = {0, 1}
    Alarms = {}
    MaxWork = 3
INVARIANT OneOrderPerSubmission
