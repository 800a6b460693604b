SPECIFICATION Spec
CONSTANTS
    Tasks = {t1}
    Workers = {w1, w2}
    Capacity = 6
    MaxRetries = 2
    MaxDays = 2
    MaxRequests = 2
INVARIANTS
    OncePerDay
    PausedByRequests
    IdleHasNoRun
PROPERTIES
    TicketsSettle
    ShutdownEnds
