SPECIFICATION Spec
CONSTANTS
    Qty = 2
    Loops = {l1, l2}
    NoLoop = NoLoop
    MaxDays = 2
    MaxStops = 1
INVARIANTS
    FlatBeforeClose
    OneLoopInHand
    StopIsFinal
PROPERTIES
    ShutdownIsRemembered
