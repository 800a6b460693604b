SPECIFICATION Spec
CONSTANTS
  Codes = {1, 2}
  MaxSlots = 2
  Callers = {"p1"}
  Watchdog = "w"
  MaxChanges = 2
  MaxFaults = 2
  MaxRefresh = 1
  Modes = {"calm", "rough"}
INVARIANTS LedgerIsReal ActiveIsReal BestAreRegistered
PROPERTIES WatchedAreServed
CHECK_DEADLOCK FALSE
