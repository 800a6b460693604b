SPECIFICATION Spec
CONSTANTS
  Codes = {1, 2}
  MaxSlots = 2
  Callers = {"p1"}
  Watchdog = "w"
  MaxChanges = 2
  MaxFaults = 1
  MaxRefresh = 0
  Modes = {"rough"}
INVARIANTS AskedAgain
CHECK_DEADLOCK FALSE
