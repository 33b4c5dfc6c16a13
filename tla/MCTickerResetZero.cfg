CONSTANTS
  Durations = {0, 1, 2}
  ResetDurations = {0, 1}
  MaxCalls = 3
  MaxInflight = 2
SPECIFICATION Spec
CHECK_DEADLOCK FALSE
PROPERTY TicksKeepComing
