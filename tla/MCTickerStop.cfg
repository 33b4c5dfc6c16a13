CONSTANTS
  Durations = {0, 1, 2}
  ResetDurations = {1, 2}
  MaxCalls = 3
  MaxInflight = 2
SPECIFICATION Spec
CHECK_DEADLOCK FALSE
INVARIANT NoSendAfterStop
