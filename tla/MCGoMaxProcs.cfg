CONSTANTS
  Callers = {c1, c2}
  Args = {0, 1, 2}
  Procs0 = 2
  Wasm = FALSE
SPECIFICATION Spec
CHECK_DEADLOCK FALSE
INVARIANT ReturnsPreviousSetting
