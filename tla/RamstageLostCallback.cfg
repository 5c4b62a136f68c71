\* A callback scheduled on the entry of the current state.
CONSTANTS
  Main = main
  Idle = idle
  Workers = {w1, w2}
  Callbacks = {c1}
  MaxTimers = 2
  MaxCalls = 2
  ActivePhases = {0, 1}
SPECIFICATION Spec
INVARIANTS CallbacksCalled
CHECK_DEADLOCK FALSE
