\* Two workers and a callback around the resume check: five calls.
CONSTANTS
  Main = main
  Idle = idle
  Workers = {w1, w2}
  Callbacks = {c1}
  MaxTimers = 2
  MaxCalls = 5
  ActivePhases = {15, 16, 17, 18}
SPECIFICATION Spec
INVARIANTS TypeOK OnePlace NeverEmpty MainRunsLast BlockersExact PhaseHeld ExitCallbacksCalled
PROPERTIES BootEnds
CHECK_DEADLOCK FALSE
