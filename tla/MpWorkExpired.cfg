\* A call that follows one that has expired.
CONSTANTS
  NumAps = 1
  MaxCalls = 2
SPECIFICATION Spec
INVARIANTS DoneAlwaysReached
CHECK_DEADLOCK FALSE
