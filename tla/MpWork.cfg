\* Two APs and two calls, with and without a timeout.
CONSTANTS
  NumAps = 2
  MaxCalls = 2
SPECIFICATION Spec
INVARIANTS TypeOK DoneMeansReached CopiesLiveCallback InOrder
PROPERTIES CallReturns
CHECK_DEADLOCK FALSE
