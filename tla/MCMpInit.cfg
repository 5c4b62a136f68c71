\* Two APs, two polls before a timeout, a choice of configurations.
CONSTANTS
  APs = {a1, a2}
  BSP = bsp
  NumAps = 2
  MaxPolls = 2
  MaxGiveUps = 1
  Configs <- MCConfigs
SPECIFICATION Spec
INVARIANTS TypeOK AreaIntact BspFirst RelocatedBeforeInit SuccessMeansAll
PROPERTIES SmmDecided BspReturns StartedApsFinish
CHECK_DEADLOCK FALSE
