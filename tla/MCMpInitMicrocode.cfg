\* Microcode loading that must be serialised.
CONSTANTS
  APs = {a1, a2}
  BSP = bsp
  NumAps = 2
  MaxPolls = 1
  MaxGiveUps = 1
  Configs <- SerialMicrocode
SPECIFICATION Spec
INVARIANTS MicrocodeSerial
CHECK_DEADLOCK FALSE
